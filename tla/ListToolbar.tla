----------------------------- MODULE ListToolbar -----------------------------
(***************************************************************************)
(* The toolbar and the sortable headers above every list of the console,   *)
(* and the search request they make: the debounced text box, the selects,  *)
(* the typed filters, the date range, "Clear filters" and DataTable's sort *)
(* (features/*/pages, components/ui), against the columns the server's     *)
(* search handlers know (modules/*/handler.go, pagination.go).  Pages of   *)
(* the answer are CursorList's business.                                   *)
(***************************************************************************)
EXTENDS Naturals

CONSTANTS
  Words,    \* texts, options and ids that can be searched for
  Blank,
  Part,     \* a piece of an id, as it is while one is typed
  NoSort, NoRange,
  MaxEdits  \* bound: changes the user makes

ASSUME ToolbarAssumption ==
  /\ Blank \notin Words /\ Part \notin Words /\ Blank # Part
  /\ MaxEdits \in Nat

VARIABLES
  page,
  box,       \* search: the text box
  timers,    \* useDebouncedValue: texts of the timers still running
  debounced, \* debouncedSearch
  picks,     \* statusFilter and its like, by column
  range,     \* which ends of dateRange are set
  sort,
  status,    \* of the request: "waiting", "rows" or "error"
  cleared,   \* history: nothing was entered since "Clear filters"
  edits

toolbar == <<box, timers, debounced, picks, range>>
toolbarVars == <<page, toolbar, sort, status, cleared, edits>>

-----------------------------------------------------------------------------
(* The pages: the column of the text box, of the selects, of the typed     *)
(* filters and of the date range; then the sortable columns and the        *)
(* filters that "Clear filters" is shown for and resets.                   *)

Search(text, selects, typed, dates) ==
  [text |-> text, selects |-> selects, typed |-> typed, dates |-> dates]
Table(sorts, clears) == [sorts |-> sorts, clears |-> clears]

DeadlinesSearch == Search("title", {"status", "entity_type"}, {}, "deadline_at")
DeadlinesTable == Table({"title", "status", "deadline_at"}, {"status", "entity_type"})
ViolationsSearch == Search("title", {"status", "severity"}, {}, "detected_at")
ViolationsTable ==
  Table({"title", "severity", "status", "detected_at"}, {"status", "severity"})
CompliancesSearch == Search("name", {"status", "risk_level"}, {}, "created_at")
CompliancesTable ==
  Table({"name", "status", "risk_level", "due_date"}, {"status", "risk_level"})
AuditsSearch == Search("title", {"status"}, {"compliance_id"}, "scheduled_at")
AuditsTable == Table({"title", "status", "scheduled_at"}, {"status", "compliance_id"})
CorrectiveActionsSearch == Search("title", {"status"}, {"violation_id"}, "created_at")
CorrectiveActionsTable == Table({"title", "status", "due_date"}, {"status", "violation_id"})
RegulationsSearch == Search("title", {"status"}, {"jurisdiction"}, "effective_date")
RegulationsTable ==
  Table({"code", "title", "status", "jurisdiction", "effective_date"},
        {"status", "jurisdiction"})

\* Mutant of ChecklistsTable: the compliance filter is not reset.
ChecklistsTableKeeps == Table({"title", "status", "due_date"}, {"status"})

ChecklistsSearch == Search("title", {"status"}, {"compliance_id"}, "created_at")
ChecklistsTable == Table({"title", "status", "due_date"}, {"status", "compliance_id"})
UsersSearch == Search("username", {"status", "role_id"}, {}, "created_at")
UsersTable == Table({"username", "role_id", "status", "created_at"}, {"status", "role_id"})
ReportsSearch == Search("title", {"type", "status"}, {}, "generated_at")
ReportsTable == Table({"title", "type", "status", "generated_at"}, {"type", "status"})

\* Mutant of AlertsSearch: the box searches the column the table shows.
AlertsSearchTitle == Search("title", {"status", "severity"}, {}, "created_at")
AlertsSearch == Search("type", {"status", "severity"}, {}, "created_at")
AlertsTable == Table({"severity", "status", "created_at"}, {"status", "severity"})
AuditLogsSearch ==
  Search("actor_id", {"action", "status", "entity_type"}, {}, "created_at")
AuditLogsTable ==
  Table({"action", "entity_type", "created_at"}, {"action", "status", "entity_type"})

SearchOf ==
  [deadlines |-> DeadlinesSearch, violations |-> ViolationsSearch,
   compliances |-> CompliancesSearch, audits |-> AuditsSearch,
   actions |-> CorrectiveActionsSearch, regulations |-> RegulationsSearch,
   checklists |-> ChecklistsSearch, users |-> UsersSearch,
   reports |-> ReportsSearch, alerts |-> AlertsSearch, logs |-> AuditLogsSearch]
TableOf ==
  [deadlines |-> DeadlinesTable, violations |-> ViolationsTable,
   compliances |-> CompliancesTable, audits |-> AuditsTable,
   actions |-> CorrectiveActionsTable, regulations |-> RegulationsTable,
   checklists |-> ChecklistsTable, users |-> UsersTable,
   reports |-> ReportsTable, alerts |-> AlertsTable, logs |-> AuditLogsTable]

\* SearchColumns of the handlers, and the columns every search knows.
DefaultColumns == {"id", "created_at", "updated_at", "status"}
SearchColumns ==
  [deadlines |-> {"title", "entity_type", "entity_id", "deadline_at"},
   violations |-> {"title", "severity", "compliance_id", "regulation_id",
                   "detected_at", "resolved_at"},
   compliances |-> {"name", "risk_level", "owner_id", "regulation_id", "due_date"},
   audits |-> {"title", "compliance_id", "auditor_id", "scheduled_at",
               "started_at", "completed_at"},
   actions |-> {"title", "violation_id", "owner_id", "due_date"},
   regulations |-> {"title", "code", "jurisdiction", "effective_date", "expiry_date"},
   checklists |-> {"title", "compliance_id", "owner_id", "due_date"},
   users |-> {"username", "email", "role_id"},
   reports |-> {"title", "type", "compliance_id", "generated_at"},
   alerts |-> {"type", "severity", "entity_type", "entity_id"},
   logs |-> {"action", "entity_type", "entity_id", "actor_id", "ip"}]
UuidColumns == {"compliance_id", "violation_id", "role_id"}

S == SearchOf[page]
T == TableOf[page]
Known == DefaultColumns \cup SearchColumns[page]

-----------------------------------------------------------------------------
(* The request: filters that are not empty, the range if an end is set.    *)

ActiveFilters == {c \in S.selects \cup S.typed : picks[c] # Blank}
              \cup (IF debounced = Blank THEN {} ELSE {S.text})
DateRange == IF range = {} THEN NoRange ELSE [field |-> S.dates, ends |-> range]
Query == [filters |-> [c \in ActiveFilters |-> IF c = S.text THEN debounced ELSE picks[c]],
          range |-> DateRange, sort |-> sort]

Columns(q) == DOMAIN q.filters
                \cup (IF q.sort = NoSort THEN {} ELSE {q.sort.column})
                \cup (IF q.range = NoRange THEN {} ELSE {q.range.field})

\* pagination.Apply: unknown columns and malformed ids are errors.
Answerable(q) ==
  /\ Columns(q) \subseteq Known
  /\ \A c \in DOMAIN q.filters \cap UuidColumns : q.filters[c] # Part

\* A changed request shows skeleton rows until it is answered.
Ask == status' = IF Query' = Query THEN status ELSE "waiting"

\* DataTable shows the error instead of the toolbar and the table.
Visible == status # "error"
HasFilters == debounced # Blank \/ range # {} \/ \E c \in T.clears : picks[c] # Blank

-----------------------------------------------------------------------------
ToolbarInit ==
  /\ page \in DOMAIN SearchOf
  /\ box = Blank /\ timers = {} /\ debounced = Blank
  /\ picks = [c \in S.selects \cup S.typed |-> Blank]
  /\ range = {} /\ sort = NoSort /\ status = "waiting"
  /\ cleared = FALSE /\ edits = 0

Edit == Visible /\ edits < MaxEdits /\ edits' = edits + 1 /\ UNCHANGED page

\* Mutant of Debounce: the cleanup does not stop the timer.
DebounceKeeps(v) == timers' = IF v = box THEN timers ELSE timers \cup {v}

\* The effect of useDebouncedValue when the text changes.
Debounce(v) == timers' = IF v = box THEN timers ELSE {v}

Type(v) ==
  /\ Edit /\ v # box /\ box' = v /\ Debounce(v) /\ cleared' = FALSE
  /\ UNCHANGED <<debounced, picks, range, sort, status>>

\* Mutant of Settle: the timer does not set the text.
SettleLate(v) ==
  /\ v \in timers /\ timers' = timers \ {v} /\ UNCHANGED debounced
  /\ UNCHANGED <<page, box, picks, range, sort, cleared, edits>> /\ Ask

\* A timer fires.
Settle(v) ==
  /\ v \in timers /\ timers' = timers \ {v} /\ debounced' = v
  /\ UNCHANGED <<page, box, picks, range, sort, cleared, edits>> /\ Ask

\* A select's first option is disabled: only "Clear filters" unselects.  A
\* typed filter is no debounced one: every keystroke of it asks.
Choose(c, v) ==
  /\ Edit /\ v # picks[c] /\ picks' = [picks EXCEPT ![c] = v] /\ cleared' = FALSE
  /\ UNCHANGED <<box, timers, debounced, range, sort>> /\ Ask

Dates(ends) ==
  /\ Edit /\ ends # range /\ range' = ends /\ cleared' = FALSE
  /\ UNCHANGED <<box, timers, debounced, picks, sort>> /\ Ask

Clear ==
  /\ Edit /\ HasFilters
  /\ box' = Blank /\ Debounce(Blank) /\ range' = {}
  /\ picks' = [c \in DOMAIN picks |-> IF c \in T.clears THEN Blank ELSE picks[c]]
  /\ cleared' = TRUE
  /\ UNCHANGED <<debounced, sort>> /\ Ask

Toggled(c) ==
  IF sort = NoSort \/ sort.column # c THEN [column |-> c, direction |-> "desc"]
  ELSE [sort EXCEPT !.direction = IF @ = "asc" THEN "desc" ELSE "asc"]

ToggleSort(c) ==
  /\ Edit /\ sort' = Toggled(c)
  /\ UNCHANGED <<toolbar, cleared>> /\ Ask

AnswerSearch ==
  /\ status = "waiting"
  /\ status' = IF Answerable(Query) THEN "rows" ELSE "error"
  /\ UNCHANGED <<page, toolbar, sort, cleared, edits>>

FailSearch ==
  /\ status = "waiting" /\ status' = "error"
  /\ UNCHANGED <<page, toolbar, sort, cleared, edits>>

Retry ==
  /\ status = "error" /\ status' = "waiting"
  /\ UNCHANGED <<page, toolbar, sort, cleared, edits>>

ToolbarNext ==
  \/ Clear \/ AnswerSearch \/ FailSearch \/ Retry
  \/ \E v \in Words \cup {Blank} : Type(v)
  \/ \E v \in Words \cup {Blank} : Settle(v)
  \/ \E c \in S.selects, v \in Words : Choose(c, v)
  \/ \E c \in S.typed, v \in Words \cup {Blank, Part} : Choose(c, v)
  \/ \E ends \in SUBSET {"from", "to"} : Dates(ends)
  \/ \E c \in T.sorts : ToggleSort(c)

ToolbarSpec == ToolbarInit /\ [][ToolbarNext]_toolbarVars

\* Timers fire, and a request is answered or fails.
ToolbarFairSpec ==
  /\ ToolbarSpec /\ WF_toolbarVars(AnswerSearch \/ FailSearch)
  /\ \A v \in Words \cup {Blank} : WF_toolbarVars(Settle(v))

-----------------------------------------------------------------------------
(* Properties *)

Texts == Words \cup {Blank}
Sorts == [column : T.sorts, direction : {"asc", "desc"}]

ToolbarTypeOK ==
  /\ page \in DOMAIN SearchOf
  /\ box \in Texts /\ timers \subseteq Texts /\ debounced \in Texts
  /\ picks \in [S.selects \cup S.typed -> Texts \cup {Part}]
  /\ range \subseteq {"from", "to"} /\ sort \in Sorts \cup {NoSort}
  /\ status \in {"waiting", "rows", "error"}
  /\ cleared \in BOOLEAN /\ edits \in 0..MaxEdits

\* Whatever combination of text, selects, dates and sort header a user of any
\* page sets up, the search names only columns its handler knows ("invalid
\* filter column", "invalid sort column", "invalid date range column").
SearchAccepted == Columns(Query) \subseteq Known

\* The list is never searched for a text that is not in the box any more,
\* however typing, clearing and timers interleave (useDebouncedValue "after
\* `delay` ms of inactivity").
TextIsCurrent == [][debounced' # debounced => debounced' = box]_toolbarVars

\* "Clear filters" clears them all: once the box has settled, the request is
\* the unfiltered one, also when a text was still on its way.
ClearIsComplete ==
  cleared /\ debounced = box => Query.filters = <<>> /\ Query.range = NoRange

\* When the user pauses, the list catches up: what is in the box is what was
\* searched for, and the request is answered or failed.
ListSettles == []<>(debounced = box /\ status # "waiting")

\* "Try again" may help: an error is not for ever.  DataTable takes the toolbar
\* away with the table, so a filter that makes the server fail, such as an id
\* that is only half typed, can neither be finished nor cleared.
RetryMayHelp == status = "error" => Answerable(Query)
=============================================================================
