--------------------------- MODULE EntityPageProofs ---------------------------
(***************************************************************************)
(* TypeOK, ListConverges, FreshForm, OnlyGranted and EnteredSticks of      *)
(* EntityPage, for every page and every column of its form, any rows,      *)
(* mutations, visits and writes of others, and answers in any order.       *)
(*                                                                         *)
(* What the pages and columns have in common is proved once, page by page  *)
(* and control by control (PagesAreGood, EditArrives, NewArrives).  Then   *)
(* one invariant: Sound has the types and says of a call on its way that   *)
(* its body came from a form that accepted it; Offered says of an open     *)
(* dialog that the role may use it; Convergent says that the list is       *)
(* right, is being read, or will be asked for again.                       *)
(***************************************************************************)
EXTENDS EntityPage, TLAPS

-----------------------------------------------------------------------------
(* The pages.                                                              *)

Plain == {Title, Text, Trimmed, Email, Link, Role, Date, Due, Secret, Json}
IsField(f) == f \in Plain \/ (f.kind = "choice" /\ f.initial \in f.inputs)

RowActions == {"complete", "resolve", "check", "start", "acknowledge"}

GoodForm(g) == \A c \in DOMAIN g : IsField(g[c])

GoodOffers(menu) ==
  /\ DOMAIN menu.offers \subseteq RowActions
  /\ \A op \in DOMAIN menu.offers :
       "status" \in DOMAIN menu.form =>
          /\ menu.form["status"].kind = "choice"
          /\ menu.offers[op].to \subseteq menu.form["status"].inputs

GoodGates(Q) == \A op \in DOMAIN Q.gates : Q.gates[op] = Q.api[op]

LEMMA FormsAreGood ==
  /\ GoodForm(DeadlineForm) /\ GoodForm(ViolationForm) /\ GoodForm(ComplianceForm)
  /\ GoodForm(AuditForm) /\ GoodForm(CorrectiveActionForm) /\ GoodForm(RegulationForm)
  /\ GoodForm(ChecklistForm) /\ GoodForm(UserForm) /\ GoodForm(ReportForm)
  /\ GoodForm(AlertMenu.form)
<1> USE DEF GoodForm, IsField, Plain, Choice, Field
<1>1. GoodForm(DeadlineForm)
  BY DEF DeadlineForm, DeadlineStatuses
<1>2. GoodForm(ViolationForm)
  BY DEF ViolationForm, ViolationStatuses, Severities
<1>3. GoodForm(ComplianceForm)
  BY DEF ComplianceForm, ComplianceStatuses, Severities
<1>4. GoodForm(AuditForm)
  BY DEF AuditForm, AuditStatuses
<1>5. GoodForm(CorrectiveActionForm)
  BY DEF CorrectiveActionForm, ActionStatuses
<1>6. GoodForm(RegulationForm)
  BY DEF RegulationForm
<1>7. GoodForm(ChecklistForm)
  BY DEF ChecklistForm
<1>8. GoodForm(UserForm)
  BY DEF UserForm
<1>9. GoodForm(ReportForm)
  BY DEF ReportForm
<1>10. GoodForm(AlertMenu.form)
  BY DEF AlertMenu, Menu, AlertStatuses
<1> HIDE DEF GoodForm
<1> QED BY <1>1, <1>2, <1>3, <1>4, <1>5, <1>6, <1>7, <1>8, <1>9, <1>10

LEMMA OffersAreGood ==
  /\ GoodOffers(DeadlineMenu) /\ GoodOffers(ViolationMenu) /\ GoodOffers(ComplianceMenu)
  /\ GoodOffers(AuditMenu) /\ GoodOffers(CorrectiveActionMenu)
  /\ GoodOffers(RegulationMenu) /\ GoodOffers(ChecklistMenu) /\ GoodOffers(UserMenu)
  /\ GoodOffers(ReportMenu) /\ GoodOffers(AlertMenu)
<1> USE DEF GoodOffers, RowActions, Menu, Offer, Choice, Field
<1>1. GoodOffers(DeadlineMenu)
  BY DEF DeadlineMenu, DeadlineForm, DeadlineStatuses
<1>2. GoodOffers(ViolationMenu)
  BY DEF ViolationMenu, ViolationForm, ViolationStatuses
<1>3. GoodOffers(ComplianceMenu)
  BY DEF ComplianceMenu, ComplianceForm, ComplianceStatuses
<1>4. GoodOffers(AuditMenu)
  BY DEF AuditMenu, AuditForm, AuditStatuses
<1>5. GoodOffers(CorrectiveActionMenu)
  BY DEF CorrectiveActionMenu, CorrectiveActionForm, ActionStatuses
<1>6. GoodOffers(RegulationMenu) /\ GoodOffers(ChecklistMenu) /\ GoodOffers(UserMenu)
      /\ GoodOffers(ReportMenu)
  BY DEF RegulationMenu, ChecklistMenu, UserMenu, ReportMenu, NoOffers
<1>7. GoodOffers(AlertMenu)
  BY DEF AlertMenu, AlertStatuses
<1> HIDE DEF GoodOffers
<1> QED BY <1>1, <1>2, <1>3, <1>4, <1>5, <1>6, <1>7

LEMMA GatesAreGood ==
  /\ GoodGates(DeadlinesPage) /\ GoodGates(ViolationsPage) /\ GoodGates(CompliancesPage)
  /\ GoodGates(AuditsPage) /\ GoodGates(CorrectiveActionsPage)
  /\ GoodGates(RegulationsPage) /\ GoodGates(ChecklistsPage) /\ GoodGates(UsersPage)
  /\ GoodGates(ReportsPage) /\ GoodGates(AlertsPage)
<1> USE DEF GoodGates, Page, Perms, Perm, Crud, Post, Patch, Del
<1>1. GoodGates(DeadlinesPage)
  BY DEF DeadlinesPage, DeadlinesApi
<1>2. GoodGates(ViolationsPage)
  BY DEF ViolationsPage, ViolationsApi
<1>3. GoodGates(CompliancesPage)
  BY DEF CompliancesPage, CompliancesApi
<1>4. GoodGates(AuditsPage)
  BY DEF AuditsPage, AuditsApi
<1>5. GoodGates(CorrectiveActionsPage)
  BY DEF CorrectiveActionsPage, CorrectiveActionsApi
<1>6. GoodGates(RegulationsPage)
  BY DEF RegulationsPage, RegulationsApi
<1>7. GoodGates(ChecklistsPage)
  BY DEF ChecklistsPage, ChecklistsApi
<1>8. GoodGates(UsersPage)
  BY DEF UsersPage, UsersApi
<1>9. GoodGates(ReportsPage)
  BY DEF ReportsPage, ReportsApi
<1>10. GoodGates(AlertsPage)
  BY DEF AlertsPage, AlertsApi
<1> HIDE DEF GoodGates
<1> QED BY <1>1, <1>2, <1>3, <1>4, <1>5, <1>6, <1>7, <1>8, <1>9, <1>10

GoodPage(Q) ==
  /\ GoodForm(Q.menu.form) /\ GoodOffers(Q.menu) /\ GoodGates(Q)
  /\ Q.menu.new \in {"create", "generate", "none"}
  /\ Q.menu.new = "generate" => Q.menu.form["status"].kind = "choice"

LEMMA PagesAreGood == \A p \in PageNames : GoodPage(PageOf(p))
<1> SUFFICES ASSUME NEW p \in PageNames PROVE GoodPage(PageOf(p))
  OBVIOUS
<1> USE FormsAreGood, OffersAreGood, GatesAreGood DEF GoodPage, PageOf, PageNames
<1>1. CASE p = "deadlines"
  BY <1>1 DEF DeadlinesPage, DeadlineMenu, Page, Menu
<1>2. CASE p = "violations"
  BY <1>2 DEF ViolationsPage, ViolationMenu, Page, Menu
<1>3. CASE p = "compliances"
  BY <1>3 DEF CompliancesPage, ComplianceMenu, Page, Menu
<1>4. CASE p = "audits"
  BY <1>4 DEF AuditsPage, AuditMenu, Page, Menu
<1>5. CASE p = "actions"
  BY <1>5 DEF CorrectiveActionsPage, CorrectiveActionMenu, Page, Menu
<1>6. CASE p = "regulations"
  BY <1>6 DEF RegulationsPage, RegulationMenu, Page, Menu
<1>7. CASE p = "checklists"
  BY <1>7 DEF ChecklistsPage, ChecklistMenu, Page, Menu
<1>8. CASE p = "users"
  BY <1>8 DEF UsersPage, UserMenu, Page, Menu
<1>9. CASE p = "reports"
  BY <1>9 DEF ReportsPage, ReportMenu, ReportForm, Choice, Field, Page, Menu
<1>10. CASE p = "alerts"
  BY <1>10 DEF AlertsPage, AlertMenu, Page, Menu
<1> QED BY <1>1, <1>2, <1>3, <1>4, <1>5, <1>6, <1>7, <1>8, <1>9, <1>10

-----------------------------------------------------------------------------
(* The columns: what the form shows, accepts and sends, and what becomes   *)
(* of it in the row.                                                       *)

WellFormed(f) == IsField(f) /\ (f.kind = "choice" => Specials \cap f.inputs = {})

LEMMA ColumnWellFormed ==
  ASSUME page \in PageNames, column \in DOMAIN P.menu.form
  PROVE  F \in Columns /\ WellFormed(F) /\ GoodPage(P)
<1>1. F \in Columns
  BY DEF Columns, P, F
<1>2. GoodPage(P)
  BY PagesAreGood DEF P
<1> QED BY <1>1, <1>2, ChoiceAssumption DEF WellFormed, GoodPage, GoodForm, F

LEMMA LoadType ==
  ASSUME NEW f, WellFormed(f)
  PROVE  f.initial \in f.inputs /\ \A v \in Stored(f) : Load(f, v) \in f.inputs
<1> USE FormAssumption
    DEF Load, Stored, IsDate, Field, Texts, Picks, Specials, Stamps
<1>1. CASE f.kind = "choice"
  BY <1>1 DEF WellFormed, IsField, Plain, Title, Text, Trimmed, Email, Link, Role, Date,
              Due, Secret, Json
<1>2. CASE f \in Plain
  BY <1>2 DEF Plain, Title, Text, Trimmed, Email, Link, Role, Date, Due, Secret, Json
<1> QED BY <1>1, <1>2 DEF WellFormed, IsField

LEMMA HiddenType ==
  ASSUME NEW f, WellFormed(f), NEW v \in Stored(f)
  PROVE  Hidden(f, v) \in Stored(f)
BY FormAssumption DEF Hidden, Stored, WellFormed, IsField, Plain, Title, Text, Trimmed,
   Email, Link, Role, Date, Due, Secret, Json, Field, Texts, Picks, IsDate

MeantIn(f, v) == IF f.kind \in {"title", "trimmed", "json"} THEN Trim(v) ELSE v
SaysIn(f, v) == f.kind = "date" \/ (f.kind # "secret" /\ MeantIn(f, v) # Blank)

(* The way of an entered value through submit, the API client and PATCH.   *)
LEMMA EditArrives ==
  ASSUME NEW f, WellFormed(f), NEW v \in f.inputs, Accepts(f, v, FALSE)
  PROVE  LET b == Strip(Body(f, v)) IN
         /\ b \in Stored(f) \cup {Absent, Null}
         /\ \A old \in Stored(f) :
              /\ Patched(old, b) \in Stored(f)
              /\ SaysIn(f, v) => Load(f, Patched(old, b)) = MeantIn(f, v)
<1> USE FormAssumption
    DEF Load, Stored, Accepts, Body, Strip, Patched, Trim, MeantIn, SaysIn, IsDate, Field,
        Texts, Picks, Specials, Stamps
<1>1. CASE f.kind = "choice"
  BY <1>1 DEF WellFormed
<1>2. CASE f \in {Title, Text}
  BY <1>2 DEF Title, Text
<1>3. CASE f \in {Trimmed, Link}
  BY <1>3 DEF Trimmed, Link
<1>4. CASE f \in {Email, Role, Secret}
  BY <1>4 DEF Email, Role, Secret
<1>5. CASE f \in {Date, Due}
  BY <1>5 DEF Date, Due
<1>6. CASE f = Json
  BY <1>6 DEF Json
<1> QED BY <1>1, <1>2, <1>3, <1>4, <1>5, <1>6 DEF WellFormed, IsField, Plain

(* What POST stores, also for a field the body leaves out.                 *)
LEMMA NewArrives ==
  ASSUME NEW f, WellFormed(f), NEW v \in f.inputs, Accepts(f, v, TRUE)
  PROVE  LET b == Strip(Body(f, v)) IN
         b \in Stored(f) \cup {Absent, Null} /\ Posted(f, b) \in Stored(f)
<1> USE FormAssumption
    DEF Stored, Accepts, Body, Strip, Posted, Trim, IsDate, Field, Texts, Picks, Specials,
        Stamps
<1>1. CASE f.kind = "choice"
  BY <1>1 DEF WellFormed
<1>2. CASE f \in {Title, Text}
  BY <1>2 DEF Title, Text
<1>3. CASE f \in {Trimmed, Link}
  BY <1>3 DEF Trimmed, Link
<1>4. CASE f \in {Email, Role, Secret}
  BY <1>4 DEF Email, Role, Secret
<1>5. CASE f \in {Date, Due}
  BY <1>5 DEF Date, Due
<1>6. CASE f = Json
  BY <1>6 DEF Json
<1> QED BY <1>1, <1>2, <1>3, <1>4, <1>5, <1>6 DEF WellFormed, IsField, Plain

(* A choice the body leaves out gets the column's default.                 *)
LEMMA DefaultArrives ==
  ASSUME NEW f, WellFormed(f), f.kind = "choice"
  PROVE  Stored(f) = f.inputs /\ Posted(f, Absent) \in Stored(f)
BY LoadType DEF Stored, Posted, IsDate

-----------------------------------------------------------------------------
(* Rows, calls and their types.                                            *)

LEMMA SameSetting ==
  ASSUME UNCHANGED setting
  PROVE  /\ page' = page /\ column' = column /\ granted' = granted
         /\ P' = P /\ F' = F /\ Endpoints' = Endpoints
BY DEF setting, P, F, Endpoints

LEMMA SettingStays == [Next]_vars => UNCHANGED setting
BY DEF Next, vars, Read, Deliver, FetchFails, Retry, Leave, Enter, OpenCreate, CloseForm,
   CloseDelete, Submit, ConfirmDelete, Type, OpenEdit, OpenDelete, Write, Act, Create,
   Update, Delete, Handle, Refuse, LoseAnswer, Succeed, Reject, Answers

LEMMA RowSetsHold ==
  ASSUME NEW f \in Columns, NEW S \in RowSets(f)
  PROVE  /\ DOMAIN S \subseteq Ids /\ S \in [DOMAIN S -> Stored(f)]
         /\ S # NoRows /\ S # Asked /\ S # NoFetch
BY PageAssumption DEF RowSets

LEMMA IsRowSet ==
  ASSUME NEW f, NEW D \in SUBSET Ids, NEW S \in [D -> Stored(f)]
  PROVE  S \in RowSets(f)
BY DEF RowSets

LEMMA DropType ==
  ASSUME NEW f \in Columns, NEW S \in RowSets(f), NEW id
  PROVE  Drop(S, id) \in RowSets(f) /\ DOMAIN Drop(S, id) \subseteq DOMAIN S
<1>1. /\ DOMAIN S \ {id} \in SUBSET Ids
      /\ Drop(S, id) \in [DOMAIN S \ {id} -> Stored(f)]
  BY RowSetsHold DEF Drop
<1> QED BY <1>1, IsRowSet

(* What a request leaves of the calls: one more, in a free slot.           *)
LEMMA SendType ==
  ASSUME TypeOK, NEW op \in Ops, NEW id \in Ids \cup {NoTarget},
         NEW body \in Stored(F) \cup {Absent, Null}, NEW snap \in RowSets(F) \cup {NoRows},
         Send(op, id, body, snap)
  PROVE  /\ used + 1 \in Slots /\ used' = used + 1 /\ used' \in 0..MaxCalls
         /\ calls' \in [Slots -> Calls(F) \cup {NoCall}]
         /\ calls'[used + 1] # NoCall
         /\ calls'[used + 1] = [op |-> op, id |-> id, body |-> body, entered |-> form,
                                snap |-> snap, visit |-> visit, stage |-> "sent"]
         /\ \A i \in Slots : i # used + 1 => calls'[i] = calls[i]
<1> DEFINE call == [op |-> op, id |-> id, body |-> body, entered |-> form,
                    snap |-> snap, visit |-> visit, stage |-> "sent"]
<1>1. used \in 0..MaxCalls /\ used + 1 \in Slots /\ used' = used + 1 /\ used' \in 0..MaxCalls
  BY PageAssumption DEF TypeOK, Send, Slots
<1>2. calls' = [calls EXCEPT ![used + 1] = call]
  BY DEF Send
<1>3. call \in Calls(F)
  BY DEF TypeOK, Calls
<1>4. call # NoCall
  BY <1>3, ColumnWellFormed, PageAssumption DEF TypeOK
<1>5. calls \in [Slots -> Calls(F) \cup {NoCall}]
  BY DEF TypeOK
<1> HIDE DEF call
<1>6. /\ calls' \in [Slots -> Calls(F) \cup {NoCall}] /\ calls'[used + 1] = call
      /\ \A i \in Slots : i # used + 1 => calls'[i] = calls[i]
  BY <1>1, <1>2, <1>3, <1>5
<1> QED BY <1>1, <1>4, <1>6 DEF call

(* What an answer leaves of the calls: one of them with another stage.     *)
LEMMA StageType ==
  ASSUME TypeOK, NEW i \in Open, NEW st \in {"sent", "ok", "refused"},
         calls' = [calls EXCEPT ![i].stage = st]
  PROVE  /\ i \in Slots /\ calls[i] \in Calls(F) /\ calls' \in [Slots -> Calls(F) \cup {NoCall}]
         /\ calls'[i] = [calls[i] EXCEPT !.stage = st] /\ calls'[i] # NoCall
         /\ calls'[i].stage = st /\ calls'[i].op = calls[i].op
         /\ calls'[i].body = calls[i].body /\ calls'[i].entered = calls[i].entered
         /\ \A k \in Slots : k # i => calls'[k] = calls[k]
<1>1. i \in Slots /\ calls[i] \in Calls(F) /\ calls \in [Slots -> Calls(F) \cup {NoCall}]
  BY DEF TypeOK, Open
<1> DEFINE c == calls[i]
           new == [c EXCEPT !.stage = st]
<1>2. new \in Calls(F) /\ new.stage = st /\ new.op = c.op /\ new.body = c.body
      /\ new.entered = c.entered
  BY <1>1 DEF Calls
<1>3. new # NoCall
  BY <1>2, ColumnWellFormed, PageAssumption DEF TypeOK
<1>4. calls'[i] = new /\ calls' = [calls EXCEPT ![i] = new]
  BY <1>1
<1> HIDE DEF new
<1>5. calls' \in [Slots -> Calls(F) \cup {NoCall}] /\ \A k \in Slots : k # i => calls'[k] = calls[k]
  BY <1>1, <1>2, <1>4
<1> QED BY <1>1, <1>2, <1>3, <1>4, <1>5 DEF new

(* An answer that is handled takes its call away.                          *)
LEMMA DoneType ==
  ASSUME TypeOK, NEW i \in Open, calls' = [calls EXCEPT ![i] = NoCall]
  PROVE  /\ i \in Slots /\ calls' \in [Slots -> Calls(F) \cup {NoCall}]
         /\ calls'[i] = NoCall /\ \A k \in Slots : k # i => calls'[k] = calls[k]
BY DEF TypeOK, Open

-----------------------------------------------------------------------------
(* TypeOK.  What is on its way to the server is a body some form made of   *)
(* an input it accepts; free slots are those not used yet.                 *)

Arrives ==
  \A i \in Open : calls[i].stage = "sent" =>
    /\ calls[i].op = P.menu.new => Posted(F, calls[i].body) \in Stored(F)
    /\ calls[i].op = "update" => /\ Accepts(F, calls[i].entered, FALSE)
                                 /\ calls[i].body = Strip(Body(F, calls[i].entered))

Unsent == \A i \in Slots : i > used => calls[i] = NoCall

Sound == TypeOK /\ Arrives /\ Unsent

LEMMA InitSound == Init => Sound
<1> SUFFICES ASSUME Init PROVE Sound
  OBVIOUS
<1>1. F \in Columns /\ WellFormed(F)
  BY ColumnWellFormed DEF Init
<1>2. rows \in RowSets(F) /\ DOMAIN rows = {First} /\ First \in Ids
  BY IsRowSet, PageAssumption DEF Init
<1>3. Open = {} /\ calls \in [Slots -> {NoCall}]
  BY DEF Init, Open
<1>4. form \in F.inputs
  BY <1>1, LoadType DEF Init
<1>5. 1 \in 1..MaxVisits /\ 0 \in 0..MaxCalls /\ 0 \in 0..MaxWrites
  BY PageAssumption
<1>6. copies \in [Ids -> Stored(F) \cup {NoCopy}]
  BY DEF Init
<1> QED BY <1>2, <1>3, <1>4, <1>5, <1>6 DEF Init, Sound, TypeOK, Arrives, Unsent

(* A step that leaves the calls alone.                                     *)
LEMMA SameCalls ==
  ASSUME Arrives, Unsent, UNCHANGED <<setting, sent>>
  PROVE  Arrives' /\ Unsent' /\ Open' = Open
<1>1. calls' = calls /\ used' = used /\ P' = P /\ F' = F
  BY SameSetting DEF sent
<1>2. Open' = Open
  BY <1>1 DEF Open, Slots
<1> QED BY <1>1, <1>2 DEF Arrives, Unsent, Slots

LEMMA ListTyped ==
  ASSUME Sound, Read \/ Deliver \/ FetchFails \/ Retry \/ Leave \/ Enter
  PROVE  Sound'
<1>1. page' = page /\ column' = column /\ P' = P /\ F' = F /\ UNCHANGED <<setting, sent>>
  BY SameSetting DEF Read, Deliver, FetchFails, Retry, Leave, Enter
<1>2. F.initial \in F.inputs
  BY ColumnWellFormed, LoadType DEF Sound, TypeOK
<1>3. visit' \in 1..MaxVisits
  BY PageAssumption DEF Read, Deliver, FetchFails, Retry, Leave, Enter, Sound, TypeOK, place
<1>4. TypeOK'
  <2> USE <1>1, <1>2, <1>3 DEF Sound, TypeOK, Slots, server, cached, place, dialogs, sent, others
  <2>1. CASE Read
    BY <2>1 DEF Read
  <2>2. CASE Deliver
    BY <2>2 DEF Deliver
  <2>3. CASE FetchFails
    BY <2>3 DEF FetchFails
  <2>4. CASE Retry
    BY <2>4 DEF Retry
  <2>5. CASE Leave
    BY <2>5 DEF Leave
  <2>6. CASE Enter
    BY <2>6 DEF Enter
  <2> QED BY <2>1, <2>2, <2>3, <2>4, <2>5, <2>6
<1> QED BY <1>1, <1>4, SameCalls DEF Sound

LEMMA DialogsTyped ==
  ASSUME Sound,
         \/ OpenCreate \/ CloseForm \/ CloseDelete
         \/ \E v \in F.inputs : Type(v)
         \/ \E id \in Ids : OpenEdit(id) \/ OpenDelete(id)
  PROVE  Sound'
<1>1. page' = page /\ column' = column /\ P' = P /\ F' = F /\ UNCHANGED <<setting, sent>>
      /\ UNCHANGED <<server, cached, place, others>>
  BY SameSetting DEF OpenCreate, CloseForm, CloseDelete, Type, OpenEdit, OpenDelete
<1>2. /\ rows' = rows /\ born' = born /\ copies' = copies /\ list' = list /\ fetch' = fetch /\ failed' = failed
      /\ visit' = visit /\ away' = away /\ used' = used /\ calls' = calls /\ writes' = writes
  BY <1>1 DEF server, cached, place, sent, others
<1>3. WellFormed(F) /\ F \in Columns
  BY ColumnWellFormed DEF Sound, TypeOK
<1>4. /\ createOpen' \in BOOLEAN /\ deleting' \in Ids \cup {NoTarget}
      /\ edit' # NoTarget => edit'.id \in Ids /\ edit'.value \in Stored(F)
      /\ form' \in F.inputs
  <2>1. CASE OpenCreate
    BY <1>3, <2>1, LoadType DEF OpenCreate, ShowForm, Fresh, Sound, TypeOK
  <2>2. CASE CloseForm \/ CloseDelete \/ (\E v \in F.inputs : Type(v))
    BY <2>2 DEF CloseForm, CloseDelete, Type, Sound, TypeOK
  <2>3. ASSUME NEW id \in Ids, OpenEdit(id)
        PROVE  /\ createOpen' \in BOOLEAN /\ deleting' \in Ids \cup {NoTarget}
               /\ edit' # NoTarget => edit'.id \in Ids /\ edit'.value \in Stored(F)
               /\ form' \in F.inputs
    <3>1. list[id] \in Stored(F)
      BY <1>3, <2>3, RowSetsHold DEF OpenEdit, Shown, Sound, TypeOK
    <3>2. edit' = [id |-> id, value |-> list[id]]
      BY <2>3 DEF OpenEdit
    <3>3. form' = form \/ form' = F.initial \/ form' = Load(F, list[id])
      <4>1. form' = form \/ form' = Fresh(edit')
        BY <2>3 DEF OpenEdit, ShowForm
      <4>2. edit'.value = list[id]
        BY <3>2
      <4> QED BY <4>1, <4>2 DEF Fresh
    <3>4. form' \in F.inputs
      BY <1>3, <3>1, <3>3, LoadType DEF Sound, TypeOK
    <3> QED BY <2>3, <3>1, <3>2, <3>4 DEF OpenEdit, Sound, TypeOK
  <2>4. ASSUME NEW id \in Ids, OpenDelete(id)
        PROVE  /\ createOpen' \in BOOLEAN /\ deleting' \in Ids \cup {NoTarget}
               /\ edit' # NoTarget => edit'.id \in Ids /\ edit'.value \in Stored(F)
               /\ form' \in F.inputs
    BY <2>4 DEF OpenDelete, Sound, TypeOK
  <2> QED BY <2>1, <2>2, <2>3, <2>4
<1>5. TypeOK'
  BY <1>1, <1>2, <1>4 DEF Sound, TypeOK, Slots
<1> QED BY <1>1, <1>5, SameCalls DEF Sound

(* A request that is sent: of a form's body, or of none.                   *)
LEMMA SendSound ==
  ASSUME Sound, UNCHANGED setting,
         NEW op \in Ops, NEW id \in Ids \cup {NoTarget},
         NEW body \in Stored(F) \cup {Absent, Null}, NEW snap \in RowSets(F) \cup {NoRows},
         Send(op, id, body, snap),
         op = P.menu.new => Posted(F, body) \in Stored(F),
         op = "update" => Accepts(F, form, FALSE) /\ body = Strip(Body(F, form))
  PROVE  /\ used' \in 0..MaxCalls /\ calls' \in [Slots -> Calls(F) \cup {NoCall}]
         /\ Arrives' /\ Unsent'
<1>1. P' = P /\ F' = F /\ TypeOK
  BY SameSetting DEF Sound
<1>2. /\ used + 1 \in Slots /\ used' = used + 1 /\ used' \in 0..MaxCalls
      /\ calls' \in [Slots -> Calls(F) \cup {NoCall}]
      /\ calls'[used + 1].op = op /\ calls'[used + 1].body = body
      /\ calls'[used + 1].entered = form
      /\ \A i \in Slots : i # used + 1 => calls'[i] = calls[i]
  <2>1. calls'[used + 1] = [op |-> op, id |-> id, body |-> body, entered |-> form,
                            snap |-> snap, visit |-> visit, stage |-> "sent"]
    BY <1>1, SendType
  <2>2. /\ used + 1 \in Slots /\ used' = used + 1 /\ used' \in 0..MaxCalls
        /\ calls' \in [Slots -> Calls(F) \cup {NoCall}]
        /\ \A i \in Slots : i # used + 1 => calls'[i] = calls[i]
    BY <1>1, SendType
  <2> QED BY <2>1, <2>2
<1>3. \A i \in Open' : i = used + 1 \/ (i \in Open /\ calls'[i] = calls[i])
  BY <1>2 DEF Open, Slots
<1>4. Arrives'
  <2> SUFFICES ASSUME NEW i \in Open', calls'[i].stage = "sent"
               PROVE  /\ calls'[i].op = P.menu.new => Posted(F, calls'[i].body) \in Stored(F)
                      /\ calls'[i].op = "update" =>
                           /\ Accepts(F, calls'[i].entered, FALSE)
                           /\ calls'[i].body = Strip(Body(F, calls'[i].entered))
    BY <1>1 DEF Arrives
  <2>1. CASE i = used + 1
    BY <1>2, <2>1
  <2>2. CASE i \in Open /\ calls'[i] = calls[i]
    BY <2>2 DEF Arrives, Sound
  <2> QED BY <1>3, <2>1, <2>2
<1>5. Unsent'
  BY <1>2, PageAssumption DEF Unsent, Sound, Slots, TypeOK
<1> QED BY <1>2, <1>4, <1>5

LEMMA SubmitSends ==
  ASSUME Sound, Submit
  PROVE  \E op \in Ops, id \in Ids \cup {NoTarget}, body \in Stored(F) \cup {Absent, Null} :
           /\ Send(op, id, body, NoRows)
           /\ op = P.menu.new => Posted(F, body) \in Stored(F)
           /\ op = "update" => Accepts(F, form, FALSE) /\ body = Strip(Body(F, form))
           /\ IF edit # NoTarget THEN op = "update" ELSE op = P.menu.new
<1>1. WellFormed(F) /\ GoodPage(P) /\ form \in F.inputs
  BY ColumnWellFormed DEF Sound, TypeOK
<1>2. P.menu.new \in Ops /\ P.menu.new # "update" /\ "update" \in Ops
  BY <1>1 DEF GoodPage, Ops
<1> DEFINE b == Strip(Body(F, form))
<1>3. CASE edit # NoTarget
  <2>1. edit.id \in Ids
    BY <1>3 DEF Sound, TypeOK
  <2>2. Accepts(F, form, FALSE) /\ Send("update", edit.id, b, NoRows)
    BY <1>3 DEF Submit
  <2>3. b \in Stored(F) \cup {Absent, Null}
    BY <1>1, <2>2, EditArrives
  <2> QED BY <1>2, <1>3, <2>1, <2>2, <2>3
<1>4. CASE edit = NoTarget /\ P.menu.new = "generate" /\ column = "status"
  <2>1. Send(P.menu.new, NoTarget, Absent, NoRows)
    BY <1>4 DEF Submit
  <2>2. Posted(F, Absent) \in Stored(F)
    BY <1>1, <1>4, DefaultArrives DEF GoodPage, F
  <2> QED BY <1>2, <1>4, <2>1, <2>2
<1>5. CASE edit = NoTarget /\ ~(P.menu.new = "generate" /\ column = "status")
  <2>1. Accepts(F, form, TRUE) /\ Send(P.menu.new, NoTarget, b, NoRows)
    BY <1>5 DEF Submit
  <2>2. b \in Stored(F) \cup {Absent, Null} /\ Posted(F, b) \in Stored(F)
    BY <1>1, <2>1, NewArrives
  <2> QED BY <1>2, <1>5, <2>1, <2>2
<1> QED BY <1>3, <1>4, <1>5

LEMMA RequestsTyped ==
  ASSUME Sound, Submit \/ ConfirmDelete \/ \E id \in Ids, op \in DOMAIN P.menu.offers : Act(op, id)
  PROVE  Sound'
<1>1. page' = page /\ column' = column /\ P' = P /\ F' = F /\ UNCHANGED setting
  BY SameSetting DEF Submit, ConfirmDelete, Act
<1>2. GoodPage(P) /\ F \in Columns
  BY ColumnWellFormed DEF Sound, TypeOK
<1>3. /\ P.menu.new \notin {"update", "remove"} \cup RowActions
      /\ DOMAIN P.menu.offers \subseteq RowActions /\ "update" \notin RowActions
      /\ RowActions \subseteq Ops /\ "remove" \in Ops
  BY <1>2 DEF GoodPage, GoodOffers, RowActions, Ops
<1>4. /\ used' \in 0..MaxCalls /\ calls' \in [Slots -> Calls(F) \cup {NoCall}]
      /\ Arrives' /\ Unsent'
  <2>1. CASE Submit
    BY <1>1, <2>1, SubmitSends, SendSound
  <2>2. CASE ConfirmDelete
    <3>1. deleting \in Ids /\ Send("remove", deleting, Absent, list)
          /\ list \in RowSets(F) \cup {NoRows}
      BY <2>2 DEF ConfirmDelete, Sound, TypeOK
    <3> QED BY <1>1, <1>3, <3>1, SendSound
  <2>3. ASSUME NEW id \in Ids, NEW op \in DOMAIN P.menu.offers, Act(op, id)
        PROVE  /\ used' \in 0..MaxCalls /\ calls' \in [Slots -> Calls(F) \cup {NoCall}]
               /\ Arrives' /\ Unsent'
    <3>1. op \in RowActions /\ op \in Ops /\ Send(op, id, Absent, NoRows)
      BY <1>3, <2>3 DEF Act
    <3> QED BY <1>1, <1>3, <3>1, SendSound
  <2> QED BY <2>1, <2>2, <2>3
<1>5. list' \in RowSets(F) \cup {NoRows}
  <2>1. list \in RowSets(F) \cup {NoRows}
    BY DEF Sound, TypeOK
  <2>2. CASE ConfirmDelete
    BY <1>2, <2>1, <2>2, DropType DEF ConfirmDelete
  <2>3. CASE ~ConfirmDelete
    BY <2>1, <2>3 DEF Submit, Act, cached
  <2> QED BY <2>2, <2>3
<1>6. TypeOK'
  BY <1>1, <1>4, <1>5 DEF Sound, TypeOK, Slots, Submit, ConfirmDelete, Act, server, cached,
     place, dialogs, others
<1> QED BY <1>4, <1>6 DEF Sound

(* An answered, refused or lost request is not on its way any more.        *)
LEMMA StageSound ==
  ASSUME Sound, UNCHANGED <<setting, used>>, NEW i \in Open, NEW st \in {"ok", "refused"},
         calls' = [calls EXCEPT ![i].stage = st]
  PROVE  calls' \in [Slots -> Calls(F) \cup {NoCall}] /\ Arrives' /\ Unsent'
<1>1. P' = P /\ F' = F /\ TypeOK /\ used' = used
  BY SameSetting DEF Sound
<1>2. /\ i \in Slots /\ calls' \in [Slots -> Calls(F) \cup {NoCall}]
      /\ calls'[i].stage = st /\ \A k \in Slots : k # i => calls'[k] = calls[k]
  BY <1>1, StageType
<1>3. \A k \in Open' : calls'[k].stage = "sent" => k \in Open /\ calls'[k] = calls[k]
  BY <1>2 DEF Open, Slots
<1>4. Arrives'
  <2> SUFFICES ASSUME NEW k \in Open', calls'[k].stage = "sent"
               PROVE  /\ calls'[k].op = P.menu.new => Posted(F, calls'[k].body) \in Stored(F)
                      /\ calls'[k].op = "update" =>
                           /\ Accepts(F, calls'[k].entered, FALSE)
                           /\ calls'[k].body = Strip(Body(F, calls'[k].entered))
    BY <1>1 DEF Arrives
  <2> QED BY <1>3 DEF Arrives, Sound
<1>5. Unsent'
  BY <1>1, <1>2 DEF Unsent, Sound, Slots, Open
<1> QED BY <1>2, <1>4, <1>5

(* What the repository of users caches.                                    *)
LEMMA CopiesType ==
  ASSUME TypeOK, NEW id \in Ids
  PROVE  /\ id \in DOMAIN rows => Cached(id) \in [Ids -> Stored(F) \cup {NoCopy}]
         /\ Uncached(id) \in [Ids -> Stored(F) \cup {NoCopy}]
<1>1. copies \in [Ids -> Stored(F) \cup {NoCopy}] /\ WellFormed(F) /\ F \in Columns
      /\ rows \in RowSets(F)
  BY ColumnWellFormed DEF TypeOK
<1>2. id \in DOMAIN rows => Hidden(F, rows[id]) \in Stored(F)
  BY <1>1, RowSetsHold, HiddenType
<1> QED BY <1>1, <1>2 DEF Cached, Uncached

(* The rows a handler writes.                                              *)
LEMMA HandlersType ==
  ASSUME Sound, NEW i \in Slots, Create(i) \/ Update(i) \/ Delete(i) \/ Handle(i)
  PROVE  /\ rows' \in RowSets(F) /\ DOMAIN rows' \subseteq born' /\ born' \subseteq Ids
         /\ copies' \in [Ids -> Stored(F) \cup {NoCopy}]
<1>1. /\ i \in Open /\ calls[i].stage = "sent" /\ calls[i] \in Calls(F)
      /\ WellFormed(F) /\ F \in Columns /\ GoodPage(P)
  BY ColumnWellFormed DEF Create, Update, Delete, Handle, Answers, Sound, TypeOK, Open
<1>2. /\ rows \in RowSets(F) /\ rows \in [DOMAIN rows -> Stored(F)] /\ DOMAIN rows \subseteq Ids
      /\ DOMAIN rows \subseteq born /\ born \subseteq Ids
      /\ copies \in [Ids -> Stored(F) \cup {NoCopy}]
  BY <1>1, RowSetsHold DEF Sound, TypeOK
<1>3. CASE Create(i)
  <2>1. Posted(F, calls[i].body) \in Stored(F)
    BY <1>1, <1>3 DEF Create, Sound, Arrives
  <2>2. PICK id \in Ids \ born :
          /\ rows' = [x \in DOMAIN rows \cup {id} |->
                        IF x = id THEN Posted(F, calls[i].body) ELSE rows[x]]
          /\ born' = born \cup {id}
    BY <1>3 DEF Create
  <2>3. rows' \in [DOMAIN rows \cup {id} -> Stored(F)] /\ DOMAIN rows \cup {id} \in SUBSET Ids
    BY <1>2, <2>1, <2>2
  <2>4. copies' = copies
    BY <1>3 DEF Create
  <2> QED BY <1>2, <2>2, <2>3, <2>4, IsRowSet
<1>4. CASE Update(i)
  <2>1. /\ Accepts(F, calls[i].entered, FALSE)
        /\ calls[i].body = Strip(Body(F, calls[i].entered))
        /\ calls[i].entered \in F.inputs
    BY <1>1, <1>4 DEF Update, Sound, Arrives, Calls
  <2>2. \A old \in Stored(F) : Patched(old, calls[i].body) \in Stored(F)
    BY <1>1, <2>1, EditArrives
  <2> DEFINE id == calls[i].id
  <2>3. /\ id \in DOMAIN rows /\ born' = born
        /\ \E old \in Stored(F) : rows' = [rows EXCEPT ![id] = Patched(old, calls[i].body)]
        /\ copies' = copies \/ copies' = Cached(id)
    BY <1>2, <1>4 DEF Update
  <2>4. rows' \in [DOMAIN rows -> Stored(F)]
    BY <1>2, <2>2, <2>3
  <2>5. copies' \in [Ids -> Stored(F) \cup {NoCopy}]
    BY <1>2, <2>3, CopiesType DEF Sound
  <2> QED BY <1>2, <2>3, <2>4, <2>5, IsRowSet
<1>5. CASE Delete(i)
  <2>1. /\ calls[i].id \in Ids /\ rows' = Drop(rows, calls[i].id) /\ born' = born
        /\ copies' = Uncached(calls[i].id)
    BY <1>2, <1>5 DEF Delete
  <2> QED BY <1>1, <1>2, <2>1, CopiesType, DropType DEF Sound
<1>6. CASE Handle(i)
  <2>1. born' = born /\ copies' = copies
    BY <1>6 DEF Handle
  <2>2. CASE rows' = rows
    BY <1>2, <2>1, <2>2
  <2>3. CASE rows' # rows
    <3>1. /\ column = "status" /\ calls[i].op \in DOMAIN P.menu.offers
          /\ \E v \in P.menu.offers[calls[i].op].to : rows' = [rows EXCEPT ![calls[i].id] = v]
      BY <1>6, <2>3 DEF Handle
    <3>2. column \in DOMAIN P.menu.form
      BY DEF Sound, TypeOK
    <3>3. F.kind = "choice" /\ P.menu.offers[calls[i].op].to \subseteq F.inputs
      BY <1>1, <3>1, <3>2 DEF GoodPage, GoodOffers, F
    <3>4. Stored(F) = F.inputs
      BY <1>1, <3>3, DefaultArrives
    <3>5. rows' \in [DOMAIN rows -> Stored(F)]
      BY <1>2, <3>1, <3>3, <3>4
    <3> QED BY <1>2, <2>1, <3>5, IsRowSet
  <2> QED BY <2>2, <2>3
<1> QED BY <1>3, <1>4, <1>5, <1>6

LEMMA AnswersTyped ==
  ASSUME Sound, NEW i \in Slots,
         Create(i) \/ Update(i) \/ Delete(i) \/ Handle(i) \/ Refuse(i) \/ LoseAnswer(i)
  PROVE  Sound'
<1>1. /\ page' = page /\ column' = column /\ P' = P /\ F' = F /\ UNCHANGED <<setting, used>>
      /\ UNCHANGED <<cached, place, dialogs, writes>>
  BY SameSetting DEF Create, Update, Delete, Handle, Refuse, LoseAnswer, Answers, others
<1>2. \E st \in {"ok", "refused"} : i \in Open /\ calls' = [calls EXCEPT ![i].stage = st]
  BY DEF Create, Update, Delete, Handle, Refuse, LoseAnswer, Answers
<1>3. calls' \in [Slots -> Calls(F) \cup {NoCall}] /\ Arrives' /\ Unsent'
  BY <1>1, <1>2, StageSound
<1>4. /\ rows' \in RowSets(F) /\ DOMAIN rows' \subseteq born' /\ born' \subseteq Ids
      /\ copies' \in [Ids -> Stored(F) \cup {NoCopy}]
  <2>1. CASE LoseAnswer(i)
    BY <2>1 DEF LoseAnswer, server, Sound, TypeOK
  <2>2. CASE Refuse(i)
    <3>1. /\ rows' = rows /\ born' = born
          /\ \/ copies' = copies
             \/ calls[i].id \in DOMAIN rows /\ copies' = Cached(calls[i].id)
      BY <2>2 DEF Refuse
    <3>2. DOMAIN rows \subseteq Ids
      BY DEF Sound, TypeOK
    <3>3. copies' \in [Ids -> Stored(F) \cup {NoCopy}]
      BY <3>1, <3>2, CopiesType DEF Sound, TypeOK
    <3> QED BY <3>1, <3>3 DEF Sound, TypeOK
  <2> QED BY <2>1, <2>2, HandlersType
<1>5. TypeOK'
  BY <1>1, <1>3, <1>4 DEF Sound, TypeOK, Slots, cached, place, dialogs
<1> QED BY <1>3, <1>5 DEF Sound

LEMMA ResultsTyped ==
  ASSUME Sound, NEW i \in Slots, Succeed(i) \/ Reject(i)
  PROVE  Sound'
<1>1. /\ page' = page /\ column' = column /\ P' = P /\ F' = F /\ UNCHANGED setting
      /\ UNCHANGED <<server, failed, place, deleting, form, touched, used, writes>>
  BY SameSetting DEF Succeed, Reject, dialogs
<1>2. i \in Open /\ calls' = [calls EXCEPT ![i] = NoCall]
  BY DEF Succeed, Reject
<1>3. /\ calls' \in [Slots -> Calls(F) \cup {NoCall}] /\ calls[i] \in Calls(F)
      /\ calls'[i] = NoCall /\ \A k \in Slots : k # i => calls'[k] = calls[k]
  BY <1>2, DoneType DEF Sound, TypeOK, Open
<1>4. \A k \in Open' : k \in Open /\ calls'[k] = calls[k]
  BY <1>3 DEF Open, Slots
<1>5. Arrives' /\ Unsent'
  <2>1. Arrives'
    <3> SUFFICES ASSUME NEW k \in Open', calls'[k].stage = "sent"
                 PROVE  /\ calls'[k].op = P.menu.new => Posted(F, calls'[k].body) \in Stored(F)
                        /\ calls'[k].op = "update" =>
                             /\ Accepts(F, calls'[k].entered, FALSE)
                             /\ calls'[k].body = Strip(Body(F, calls'[k].entered))
      BY <1>1 DEF Arrives
    <3> QED BY <1>4 DEF Arrives, Sound
  <2>2. Unsent'
    BY <1>1, <1>3 DEF Unsent, Sound, Slots
  <2> QED BY <2>1, <2>2
<1>6. /\ list' \in RowSets(F) \cup {NoRows} /\ fetch' \in RowSets(F) \cup {Asked, NoFetch}
      /\ createOpen' \in BOOLEAN
      /\ edit' # NoTarget => edit'.id \in Ids /\ edit'.value \in Stored(F)
  <2>1. calls[i].snap \in RowSets(F) \cup {NoRows}
    BY <1>3 DEF Calls
  <2>2. CASE Succeed(i)
    BY <2>2 DEF Succeed, Invalidate, Sound, TypeOK
  <2>3. CASE Reject(i)
    BY <2>1, <2>3 DEF Reject, Invalidate, dialogs, Sound, TypeOK
  <2> QED BY <2>2, <2>3
<1>7. TypeOK'
  BY <1>1, <1>3, <1>6 DEF Sound, TypeOK, Slots, server, place
<1> QED BY <1>5, <1>7 DEF Sound

LEMMA WriteTyped ==
  ASSUME Sound, NEW id \in Ids, Write(id)
  PROVE  Sound'
<1>1. /\ page' = page /\ column' = column /\ P' = P /\ F' = F /\ UNCHANGED <<setting, sent>>
      /\ UNCHANGED <<born, cached, place, dialogs>>
  BY SameSetting DEF Write
<1>2. F \in Columns /\ rows \in RowSets(F)
  BY ColumnWellFormed DEF Sound, TypeOK
<1>6. copies' \in [Ids -> Stored(F) \cup {NoCopy}]
  <2>1. id \in DOMAIN rows
        /\ (copies' = copies \/ copies' = Cached(id) \/ copies' = Uncached(id))
    BY DEF Write
  <2> QED BY <2>1, CopiesType DEF Sound, TypeOK
<1>3. rows' \in RowSets(F) /\ DOMAIN rows' \subseteq DOMAIN rows
  <2>1. CASE rows' = Drop(rows, id)
    BY <1>2, <2>1, DropType
  <2>2. CASE \E v \in Stored(F) : rows' = [rows EXCEPT ![id] = v]
    <3>1. rows' \in [DOMAIN rows -> Stored(F)] /\ DOMAIN rows \in SUBSET Ids
      BY <1>2, <2>2, RowSetsHold
    <3> QED BY <3>1, IsRowSet
  <2> QED BY <2>1, <2>2 DEF Write
<1>4. writes' \in 0..MaxWrites
  BY PageAssumption DEF Write, Sound, TypeOK
<1>5. TypeOK'
  BY <1>1, <1>3, <1>4, <1>6 DEF Sound, TypeOK, Slots, cached, place, dialogs, sent
<1> QED BY <1>1, <1>5, SameCalls DEF Sound

LEMMA NextSound == Sound /\ [Next]_vars => Sound'
<1> SUFFICES ASSUME Sound, [Next]_vars PROVE Sound'
  OBVIOUS
<1>1. CASE Read \/ Deliver \/ FetchFails \/ Retry \/ Leave \/ Enter
  BY <1>1, ListTyped
<1>2. CASE \/ OpenCreate \/ CloseForm \/ CloseDelete
           \/ \E v \in F.inputs : Type(v)
           \/ \E id \in Ids : OpenEdit(id) \/ OpenDelete(id)
  BY <1>2, DialogsTyped
<1>3. CASE Submit \/ ConfirmDelete \/ \E id \in Ids, op \in DOMAIN P.menu.offers : Act(op, id)
  BY <1>3, RequestsTyped
<1>4. CASE \E i \in Slots : \/ Create(i) \/ Update(i) \/ Delete(i) \/ Handle(i)
                            \/ Refuse(i) \/ LoseAnswer(i)
  BY <1>4, AnswersTyped
<1>5. CASE \E i \in Slots : Succeed(i) \/ Reject(i)
  BY <1>5, ResultsTyped
<1>6. CASE \E id \in Ids : Write(id)
  BY <1>6, WriteTyped
<1>7. CASE UNCHANGED vars
  <2>1. page' = page /\ column' = column /\ P' = P /\ F' = F /\ UNCHANGED <<setting, sent>>
    BY <1>7, SameSetting DEF vars
  <2>2. TypeOK'
    BY <1>7, <2>1 DEF vars, server, cached, place, dialogs, sent, others, Sound, TypeOK, Slots
  <2> QED BY <2>1, <2>2, SameCalls DEF Sound
<1> QED BY <1>1, <1>2, <1>3, <1>4, <1>5, <1>6, <1>7 DEF Next

-----------------------------------------------------------------------------
(* FreshForm is inductive: a dialog opens from a page without one, so the  *)
(* form's effect depends on something new.                                 *)

LEMMA NextFresh == FreshForm /\ [Next]_vars => FreshForm'
<1> SUFFICES ASSUME FreshForm, [Next]_vars PROVE FreshForm'
  OBVIOUS
<1>1. UNCHANGED setting
  BY SettingStays
<1>2. F' = F
  BY <1>1, SameSetting
<1>3. CASE OpenCreate
  <2>1. edit = NoTarget /\ edit' = edit /\ ~FormOpen
    BY <1>3 DEF OpenCreate, Idle, FormOpen
  <2>2. form' = Fresh(NoTarget)
    BY <1>3, <2>1 DEF OpenCreate, ShowForm, Deps
  <2> QED BY <1>2, <2>1, <2>2 DEF FreshForm, Fresh
<1>4. ASSUME NEW id \in Ids, OpenEdit(id) PROVE FreshForm'
  <2>1. ~FormOpen /\ form' = Fresh(edit')
    BY <1>4 DEF OpenEdit, Idle, ShowForm, Deps
  <2> QED BY <1>2, <2>1 DEF FreshForm, Fresh
<1>5. CASE CloseForm \/ Leave \/ \E v \in F.inputs : Type(v)
  BY <1>5 DEF CloseForm, Leave, Type, FreshForm, FormOpen
<1>6. ASSUME NEW i \in Slots, Succeed(i) PROVE FreshForm'
  <2>1. form' = form /\ touched' = touched
    BY <1>6 DEF Succeed
  <2>2. UNCHANGED <<createOpen, edit>> \/ ~FormOpen'
    BY <1>6 DEF Succeed, FormOpen
  <2> QED BY <1>2, <2>1, <2>2 DEF FreshForm, FormOpen, Fresh
<1>7. CASE UNCHANGED <<createOpen, edit, form, touched>>
  BY <1>2, <1>7 DEF FreshForm, FormOpen, Fresh
<1>8. CASE \/ Read \/ Deliver \/ FetchFails \/ Retry \/ Enter \/ CloseDelete \/ Submit
           \/ ConfirmDelete \/ UNCHANGED vars
           \/ \E id \in Ids : \/ OpenDelete(id) \/ Write(id)
                              \/ \E op \in DOMAIN P.menu.offers : Act(op, id)
           \/ \E i \in Slots : \/ Create(i) \/ Update(i) \/ Delete(i) \/ Handle(i)
                               \/ Refuse(i) \/ LoseAnswer(i) \/ Reject(i)
  BY <1>7, <1>8 DEF Read, Deliver, FetchFails, Retry, Enter, CloseDelete, Submit,
     ConfirmDelete, OpenDelete, Write, Act, Create, Update, Delete, Handle, Refuse,
     LoseAnswer, Reject, Answers, vars, dialogs
<1> QED BY <1>3, <1>4, <1>5, <1>6, <1>8 DEF Next

-----------------------------------------------------------------------------
(* OnlyGranted: a dialog that is open was offered, a request comes from a  *)
(* dialog or an offered action, and what an operation asks a permission    *)
(* for is what it calls.                                                   *)

Offered ==
  /\ createOpen => Can(P.menu.new)
  /\ edit # NoTarget => Can("update")
  /\ deleting # NoTarget => Can("remove")

LEMMA CanCall ==
  ASSUME Sound, NEW op, Can(op)
  PROVE  P.api[op] \in granted
BY ColumnWellFormed DEF Sound, TypeOK, GoodPage, GoodGates, Can

LEMMA OfferedOpens ==
  ASSUME Offered, [Next]_vars
  PROVE  Offered'
<1>1. UNCHANGED setting
  BY SettingStays
<1>2. P' = P /\ granted' = granted
  BY <1>1, SameSetting
<1>3. /\ createOpen' => createOpen \/ Can(P.menu.new)
      /\ edit' # NoTarget => edit' = edit \/ Can("update")
      /\ deleting' # NoTarget => deleting' = deleting \/ Can("remove")
  <2>1. CASE OpenCreate \/ \E id \in Ids : OpenEdit(id) \/ OpenDelete(id)
    BY <2>1 DEF OpenCreate, OpenEdit, OpenDelete
  <2>2. CASE \/ Leave \/ CloseForm \/ CloseDelete \/ ConfirmDelete
             \/ (\E v \in F.inputs : Type(v)) \/ \E i \in Slots : Succeed(i)
    BY <2>2 DEF Leave, CloseForm, CloseDelete, ConfirmDelete, Type, Succeed
  <2>3. CASE \/ Read \/ Deliver \/ FetchFails \/ Retry \/ Enter \/ Submit \/ UNCHANGED vars
             \/ \E id \in Ids : \/ Write(id)
                                \/ \E op \in DOMAIN P.menu.offers : Act(op, id)
             \/ \E i \in Slots : \/ Create(i) \/ Update(i) \/ Delete(i) \/ Handle(i)
                                 \/ Refuse(i) \/ LoseAnswer(i) \/ Reject(i)
    BY <2>3 DEF Read, Deliver, FetchFails, Retry, Enter, Submit, Write, Act, Create,
       Update, Delete, Handle, Refuse, LoseAnswer, Reject, Answers, vars, dialogs
  <2> QED BY <2>1, <2>2, <2>3 DEF Next
<1>4. \A op : Can(op)' = Can(op)
  BY <1>2 DEF Can
<1> QED BY <1>2, <1>3 DEF Offered, Can

LEMMA NextGranted == Sound /\ Offered /\ OnlyGranted /\ [Next]_vars => OnlyGranted'
<1> SUFFICES ASSUME Sound, Offered, OnlyGranted, [Next]_vars PROVE OnlyGranted'
  OBVIOUS
<1>1. UNCHANGED setting
  BY SettingStays
<1>2. P' = P /\ F' = F /\ granted' = granted
  BY <1>1, SameSetting
<1>3. ASSUME NEW op \in Ops, NEW id \in Ids \cup {NoTarget},
             NEW body \in Stored(F) \cup {Absent, Null}, NEW snap \in RowSets(F) \cup {NoRows},
             Send(op, id, body, snap), Can(op)
      PROVE  OnlyGranted'
  <2>1. /\ calls'[used + 1] = [op |-> op, id |-> id, body |-> body, entered |-> form,
                               snap |-> snap, visit |-> visit, stage |-> "sent"]
        /\ \A i \in Slots : i # used + 1 => calls'[i] = calls[i]
    BY <1>3, SendType DEF Sound
  <2>2. calls'[used + 1].op = op /\ P.api[op] \in granted
    BY <1>3, <2>1, CanCall
  <2> SUFFICES ASSUME NEW i \in Open' PROVE P.api[calls'[i].op] \in granted
    BY <1>2 DEF OnlyGranted
  <2>3. i \in Slots /\ (i = used + 1 \/ (i \in Open /\ calls'[i] = calls[i]))
    BY <2>1 DEF Open, Slots
  <2> QED BY <2>2, <2>3 DEF OnlyGranted
<1>4. ASSUME \A i \in Open' : i \in Open /\ calls'[i].op = calls[i].op
      PROVE  OnlyGranted'
  <2> SUFFICES ASSUME NEW i \in Open' PROVE P.api[calls'[i].op] \in granted
    BY <1>2 DEF OnlyGranted
  <2> QED BY <1>4 DEF OnlyGranted
<1>5. CASE Submit
  <2>1. PICK op \in Ops, id \in Ids \cup {NoTarget}, body \in Stored(F) \cup {Absent, Null} :
          /\ Send(op, id, body, NoRows)
          /\ IF edit # NoTarget THEN op = "update" ELSE op = P.menu.new
    BY <1>5, SubmitSends
  <2>2. Can(op)
    BY <1>5, <2>1 DEF Submit, FormOpen, Offered
  <2> QED BY <1>3, <2>1, <2>2
<1>6. CASE ConfirmDelete
  <2>1. /\ deleting \in Ids /\ list \in RowSets(F) \cup {NoRows}
        /\ Send("remove", deleting, Absent, list) /\ Can("remove")
    BY <1>6 DEF ConfirmDelete, Sound, TypeOK, Offered
  <2>2. "remove" \in Ops
    BY DEF Ops
  <2> QED BY <1>3, <2>1, <2>2
<1>7. ASSUME NEW id \in Ids, NEW op \in DOMAIN P.menu.offers, Act(op, id) PROVE OnlyGranted'
  <2>1. op \in Ops
    BY ColumnWellFormed DEF Sound, TypeOK, GoodPage, GoodOffers, RowActions, Ops
  <2>2. Send(op, id, Absent, NoRows) /\ Can(op)
    BY <1>7 DEF Act
  <2> QED BY <1>3, <2>1, <2>2
<1>8. ASSUME NEW i \in Slots,
             \/ Create(i) \/ Update(i) \/ Delete(i) \/ Handle(i) \/ Refuse(i) \/ LoseAnswer(i)
      PROVE  OnlyGranted'
  <2>1. \E st \in {"ok", "refused"} : i \in Open /\ calls' = [calls EXCEPT ![i].stage = st]
    BY <1>8 DEF Create, Update, Delete, Handle, Refuse, LoseAnswer, Answers
  <2>2. calls'[i].op = calls[i].op /\ i \in Open /\ \A k \in Slots : k # i => calls'[k] = calls[k]
    BY <2>1, StageType DEF Sound
  <2> QED BY <1>4, <2>2 DEF Open, Slots
<1>9. ASSUME NEW i \in Slots, Succeed(i) \/ Reject(i) PROVE OnlyGranted'
  <2>1. i \in Open /\ calls' = [calls EXCEPT ![i] = NoCall]
    BY <1>9 DEF Succeed, Reject
  <2>2. calls'[i] = NoCall /\ \A k \in Slots : k # i => calls'[k] = calls[k]
    BY <2>1, DoneType DEF Sound
  <2> QED BY <1>4, <2>2 DEF Open, Slots
<1>10. CASE calls' = calls
  BY <1>4, <1>10 DEF Open, Slots
<1>11. CASE \/ Read \/ Deliver \/ FetchFails \/ Retry \/ Leave \/ Enter
            \/ OpenCreate \/ CloseForm \/ CloseDelete \/ UNCHANGED vars
            \/ (\E v \in F.inputs : Type(v))
            \/ \E id \in Ids : OpenEdit(id) \/ OpenDelete(id) \/ Write(id)
  BY <1>10, <1>11 DEF Read, Deliver, FetchFails, Retry, Leave, Enter, OpenCreate,
     CloseForm, CloseDelete, Type, OpenEdit, OpenDelete, Write, vars, sent
<1> QED BY <1>5, <1>6, <1>7, <1>8, <1>9, <1>11 DEF Next

-----------------------------------------------------------------------------
(* ListConverges.  The list and its request show the server's rows, or a   *)
(* call is still under way that will have the list asked for again: one    *)
(* the server has done, or a delete, whose rollback asks too.  A refetch   *)
(* that joins a request nothing has read for yet is as good as a new one.  *)

Owing(c) == c # NoCall /\ (c.stage = "ok" \/ c.op = "remove")
Owed == \E i \in Slots : Owing(calls[i])

Synced ==
  /\ fetch \notin {Asked, NoFetch} => fetch = rows
  /\ fetch = NoFetch /\ ~failed /\ ~away => list = rows

Convergent == (away => fetch = NoFetch) /\ (unsure \/ joined \/ Owed \/ Synced)

LEMMA OwedStays ==
  ASSUME Owed, \A i \in Slots : Owing(calls[i]) => Owing(calls'[i])
  PROVE  Owed'
BY DEF Owed, Slots, Owing

LEMMA NextConvergent == Sound /\ Convergent /\ [Next]_vars => Convergent'
<1> SUFFICES ASSUME Sound, Convergent, [Next]_vars PROVE Convergent'
  OBVIOUS
<1> USE PageAssumption
<1>1. rows \in RowSets(F) /\ rows # Asked /\ rows # NoFetch
  BY ColumnWellFormed, RowSetsHold DEF Sound, TypeOK
<1>2. ASSUME NEW op \in Ops, NEW id \in Ids \cup {NoTarget},
             NEW body \in Stored(F) \cup {Absent, Null}, NEW snap \in RowSets(F) \cup {NoRows},
             Send(op, id, body, snap)
      PROVE  (Owed => Owed') /\ (op = "remove" => Owed')
  <2>1. /\ used + 1 \in Slots /\ calls'[used + 1] # NoCall
        /\ calls'[used + 1] = [op |-> op, id |-> id, body |-> body, entered |-> form,
                               snap |-> snap, visit |-> visit, stage |-> "sent"]
        /\ \A i \in Slots : i # used + 1 => calls'[i] = calls[i]
    BY <1>2, SendType DEF Sound
  <2>2. calls[used + 1] = NoCall
    BY <2>1 DEF Sound, Unsent, TypeOK, Slots
  <2>3. Owed => Owed'
    BY <2>1, <2>2, OwedStays DEF Owing
  <2>4. calls'[used + 1].op = op
    BY <2>1
  <2> QED BY <2>1, <2>3, <2>4 DEF Owed, Owing, Slots
<1>3. CASE Read
  BY <1>1, <1>3 DEF Read, Convergent, Owed, Slots, Synced, cached, server, sent, place
<1>4. CASE Deliver
  BY <1>4 DEF Deliver, Convergent, Owed, Slots, Synced, server, sent, place, others
<1>5. CASE FetchFails \/ Retry \/ Leave \/ Enter
  BY <1>5 DEF FetchFails, Retry, Leave, Enter, Convergent, Owed, Slots, Synced, server, sent,
     place, others
<1>6. CASE UNCHANGED <<server, cached, place, sent, others>>
  BY <1>6 DEF Convergent, Owed, Slots, Synced, server, cached, place, sent, others
<1>7. CASE \/ OpenCreate \/ CloseForm \/ CloseDelete \/ UNCHANGED vars
           \/ (\E v \in F.inputs : Type(v))
           \/ \E id \in Ids : OpenEdit(id) \/ OpenDelete(id)
  BY <1>6, <1>7 DEF OpenCreate, CloseForm, CloseDelete, Type, OpenEdit, OpenDelete, vars
<1>8. CASE Submit \/ \E id \in Ids, op \in DOMAIN P.menu.offers : Act(op, id)
  <2>1. Owed => Owed'
    <3>1. CASE Submit
      BY <1>2, <3>1, SubmitSends
    <3>2. ASSUME NEW id \in Ids, NEW op \in DOMAIN P.menu.offers, Act(op, id)
          PROVE  Owed => Owed'
      <4>1. op \in Ops
        BY ColumnWellFormed DEF Sound, TypeOK, GoodPage, GoodOffers, RowActions, Ops
      <4> QED BY <1>2, <3>2, <4>1 DEF Act
    <3> QED BY <1>8, <3>1, <3>2
  <2>2. UNCHANGED <<server, cached, place, others>>
    BY <1>8 DEF Submit, Act
  <2> QED BY <2>1, <2>2 DEF Convergent, Synced, server, cached, place, others
<1>9. CASE ConfirmDelete
  <2>1. /\ deleting \in Ids /\ list \in RowSets(F) \cup {NoRows} /\ "remove" \in Ops
        /\ Send("remove", deleting, Absent, list)
    BY <1>9 DEF ConfirmDelete, Sound, TypeOK, Ops
  <2>2. Owed'
    BY <1>2, <2>1
  <2> QED BY <1>9, <2>2 DEF ConfirmDelete, Convergent
<1>10. ASSUME NEW i \in Slots, Create(i) \/ Update(i) \/ Delete(i) \/ Handle(i)
       PROVE  Convergent'
  <2>1. /\ i \in Open /\ calls' = [calls EXCEPT ![i].stage = "ok"]
        /\ UNCHANGED <<cached, place, others>>
    BY <1>10 DEF Create, Update, Delete, Handle, Answers
  <2>2. Owing(calls'[i])
    BY <2>1, StageType DEF Sound, Owing
  <2> QED BY <2>1, <2>2 DEF Convergent, Owed, Slots, cached, place
<1>11. ASSUME NEW i \in Slots, Refuse(i) \/ LoseAnswer(i) PROVE Convergent'
  <2>1. /\ i \in Open /\ calls' = [calls EXCEPT ![i].stage = "refused"]
        /\ UNCHANGED <<rows, cached, place>>
    BY <1>11 DEF Refuse, LoseAnswer, server
  <2>2. /\ calls'[i] # NoCall /\ calls'[i].op = calls[i].op
        /\ \A k \in Slots : k # i => calls'[k] = calls[k]
    BY <2>1, StageType DEF Sound
  <2>3. CASE Refuse(i)
    <3>1. Owed => Owed'
      BY <2>2, <2>3, OwedStays DEF Owing, Refuse
    <3> QED BY <2>1, <2>3, <3>1 DEF Refuse, Convergent, Synced, server, cached, place, others
  <2>4. CASE LoseAnswer(i)
    <3>1. unsure' \/ Owed'
      BY <2>2, <2>4 DEF LoseAnswer, Owed, Owing, Slots
    <3> QED BY <2>1, <2>4, <3>1 DEF LoseAnswer, Convergent, cached, place
  <2> QED BY <1>11, <2>3, <2>4
<1>12. ASSUME NEW i \in Slots, Succeed(i) \/ (Reject(i) /\ calls[i].op = "remove")
       PROVE  Convergent'
  <2>1. /\ UNCHANGED <<server, failed, place>>
        /\ \E l : Invalidate(l) /\ Missed(l)
    BY <1>12 DEF Succeed, Reject
  <2>2. CASE away
    BY <2>1, <2>2 DEF Invalidate, Convergent, Synced, place
  <2>3. CASE ~away /\ fetch \in {Asked, NoFetch}
    <3>1. fetch' = Asked
      BY <2>1, <2>3 DEF Invalidate, Joins
    <3> QED BY <2>1, <2>3, <3>1 DEF Convergent, Synced, place
  <2>4. CASE ~away /\ fetch \notin {Asked, NoFetch}
    <3>1. fetch' = Asked \/ joined'
      BY <2>1, <2>4 DEF Invalidate, Missed, Joins
    <3> QED BY <2>1, <2>4, <3>1 DEF Convergent, Synced, place
  <2> QED BY <2>2, <2>3, <2>4
<1>13. ASSUME NEW i \in Slots, Reject(i), calls[i].op # "remove" PROVE Convergent'
  <2>1. /\ i \in Open /\ calls' = [calls EXCEPT ![i] = NoCall] /\ calls[i].stage = "refused"
        /\ UNCHANGED <<server, cached, place, others>>
    BY <1>13 DEF Reject, cached, others
  <2>2. \A k \in Slots : k # i => calls'[k] = calls[k]
    BY <2>1, DoneType DEF Sound
  <2>3. Owed => Owed'
    BY <1>13, <2>1, <2>2, OwedStays DEF Owing
  <2> QED BY <2>1, <2>3 DEF Convergent, Synced, server, cached, place, others
<1>14. ASSUME NEW id \in Ids, Write(id) PROVE Convergent'
  BY <1>14 DEF Write, Convergent, cached, place
<1> QED BY <1>3, <1>4, <1>5, <1>7, <1>8, <1>9, <1>10, <1>11, <1>12, <1>13, <1>14 DEF Next

LEMMA InitConvergent == Init => Convergent
BY PageAssumption DEF Init, Convergent, Synced

LEMMA ConvergentConverges == Sound /\ Convergent => ListConverges
BY DEF Sound, TypeOK, Convergent, Owed, Owing, Synced, Open, ListConverges

-----------------------------------------------------------------------------
(* EnteredSticks: a PATCH on its way carries what its form said (Arrives), *)
(* and the way from the form to the row and back keeps it (EditArrives).   *)

LEMMA UpdateSticks ==
  ASSUME Sound, NEW i \in Slots, Update(i), Says(calls[i].entered)
  PROVE  Load(F, rows'[calls[i].id]) = Meant(calls[i].entered)
<1>1. /\ i \in Open /\ calls[i].stage = "sent" /\ calls[i].op = "update"
      /\ calls[i].id \in DOMAIN rows /\ calls[i] \in Calls(F)
      /\ \E old \in Stored(F) :
           rows' = [rows EXCEPT ![calls[i].id] = Patched(old, calls[i].body)]
  <2>1. /\ i \in Open /\ calls[i].stage = "sent" /\ calls[i].op = "update"
        /\ calls[i].id \in DOMAIN rows /\ calls[i] \in Calls(F)
    BY DEF Update, Answers, Sound, TypeOK, Open
  <2>2. /\ rows \in RowSets(F) /\ F \in Columns /\ calls[i].id \in Ids
        /\ copies \in [Ids -> Stored(F) \cup {NoCopy}]
    BY <2>1, ColumnWellFormed DEF Sound, TypeOK
  <2>3. rows[calls[i].id] \in Stored(F)
    BY <2>1, <2>2, RowSetsHold
  <2> QED BY <2>1, <2>2, <2>3 DEF Update
<1>2. WellFormed(F) /\ F \in Columns /\ rows \in RowSets(F)
  BY ColumnWellFormed DEF Sound, TypeOK
<1>3. rows[calls[i].id] \in Stored(F) /\ rows \in [DOMAIN rows -> Stored(F)]
  BY <1>1, <1>2, RowSetsHold
<1>4. /\ Accepts(F, calls[i].entered, FALSE) /\ calls[i].entered \in F.inputs
      /\ calls[i].body = Strip(Body(F, calls[i].entered))
  BY <1>1 DEF Sound, Arrives, Calls
<1>5. SaysIn(F, calls[i].entered) /\ MeantIn(F, calls[i].entered) = Meant(calls[i].entered)
  BY DEF Says, Meant, SaysIn, MeantIn
<1>6. PICK old \in Stored(F) : rows'[calls[i].id] = Patched(old, calls[i].body)
  BY <1>1, <1>3
<1> DEFINE v == calls[i].entered
<1>7. \A o \in Stored(F) :
        SaysIn(F, v) => Load(F, Patched(o, Strip(Body(F, v)))) = MeantIn(F, v)
  <2> HIDE DEF v
  <2>1. v \in F.inputs /\ Accepts(F, v, FALSE)
    BY <1>4 DEF v
  <2> QED BY <1>2, <2>1, EditArrives
<1>8. SaysIn(F, v) => Load(F, Patched(old, Strip(Body(F, v)))) = MeantIn(F, v)
  BY <1>7
<1> QED BY <1>4, <1>5, <1>6, <1>8

-----------------------------------------------------------------------------
(* The theorems. *)

LEMMA Inductive == Spec => [](Sound /\ Convergent /\ Offered /\ OnlyGranted /\ FreshForm)
<1> DEFINE Inv == Sound /\ Convergent /\ Offered /\ OnlyGranted /\ FreshForm
<1>1. Init => Inv
  BY InitSound, InitConvergent
     DEF Init, Offered, OnlyGranted, FreshForm, FormOpen, Open
<1>2. Inv /\ [Next]_vars => Inv'
  BY NextSound, NextConvergent, OfferedOpens, NextGranted, NextFresh
<1> QED BY <1>1, <1>2, PTL DEF Spec

(* On every page, whatever the user, the network and others do, the rows   *)
(* and the repository's copies hold what their columns can hold, the form  *)
(* what its control takes, and a body what the column's form makes of it   *)
(* (submit, stripEmptyStrings, PATCH and POST).                            *)
THEOREM PageTypes == Spec => []TypeOK
<1>1. Sound => TypeOK
  BY DEF Sound
<1> QED BY <1>1, Inductive, PTL

(* Once every call is answered and the list has loaded it shows the        *)
(* server's rows, through optimistic deletes, rollbacks to older lists,    *)
(* cancelled refetches and remounts in any order, for any number of rows,  *)
(* calls and visits, unless a refetch joined the first load after that had *)
(* been read (invalidateQueries, onMutate, onError, onSettled).            *)
THEOREM ListTellsTheTruth == Spec => []ListConverges
BY ConvergentConverges, Inductive, PTL

(* No form opens with what was typed into an earlier one (the reset effect *)
(* of the *FormModal components).                                          *)
THEOREM FormsOpenFresh == Spec => []FreshForm
BY Inductive, PTL

(* On every page no request is sent that the role may not make: each       *)
(* button asks for the permission of the endpoint its click calls (PERM of *)
(* paths.ts and the services).                                             *)
THEOREM NothingForbiddenIsSent == Spec => []OnlyGranted
BY Inductive, PTL

(* What was entered into any column of any form is what the row shows      *)
(* after the save (submit, stripEmptyStrings, PATCH and the reset effect). *)
THEOREM WhatIsEnteredSticks == Spec => EnteredSticks
<1>1. Sound /\ [Next]_vars =>
        [\A i \in Slots :
           Update(i) /\ Says(calls[i].entered)
             => Load(F, rows'[calls[i].id]) = Meant(calls[i].entered)]_vars
  BY UpdateSticks
<1> QED BY <1>1, Inductive, PTL DEF Spec, EnteredSticks
=============================================================================
