------------------------------ MODULE EntityPage ------------------------------
(***************************************************************************)
(* An entity page of the console at work: the cached list of useCursorList, *)
(* the create and edit form, the confirmation dialog, the mutations with   *)
(* their optimistic delete, and the rows on the server.  Page and column   *)
(* are chosen once: a row is the value of one column of its form.  Answers *)
(* are handled in any order, also when the user is on another page or came *)
(* back.                                                                   *)
(***************************************************************************)
EXTENDS Pages, Integers

CONSTANTS
  Ids,       \* rows; one exists at first
  First,
  MaxCalls,  \* bound: mutations
  MaxVisits, \* bound: times the page is opened
  MaxWrites, \* bound: writes of other users
  NoRows, NoTarget, NoCall, NoCopy, Asked, NoFetch

RowSets(f) == UNION {[D -> Stored(f)] : D \in SUBSET Ids}

\* A mutation under way: what it was sent for, what the form said then, the
\* list it may put back, and how far it is.
Ops == {"create", "generate", "none", "update", "remove", "complete", "resolve",
        "check", "start", "acknowledge"}
Calls(f) ==
  [op : Ops, id : Ids \cup {NoTarget}, body : Stored(f) \cup {Absent, Null},
   entered : f.inputs, snap : RowSets(f) \cup {NoRows},
   visit : 1..MaxVisits, stage : {"sent", "ok", "refused"}]

ASSUME PageAssumption ==
  /\ First \in Ids /\ NoTarget \notin Ids /\ Asked # NoFetch
  /\ MaxCalls \in Nat /\ MaxVisits \in Nat \ {0} /\ MaxWrites \in Nat
  /\ \A f \in Columns :
       /\ {NoRows, Asked, NoFetch} \cap RowSets(f) = {}
       /\ NoCall \notin Calls(f) /\ NoCopy \notin Stored(f)

VARIABLES
  page, column,
  granted,    \* endpoints of the role
  rows, born, \* server: the live rows, the ids there have been
  copies,     \* server: what the users' repository has cached of a row
  list,       \* the cached list
  fetch,      \* its request: asked, what the server read, or none
  failed,     \* the last request failed
  visit, away,
  createOpen, \* the dialogs: create, edit (a copy of the row), delete
  edit, deleting,
  form,       \* the value in the form
  touched,    \* history: the user typed since the form opened
  calls, used,
  writes,
  unsure,     \* history: rows changed, the page was not told, and has not
              \* read them since
  joined      \* history: the page was told while its first list, already
              \* read, was on its way, and has not read the rows since

setting == <<page, column, granted>>
server == <<rows, born, copies>>
cached == <<list, fetch, failed>>
place == <<visit, away>>
dialogs == <<createOpen, edit, deleting, form, touched>>
sent == <<calls, used>>
others == <<writes, unsure, joined>>
vars == <<setting, server, cached, place, dialogs, sent, others>>

P == PageOf(page)
F == P.menu.form[column]
Drop(rs, id) == [x \in DOMAIN rs \ {id} |-> rs[x]]

Slots == 1..MaxCalls
Open == {i \in Slots : calls[i] # NoCall}
Saves == {P.menu.new, "update"}

\* isPending of the mutations of this visit's hooks.
Pending(ops) ==
  \E i \in Open : calls[i].op \in ops /\ calls[i].visit = visit

\* What the page calls or asks a permission for.
Endpoints ==
  {P.api[op] : op \in DOMAIN P.api} \cup {P.gates[op] : op \in DOMAIN P.gates}

\* can(PERM...): the control is shown.
Can(op) == op \in DOMAIN P.gates /\ P.gates[op] \in granted

-----------------------------------------------------------------------------
Init ==
  /\ page \in PageNames /\ column \in DOMAIN P.menu.form
  /\ \E lacking \in Endpoints \cup {NoCall} : granted = Endpoints \ {lacking}
  /\ rows \in [{First} -> Stored(F)] /\ born = {First}
  /\ copies = [id \in Ids |-> NoCopy]
  /\ list = NoRows /\ fetch = Asked /\ failed = FALSE
  /\ visit = 1 /\ away = FALSE
  /\ createOpen = FALSE /\ edit = NoTarget /\ deleting = NoTarget
  /\ form = F.initial /\ touched = FALSE
  /\ calls = [i \in Slots |-> NoCall] /\ used = 0
  /\ writes = 0 /\ unsure = FALSE /\ joined = FALSE

-----------------------------------------------------------------------------
(* The list.                                                               *)

Read ==
  /\ fetch = Asked /\ fetch' = rows /\ unsure' = FALSE /\ joined' = FALSE
  /\ UNCHANGED <<setting, server, list, failed, place, dialogs, sent, writes>>

Deliver ==
  /\ fetch \notin {Asked, NoFetch}
  /\ list' = fetch /\ fetch' = NoFetch /\ failed' = FALSE
  /\ UNCHANGED <<setting, server, place, dialogs, sent, others>>

FetchFails ==
  /\ fetch # NoFetch /\ fetch' = NoFetch /\ failed' = TRUE
  /\ UNCHANGED <<setting, server, list, place, dialogs, sent, others>>

\* The retry button, or the network is back.
Retry ==
  /\ ~away /\ failed /\ fetch = NoFetch /\ fetch' = Asked
  /\ UNCHANGED <<setting, server, list, failed, place, dialogs, sent, others>>

\* Unmounting cancels the list's request and forgets the dialogs; what was
\* sent goes on.
Leave ==
  /\ ~away /\ away' = TRUE /\ fetch' = NoFetch
  /\ createOpen' = FALSE /\ edit' = NoTarget /\ deleting' = NoTarget
  /\ form' = F.initial /\ touched' = FALSE
  /\ UNCHANGED <<setting, server, list, failed, visit, sent, others>>

\* The cached list is shown, if it was not collected, and asked for again.
Enter ==
  /\ away /\ visit < MaxVisits /\ visit' = visit + 1 /\ away' = FALSE
  /\ list' \in {list, NoRows} /\ fetch' = Asked
  /\ UNCHANGED <<setting, server, failed, dialogs, sent, others>>

-----------------------------------------------------------------------------
(* The dialogs.                                                            *)

FormOpen == createOpen \/ edit # NoTarget
Idle == ~away /\ ~FormOpen /\ deleting = NoTarget
Shown(id) == list # NoRows /\ id \in DOMAIN list
Fresh(t) == IF t = NoTarget THEN F.initial ELSE Load(F, t.value)

\* Mutant of Deps: the effect depends on the row's id alone.
DepsByRow(open, t) == IF t = NoTarget THEN NoTarget ELSE t.id

\* What the form's reset effect depends on, and its run after a render.
Deps(open, t) == <<open, IF t = NoTarget THEN NoTarget ELSE t.id>>

ShowForm(t) ==
  /\ form' = IF Deps(TRUE, t) = Deps(FormOpen, edit) THEN form ELSE Fresh(t)
  /\ touched' = FALSE

OpenCreate ==
  /\ Idle /\ Can(P.menu.new)
  /\ createOpen' = TRUE /\ ShowForm(NoTarget)
  /\ UNCHANGED <<setting, server, cached, place, edit, deleting, sent, others>>

OpenEdit(id) ==
  /\ Idle /\ Can("update") /\ Shown(id)
  /\ edit' = [id |-> id, value |-> list[id]] /\ ShowForm(edit')
  /\ UNCHANGED <<setting, server, cached, place, createOpen, deleting, sent, others>>

\* Inputs stay enabled while a submit is under way.
Type(v) ==
  /\ FormOpen /\ v # form /\ form' = v /\ touched' = TRUE
  /\ UNCHANGED <<setting, server, cached, place, createOpen, edit, deleting,
                 sent, others>>

\* Cancel, Escape, the backdrop or the cross; the last three also while a
\* submit is under way.
CloseForm ==
  /\ FormOpen /\ createOpen' = FALSE /\ edit' = NoTarget
  /\ UNCHANGED <<setting, server, cached, place, deleting, form, touched, sent, others>>

OpenDelete(id) ==
  /\ Idle /\ Can("remove") /\ Shown(id) /\ deleting' = id
  /\ UNCHANGED <<setting, server, cached, place, createOpen, edit, form,
                 touched, sent, others>>

CloseDelete ==
  /\ deleting # NoTarget /\ deleting' = NoTarget
  /\ UNCHANGED <<setting, server, cached, place, createOpen, edit, form,
                 touched, sent, others>>

-----------------------------------------------------------------------------
(* The mutations.                                                          *)

Send(op, id, body, snap) ==
  /\ used < MaxCalls /\ used' = used + 1
  /\ calls' = [calls EXCEPT ![used + 1] =
                 [op |-> op, id |-> id, body |-> body, entered |-> form,
                  snap |-> snap, visit |-> visit, stage |-> "sent"]]

\* submit of the form and onSubmit of the page: the button is disabled while
\* a save is pending; generating a report leaves the status out.
Submit ==
  /\ FormOpen /\ ~Pending(Saves) /\ Accepts(F, form, edit = NoTarget)
  /\ IF edit # NoTarget
     THEN Send("update", edit.id, Strip(Body(F, form)), NoRows)
     ELSE Send(P.menu.new, NoTarget,
               IF P.menu.new = "generate" /\ column = "status" THEN Absent
               ELSE Strip(Body(F, form)), NoRows)
  /\ UNCHANGED <<setting, server, cached, place, dialogs, others>>

\* A row action of the menu; of another column's row, whatever its status.
Act(op, id) ==
  /\ Idle /\ Can(op) /\ Shown(id)
  /\ column = "status" => list[id] \in P.menu.offers[op].from
  /\ Send(op, id, Absent, NoRows)
  /\ UNCHANGED <<setting, server, cached, place, dialogs, others>>

\* The dialog closes; onMutate cancels the list's request, keeps the list as
\* the snapshot and takes the row out.
ConfirmDelete ==
  /\ deleting # NoTarget /\ ~Pending({"remove"})
  /\ Send("remove", deleting, Absent, list)
  /\ list' = IF list = NoRows THEN NoRows ELSE Drop(list, deleting)
  /\ fetch' = NoFetch /\ deleting' = NoTarget
  /\ UNCHANGED <<setting, server, failed, place, createOpen, edit, form, touched,
                 others>>

\* GetByID of the users' repository leaves the row as JSON in the cache, for
\* 15 minutes; of the handlers of users only Delete drops it.
Cached(id) ==
  IF page = "users" THEN [copies EXCEPT ![id] = Hidden(F, rows[id])] ELSE copies
Uncached(id) == [copies EXCEPT ![id] = NoCopy]

\* The server's handlers.
Answers(i) ==
  /\ i \in Open /\ calls[i].stage = "sent"
  /\ calls' = [calls EXCEPT ![i].stage = "ok"]
  /\ UNCHANGED <<setting, cached, place, dialogs, used, others>>

Create(i) ==
  /\ Answers(i) /\ calls[i].op = P.menu.new
  /\ \E id \in Ids \ born :
       /\ rows' = [x \in DOMAIN rows \cup {id} |->
                     IF x = id THEN Posted(F, calls[i].body) ELSE rows[x]]
       /\ born' = born \cup {id}
  /\ UNCHANGED copies

\* Users are saved whole, from a copy that is still cached or from the row.
Update(i) ==
  /\ Answers(i) /\ calls[i].op = "update" /\ calls[i].id \in DOMAIN rows
  /\ LET id == calls[i].id
         Saved(old) == [rows EXCEPT ![id] = Patched(old, calls[i].body)]
     IN \/ copies[id] # NoCopy /\ rows' = Saved(copies[id]) /\ UNCHANGED copies
        \/ rows' = Saved(rows[id]) /\ copies' = Cached(id)
  /\ UNCHANGED born

Delete(i) ==
  /\ Answers(i) /\ calls[i].op = "remove" /\ calls[i].id \in DOMAIN rows
  /\ rows' = Drop(rows, calls[i].id) /\ copies' = Uncached(calls[i].id)
  /\ UNCHANGED born

\* complete, resolve, start, acknowledge and check write the status.
Handle(i) ==
  /\ Answers(i) /\ calls[i].op \in DOMAIN P.menu.offers
  /\ calls[i].id \in DOMAIN rows /\ UNCHANGED <<born, copies>>
  /\ LET o == P.menu.offers[calls[i].op]
         old == rows[calls[i].id]
     IN IF column # "status" \/ old \in o.rests THEN UNCHANGED rows
        ELSE \E v \in o.to : rows' = [rows EXCEPT ![calls[i].id] = v]

\* The row is gone, the server fails, after GetByID perhaps, or the request
\* is lost.
Refuse(i) ==
  /\ i \in Open /\ calls[i].stage = "sent"
  /\ calls' = [calls EXCEPT ![i].stage = "refused"]
  /\ \/ UNCHANGED copies
     \/ calls[i].id \in DOMAIN rows /\ copies' = Cached(calls[i].id)
  /\ UNCHANGED <<setting, rows, born, cached, place, dialogs, used, others>>

\* The server did it, but the answer is lost.
LoseAnswer(i) ==
  /\ i \in Open /\ calls[i].stage = "ok"
  /\ calls' = [calls EXCEPT ![i].stage = "refused"]
  /\ unsure' = (unsure \/ calls[i].op # "remove")
  /\ UNCHANGED <<setting, server, cached, place, dialogs, used, writes, joined>>

\* A refetch of list l joins a request that is on its way as long as the
\* query has no data.
Joins(l) == ~away /\ l = NoRows /\ fetch # NoFetch

\* Mutant of Invalidate: a request on its way is joined whatever is cached.
InvalidateJoins(l) == fetch' = IF away \/ fetch # NoFetch THEN fetch ELSE Asked

\* invalidateQueries: the list on screen is asked for again; a request on its
\* way is dropped, or joined.
Invalidate(l) == fetch' = IF away \/ Joins(l) THEN fetch ELSE Asked
Missed(l) == joined' = (joined \/ (Joins(l) /\ fetch # Asked))

\* onSuccess of a mutation; the awaiting onSubmit then closes the dialog.
Succeed(i) ==
  /\ i \in Open /\ calls[i].stage = "ok"
  /\ Invalidate(list) /\ Missed(list)
  /\ IF calls[i].op \in Saves /\ calls[i].visit = visit /\ ~away
     THEN createOpen' = FALSE /\ edit' = NoTarget
     ELSE UNCHANGED <<createOpen, edit>>
  /\ calls' = [calls EXCEPT ![i] = NoCall]
  /\ UNCHANGED <<setting, server, list, failed, place, deleting, form, touched,
                 used, writes, unsure>>

\* onError, and onSettled of the delete: the snapshot is put back and the
\* list asked for again.  The form stays open with the error.
Reject(i) ==
  /\ i \in Open /\ calls[i].stage = "refused"
  /\ IF calls[i].op = "remove"
     THEN /\ list' = IF calls[i].snap = NoRows THEN list ELSE calls[i].snap
          /\ Invalidate(list') /\ Missed(list')
     ELSE UNCHANGED <<list, fetch, joined>>
  /\ calls' = [calls EXCEPT ![i] = NoCall]
  /\ UNCHANGED <<setting, server, failed, place, dialogs, used, writes, unsure>>

\* Another user, a saga or the deadline job; users through the same handlers.
Write(id) ==
  /\ writes < MaxWrites /\ writes' = writes + 1 /\ unsure' = TRUE
  /\ id \in DOMAIN rows
  /\ \/ rows' = Drop(rows, id) /\ copies' = Uncached(id)
     \/ /\ \E v \in Stored(F) : rows' = [rows EXCEPT ![id] = v]
        /\ copies' \in {copies, Cached(id)}
  /\ UNCHANGED <<setting, born, cached, place, dialogs, sent, joined>>

Next ==
  \/ Read \/ Deliver \/ FetchFails \/ Retry \/ Leave \/ Enter
  \/ OpenCreate \/ CloseForm \/ CloseDelete \/ Submit \/ ConfirmDelete
  \/ \E v \in F.inputs : Type(v)
  \/ \E id \in Ids :
       \/ OpenEdit(id) \/ OpenDelete(id) \/ Write(id)
       \/ \E op \in DOMAIN P.menu.offers : Act(op, id)
  \/ \E i \in Slots :
       \/ Create(i) \/ Update(i) \/ Delete(i) \/ Handle(i)
       \/ Refuse(i) \/ LoseAnswer(i) \/ Succeed(i) \/ Reject(i)

Spec == Init /\ [][Next]_vars

-----------------------------------------------------------------------------
\* Types: a column holds what the server can store in it, also after a body
\* that leaves it out or a whole row that was saved from a copy.
TypeOK ==
  /\ page \in PageNames /\ column \in DOMAIN P.menu.form
  /\ rows \in RowSets(F) /\ DOMAIN rows \subseteq born /\ born \subseteq Ids
  /\ copies \in [Ids -> Stored(F) \cup {NoCopy}]
  /\ list \in RowSets(F) \cup {NoRows}
  /\ fetch \in RowSets(F) \cup {Asked, NoFetch} /\ failed \in BOOLEAN
  /\ visit \in 1..MaxVisits /\ away \in BOOLEAN
  /\ used \in 0..MaxCalls /\ writes \in 0..MaxWrites
  /\ createOpen \in BOOLEAN /\ deleting \in Ids \cup {NoTarget}
  /\ edit # NoTarget => edit.id \in Ids /\ edit.value \in Stored(F)
  /\ form \in F.inputs
  /\ calls \in [Slots -> Calls(F) \cup {NoCall}]

\* The list tells the truth once everything is answered: whatever optimistic
\* deletes, rollbacks to older snapshots, refetches and their cancellations
\* happened in between, on this visit or the last, it shows the server's rows
\* (but for changes by others, by calls whose answer was lost, and by calls
\* whose refetch joined the first load, since it last read them).
ListConverges ==
  Open = {} /\ ~away /\ fetch = NoFetch /\ ~failed /\ ~unsure /\ ~joined
    => list = rows

\* The same without the last exception: a save that succeeded is shown.
SavedIsShown ==
  Open = {} /\ ~away /\ fetch = NoFetch /\ ~failed /\ ~unsure => list = rows

Meant(v) == IF F.kind \in {"title", "trimmed", "json"} THEN Trim(v) ELSE v
Says(v) == F.kind = "date" \/ (F.kind # "secret" /\ Meant(v) # Blank)

\* What the user entered is what the row then shows: through trimming, the
\* completion and cutting of dates, the removal of empty strings and the
\* server's partial update, for every column; `null` "is preserved (e.g.
\* clearing a date)".
EnteredSticks ==
  [][\A i \in Slots :
       Update(i) /\ Says(calls[i].entered)
         => Load(F, rows'[calls[i].id]) = Meant(calls[i].entered)]_vars

\* An untouched form shows its row, or an empty one: nothing typed into an
\* earlier form is left in it, however that one was closed.
FreshForm == FormOpen /\ ~touched => form = Fresh(edit)

\* The console only offers what the role may do: no request it sends is for
\* an endpoint that is not granted.
OnlyGranted == \A i \in Open : P.api[calls[i].op] \in granted

\* A save closes its own dialog: one opened after the other was dismissed
\* stays open.
OwnDialog ==
  [][\A i \in Slots :
       Succeed(i) /\ edit # NoTarget /\ calls[i].op = "update"
         => calls[i].id = edit.id \/ edit' = edit]_vars

\* "Leave blank to keep the current password."
BlankKeepsPassword ==
  [][\A i \in Slots :
       Update(i) /\ F.kind = "secret" /\ calls[i].entered = Blank
         => rows'[calls[i].id] = rows[calls[i].id]]_vars

\* Clearing an optional text clears it.
ClearSticks ==
  [][\A i \in Slots :
       Update(i) /\ F.kind \in {"text", "email", "trimmed"}
                 /\ calls[i].entered = Blank
         => Load(F, rows'[calls[i].id]) = Blank]_vars
=============================================================================
