---------------------------- MODULE MCEntityPage ----------------------------
(***************************************************************************)
(* Which pages and columns the run explores, and how far.  Columns of one  *)
(* kind behave alike on every page, so a kind is taken on one page; the    *)
(* status, whose choices and row actions differ, on every page with row    *)
(* actions; a missing permission on a column of few values of every page.  *)
(* One mutation and one visit suffice there.                               *)
(***************************************************************************)
EXTENDS EntityPage

Kinds ==
  {<<"deadlines", "deadline_at">>, <<"audits", "title">>,
   <<"violations", "description">>, <<"regulations", "jurisdiction">>,
   <<"compliances", "due_date">>, <<"checklists", "items">>,
   <<"users", "email">>, <<"users", "password">>, <<"users", "status">>,
   <<"reports", "status">>}

Roles ==
  {<<"deadlines", "entity_id">>, <<"violations", "compliance_id">>,
   <<"compliances", "owner_id">>, <<"audits", "auditor_id">>,
   <<"actions", "violation_id">>, <<"regulations", "expiry_date">>,
   <<"checklists", "owner_id">>, <<"users", "role_id">>,
   <<"reports", "compliance_id">>, <<"alerts", "status">>}

Here == <<page, column>>
Acts == column = "status" /\ P.menu.offers # <<>>
Everything == granted = Endpoints
Copied == Here = <<"users", "password">>
Stays == visit = 1 /\ ~away

MCInit ==
  /\ Init
  /\ \/ Everything /\ (Here \in Kinds \/ Acts)
     \/ Here \in Roles /\ rows[First] # Blank

\* A second mutation on a page with a form, on the one without and on the one
\* that saves from copies; a second visit on the second alone, and writes of
\* others there and, before the second mutation, on the third.
Within ==
  /\ used > 1 =>
       /\ page = "alerts" \/ Here = <<"reports", "compliance_id">> \/ Copied
       /\ Everything
  /\ ~Stays => page = "alerts" /\ Everything
  /\ writes > 0 => (page = "alerts" \/ (Copied /\ used <= 1)) /\ Everything

MCSpec == MCInit /\ [][Next /\ Within']_vars
=============================================================================
