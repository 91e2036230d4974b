-------------------------------- MODULE Forms --------------------------------
(***************************************************************************)
(* The forms of the entity pages: the control behind each column, what the *)
(* form shows of a stored value (the reset effect of a *FormModal), what   *)
(* it accepts and puts in the request body (submit), what the API client   *)
(* drops from the body (stripEmptyStrings), and what the server's PATCH    *)
(* and POST handlers make of the rest.  A stored date is a day and a       *)
(* clock: the form shows the one and always writes the same other.  A link *)
(* that is blank is also the server's nil id, which names no record.       *)
(***************************************************************************)
CONSTANTS
  Words,   \* texts, ids and days that say something
  Blank,   \* the empty string
  Spaces,  \* white space only
  Null,    \* JSON null
  Absent   \* a field the body leaves out

Specials == {Blank, Spaces, Null, Absent}
Stamps == [day : Words, clock : {"form", "other"}]

ASSUME FormAssumption ==
  /\ Specials \cap Words = {} /\ Specials \cap Stamps = {}
  /\ Blank \notin {Spaces, Null, Absent} /\ Spaces \notin {Null, Absent} /\ Null # Absent

Texts == Words \cup {Blank, Spaces}
Picks == Words \cup {Blank}

Field(kind, inputs, initial) == [kind |-> kind, inputs |-> inputs, initial |-> initial]

Title  == Field("title", Texts, Blank)    \* required, trimmed
Text   == Field("text", Texts, Blank)     \* optional, as typed
Trimmed == Field("trimmed", Texts, Blank) \* optional, trimmed
Email  == Field("email", Texts, Blank)    \* optional, checked for form
Link   == Field("trimmed", Picks, Blank)  \* optional record, picked by name
Role   == Field("role", Picks, Blank)     \* required record
Date   == Field("date", Picks, Blank)     \* optional day or minute
Due    == Field("due", Picks, Blank)      \* required minute
Secret == Field("secret", Picks, Blank)   \* password: required on create
Json   == Field("json", Texts, Blank)     \* text, sent parsed
Choice(options, initial) == Field("choice", options, initial)

IsDate(f) == f.kind \in {"date", "due"}

-----------------------------------------------------------------------------
(* The forms.                                                              *)

Severities == {"low", "medium", "high", "critical"}
DeadlineStatuses == {"upcoming", "due", "overdue", "completed"}
ViolationStatuses == {"open", "in_review", "resolved", "closed"}
ComplianceStatuses == {"draft", "active", "compliant", "non_compliant", "archived"}
AuditStatuses == {"scheduled", "in_progress", "completed", "cancelled"}
ActionStatuses == {"open", "in_progress", "completed", "cancelled"}
AlertStatuses == {"open", "acknowledged", "resolved"}

DeadlineForm ==
  [title |-> Title, description |-> Text,
   status |-> Choice(DeadlineStatuses, "upcoming"),
   entity_type |-> Link, entity_id |-> Link, deadline_at |-> Due]

ViolationForm ==
  [title |-> Title, description |-> Text,
   severity |-> Choice(Severities, "medium"),
   status |-> Choice(ViolationStatuses, "open"),
   compliance_id |-> Link, regulation_id |-> Link]

ComplianceForm ==
  [name |-> Title, description |-> Text,
   status |-> Choice(ComplianceStatuses, "draft"),
   risk_level |-> Choice(Severities, "medium"),
   owner_id |-> Link, regulation_id |-> Link, due_date |-> Date]

AuditForm ==
  [title |-> Title, description |-> Text,
   status |-> Choice(AuditStatuses, "scheduled"),
   compliance_id |-> Link, auditor_id |-> Link, scheduled_at |-> Date]

CorrectiveActionForm ==
  [title |-> Title, description |-> Text,
   status |-> Choice(ActionStatuses, "open"),
   violation_id |-> Link, owner_id |-> Link, due_date |-> Date]

RegulationForm ==
  [title |-> Title, code |-> Title, description |-> Text,
   jurisdiction |-> Trimmed,
   status |-> Choice({"active", "inactive", "draft", "expired"}, "active"),
   effective_date |-> Date, expiry_date |-> Date]

ChecklistForm ==
  [title |-> Title, description |-> Text,
   status |-> Choice({"open", "in_progress", "completed"}, "open"),
   compliance_id |-> Link, owner_id |-> Link, due_date |-> Date, items |-> Json]

UserForm ==
  [username |-> Title, email |-> Email, password |-> Secret, role_id |-> Role,
   status |-> Choice({"active", "disabled"}, "active")]

ReportForm ==
  [title |-> Title,
   type |-> Choice({"summary", "detailed", "compliance", "audit"}, "summary"),
   status |-> Choice({"generated", "failed"}, "generated"),
   description |-> Text, compliance_id |-> Link]

-----------------------------------------------------------------------------
(* From the row to the form, to the body, to the row.                      *)

\* What the server's column holds: dates and JSON may be null, a required
\* column is never empty, but for the password hash.
Stored(f) ==
  CASE IsDate(f) -> Stamps \cup (IF f.kind = "date" THEN {Null} ELSE {})
    [] f.kind = "json" -> Words \cup {Null}
    [] f.kind = "role" -> Words
    [] f.kind = "title" -> f.inputs \ {Blank}
    [] OTHER -> f.inputs

\* The reset effect: row?.column ?? "", a date cut to what its input takes,
\* never a password.
Load(f, v) ==
  IF v = Null THEN f.initial
  ELSE IF f.kind = "secret" THEN Blank
  ELSE IF IsDate(f) THEN v.day ELSE v

Trim(v) == IF v = Spaces THEN Blank ELSE v

Accepts(f, v, creating) ==
  /\ f.kind = "title" => Trim(v) # Blank
  /\ f.kind \in {"role", "due"} => v # Blank
  /\ f.kind = "secret" => ~creating \/ v # Blank
  /\ f.kind = "email" => v # Spaces

\* Mutant of Body: an emptied date is sent as the empty string.
BodyBlankDate(f, v) ==
  IF v = Blank THEN v
  ELSE IF IsDate(f) THEN [day |-> v, clock |-> "form"] ELSE Trim(v)

\* What submit hands to onSubmit.
Body(f, v) ==
  CASE f.kind \in {"title", "trimmed"} -> Trim(v)
    [] IsDate(f) -> IF v = Blank THEN Null ELSE [day |-> v, clock |-> "form"]
    [] f.kind = "json" -> IF Trim(v) = Blank THEN Absent ELSE v
    [] OTHER -> v

\* stripEmptyStrings.
Strip(b) == IF b = Blank THEN Absent ELSE b

\* What JSON shows of a stored value: no password hash.
Hidden(f, v) == IF f.kind = "secret" THEN Blank ELSE v

\* Mutant of Patched: the body's fields are bound to a record, a missing one
\* included.
PatchedAll(old, b) == b

\* PATCH writes the columns the body has, null included, and keeps what the
\* handler took for the old value of the rest; POST takes the rest from the
\* column's default.
Patched(old, b) == IF b = Absent THEN old ELSE b
Posted(f, b) ==
  IF b # Absent THEN b
  ELSE IF IsDate(f) \/ f.kind = "json" THEN Null ELSE f.initial
=============================================================================
