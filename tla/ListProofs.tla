------------------------------ MODULE ListProofs ------------------------------
(***************************************************************************)
(* The list of an entity page: its pages (CursorList), then the toolbar    *)
(* above it (ListToolbar).                                                 *)
(*                                                                         *)
(* TypeOK, OneFilter and OwnSlot of CursorList hold for any filters, page  *)
(* sizes, rows and changes on the server, any clicks between renders, and  *)
(* answers and evictions in any order.  A render commits what the cache    *)
(* holds under the key of that render; the argument is that an answer      *)
(* never changes the key it was asked under (CacheInv), and that the reset *)
(* effect has always run by the time the commit effect does.               *)
(*                                                                         *)
(* ToolbarTypeOK, SearchAccepted, ClearIsComplete and TextIsCurrent of     *)
(* ListToolbar hold for every page, any texts and any number of edits.     *)
(* Two facts carry them: a timer that runs is for the text in the box, and *)
(* what "Clear filters" has cleared stays so until something is entered.   *)
(***************************************************************************)
EXTENDS CursorList, ListToolbar, FiniteSetTheorems, WellFoundedInduction, TLAPS

(* A cached answer names the filters and the slot of its key.              *)
CacheInv ==
  \A k \in QueryKeys :
    cache[k] # NoData => cache[k].filter = k[1] /\ cache[k].slot = k[2]

StackInv ==
  \A i \in Indexes :
    pages[i] # Hole => pages[i].filter = seenFilter /\ pages[i].slot = i

IInv == TypeOK /\ CacheInv /\ StackInv

-----------------------------------------------------------------------------
(* Keyset pages: a page that has a successor has a last row.               *)
LEMMA SmallestKey ==
  ASSUME NEW X \in SUBSET Nat, X # {}
  PROVE  \E k \in X : \A j \in X : k <= j
<1>1. PICK k \in X : \A j \in X : ~(<<j, k>> \in OpToRel(<, Nat))
  BY NatLessThanWellFounded, WFMin
<1>2. \A j \in X : ~(j < k)
  BY <1>1 DEF OpToRel
<1> QED BY <1>2

LEMMA LargestKey ==
  ASSUME NEW X \in SUBSET (1..MaxKey), X # {}
  PROVE  LastOf(X) \in 1..MaxKey
<1> USE CursorAssumption
<1> DEFINE Above == {m \in Nat : \A j \in X : j <= m}
<1>1. MaxKey \in Above
  OBVIOUS
<1>2. PICK m \in Above : \A n \in Above : m <= n
  BY <1>1, SmallestKey
<1>3. m \in X
  <2>1. SUFFICES ASSUME m \notin X PROVE FALSE
    OBVIOUS
  <2>2. \A j \in X : j < m
    BY <2>1
  <2>3. m > 0
    <3>1. PICK j \in X : j < m
      BY <2>2
    <3> QED BY <3>1
  <2>4. m - 1 \in Above
    BY <2>2, <2>3
  <2> QED BY <1>2, <2>4
<1>4. \E k \in X : \A j \in X : j <= k
  BY <1>3
<1> QED BY <1>4 DEF LastOf

LEMMA FirstExists ==
  ASSUME NEW X \in SUBSET Nat, X # {}
  PROVE  FirstOf(X) # {}
<1>1. PICK k \in X : \A j \in X : k <= j
  BY SmallestKey
<1>2. {j \in X : j < k} = {}
  <2>1. ASSUME NEW j \in X PROVE ~(j < k)
    <3>1. j \in Nat /\ k \in Nat
      OBVIOUS
    <3> QED BY <1>1, <3>1
  <2> QED BY <2>1
<1>3. Cardinality({j \in X : j < k}) < Limit
  BY <1>2, FS_EmptySet, CursorAssumption
<1> QED BY <1>1, <1>3 DEF FirstOf

LEMMA PageType ==
  ASSUME TypeOK, NEW a \in Requests
  PROVE  Page(a) \in Answers /\ Page(a).filter = a.filter /\ Page(a).slot = a.slot
<1> DEFINE rest == After(a.filter, a.cursor)
           got == FirstOf(rest)
           more == got # rest
<1>1. rest \in SUBSET (1..MaxKey)
  BY DEF After, TypeOK, Requests
<1>2. got \in SUBSET rest
  BY DEF FirstOf
<1>3. more => LastOf(got) \in Cursors
  <2>1. SUFFICES ASSUME more PROVE LastOf(got) \in 1..MaxKey
    BY CursorAssumption DEF Cursors
  <2>2. rest # {} /\ rest \in SUBSET Nat
    BY <1>1, <1>2, <2>1, CursorAssumption
  <2>3. got # {}
    BY <2>2, FirstExists
  <2> QED BY <1>1, <1>2, <2>3, LargestKey
<1>4. (IF more THEN LastOf(got) ELSE NoCursor) \in Cursors
  BY <1>3, CursorAssumption DEF Cursors, NoCursor
<1>5. Page(a) = [filter |-> a.filter, slot |-> a.slot, cursor |-> a.cursor, rows |-> got,
                 more |-> more, next |-> IF more THEN LastOf(got) ELSE NoCursor]
  BY DEF Page
<1> HIDE DEF got, more, rest
<1>6. got \in SUBSET (1..MaxKey) /\ more \in BOOLEAN
  BY <1>1, <1>2 DEF more
<1> QED BY <1>4, <1>5, <1>6 DEF Answers, Requests

(* What a render asks for, and the key it is cached under.                 *)
LEMMA AskedType ==
  ASSUME TypeOK
  PROVE  Asked \in Requests /\ Asked.filter = filter /\ Asked.slot = idx
<1>1. Cursor \in Cursors
  <2>1. CASE NeedFetch /\ idx > 0 /\ pages[idx - 1] # Hole
    <3>1. idx - 1 \in Indexes
      BY <2>1, CursorAssumption DEF TypeOK, Indexes
    <3>2. pages[idx - 1] \in Answers
      BY <2>1, <3>1 DEF TypeOK
    <3> QED BY <2>1, <3>2 DEF Cursor, Answers
  <2>2. CASE ~(NeedFetch /\ idx > 0 /\ pages[idx - 1] # Hole)
    BY <2>2, CursorAssumption DEF Cursor, NoCursor, Cursors
  <2> QED BY <2>1, <2>2
<1> QED BY <1>1 DEF Asked, Requests, TypeOK

LEMMA KeyType ==
  ASSUME NEW a \in Requests
  PROVE  KeyOf(a) \in QueryKeys /\ KeyOf(a)[1] = a.filter /\ KeyOf(a)[2] = a.slot
BY DEF KeyOf, Requests, QueryKeys

-----------------------------------------------------------------------------
LEMMA InitInv == Init => IInv
<1> SUFFICES ASSUME Init PROVE IInv
  OBVIOUS
<1>1. /\ rows \in [Filters -> SUBSET (1..MaxKey)]
      /\ idx \in Indexes /\ depth \in 0..MaxPages
      /\ writes \in 0..MaxWrites /\ evicts \in 0..MaxEvicts
  BY CursorAssumption DEF Init, Indexes
<1>2. CacheInv /\ cache \in [QueryKeys -> Answers \cup {NoData}]
  BY DEF Init, EmptyCache, CacheInv
<1>3. StackInv /\ pages \in [Indexes -> Answers \cup {Hole}]
  BY DEF Init, Empty, StackInv
<1> QED BY <1>1, <1>2, <1>3, CursorAssumption DEF Init, IInv, TypeOK

(* The state the effects leave: emptied when the filters changed, then the *)
(* answer of this render's own key in the slot this render was for.        *)
LEMMA RenderStack ==
  ASSUME IInv, Render
  PROVE  /\ pages' \in [Indexes -> Answers \cup {Hole}]
         /\ depth' \in 0..MaxPages /\ idx' \in Indexes
         /\ StackInv'
<1> DEFINE key == KeyOf(Asked)
<1>1. key \in QueryKeys /\ key[1] = filter /\ key[2] = idx /\ idx \in Indexes
  BY AskedType, KeyType DEF IInv, TypeOK
<1>2. Data # NoData => Data \in Answers /\ Data.filter = filter /\ Data.slot = idx
  BY <1>1 DEF Data, IInv, TypeOK, CacheInv
<1>3. /\ Reset.pages \in [Indexes -> Answers \cup {Hole}]
      /\ Reset.depth \in 0..MaxPages /\ Reset.idx \in Indexes
      /\ \A i \in Indexes : Reset.pages[i] # Hole =>
           Reset.pages[i].filter = filter /\ Reset.pages[i].slot = i
  <2>1. CASE filter = seenFilter
    BY <2>1 DEF Reset, IInv, TypeOK, StackInv
  <2>2. CASE filter # seenFilter
    BY <2>2, CursorAssumption DEF Reset, Empty, Indexes
  <2> QED BY <2>1, <2>2
<1>4. CASE Effects.state = Reset
  BY <1>3, <1>4 DEF Render, StackInv
<1>5. CASE Data # NoData /\ Effects.state = Commit(Reset, idx, Data)
  <2>1. /\ pages' = [Reset.pages EXCEPT ![idx] = Data]
        /\ depth' = IF idx < Reset.depth THEN Reset.depth ELSE idx + 1
        /\ idx' = Reset.idx /\ seenFilter' = filter
    BY <1>5 DEF Render, Commit, Reset
  <2>2. depth' \in 0..MaxPages
    BY <1>1, <1>3, <2>1, CursorAssumption DEF Indexes
  <2> QED BY <1>1, <1>2, <1>3, <1>5, <2>1, <2>2 DEF StackInv
<1> QED BY <1>4, <1>5 DEF Effects

LEMMA NextInv == IInv /\ [Next]_vars => IInv'
<1> SUFFICES ASSUME IInv, [Next]_vars PROVE IInv'
  OBVIOUS
<1> USE CursorAssumption
<1>1. CASE Render
  <2>1. Asked \in Requests
    BY AskedType DEF IInv
  <2>2. Effects.throws \in BOOLEAN /\ Effects.again \in BOOLEAN
    BY DEF Effects, Throws
  <2>3. TypeOK'
    BY <1>1, <2>1, <2>2, RenderStack DEF Render, IInv, TypeOK
  <2>4. CacheInv'
    BY <1>1 DEF Render, IInv, CacheInv
  <2> QED BY <1>1, <2>3, <2>4, RenderStack DEF IInv
<1>2. ASSUME NEW i \in Indexes, Turn(i) PROVE IInv'
  BY <1>2 DEF Turn, IInv, TypeOK, CacheInv, StackInv
<1>3. CASE LoadNext
  <2>1. idx + 1 \in Indexes
    BY <1>3 DEF LoadNext, IInv, TypeOK, Indexes
  <2> QED BY <1>2, <1>3, <2>1 DEF LoadNext
<1>4. CASE LoadPrevious
  <2>1. idx - 1 \in Indexes
    BY <1>4 DEF LoadPrevious, IInv, TypeOK, Indexes
  <2> QED BY <1>2, <1>4, <2>1 DEF LoadPrevious
<1>5. CASE Answer
  <2>1. fetching \in Requests
    BY <1>5 DEF Answer, IInv, TypeOK
  <2>2. /\ Page(fetching) \in Answers
        /\ Page(fetching).filter = KeyOf(fetching)[1]
        /\ Page(fetching).slot = KeyOf(fetching)[2]
    BY <2>1, PageType, KeyType DEF IInv
  <2>3. cache' = [cache EXCEPT ![KeyOf(fetching)] = Page(fetching)]
    BY <1>5 DEF Answer
  <2>4. CacheInv' /\ cache' \in [QueryKeys -> Answers \cup {NoData}]
    BY <2>2, <2>3 DEF IInv, TypeOK, CacheInv
  <2> QED BY <1>5, <2>4 DEF Answer, IInv, TypeOK, StackInv
<1>6. CASE Fail
  BY <1>6 DEF Fail, ui, IInv, TypeOK, CacheInv, StackInv
<1>7. CASE Refetch \/ Invalidate
  BY <1>7, AskedType DEF Refetch, Invalidate, ui, IInv, TypeOK, CacheInv, StackInv
<1>8. CASE Reload
  <2>1. CacheInv' /\ cache' \in [QueryKeys -> Answers \cup {NoData}]
    BY <1>8 DEF Reload, EmptyCache, CacheInv
  <2>2. StackInv' /\ pages' \in [Indexes -> Answers \cup {Hole}]
    BY <1>8 DEF Reload, Empty, StackInv
  <2>3. idx' \in Indexes /\ depth' \in 0..MaxPages
    BY <1>8 DEF Reload, Indexes
  <2> QED BY <1>8, <2>1, <2>2, <2>3 DEF Reload, IInv, TypeOK
<1>9. ASSUME NEW f \in Filters, Refilter(f) PROVE IInv'
  BY <1>9 DEF Refilter, IInv, TypeOK, CacheInv, StackInv
<1>10. ASSUME NEW k \in QueryKeys, Evict(k) PROVE IInv'
  <2>1. CacheInv' /\ cache' \in [QueryKeys -> Answers \cup {NoData}]
    BY <1>10 DEF Evict, IInv, TypeOK, CacheInv
  <2>2. evicts' \in 0..MaxEvicts
    BY <1>10 DEF Evict, IInv, TypeOK
  <2> QED BY <1>10, <2>1, <2>2 DEF Evict, ui, IInv, TypeOK, StackInv
<1>11. ASSUME NEW f \in Filters, NEW k \in 1..MaxKey, Write(f, k) PROVE IInv'
  <2>1. rows' \in [Filters -> SUBSET (1..MaxKey)]
    BY <1>11 DEF Write, IInv, TypeOK
  <2>2. writes' \in 0..MaxWrites
    BY <1>11 DEF Write, IInv, TypeOK
  <2> QED BY <1>11, <2>1, <2>2 DEF Write, ui, IInv, TypeOK, CacheInv, StackInv
<1>12. CASE UNCHANGED vars
  BY <1>12 DEF vars, ui, IInv, TypeOK, CacheInv, StackInv
<1> QED BY <1>1, <1>3, <1>4, <1>5, <1>6, <1>7, <1>8, <1>9, <1>10, <1>11, <1>12 DEF Next

LEMMA Inductive == Spec => []IInv
BY InitInv, NextInv, PTL DEF Spec

-----------------------------------------------------------------------------
(* The hook's stack, the cache, the request in flight and the server's     *)
(* rows are well typed: in particular every cursor that is ever sent is    *)
(* one the server handed out, or none.                                     *)
THEOREM ListTypes == Spec => []TypeOK
<1>1. IInv => TypeOK
  BY DEF IInv
<1> QED BY Inductive, <1>1, PTL

(* Pages of different filters are never in the stack together.             *)
THEOREM StackHasOneFilter == Spec => []OneFilter
<1>1. IInv => OneFilter
  BY DEF IInv, StackInv, OneFilter
<1> QED BY Inductive, <1>1, PTL

(* A page is only ever committed to the slot it was asked for.             *)
THEOREM PagesKeepTheirSlot == Spec => []OwnSlot
<1>1. IInv => OwnSlot
  BY DEF IInv, StackInv, OwnSlot
<1> QED BY Inductive, <1>1, PTL
-----------------------------------------------------------------------------
(* The toolbar. *)

(* A timer that still runs is for the text in the box; nothing was entered *)
(* since the filters were cleared.                                         *)
TimersCurrent == timers \subseteq {box}
StaysCleared ==
  cleared => box = Blank /\ range = {} /\ \A c \in DOMAIN picks : picks[c] = Blank

ToolbarInv == ToolbarTypeOK /\ TimersCurrent /\ StaysCleared

-----------------------------------------------------------------------------
(* Every page searches, filters and sorts by columns its handler knows.    *)
LEMMA PagesAreKnown ==
  ASSUME page \in DOMAIN SearchOf
  PROVE  S.selects \cup S.typed \cup T.sorts \cup {S.text, S.dates} \subseteq Known
BY DEF SearchOf, TableOf, SearchColumns, DefaultColumns, S, T, Known, Search, Table,
  DeadlinesSearch, DeadlinesTable, ViolationsSearch, ViolationsTable,
  CompliancesSearch, CompliancesTable, AuditsSearch, AuditsTable,
  CorrectiveActionsSearch, CorrectiveActionsTable, RegulationsSearch,
  RegulationsTable, ChecklistsSearch, ChecklistsTable, UsersSearch, UsersTable,
  ReportsSearch, ReportsTable, AlertsSearch, AlertsTable, AuditLogsSearch,
  AuditLogsTable

(* On every page "Clear filters" resets each select and typed filter.      *)
LEMMA PagesAreCleared ==
  ASSUME page \in DOMAIN SearchOf
  PROVE  S.selects \cup S.typed \subseteq T.clears
BY DEF SearchOf, TableOf, S, T, Search, Table,
  DeadlinesSearch, DeadlinesTable, ViolationsSearch, ViolationsTable,
  CompliancesSearch, CompliancesTable, AuditsSearch, AuditsTable,
  CorrectiveActionsSearch, CorrectiveActionsTable, RegulationsSearch,
  RegulationsTable, ChecklistsSearch, ChecklistsTable, UsersSearch, UsersTable,
  ReportsSearch, ReportsTable, AlertsSearch, AlertsTable, AuditLogsSearch,
  AuditLogsTable

LEMMA InitToolbar == ToolbarInit => ToolbarInv
<1> SUFFICES ASSUME ToolbarInit PROVE ToolbarInv
  OBVIOUS
<1>1. picks \in [S.selects \cup S.typed -> Texts \cup {Part}]
  BY DEF ToolbarInit, Texts
<1>2. edits \in 0..MaxEdits
  BY ToolbarAssumption DEF ToolbarInit
<1> QED BY <1>1, <1>2 DEF ToolbarInit, ToolbarInv, ToolbarTypeOK, TimersCurrent, StaysCleared, Texts

(* One case per action: what a user enters, what a timer sets, and what    *)
(* the request's answer does.                                              *)
LEMMA NextToolbar == ToolbarInv /\ [ToolbarNext]_toolbarVars => ToolbarInv'
<1> SUFFICES ASSUME ToolbarInv, [ToolbarNext]_toolbarVars PROVE ToolbarInv'
  OBVIOUS
<1> USE ToolbarAssumption DEF ToolbarInv, ToolbarTypeOK, TimersCurrent, StaysCleared, Texts, Sorts
<1>1. ASSUME page' = page PROVE S' = S /\ T' = T
  BY <1>1 DEF S, T
<1>0. ASSUME Edit PROVE page' = page /\ edits' \in 0..MaxEdits
  BY <1>0 DEF Edit
<1>2. CASE Clear
  <2>1. page' = page /\ edits' \in 0..MaxEdits
    BY <1>0, <1>2 DEF Clear
  <2>2. \A c \in DOMAIN picks' : picks'[c] = Blank
    BY <1>2, PagesAreCleared DEF Clear
  <2> QED BY <1>1, <1>2, <2>1, <2>2 DEF Clear, Debounce, Ask
<1>3. CASE AnswerSearch
  BY <1>1, <1>3 DEF AnswerSearch, toolbar
<1>4. CASE FailSearch
  BY <1>1, <1>4 DEF FailSearch, toolbar
<1>5. CASE Retry
  BY <1>1, <1>5 DEF Retry, toolbar
<1>6. ASSUME NEW v \in Words \cup {Blank}, Type(v) PROVE ToolbarInv'
  BY <1>0, <1>1, <1>6 DEF Type, Debounce
<1>7. ASSUME NEW v \in Words \cup {Blank}, Settle(v) PROVE ToolbarInv'
  BY <1>1, <1>7 DEF Settle, Ask
<1>8. ASSUME NEW c \in S.selects \cup S.typed, NEW v \in Words \cup {Blank, Part},
             Choose(c, v)
      PROVE  ToolbarInv'
  BY <1>0, <1>1, <1>8 DEF Choose, Ask
<1>9. ASSUME NEW ends \in SUBSET {"from", "to"}, Dates(ends) PROVE ToolbarInv'
  BY <1>0, <1>1, <1>9 DEF Dates, Ask
<1>10. ASSUME NEW c \in T.sorts, ToggleSort(c) PROVE ToolbarInv'
  <2>1. sort' \in Sorts
    BY <1>10 DEF ToggleSort, Toggled
  <2> QED BY <1>1, <1>10, <2>1 DEF ToggleSort, Edit, Ask, toolbar
<1>11. CASE UNCHANGED toolbarVars
  BY <1>1, <1>11 DEF toolbarVars, toolbar
<1> QED
  BY <1>2, <1>3, <1>4, <1>5, <1>6, <1>7, <1>8, <1>9, <1>10, <1>11 DEF ToolbarNext

(* Whatever the user sets up, the columns of the request are the page's.   *)
LEMMA InvAccepted == ToolbarInv => SearchAccepted
<1> SUFFICES ASSUME ToolbarInv PROVE Columns(Query) \subseteq Known
  BY DEF SearchAccepted
<1>1. DOMAIN Query.filters \subseteq S.selects \cup S.typed \cup {S.text}
  BY DEF Query, ActiveFilters
<1>2. Query.sort = NoSort \/ Query.sort.column \in T.sorts
  BY DEF Query, ToolbarInv, ToolbarTypeOK, Sorts
<1>3. Query.range = NoRange \/ Query.range.field = S.dates
  BY DEF Query, DateRange
<1> QED BY <1>1, <1>2, <1>3, PagesAreKnown DEF Columns, ToolbarInv, ToolbarTypeOK

LEMMA InvCleared == ToolbarInv => ClearIsComplete
<1> SUFFICES ASSUME ToolbarInv, cleared, debounced = box
             PROVE  Query.filters = <<>> /\ Query.range = NoRange
  BY DEF ClearIsComplete
<1>1. ActiveFilters = {}
  BY DEF ActiveFilters, ToolbarInv, ToolbarTypeOK, StaysCleared
<1>2. Query.filters = <<>>
  BY <1>1 DEF Query
<1> QED BY <1>2 DEF Query, DateRange, ToolbarInv, StaysCleared

(* Only a timer sets the text searched for, and it is for the box's text.  *)
LEMMA StepCurrent == ToolbarInv /\ [ToolbarNext]_toolbarVars => [debounced' # debounced => debounced' = box]_toolbarVars
<1> SUFFICES ASSUME ToolbarInv, ToolbarNext, debounced' # debounced PROVE debounced' = box
  BY DEF toolbarVars
<1>1. PICK v \in Words \cup {Blank} : Settle(v)
  BY DEF ToolbarNext, Clear, AnswerSearch, FailSearch, Retry, Type, Choose, Dates, ToggleSort, toolbar
<1> QED BY <1>1 DEF Settle, ToolbarInv, TimersCurrent

LEMMA ToolbarInductive == ToolbarSpec => []ToolbarInv
BY InitToolbar, NextToolbar, PTL DEF ToolbarSpec

-----------------------------------------------------------------------------
(* The state of every page's toolbar and request is well typed.            *)
THEOREM ToolbarTypes == ToolbarSpec => []ToolbarTypeOK
<1>1. ToolbarInv => ToolbarTypeOK
  BY DEF ToolbarInv
<1> QED BY ToolbarInductive, <1>1, PTL

(* No combination of text, filters, dates and sort header of any page is   *)
(* refused for a column its search handler does not know.                  *)
THEOREM NoSearchRefused == ToolbarSpec => []SearchAccepted
BY ToolbarInductive, InvAccepted, PTL

(* "Clear filters" clears them all, also with a text on its way.           *)
THEOREM ClearClearsAll == ToolbarSpec => []ClearIsComplete
BY ToolbarInductive, InvCleared, PTL

(* The list is never searched for a text that left the box.                *)
THEOREM SearchesTheBox == ToolbarSpec => TextIsCurrent
BY ToolbarInductive, StepCurrent, PTL DEF ToolbarSpec, TextIsCurrent
=============================================================================
