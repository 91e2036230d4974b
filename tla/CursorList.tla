----------------------------- MODULE CursorList -----------------------------
(***************************************************************************)
(* hooks/useCursorList.ts with the buttons of PaginationBar.tsx and the    *)
(* search handler's keyset pages: the list behind every entity page.       *)
(* React renders the hook and then runs its effects (Render); clicks,      *)
(* answers and cache events happen between renders and make the last one   *)
(* stale.  The query cache keeps answers by key; the hook keeps its own    *)
(* stack of committed answers, indexed from 0 as in the code.              *)
(***************************************************************************)
EXTENDS Integers, FiniteSets

CONSTANTS
  Filters,    \* values of depsKey: sort, filters, date range and limit
  NoFilter,   \* the one a page opens with
  Sizes,      \* numbers of rows a filter may select at first
  MaxKey,     \* rows have sort keys 1..MaxKey
  Limit,      \* rows of a page
  MaxPages,   \* bound: pages a user walks through
  MaxWrites,  \* bound: changes of the rows on the server
  MaxEvicts,  \* bound: answers the query cache drops (gcTime)
  Hole, NoData, NoFetch

ASSUME CursorAssumption ==
  /\ MaxKey \in Nat /\ Limit \in Nat \ {0} /\ MaxPages \in Nat \ {0}
  /\ MaxWrites \in Nat /\ MaxEvicts \in Nat
  /\ NoFilter \in Filters /\ Sizes \subseteq 0..MaxKey

VARIABLES
  rows,       \* server: the keys of the rows each filter selects
  filter,     \* depsKey of the current props
  pages,      \* the stack: an answer, or a hole of the array, per index
  depth,      \* pages.length
  idx,        \* activeIdx
  cache,      \* the query cache: an answer per query key
  fetching,   \* the request in flight for the observed key
  seen,       \* what the last render's effects saw: key, data, activeIdx
  seenFilter, \* what the last render's reset effect saw
  stale,      \* a render is due
  crashed,    \* a render threw: the page is gone until a reload
  writes, evicts

ui == <<filter, pages, depth, idx, seen, seenFilter, stale, crashed>>
vars == <<rows, cache, fetching, writes, evicts, ui>>

NoCursor == 0
Cursors == 0..MaxKey
Indexes == 0..(MaxPages - 1)
QueryKeys == Filters \X Indexes \X Cursors

-----------------------------------------------------------------------------
(* The server: a keyset page of the rows after the cursor.                 *)

After(f, c) == {k \in rows[f] : k > c}
FirstOf(S) == {k \in S : Cardinality({j \in S : j < k}) < Limit}
LastOf(S) == CHOOSE k \in S : \A j \in S : j <= k

Page(a) ==
  LET rest == After(a.filter, a.cursor)
      got == FirstOf(rest)
      more == got # rest
  IN [filter |-> a.filter, slot |-> a.slot, cursor |-> a.cursor, rows |-> got,
      more |-> more, next |-> IF more THEN LastOf(got) ELSE NoCursor]

-----------------------------------------------------------------------------
(* What a render computes from the props, the state and the query cache.   *)

NeedFetch == idx >= depth
Cursor == IF NeedFetch /\ idx > 0 /\ pages[idx - 1] # Hole
          THEN pages[idx - 1].next ELSE NoCursor
Asked == [filter |-> filter, slot |-> idx, cursor |-> Cursor]

\* Mutant of KeyOf: the query key leaves activeIdx out.
KeyWithoutIndex(a) == <<a.filter, 0, NoCursor>>
KeyOf(a) == <<a.filter, a.slot, a.cursor>>
Data == cache[KeyOf(Asked)]
HasMore == ~NeedFetch /\ pages[idx] # Hole /\ pages[idx].more

Empty == [i \in Indexes |-> Hole]

\* Mutant of Reset: a change of filters only goes back to the first page.
ResetIndexOnly ==
  [pages |-> pages, depth |-> depth, idx |-> IF filter = seenFilter THEN idx ELSE 0]

\* The reset effect, and the state updates of the commit effect after it: the
\* entry at activeIdx is appended, or replaced with its start kept, which
\* reads the entry there is.
Reset == IF filter = seenFilter
         THEN [pages |-> pages, depth |-> depth, idx |-> idx]
         ELSE [pages |-> Empty, depth |-> 0, idx |-> 0]

Commit(s, i, d) ==
  [s EXCEPT !.pages[i] = d, !.depth = IF i < @ THEN @ ELSE i + 1]
Throws(s, i) == i < s.depth /\ s.pages[i] = Hole

\* Mutant of Effects: the commit effect is declared before the reset effect.
CommitThenReset ==
  LET fresh == [key |-> KeyOf(Asked), data |-> Data, slot |-> idx]
      commits == Data # NoData /\ fresh # seen
      here == [pages |-> pages, depth |-> depth, idx |-> idx]
  IN [state |-> IF commits /\ filter = seenFilter
                THEN Commit(here, idx, Data) ELSE Reset,
      seen |-> fresh,
      throws |-> commits /\ Throws(here, idx),
      again |-> commits \/ filter # seenFilter]

Effects ==
  LET fresh == [key |-> KeyOf(Asked), data |-> Data, slot |-> idx]
      commits == Data # NoData /\ fresh # seen
  IN [state |-> IF commits THEN Commit(Reset, idx, Data) ELSE Reset,
      seen |-> fresh,
      throws |-> commits /\ Throws(Reset, idx),
      again |-> commits \/ filter # seenFilter]

-----------------------------------------------------------------------------
EmptyCache == [k \in QueryKeys |-> NoData]
Unseen == [key |-> NoFetch, data |-> NoData, slot |-> 0]

Init ==
  /\ rows \in [Filters -> {1..n : n \in Sizes}]
  /\ filter = NoFilter /\ seenFilter = filter
  /\ pages = Empty /\ depth = 0 /\ idx = 0
  /\ cache = EmptyCache /\ fetching = NoFetch /\ seen = Unseen
  /\ stale = TRUE /\ crashed = FALSE
  /\ writes = 0 /\ evicts = 0

\* A render and its effects: the observer moves to the render's key (which
\* cancels a request for another key and asks for this one, cached or not),
\* the reset effect runs, then the commit effect.
Render ==
  /\ stale /\ ~crashed
  /\ fetching' = IF KeyOf(Asked) = seen.key THEN fetching ELSE Asked
  /\ pages' = Effects.state.pages /\ depth' = Effects.state.depth
  /\ idx' = Effects.state.idx
  /\ seen' = Effects.seen /\ seenFilter' = filter
  /\ stale' = Effects.again
  /\ crashed' = Effects.throws
  /\ UNCHANGED <<rows, filter, cache, writes, evicts>>

\* The user changes the search, a select, the dates or the sort column.
Refilter(f) ==
  /\ ~stale /\ ~crashed /\ f # filter
  /\ filter' = f /\ stale' = TRUE
  /\ UNCHANGED <<rows, pages, depth, idx, cache, fetching, seen, seenFilter,
                 crashed, writes, evicts>>

Turn(i) ==
  /\ ~stale /\ ~crashed
  /\ idx' = i /\ stale' = TRUE
  /\ UNCHANGED <<rows, filter, pages, depth, cache, fetching, seen, seenFilter,
                 crashed, writes, evicts>>

LoadNext == ~NeedFetch /\ HasMore /\ idx + 1 < MaxPages /\ Turn(idx + 1)
LoadPrevious == idx > 0 /\ Turn(idx - 1)

Answer ==
  /\ fetching # NoFetch
  /\ cache' = [cache EXCEPT ![KeyOf(fetching)] = Page(fetching)]
  /\ fetching' = NoFetch /\ stale' = TRUE
  /\ UNCHANGED <<rows, filter, pages, depth, idx, seen, seenFilter, crashed,
                 writes, evicts>>

\* The request and its one retry fail; the cache keeps what it had.
Fail ==
  /\ fetching # NoFetch /\ fetching' = NoFetch
  /\ UNCHANGED <<rows, cache, writes, evicts, ui>>

\* The retry button of a failed load.
Refetch ==
  /\ ~stale /\ ~crashed /\ NeedFetch /\ fetching = NoFetch
  /\ fetching' = Asked
  /\ UNCHANGED <<rows, cache, writes, evicts, ui>>

\* invalidateQueries after a mutation: the observed query is asked again.
Invalidate ==
  /\ ~stale /\ ~crashed /\ fetching # Asked
  /\ fetching' = Asked
  /\ UNCHANGED <<rows, cache, writes, evicts, ui>>

\* gcTime: an answer nobody observes is dropped.
Evict(k) ==
  /\ evicts < MaxEvicts /\ k # seen.key /\ cache[k] # NoData
  /\ cache' = [cache EXCEPT ![k] = NoData] /\ evicts' = evicts + 1
  /\ UNCHANGED <<rows, fetching, writes, ui>>

\* Someone inserts or deletes a row.
Write(f, k) ==
  /\ writes < MaxWrites
  /\ rows' = [rows EXCEPT ![f] = IF k \in @ THEN @ \ {k} ELSE @ \cup {k}]
  /\ writes' = writes + 1
  /\ UNCHANGED <<cache, fetching, evicts, ui>>

Reload ==
  /\ crashed
  /\ pages' = Empty /\ depth' = 0 /\ idx' = 0
  /\ cache' = EmptyCache /\ fetching' = NoFetch /\ seen' = Unseen
  /\ seenFilter' = filter /\ stale' = TRUE /\ crashed' = FALSE
  /\ UNCHANGED <<rows, filter, writes, evicts>>

Next ==
  \/ Render \/ LoadNext \/ LoadPrevious \/ Answer \/ Fail \/ Refetch
  \/ Invalidate \/ Reload
  \/ \E f \in Filters : Refilter(f)
  \/ \E k \in QueryKeys : Evict(k)
  \/ \E f \in Filters, k \in 1..MaxKey : Write(f, k)

Spec == Init /\ [][Next]_vars

\* React renders what is due, and a request is answered or fails.
FairSpec == Spec /\ WF_vars(Render) /\ WF_vars(Answer \/ Fail)

-----------------------------------------------------------------------------
Answers == [filter : Filters, slot : Indexes, cursor : Cursors,
            rows : SUBSET (1..MaxKey), more : BOOLEAN, next : Cursors]
Requests == [filter : Filters, slot : Indexes, cursor : Cursors]

\* Types of the hook's state, the cache and the server.
TypeOK ==
  /\ rows \in [Filters -> SUBSET (1..MaxKey)]
  /\ filter \in Filters /\ seenFilter \in Filters
  /\ pages \in [Indexes -> Answers \cup {Hole}]
  /\ depth \in 0..MaxPages /\ idx \in Indexes
  /\ cache \in [QueryKeys -> Answers \cup {NoData}]
  /\ fetching \in Requests \cup {NoFetch}
  /\ stale \in BOOLEAN /\ crashed \in BOOLEAN
  /\ writes \in 0..MaxWrites /\ evicts \in 0..MaxEvicts

\* The stack never mixes lists: once the effects have run, every committed
\* page answers a request for the filters on screen, however the user changes
\* them while answers, cached pages and renders are outstanding.
OneFilter ==
  ~crashed => \A i \in Indexes :
    pages[i] # Hole => pages[i].filter = seenFilter

\* An answer asked for while one page was on screen never lands in the slot of
\* another ("an in-flight fetch for a previous page can never overwrite a
\* different slot").
OwnSlot == \A i \in Indexes : pages[i] # Hole => pages[i].slot = i

Failed == ~stale /\ fetching = NoFetch /\ Data = NoData

\* A page that waits for its rows gets them, or shows the failure, unless the
\* user asks for something else: no order of answers and effects leaves the
\* list waiting with nothing on its way (Next is disabled while it waits).
EveryLoadEnds ==
  \A f \in Filters :
    NeedFetch /\ filter = f ~> ~NeedFetch \/ crashed \/ Failed \/ filter # f

\* "Pages are fetched one at a time (cursor = previous page's next_cursor),
\* committed to an in-memory stack": a page below the first was asked for with
\* a cursor.
PageFollows ==
  \A i \in Indexes : i > 0 /\ pages[i] # Hole => pages[i].cursor # NoCursor

\* The stack has no holes, so the page on screen is there to read.
StackIsDense == \A i \in Indexes : i < depth => pages[i] # Hole
=============================================================================
