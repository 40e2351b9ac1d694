----------------------------- MODULE RpcPaging -----------------------------
(***************************************************************************)
(* Paging through getTransactions, getEvents and getLedgers of stellar-rpc *)
(* while ledgers are ingested and trimmed: one client follows one endpoint *)
(* with the cursors it is given.                                           *)
(***************************************************************************)
EXTENDS Integers, FiniteSets, FiniteSetsExt, Sequences

CONSTANTS
    Kinds,          \* the endpoints a client may use
    Retention,      \* ledgers in the database
    ScanLimit,      \* LedgerScanLimit
    Datastore,      \* older ledgers can be had from the datastore
    Limits,         \* page sizes
    MaxItems,       \* most items of a ledger
    MaxLedger       \* bounds

PagingAssumption ==
    /\ Kinds \subseteq {"transactions", "events", "ledgers"}
    /\ Retention \in Nat \ {0} /\ ScanLimit \in Nat /\ ScanLimit >= 2

VARIABLES
    count,          \* items of each ledger, from the first to the latest
    kind,
    cursor,         \* the cursor the client holds
    first,          \* the position where it began
    seen,           \* the items it was given
    repeated,       \* history: it was given an item twice
    scan            \* a getEvents request between its two reads

vars == <<count, kind, cursor, first, seen, repeated, scan>>

None == [ledger |-> 0, index |-> 0]
NoScan == [start |-> None, end |-> 0, limit |-> 0]

Latest == Len(count)
Oldest == Max({1, Latest - Retention + 1})
Before(p, q) == p.ledger < q.ledger \/ (p.ledger = q.ledger /\ p.index < q.index)
Items == UNION {[ledger : {l}, index : 1 .. count[l]] : l \in 1 .. Latest}

\* The largest index of MaxCursor; incrementing its event index wraps to an
\* index that is still after every event of the ledger.
LastIndex == MaxItems + 1

Init ==
    /\ \E n \in 0 .. MaxItems : count = <<n>>
    /\ kind \in Kinds
    /\ cursor = None /\ first = None /\ seen = {} /\ repeated = FALSE /\ scan = NoScan

\* A ledger of the kind "ledgers" has itself as its only item.
CloseLedger ==
    /\ Latest < MaxLedger
    /\ \E n \in 0 .. MaxItems : count' = Append(count, n)
    /\ UNCHANGED <<kind, cursor, first, seen, repeated, scan>>

-----------------------------------------------------------------------------
Page(candidates, limit) ==
    {p \in candidates : Cardinality({q \in candidates : Before(q, p)}) < limit}
LastOf(page) == CHOOSE p \in page : \A q \in page : ~Before(p, q)

Given(page, next) ==
    /\ seen' = seen \union page
    /\ repeated' = (repeated \/ page \intersect seen # {})
    /\ cursor' = next

\* The client cannot go on from its cursor and begins anew.
BeginAnew == cursor' = None /\ first' = None /\ seen' = {} /\ UNCHANGED repeated

-----------------------------------------------------------------------------
\* getTransactions, in one read transaction.
TransactionStart(l) ==
    IF cursor = None THEN [ledger |-> l, index |-> 1]
                     ELSE [cursor EXCEPT !.index = @ + 1]

\* The cursor of processTransactionsInLedger for the last ledger visited.
TransactionCursorNext(start, limit, page) ==
    IF Cardinality(page) = limit THEN LastOf(page) ELSE [ledger |-> Latest + 1, index |-> 0]

TransactionCursor(start, limit, page) ==
    IF Cardinality(page) = limit THEN LastOf(page)
    ELSE LET startTxIdx == IF start.ledger = Latest THEN start.index ELSE 1
         IN  [ledger |-> Latest, index |-> IF startTxIdx <= count[Latest] THEN count[Latest] ELSE 0]

GetTransactions ==
    /\ kind = "transactions"
    /\ \E l \in Oldest .. Latest, limit \in Limits :
          LET start == TransactionStart(l)
              page  == Page({p \in Items : ~Before(p, start)}, limit)
          IN  /\ start.ledger >= Oldest
              /\ Given(page, TransactionCursor(start, limit, page))
              /\ first' = IF cursor = None THEN start ELSE first
    /\ UNCHANGED <<count, kind, scan>>

\* A ledger that is not in the database is an error.
GetTransactionsFails ==
    /\ kind = "transactions" /\ cursor # None /\ cursor.ledger < Oldest
    /\ BeginAnew
    /\ UNCHANGED <<count, kind, scan>>

-----------------------------------------------------------------------------
\* getEvents reads the ledger range ...
EventStartAtCursor(l) ==
    IF cursor = None THEN [ledger |-> l, index |-> 0] ELSE cursor

EventStart(l) ==
    IF cursor = None THEN [ledger |-> l, index |-> 0]
    ELSE [cursor EXCEPT !.index = IF @ = LastIndex THEN LastIndex ELSE @ + 1]

GetEvents ==
    /\ kind = "events" /\ scan = NoScan
    /\ \E l \in Oldest .. Latest, limit \in Limits :
          LET start == EventStart(l)
          IN  /\ start.ledger \in Oldest .. Latest
              /\ scan' = [start |-> start, end |-> Min({Latest + 1, start.ledger + ScanLimit}), limit |-> limit]
              /\ first' = IF cursor = None THEN start ELSE first
    /\ UNCHANGED <<count, kind, cursor, seen, repeated>>

GetEventsFails ==
    /\ kind = "events" /\ scan = NoScan /\ cursor # None /\ cursor.ledger < Oldest
    /\ BeginAnew
    /\ UNCHANGED <<count, kind, scan>>

\* ... and the events in a statement of its own.
EventCursorAtEnd(page) ==
    IF Cardinality(page) = scan.limit THEN LastOf(page) ELSE [ledger |-> scan.end, index |-> LastIndex]

EventCursor(page) ==
    IF Cardinality(page) = scan.limit THEN LastOf(page) ELSE [ledger |-> scan.end - 1, index |-> LastIndex]

EventRows == {p \in Items : p.ledger >= Oldest /\ p.ledger < scan.end /\ ~Before(p, scan.start)}

ScanEvents ==
    /\ scan # NoScan
    /\ LET page == Page(EventRows, scan.limit)
       IN  Given(page, EventCursor(page))
    /\ scan' = NoScan
    /\ UNCHANGED <<count, kind, first>>

-----------------------------------------------------------------------------
\* getLedgers, in one read transaction; what is older comes from the datastore.
AvailableFirst == IF Datastore THEN 1 ELSE Oldest
LedgerItem(l) == [ledger |-> l, index |-> 1]

FetchedLedgers(start, end) ==
    {l \in start .. Min({end, Oldest - 1}) : Datastore} \union (Max({start, Oldest}) .. Min({end, Latest}))

GetLedgers ==
    /\ kind = "ledgers"
    /\ \E l \in AvailableFirst .. Latest, limit \in Limits :
          LET start == IF cursor = None THEN l ELSE cursor.ledger + 1
              page  == {LedgerItem(k) : k \in FetchedLedgers(start, start + limit - 1)}
          IN  /\ start \in AvailableFirst .. Latest
              /\ Given(page, IF page # {} THEN LastOf(page)
                             ELSE IF cursor # None THEN cursor ELSE LedgerItem(start - 1))
              /\ first' = IF cursor = None THEN LedgerItem(start) ELSE first
    /\ UNCHANGED <<count, kind, scan>>

GetLedgersFails ==
    /\ kind = "ledgers" /\ cursor # None /\ cursor.ledger + 1 < AvailableFirst
    /\ BeginAnew
    /\ UNCHANGED <<count, kind, scan>>

Next ==
    \/ CloseLedger
    \/ GetTransactions \/ GetTransactionsFails
    \/ GetEvents \/ GetEventsFails \/ ScanEvents
    \/ GetLedgers \/ GetLedgersFails

Spec == Init /\ [][Next]_vars

-----------------------------------------------------------------------------
TypeOK ==
    /\ count \in Seq(0 .. MaxItems) /\ Latest \in 1 .. MaxLedger /\ kind \in Kinds
    /\ cursor \in [ledger : 0 .. MaxLedger, index : 0 .. LastIndex]
    /\ seen \subseteq [ledger : 1 .. MaxLedger, index : 1 .. MaxItems + 1]

AllItems == IF kind = "ledgers" THEN {LedgerItem(l) : l \in 1 .. Latest} ELSE Items

\* The client has been given everything from where it began up to its cursor,
\* except what was trimmed before it was read: no ledger that closes between
\* two pages, or inside one, hides an item behind the cursor.
NothingSkipped ==
    \A p \in AllItems :
        ~Before(p, first) /\ ~Before(cursor, p) /\ first # None => p \in seen \/ p.ledger < Oldest

\* Following the cursors never gives an item twice.
SeenOnce == ~repeated
=============================================================================
