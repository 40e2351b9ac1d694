------------------------ MODULE TransactionStreamer ------------------------
(***************************************************************************)
(* TransactionStreamer of suban-controller: polls of the newest records of *)
(* Horizon, which may overlap, and the buffers they fill for the clients   *)
(* of the realtime routes.                                                 *)
(*                                                                         *)
(* Records of a feed are numbered as they appear, and stay, as             *)
(* transactions and trades do.  Offers may disappear again: what is said   *)
(* here of a feed is said of transactions and trades only.  The back-off   *)
(* counts in steps of 5000 ms.                                             *)
(***************************************************************************)
EXTENDS Integers, Sequences, FiniteSets, FiniteSetsExt, SequencesExt

CONSTANTS
    Feeds,          \* the feeds in the order they are fetched
    Polls,          \* polls that may run at the same time
    Page,           \* limit of a request and of an event
    BufferSize,     \* BUFFER_SIZE
    MaxBackoff,     \* MAX_BACKOFF_MS
    MaxRecord, MaxLimited   \* bounds: records of a feed, rate limits in a row

\* A record is still listed while others are put in front of it: the rest of its own
\* page and of the listed one, and a page of each other poll both when it was taken
\* over and since it was listed.
StreamerAssumption == Page \in Nat \ {0} /\ BufferSize >= 2 * Page * Cardinality(Polls) - 1

VARIABLES
    head,           \* the newest record of each feed
    buffer, known,  \* transactions, trades, orders, and the ids known of them
    running, backoff, consecutive429s,
    poll,           \* where each poll is
    given, shown,   \* records taken over, and those some event had
    again           \* a record was taken over a second time

buffers == <<buffer, known, given, shown, again>>
vars == <<head, buffers, running, backoff, consecutive429s, poll>>

NoPoll == [at |-> "idle", feed |-> 0, reply |-> 0, passed |-> {}, limited |-> FALSE]
Get(n, limited) == [at |-> "get", feed |-> n, reply |-> 0, passed |-> {}, limited |-> limited]
Names == Range(Feeds)
Larger(a, b) == IF a > b THEN a ELSE b
Smaller(a, b) == IF a < b THEN a ELSE b

TypeOK ==
    /\ head \in [Names -> 0 .. MaxRecord]
    /\ \A f \in Names : Range(buffer[f]) \subseteq 1 .. head[f]
    /\ backoff \in 0 .. MaxBackoff /\ consecutive429s \in 0 .. MaxLimited
    /\ \A p \in Polls : poll[p].at \in {"idle", "backoff", "get", "reply"} /\ poll[p].feed \in 0 .. Len(Feeds)

Init ==
    /\ head = [f \in Names |-> 0] /\ buffer = [f \in Names |-> <<>>] /\ known = [f \in Names |-> {}]
    /\ running = FALSE /\ backoff = 0 /\ consecutive429s = 0
    /\ poll = [p \in Polls |-> NoPoll]
    /\ given = [f \in Names |-> {}] /\ shown = [f \in Names |-> {}] /\ again = FALSE

NewRecord(f) ==
    /\ head[f] < MaxRecord
    /\ head' = [head EXCEPT ![f] = @ + 1]
    /\ UNCHANGED <<buffers, running, backoff, consecutive429s, poll>>

-----------------------------------------------------------------------------
\* poll, up to its first await.
BeginPoll(p) ==
    /\ poll[p].at = "idle"
    /\ poll' = [poll EXCEPT ![p] = IF backoff > 0 THEN [NoPoll EXCEPT !.at = "backoff"] ELSE Get(1, FALSE)]

\* start and stop; a poll that runs goes on after stop.
Start(p) ==
    /\ ~running /\ running' = TRUE
    /\ BeginPoll(p)
    /\ UNCHANGED <<head, buffers, backoff, consecutive429s>>

Stop ==
    /\ running /\ running' = FALSE
    /\ UNCHANGED <<head, buffers, backoff, consecutive429s, poll>>

\* The interval calls poll, whether or not the last one has ended.
StartPoll(p) ==
    /\ running
    /\ BeginPoll(p)
    /\ UNCHANGED <<head, buffers, running, backoff, consecutive429s>>

\* Mutant: the count of rate limits is kept.
BackedOffCounting(p) ==
    /\ poll[p].at = "backoff"
    /\ backoff' = Larger(0, backoff - 1)
    /\ poll' = [poll EXCEPT ![p] = Get(1, FALSE)]
    /\ UNCHANGED <<head, buffers, running, consecutive429s>>
BackedOff(p) ==
    /\ poll[p].at = "backoff"
    /\ backoff' = Larger(0, backoff - 1)
    /\ consecutive429s' = IF backoff' = 0 THEN 0 ELSE consecutive429s
    /\ poll' = [poll EXCEPT ![p] = Get(1, FALSE)]
    /\ UNCHANGED <<head, buffers, running>>

\* Horizon answers with what is newest now.
Reply(p) ==
    /\ poll[p].at = "get"
    /\ poll' = [poll EXCEPT ![p].at = "reply", ![p].reply = head[Feeds[poll[p].feed]]]
    /\ UNCHANGED <<head, buffers, running, backoff, consecutive429s>>

\* A feed is dealt with, with or without a rate limit: the next one, or the end of
\* the poll.  Others are the polls that go on.
NextFeed(p, limited, others) ==
    IF poll[p].feed < Len(Feeds)
    THEN /\ poll' = [others EXCEPT ![p] = Get(poll[p].feed + 1, limited)]
         /\ UNCHANGED <<backoff, consecutive429s>>
    ELSE /\ poll' = [others EXCEPT ![p] = NoPoll]
         /\ IF limited
            THEN /\ consecutive429s' = consecutive429s + 1
                 /\ backoff' = Smaller(MaxBackoff, consecutive429s + 1)
            ELSE UNCHANGED <<backoff, consecutive429s>>

\* The request failed, was refused with status 429, or took too long.
FetchFails(p) ==
    /\ poll[p].at \in {"get", "reply"}
    /\ \E limited \in {poll[p].limited, TRUE} :
          /\ limited => consecutive429s < MaxLimited
          /\ NextFeed(p, limited, poll)
    /\ UNCHANGED <<head, buffers, running>>

\* The records of a page from the newest on.
PageOf(newest) == [i \in 1 .. Smaller(Page, newest) |-> newest + 1 - i]

\* The buffer with the unknown records of a page: each is put in front in turn.
Unshifted(f, page) == Reverse(SelectSeq(page, LAMBDA id : id \notin known[f])) \o buffer[f]

\* Mutant: ids that leave the buffer stay known.
KnownAfterAll(f, page, kept) == known[f] \union Range(page)
KnownAfter(f, page, kept) ==
    (known[f] \union Range(page)) \ Range(SubSeq(Unshifted(f, page), BufferSize + 1, Len(Unshifted(f, page))))

\* fetchTransactions, fetchTrades, fetchOrders: the answer is taken over in one go.
\* A request ends within 8000 ms, before another poll fetches the feed twice.
Fetched(p) ==
    LET f    == Feeds[poll[p].feed]
        page == PageOf(poll[p].reply)
        new  == Range(page) \ known[f]
        kept == SubSeq(Unshifted(f, page), 1, Smaller(BufferSize, Len(Unshifted(f, page))))
        late == {q \in Polls \ {p} : poll[q].at = "reply" /\ poll[q].feed = poll[p].feed}
    IN  /\ poll[p].at = "reply"
        /\ \A q \in late : p \notin poll[q].passed
        /\ poll[p].limited => consecutive429s < MaxLimited
        /\ buffer' = [buffer EXCEPT ![f] = kept]
        /\ known' = [known EXCEPT ![f] = KnownAfter(f, page, kept)]
        /\ given' = [given EXCEPT ![f] = @ \union new]
        /\ shown' = [shown EXCEPT ![f] = IF new = {} THEN @
                                         ELSE @ \union Range(SubSeq(kept, 1, Smaller(Page, Len(kept))))]
        /\ again' = (again \/ new \intersect given[f] # {})
        /\ NextFeed(p, poll[p].limited, [q \in Polls |->
               IF q \in late THEN [poll[q] EXCEPT !.passed = @ \union {p}] ELSE poll[q]])
        /\ UNCHANGED <<head, running>>

Next ==
    \/ \E f \in Names : NewRecord(f)
    \/ Stop
    \/ \E p \in Polls : Start(p) \/ StartPoll(p) \/ BackedOff(p) \/ Reply(p) \/ FetchFails(p) \/ Fetched(p)

Spec == Init /\ [][Next]_vars

-----------------------------------------------------------------------------
\* However polls overlap, the ids that are known are those of the buffer, which is
\* bounded and has no record twice; each record is taken over once and in an event.
BuffersHold ==
    /\ \A f \in Names :
          /\ known[f] = Range(buffer[f]) /\ IsInjective(buffer[f]) /\ Len(buffer[f]) <= BufferSize
          /\ given[f] \subseteq shown[f]
    /\ ~again

\* Polls are held back exactly while there are rate limits in a row.
BackoffIsCounted == (backoff = 0) <=> (consecutive429s = 0)
=============================================================================
