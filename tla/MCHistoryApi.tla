---------------------------- MODULE MCHistoryApi ----------------------------
(***************************************************************************)
(* The history that TLC gives to the history end-points, and what clients  *)
(* ask for.                                                                *)
(***************************************************************************)
EXTENDS HistoryApi

Row(t, op, order, base, counter, failed, payment) ==
  [table |-> t, op |-> op, order |-> order, base |-> base, counter |-> counter, failed |-> failed, payment |-> payment]
L(l) == l * 16

\* Two transactions in every ledger with effects and trades; some fail, some are
\* payments, and ledger 3 has no effect in its second.  The operations of pool p have
\* two effects, one or none.
RowsOf(l) ==
  { Row("ledgers", L(l), 0, {}, {}, FALSE, FALSE),
    Row("transactions", L(l)+4, 0, {"a"}, {}, FALSE, FALSE),
    Row("transactions", L(l)+8, 0, {"a","b"}, {}, l = 3, FALSE),
    Row("operations", L(l)+5, 0, {"a","p"}, {}, FALSE, TRUE),
    Row("operations", L(l)+9, 0, IF l = 2 THEN {"a","b","p"} ELSE {"a","b"}, {}, l = 3, l = 4),
    Row("effects", L(l)+5, 1, {"a"}, {}, FALSE, FALSE),
    Row("effects", L(l)+5, 2, {"b"}, {}, FALSE, FALSE),
    Row("trades", L(l)+5, 0, {"a"}, {"b"}, FALSE, FALSE),
    Row("trades", L(l)+5, 1, {"p"}, {"a"}, FALSE, FALSE)} \cup
  (IF l = 3 THEN {} ELSE {Row("effects", L(l)+9, 1, {"a"}, {}, FALSE, FALSE)})
ApiRows == UNION {RowsOf(l) : l \in 2..4}

Q(t, by, tag, id, order, failed, payments) ==
  [table |-> t, by |-> by, tag |-> tag, id |-> id, order |-> order, failed |-> failed, payments |-> payments, join |-> FALSE]
Joined(q) == [q EXCEPT !.join = TRUE]
R(mode, q, limit, url, rep) == [mode |-> mode, q |-> q, limit |-> limit, url |-> url, replicated |-> rep]

\* Every kind of page and cursor, in both directions, and streams.  Ascending pages
\* of ledgers are left out: they repeat the oldest one.
ApiRequests ==
  { R("page", Q("ledgers", "all", "", 0, "desc", FALSE, FALSE), 1, <<>>, FALSE),
    R("stream", Q("transactions", "tag", "b", 0, "asc", TRUE, FALSE), 1, Now, FALSE),
    R("page", Q("transactions", "all", "", 0, "desc", FALSE, FALSE), 2, Now, TRUE),
    R("stream", Q("operations", "all", "", 0, "asc", FALSE, TRUE), 2, <<>>, FALSE),
    R("page", Q("operations", "tx", "", L(3)+8, "asc", FALSE, FALSE), 2, <<L(2)+5>>, FALSE),
    R("page", Joined(Q("operations", "all", "", 0, "desc", TRUE, FALSE)), 2, <<L(4)+5>>, FALSE),
    R("page", Q("operations", "all", "", 0, "desc", TRUE, FALSE), 2, <<L(4)+5, 1>>, FALSE),
    R("page", Q("effects", "all", "", 0, "asc", FALSE, FALSE), 2, <<L(2)>>, FALSE),
    R("page", Q("effects", "pool", "p", 0, "asc", FALSE, FALSE), 2, <<>>, FALSE),
    R("page", Q("effects", "pool", "p", 0, "asc", FALSE, FALSE), 1, <<L(2)+5>>, FALSE),
    R("page", Q("effects", "pool", "p", 0, "desc", FALSE, FALSE), 3, <<>>, FALSE),
    R("page", Q("effects", "ledger", "", 3, "desc", FALSE, FALSE), 2, <<L(3)+5>>, FALSE),
    R("stream", Q("effects", "tag", "b", 0, "asc", FALSE, FALSE), 2, <<L(2)+5, 1>>, FALSE),
    R("page", Q("trades", "tag", "a", 0, "asc", FALSE, FALSE), 2, <<>>, FALSE),
    R("page", Q("trades", "all", "", 0, "desc", FALSE, FALSE), 2, <<-7>>, FALSE) }

\* A stream that begins now.
StreamRequests ==
  { R("stream", Q("transactions", "tag", "b", 0, "asc", TRUE, FALSE), 1, Now, FALSE) }

LedgersAscending == { R("page", Q("ledgers", "all", "", 0, "asc", FALSE, FALSE), 1, <<>>, FALSE) }
=============================================================================
