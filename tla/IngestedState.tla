--------------------------- MODULE IngestedState ---------------------------
(***************************************************************************)
(* What the ingestion system promises everyone who reads its database: the *)
(* API servers, the order book, the state verifier.  The key-value rows    *)
(* and the state tables change in atomic steps of four kinds only.         *)
(***************************************************************************)
EXTENDS Integers

VARIABLES last, version, stateAt, stateBy

absVars == <<last, version, stateAt, stateBy>>

Init == last = 0 /\ version = 0 /\ stateAt = 0 /\ stateBy = {}

\* One ledger is applied to the state of the ledger before it.
Advance ==
    /\ last > 0
    /\ last' = last + 1
    /\ stateAt' = last'
    /\ version' = version
    /\ version > 0 => stateBy' = {version}

\* The state is built anew, never over a usable state of the same version.
BuildAnew ==
    /\ last = 0 \/ version' # version
    /\ last' > 0
    /\ stateAt' = last'
    /\ version' > 0
    /\ stateBy' = {version'}

\* The state is given up: the next reader sees that there is none.
Discard == last' = 0 /\ UNCHANGED <<version, stateAt, stateBy>>
Outdate == version' = 0 /\ UNCHANGED <<last, stateAt, stateBy>>

Next == Advance \/ BuildAnew \/ Discard \/ Outdate

Spec == Init /\ [][Next]_absVars
=============================================================================
