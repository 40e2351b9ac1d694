--------------------------- MODULE StateVerifier ---------------------------
(***************************************************************************)
(* State verification: a goroutine that is started when a checkpoint       *)
(* ledger has been ingested compares a snapshot of the tables with the     *)
(* history archive of that ledger, in batches, while ingestion goes on.    *)
(*                                                                         *)
(* The archive of a checkpoint never changes and its bucket list hash is   *)
(* the one of the ledger header.  Asset statistics are compared in         *)
(* AssetStats.                                                             *)
(***************************************************************************)
EXTENDS StateTables

CONSTANTS
    VerifyBatch,    \* verifyBatchSize
    MaxRetries      \* polls of the archive before verification gives up

VARIABLES
    calls,          \* goroutines that have not begun: the ledgers they were started for
    v,              \* the running verification
    verdict,        \* how the last one ended, and whether its snapshot was right
    stateInvalid    \* exp_state_invalid

verifierVars == <<calls, v, verdict, stateInvalid>>
vars == <<tableVars, verifierVars>>

Idle == [pc |-> "idle"]
NoVerdict == [result |-> "none", right |-> TRUE, emptied |-> FALSE]

ledgerEligibleForStateVerification(seq) == seq % Frequency = 0

-----------------------------------------------------------------------------
(***************************************************************************)
(* StateVerifier.  `current` holds the entries of the last batch that were *)
(* not written yet.                                                        *)
(***************************************************************************)
checkUnreadEntries == IF DOMAIN v.current # {} THEN "state" ELSE None

\* The entry is written for a key of the batch and is the archive's.
Write(key, entry) == IF entry = v.entries[key] THEN None ELSE "state"

\* Rows of the snapshot turned into entries.
AccountXDR(row, signers) ==
    [body |-> row.body, sponsor |-> row.sponsor, master |-> row.master, signers |-> signers,
     modified |-> row.modified]
DataXDR(row) == [body |-> row.body, sponsor |-> row.sponsor, modified |-> row.modified]
offerToXDR(row) == [body |-> row.body, sponsor |-> row.sponsor, modified |-> row.modified]
trustLineToXDR(row) == [body |-> row.body, sponsor |-> row.sponsor, modified |-> row.modified]
BalanceXDR(row) ==
    [body |-> row.body, sponsor |-> row.sponsor, claimants |-> row.claimants, modified |-> row.modified]
liquidityPoolToXDR(row) == [body |-> row.body, modified |-> row.modified]

\* The check of each kind of row: None or the kind of error.
SignersForAccount(k) == {s \in DOMAIN v.snap.signers : s[1] = k}
MasterWeight(k) == IF <<k, k>> \in DOMAIN v.snap.signers THEN v.snap.signers[<<k, k>>].weight ELSE 0

addAccountsToStateVerifier(k) ==
    LET row == v.snap.accounts[k]
        signers == [s \in {x[2] : x \in SignersForAccount(k) \ {<<k, k>>}} |-> v.snap.signers[<<k, s>>]]
    IN  IF row.master # MasterWeight(k) THEN "state" ELSE Write(k, AccountXDR(row, signers))

addDataToStateVerifier(k) == Write(k, DataXDR(v.snap.data[k]))
addOffersToStateVerifier(k) == Write(k, offerToXDR(v.snap.offers[k]))
addTrustLinesToStateVerifier(k) == Write(k, trustLineToXDR(v.snap.trustLines[k]))
addLiquidityPoolsToStateVerifier(k) == Write(k, liquidityPoolToXDR(v.snap.pools[k]))

\* A different number of claimants is a state error, different claimants are not.
addClaimableBalanceToStateVerifier(k) ==
    LET row == v.snap.balances[k]
        claimants == {c \in DOMAIN v.snap.claimants : c[1] = k}
    IN  IF Cardinality(claimants) # Cardinality(row.claimants) THEN "state"
        ELSE IF \E c \in claimants : c[2] \notin row.claimants \/ v.snap.claimants[c] # row.modified
        THEN "error"
        ELSE Write(k, BalanceXDR(row))

\* The rows that the queries by key find: tombstones are not among them.
Found(k) ==
    LET rows == v.snap[TableOf(k)]
    IN  k \in IF KindOf[k] \in {"offer", "pool"} THEN Live(rows) ELSE DOMAIN rows

Check(k) ==
    CASE ~Found(k) -> None
      [] Found(k) /\ KindOf[k] = "account" -> addAccountsToStateVerifier(k)
      [] Found(k) /\ KindOf[k] = "data" -> addDataToStateVerifier(k)
      [] Found(k) /\ KindOf[k] = "offer" -> addOffersToStateVerifier(k)
      [] Found(k) /\ KindOf[k] = "trustLine" -> addTrustLinesToStateVerifier(k)
      [] Found(k) /\ KindOf[k] = "balance" -> addClaimableBalanceToStateVerifier(k)
      [] Found(k) /\ KindOf[k] = "pool" -> addLiquidityPoolsToStateVerifier(k)

\* Accounts come first, pools last.
Rank(k) == [account |-> 1, data |-> 2, offer |-> 3, trustLine |-> 4, balance |-> 5, pool |-> 6][KindOf[k]]
FirstErrors(batch) ==
    LET failing == {k \in batch : Check(k) # None}
    IN  {Check(k) : k \in {x \in failing : \A y \in failing : Rank(x) =< Rank(y)}}

CountAccounts == Cardinality(DOMAIN v.snap.accounts)
CountAccountsData == Cardinality(DOMAIN v.snap.data)
\* Mutant: tombstones are counted.
CountOffersAll == Cardinality(DOMAIN v.snap.offers)

CountOffers == Cardinality(Live(v.snap.offers))
CountTrustLines == Cardinality(DOMAIN v.snap.trustLines)
CountClaimableBalances == Cardinality(DOMAIN v.snap.balances)
CountLiquidityPools == Cardinality(Live(v.snap.pools))

\* Mutant: the rows are not counted.
VerifyUncounted == checkUnreadEntries

Verify ==
    IF checkUnreadEntries # None THEN checkUnreadEntries
    ELSE IF v.read # CountAccounts + CountAccountsData + CountOffers + CountTrustLines
                     + CountClaimableBalances + CountLiquidityPools
    THEN "state" ELSE None

-----------------------------------------------------------------------------
(***************************************************************************)
(* verifyState and its caller maybeVerifyState.                            *)
(***************************************************************************)
Unmoved == UNCHANGED <<tableVars, calls, verdict, stateInvalid>>

\* verifyState returns: its transaction ends.
Finish(result) ==
    /\ v' = [pc |-> "report", result |-> result]
    /\ verdict' = [result |-> result, right |-> Mirrors(v.taken, v.entries), emptied |-> v.taken # v.snap]
    /\ UNCHANGED <<tableVars, calls, stateInvalid>>

Canceled == v' = Idle /\ Unmoved

\* maybeVerifyState after a ledger.  A rebuilt state is valid; to a snapshot that is
\* older than it, tables that were truncated are empty (PostgreSQL's TRUNCATE).
CommitThenVerify ==
    /\ Commit
    /\ calls' = IF /\ source = "ledger" /\ tx'.err = None
                   /\ ~stateInvalid /\ ledgerEligibleForStateVerification(sequence')
                THEN calls \cup {sequence'} ELSE calls
    /\ stateInvalid' = (stateInvalid /\ ~(source = "archive" /\ tx'.err = None))
    /\ v' = IF source = "archive" /\ tx'.err = None /\ v.pc \in {"wait", "read"}
            THEN [v EXCEPT !.snap = NoRows] ELSE v
    /\ UNCHANGED verdict

\* TRUNCATE waits for a verification that has read a table.
TruncateThenBegin ==
    /\ v.pc \in {"read", "count"} => ~v.locking
    /\ BeginArchive
    /\ UNCHANGED verifierVars

\* An error of the processors, a state error too, only rolls the run back.
IngestionFails ==
    /\ source # None /\ tx.err # None
    /\ source' = None
    /\ tx' = db @@ [err |-> None] /\ todo' = {} /\ pending' = NoPending
    /\ UNCHANGED <<networkVars, sequence, db, diverged, verifierVars>>

\* One verification at a time, of the ledger it was started for, under a lock
\* that another process may hold.
BeginVerification(ledgerSequence) ==
    /\ calls' = calls \ {ledgerSequence}
    /\ \/ /\ \/ v.pc # "idle"
             \/ ~ledgerEligibleForStateVerification(sequence)
             \/ sequence # ledgerSequence
             \/ TRUE        \* the lock is taken
          /\ UNCHANGED v
       \/ /\ v.pc = "idle" /\ ledgerEligibleForStateVerification(sequence) /\ sequence = ledgerSequence
          /\ v' = [pc |-> "wait", seq |-> sequence, taken |-> db, snap |-> db, retries |-> 0]
    /\ UNCHANGED <<tableVars, verdict, stateInvalid>>

WaitForArchive ==
    /\ v.pc = "wait"
    /\ \/ v.seq < archive.seq /\ Canceled
       \/ /\ v.seq = archive.seq
          /\ v' = [pc |-> "read", taken |-> v.taken, snap |-> v.snap, entries |-> archive.entries,
                   unread |-> {k \in used : ~Missing(archive.entries[k])}, current |-> Empty, read |-> 0,
                   locking |-> FALSE]
          /\ Unmoved
       \/ /\ v.seq > archive.seq
          /\ IF v.retries + 1 = MaxRetries THEN Canceled
             ELSE v' = [v EXCEPT !.retries = @ + 1] /\ Unmoved

\* GetLedgerEntries, and the rows of the batch are written.  A table that is being
\* truncated cannot be read.
VerifyNextBatch ==
    /\ v.pc = "read" /\ source # "archive"
    /\ \/ checkUnreadEntries # None /\ Finish(checkUnreadEntries)
       \/ /\ checkUnreadEntries = None
          /\ \E batch \in SUBSET v.unread :
              /\ Cardinality(batch) = VerifyBatch \/ (batch = v.unread /\ Cardinality(batch) < VerifyBatch)
              /\ \/ \E e \in FirstErrors(batch) : Finish(e)
                 \/ /\ FirstErrors(batch) = {}
                    /\ v' = [v EXCEPT !.pc = IF batch = {} THEN "count" ELSE "read",
                                      !.unread = @ \ batch,
                                      !.read = @ + Cardinality(batch),
                                      !.locking = @ \/ batch # {},
                                      !.current = [k \in {x \in batch : ~Found(x)} |-> v.entries[k]]]
                    /\ Unmoved

FinishVerification ==
    /\ v.pc = "count" /\ source # "archive"
    /\ Finish(IF Verify = None THEN "ok" ELSE Verify)

\* markStateInvalid writes a row that an open rebuild has locked.
Report ==
    /\ v.pc = "report"
    /\ v.result = "state" => source # "archive"
    /\ stateInvalid' = (stateInvalid \/ v.result = "state")
    /\ v' = Idle
    /\ UNCHANGED <<tableVars, calls, verdict>>

\* The timeout, a shutdown or a database error ends it without a verdict.
CancelVerification == v.pc \in {"wait", "read", "count"} /\ Canceled

Init ==
    /\ TablesInit
    /\ calls = {} /\ v = Idle /\ verdict = NoVerdict /\ stateInvalid = FALSE

Next ==
    \/ (BeginLedger \/ ProcessChange \/ Retry \/ Publish \/ Diverge) /\ UNCHANGED verifierVars
    \/ TruncateThenBegin
    \/ CommitThenVerify
    \/ IngestionFails
    \/ \E c \in calls : BeginVerification(c)
    \/ WaitForArchive
    \/ VerifyNextBatch
    \/ FinishVerification
    \/ Report
    \/ CancelVerification

Spec == Init /\ [][Next]_vars

-----------------------------------------------------------------------------
\* Verification is sound and complete for what is served of the classic entries:
\* unless a rebuild emptied the tables under it, it succeeds if every row of its
\* snapshot was the archive's, whatever was ingested meanwhile, and only then.
VerdictIsRight ==
    verdict.result # "none" /\ ~verdict.emptied => (verdict.result = "ok" <=> verdict.right)

=============================================================================
