-------------------------- MODULE PolledTransaction --------------------------
(***************************************************************************)
(* sendSignedTransaction and awaitTransactionSignatureConfirmation of      *)
(* js/packages/cli/src/helpers/transactions.ts (candy-machine-ui and       *)
(* token-entangler carry the same code).  Here, unlike in the web store    *)
(* (module SignedTransaction), the timer rejects the promise, and REST     *)
(* queries race the websocket and the timer for the answer.                *)
(***************************************************************************)
EXTENDS Integers, FiniteSets

CONSTANTS
  Txs,            (* transactions in flight                                  *)
  LossyWebsocket  (* TRUE: a notification may be lost                        *)

VARIABLES
  ledger,   (* what the cluster knows of each transaction                    *)
  caller,   (* where the caller of each transaction is                       *)
  notice,   (* the subscription of each transaction and its notification     *)
  timer,    (* the setTimeout of the wait                                    *)
  replies,  (* answers of getSignatureStatuses on their way                  *)
  done      (* the flag the websocket, the timer and the queries share       *)

vars == <<ledger, caller, notice, timer, replies, done>>

\* A transaction that landed is finalized later: its status then no longer
\* carries a number of confirmations.
LedgerStates == {"absent", "held", "landed", "finalized", "failed", "expired"}
CallerStates == {"idle", "sending", "waiting", "simulating", "resolved", "rejected", "timedOut",
                 "threw"}

\* Type invariant; the shared flag is set once the wait is over.
TypeOK ==
  /\ ledger  \in [Txs -> LedgerStates]
  /\ caller  \in [Txs -> CallerStates]
  /\ notice  \in [Txs -> {"unopened", "none", "ok", "err", "lost", "consumed"}]
  /\ timer   \in [Txs -> {"unset", "armed", "fired"}]
  /\ replies \in [Txs -> SUBSET {"confirmed", "err"}]
  /\ done    \in [Txs -> BOOLEAN]
  /\ \A t \in Txs : ~done[t] => caller[t] \in {"idle", "sending", "waiting", "threw"}

Init ==
  /\ ledger  = [t \in Txs |-> "absent"]
  /\ caller  = [t \in Txs |-> "idle"]
  /\ notice  = [t \in Txs |-> "unopened"]
  /\ timer   = [t \in Txs |-> "unset"]
  /\ replies = [t \in Txs |-> {}]
  /\ done    = [t \in Txs |-> FALSE]

Landed(t)   == ledger[t] \in {"landed", "finalized"}

-----------------------------------------------------------------------------
(* The cluster.                                                            *)

\* A node takes a copy of the transaction: the first one, or one that the loop
\* of sendSignedTransaction sends until the finally block, without waiting for
\* the node.  Copies are not counted: some may be on their way ever after.
Arrive(t) ==
  /\ caller[t] # "idle"
  /\ ledger[t] = "absent"
  /\ ledger' = [ledger EXCEPT ![t] = "held"]
  /\ UNCHANGED <<caller, notice, timer, replies, done>>

\* The ledger side moves on: a node drops the transaction, a leader executes
\* it, it is finalized, or its blockhash becomes too old.
LedgerStep(t) ==
  /\ \/ ledger[t] = "held"   /\ \E s \in {"absent", "landed", "failed"} : ledger' = [ledger EXCEPT ![t] = s]
     \/ ledger[t] = "landed" /\ ledger' = [ledger EXCEPT ![t] = "finalized"]
     \/ /\ ledger[t] \in {"absent", "held"} /\ caller[t] # "idle"
        /\ ledger' = [ledger EXCEPT ![t] = "expired"]
  /\ UNCHANGED <<caller, notice, timer, replies, done>>

Notify(t) ==
  /\ caller[t] = "waiting"
  /\ Landed(t) \/ ledger[t] = "failed"
  /\ notice[t] = "none"
  /\ \/ notice' = [notice EXCEPT ![t] = IF Landed(t) THEN "ok" ELSE "err"]
     \/ LossyWebsocket /\ notice' = [notice EXCEPT ![t] = "lost"]
  /\ UNCHANGED <<ledger, caller, timer, replies, done>>

-----------------------------------------------------------------------------
(* The caller.                                                             *)

\* sendRawTransaction puts the transaction on its way.
Broadcast(t) ==
  /\ caller[t] = "idle"
  /\ caller' = [caller EXCEPT ![t] = "sending"]
  /\ UNCHANGED <<ledger, notice, timer, replies, done>>

\* sendRawTransaction throws, whether or not the node takes the transaction.
BroadcastThrows(t) ==
  /\ caller[t] = "sending"
  /\ caller' = [caller EXCEPT ![t] = "threw"]
  /\ UNCHANGED <<ledger, notice, timer, replies, done>>

\* sendRawTransaction answers: the wait, its timer and the resend loop start.
Subscribe(t) ==
  /\ caller[t] = "sending"
  /\ caller' = [caller EXCEPT ![t] = "waiting"]
  /\ notice' = [notice EXCEPT ![t] = "none"]
  /\ timer'  = [timer  EXCEPT ![t] = "armed"]
  /\ UNCHANGED <<ledger, replies, done>>

\* The subscription cannot be opened: `done` is set, which ends the queries and
\* disarms the timer, and nothing is left to settle the promise.
SetupFails(t) ==
  /\ caller[t] = "sending"
  /\ caller' = [caller EXCEPT ![t] = "waiting"]
  /\ timer'  = [timer  EXCEPT ![t] = "armed"]
  /\ done'   = [done   EXCEPT ![t] = TRUE]
  /\ UNCHANGED <<ledger, notice, replies>>

\* The setTimeout callback: nothing if the wait is over, otherwise the
\* rejection with {timeout: true}, which sendSignedTransaction rethrows.
TimerFires(t) ==
  /\ timer[t] = "armed"
  /\ timer' = [timer EXCEPT ![t] = "fired"]
  /\ done' = [done EXCEPT ![t] = TRUE]
  /\ caller' = [caller EXCEPT ![t] = IF done[t] THEN @ ELSE "timedOut"]
  /\ UNCHANGED <<ledger, notice, replies>>

\* Mutant of NoticeArrives: resolve and reject are swapped.
NoticeArrivesUnchecked(t) ==
  /\ notice[t] \in {"ok", "err"}
  /\ notice' = [notice EXCEPT ![t] = "consumed"]
  /\ done' = [done EXCEPT ![t] = TRUE]
  /\ caller' = [caller EXCEPT ![t] =
                 IF @ # "waiting" THEN @ ELSE IF notice[t] = "ok" THEN "simulating" ELSE "resolved"]
  /\ UNCHANGED <<ledger, timer, replies>>

\* The subscription calls back: an error rejects the promise, which leads to
\* the simulation.  The settled promise of a wait that is over ignores it.
NoticeArrives(t) ==
  /\ notice[t] \in {"ok", "err"}
  /\ notice' = [notice EXCEPT ![t] = "consumed"]
  /\ done' = [done EXCEPT ![t] = TRUE]
  /\ caller' = [caller EXCEPT ![t] =
                 IF @ # "waiting" THEN @ ELSE IF notice[t] = "ok" THEN "resolved" ELSE "simulating"]
  /\ UNCHANGED <<ledger, timer, replies>>

\* getSignatureStatuses is asked every two seconds without waiting for the
\* answer before.  Only an error or a positive number of confirmations has an
\* effect; a finalized status has none to count and is passed over.
Query(t) ==
  /\ caller[t] = "waiting"
  /\ ~done[t]
  /\ \/ ledger[t] = "landed" /\ replies' = [replies EXCEPT ![t] = @ \cup {"confirmed"}]
     \/ ledger[t] = "failed" /\ replies' = [replies EXCEPT ![t] = @ \cup {"err"}]
  /\ UNCHANGED <<ledger, caller, notice, timer, done>>

\* An answer of getSignatureStatuses: ignored when the wait is over.
ReplyArrives(t) ==
  /\ \E r \in replies[t] :
       /\ replies' = [replies EXCEPT ![t] = @ \ {r}]
       /\ IF done[t] THEN UNCHANGED <<caller, done>>
          ELSE /\ done' = [done EXCEPT ![t] = TRUE]
               /\ caller' = [caller EXCEPT ![t] = IF r = "err" THEN "simulating" ELSE "resolved"]
  /\ UNCHANGED <<ledger, notice, timer>>

\* The simulation answers with an error, without one, or not at all; in the
\* last two cases the transaction id is returned all the same.
Simulated(t) ==
  /\ caller[t] = "simulating"
  /\ \E outcome \in {"rejected", "resolved"} : caller' = [caller EXCEPT ![t] = outcome]
  /\ UNCHANGED <<ledger, notice, timer, replies, done>>

-----------------------------------------------------------------------------
Next == \E t \in Txs :
  \/ Arrive(t) \/ LedgerStep(t) \/ Notify(t)
  \/ Broadcast(t) \/ BroadcastThrows(t) \/ Subscribe(t) \/ SetupFails(t)
  \/ TimerFires(t) \/ NoticeArrives(t)
  \/ Query(t) \/ ReplyArrives(t) \/ Simulated(t)

Spec == Init /\ [][Next]_vars

-----------------------------------------------------------------------------
(* Properties.                                                             *)

\* A rejection that is not the timeout means the transaction failed for good,
\* so it may be sent again; and a wait answered by neither has one of the two
\* verdicts, with the three sources of the answer racing (transactions.ts:207,
\* 240, 131).
VerdictTruthful ==
  /\ TypeOK
  /\ \A t \in Txs : /\ caller[t] \in {"rejected", "simulating"} => ledger[t] = "failed"
                    /\ caller[t] = "resolved" => ledger[t] \in {"landed", "finalized", "failed"}

\* Its inductive strengthening: what is on its way to the caller, from the
\* websocket or from a query, is true of the ledger, which does not go back on
\* a verdict.
AnswersTruthful ==
  \A t \in Txs : /\ notice[t] = "ok" \/ "confirmed" \in replies[t] => Landed(t)
                 /\ notice[t] = "err" \/ "err" \in replies[t] => ledger[t] = "failed"
IInv == VerdictTruthful /\ AnswersTruthful
=============================================================================
