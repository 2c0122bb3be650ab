------------------------- MODULE SignedTransaction -------------------------
(***************************************************************************)
(* One client waiting for transactions it has broadcast: the functions     *)
(* sendSignedTransaction, sendTransaction, simulateTransaction and         *)
(* awaitTransactionSignatureConfirmation of                                *)
(* js/packages/common/src/contexts/connection.tsx.                         *)
(*                                                                         *)
(* Each transaction has one caller.  The caller broadcasts it, opens a     *)
(* websocket subscription on its signature and waits; meanwhile the        *)
(* resend loop of sendSignedTransaction keeps broadcasting it, without     *)
(* waiting for an answer, and a timer runs.  The cluster, the RPC node and *)
(* the websocket are external: they hold, drop, execute or expire a        *)
(* transaction, and lose notifications.                                    *)
(***************************************************************************)
EXTENDS Integers, FiniteSets

CONSTANTS
  Resent,         (* transactions sent with sendSignedTransaction            *)
  Plain,          (* transactions sent with sendTransaction, awaitConfirmation *)
  LossyWebsocket  (* TRUE: a notification may be lost (the socket closed)     *)

ASSUME TxAssumption == /\ Resent \cap Plain = {}
                       /\ LossyWebsocket \in BOOLEAN

Txs == Resent \cup Plain

VARIABLES
  ledger,   (* what the cluster knows of each transaction                    *)
  wire,     (* a copy of the transaction is on its way to the cluster        *)
  caller,   (* where the caller of each transaction is                       *)
  notice,   (* the subscription of each transaction and its notification     *)
  timer,    (* the setTimeout of awaitTransactionSignatureConfirmation       *)
  settled   (* its `done` flag: the wait is over or has timed out             *)

sendVars == <<ledger, wire, caller, notice, timer, settled>>

LedgerStates == {"absent", "held", "landed", "failed", "expired"}
CallerStates == {"idle", "sending", "waiting", "simulating", "resolved", "rejected"}
NoticeStates == {"unopened", "none", "ok", "err", "lost", "consumed"}
TimerStates  == {"unset", "armed", "fired"}

\* Type invariant; only sendSignedTransaction simulates.
SendTypeOK ==
  /\ ledger  \in [Txs -> LedgerStates]
  /\ wire    \in [Txs -> BOOLEAN]
  /\ caller  \in [Txs -> CallerStates]
  /\ \A t \in Plain : caller[t] # "simulating"
  /\ notice  \in [Txs -> NoticeStates]
  /\ timer   \in [Txs -> TimerStates]
  /\ settled \in [Txs -> BOOLEAN]

SendInit ==
  /\ ledger  = [t \in Txs |-> "absent"]
  /\ wire    = [t \in Txs |-> FALSE]
  /\ caller  = [t \in Txs |-> "idle"]
  /\ notice  = [t \in Txs |-> "unopened"]
  /\ timer   = [t \in Txs |-> "unset"]
  /\ settled = [t \in Txs |-> FALSE]

Answered(t) == caller[t] \in {"resolved", "rejected"}
Executed(t) == ledger[t] \in {"landed", "failed"}

\* The caller has, or had, a subscription for the verdict.
Subscribed(t) == notice[t] # "unopened"

-----------------------------------------------------------------------------
(* The cluster.                                                            *)

\* A node takes a copy of the transaction; duplicates of one signature are
\* the same transaction, and an expired blockhash is refused.
Receive(t) ==
  /\ wire[t]
  /\ wire' = [wire EXCEPT ![t] = FALSE]
  /\ ledger' = [ledger EXCEPT ![t] = IF @ = "absent" THEN "held" ELSE @]
  /\ UNCHANGED <<caller, notice, timer, settled>>

\* The node that held the transaction drops it before a leader packs it.
Drop(t) ==
  /\ ledger[t] = "held"
  /\ ledger' = [ledger EXCEPT ![t] = "absent"]
  /\ UNCHANGED <<wire, caller, notice, timer, settled>>

\* A leader executes the transaction, with or without a program error.
Execute(t) ==
  /\ ledger[t] = "held"
  /\ \E verdict \in {"landed", "failed"} : ledger' = [ledger EXCEPT ![t] = verdict]
  /\ UNCHANGED <<wire, caller, notice, timer, settled>>

\* The blockhash of the transaction becomes too old.
Expire(t) ==
  /\ caller[t] # "idle"
  /\ ledger[t] \in {"absent", "held"}
  /\ ledger' = [ledger EXCEPT ![t] = "expired"]
  /\ UNCHANGED <<wire, caller, notice, timer, settled>>

\* The RPC node notifies an open subscription of the verdict.
Notify(t) ==
  /\ caller[t] = "waiting"
  /\ Executed(t)
  /\ notice[t] = "none"
  /\ \/ notice' = [notice EXCEPT ![t] = IF ledger[t] = "landed" THEN "ok" ELSE "err"]
     \/ LossyWebsocket /\ notice' = [notice EXCEPT ![t] = "lost"]
  /\ UNCHANGED <<ledger, wire, caller, timer, settled>>

-----------------------------------------------------------------------------
(* The caller.                                                             *)

\* sendRawTransaction puts the transaction on its way.
Broadcast(t) ==
  /\ caller[t] = "idle"
  /\ wire'   = [wire   EXCEPT ![t] = TRUE]
  /\ caller' = [caller EXCEPT ![t] = "sending"]
  /\ UNCHANGED <<ledger, notice, timer, settled>>

\* sendRawTransaction throws, whether or not the node takes the transaction:
\* the exception leaves the function, which is not yet inside its try.
BroadcastThrows(t) ==
  /\ caller[t] = "sending"
  /\ caller' = [caller EXCEPT ![t] = "rejected"]
  /\ UNCHANGED <<ledger, wire, notice, timer, settled>>

\* sendRawTransaction answers, which it does when the node has the transaction:
\* the wait starts, with its timer and its subscription, and for
\* sendSignedTransaction the resend loop.
Subscribe(t) ==
  /\ caller[t] = "sending" /\ ~wire[t]
  /\ caller' = [caller EXCEPT ![t] = "waiting"]
  /\ notice' = [notice EXCEPT ![t] = "none"]
  /\ timer'  = [timer  EXCEPT ![t] = "armed"]
  /\ UNCHANGED <<ledger, wire, settled>>

\* How the wait ends without a status: sendTransaction throws on that;
\* sendSignedTransaction throws inside its own try and goes on to simulate.
WithoutStatus(t) == IF t \in Resent THEN "simulating" ELSE "rejected"

\* The subscription cannot be opened: the error is caught and sets `done`, so
\* that the REST loop is skipped and the wait ends at once, without a status.
SetupFails(t) ==
  /\ caller[t] = "sending" /\ ~wire[t]
  /\ caller'  = [caller  EXCEPT ![t] = WithoutStatus(t)]
  /\ timer'   = [timer   EXCEPT ![t] = "armed"]
  /\ settled' = [settled EXCEPT ![t] = TRUE]
  /\ UNCHANGED <<ledger, wire, notice>>

\* The resend loop: until `done` is set by the finally block, and the
\* timeout it compares with is in milliseconds against a clock in seconds,
\* which no run of the program reaches.  It does not wait for the node; one
\* copy on its way stands for any number.
Resend(t) ==
  /\ t \in Resent
  /\ caller[t] \in {"waiting", "simulating"}
  /\ ~wire[t] /\ wire' = [wire EXCEPT ![t] = TRUE]
  /\ UNCHANGED <<ledger, caller, notice, timer, settled>>

\* Mutant of TimerFires: the callback rejects the promise, as its log line
\* says it does.
TimerRejects(t) ==
  /\ timer[t] = "armed"
  /\ timer' = [timer EXCEPT ![t] = "fired"]
  /\ settled' = [settled EXCEPT ![t] = TRUE]
  /\ caller' = [caller EXCEPT ![t] = IF @ = "waiting" THEN "rejected" ELSE @]
  /\ UNCHANGED <<ledger, wire, notice>>

\* The setTimeout callback.  Its throw happens on the event loop, not inside
\* the promise, so the only effect is the flag.
TimerFires(t) ==
  /\ timer[t] = "armed"
  /\ timer' = [timer EXCEPT ![t] = "fired"]
  /\ settled' = [settled EXCEPT ![t] = TRUE]
  /\ UNCHANGED <<ledger, wire, caller, notice>>

\* Mutant of NoticeOk: a notification that arrives after the timer is ignored.
NoticeOkInTime(t) ==
  /\ caller[t] = "waiting"
  /\ notice[t] = "ok"
  /\ ~settled[t]
  /\ notice'  = [notice  EXCEPT ![t] = "consumed"]
  /\ settled' = [settled EXCEPT ![t] = TRUE]
  /\ caller'  = [caller  EXCEPT ![t] = "resolved"]
  /\ UNCHANGED <<ledger, wire, timer>>

\* The subscription calls back without an error: the wait resolves with the
\* status, and so do sendSignedTransaction and sendTransaction.
NoticeOk(t) ==
  /\ caller[t] = "waiting"
  /\ notice[t] = "ok"
  /\ notice'  = [notice  EXCEPT ![t] = "consumed"]
  /\ settled' = [settled EXCEPT ![t] = TRUE]
  /\ caller'  = [caller  EXCEPT ![t] = "resolved"]
  /\ UNCHANGED <<ledger, wire, timer>>

\* The subscription calls back with an error: the rejection is caught, the
\* REST loop below it is skipped because `done` is already set, and the wait
\* ends without a status here too.
NoticeErr(t) ==
  /\ caller[t] = "waiting"
  /\ notice[t] = "err"
  /\ notice'  = [notice  EXCEPT ![t] = "consumed"]
  /\ settled' = [settled EXCEPT ![t] = TRUE]
  /\ caller'  = [caller  EXCEPT ![t] = WithoutStatus(t)]
  /\ UNCHANGED <<ledger, wire, timer>>

\* simulateTransaction answers with an error: rethrown to the caller.
SimulationErr(t) ==
  /\ caller[t] = "simulating"
  /\ caller' = [caller EXCEPT ![t] = "rejected"]
  /\ UNCHANGED <<ledger, wire, notice, timer, settled>>

\* simulateTransaction answers without an error (the accounts changed since
\* the failure) or cannot be reached: nothing is thrown, and the function
\* falls through to return the transaction id.
SimulationOkOrUnreachable(t) ==
  /\ caller[t] = "simulating"
  /\ caller' = [caller EXCEPT ![t] = "resolved"]
  /\ UNCHANGED <<ledger, wire, notice, timer, settled>>

-----------------------------------------------------------------------------
Cluster(t) == Receive(t) \/ Drop(t) \/ Execute(t) \/ Expire(t) \/ Notify(t)

Client(t) ==
  \/ Broadcast(t) \/ BroadcastThrows(t) \/ Subscribe(t) \/ SetupFails(t)
  \/ Resend(t) \/ TimerFires(t)
  \/ NoticeOk(t) \/ NoticeErr(t)
  \/ SimulationErr(t) \/ SimulationOkOrUnreachable(t)

SendNext == \E t \in Txs : Cluster(t) \/ Client(t)

SendSpec == SendInit /\ [][SendNext]_sendVars

\* The event loop runs every timer and callback that is ready, the RPC node
\* answers, and every transaction is in the end executed or too old.
Fairness ==
  \A t \in Txs :
    /\ WF_sendVars(Broadcast(t))
    /\ WF_sendVars(BroadcastThrows(t) \/ Subscribe(t) \/ SetupFails(t))
    /\ WF_sendVars(TimerFires(t))
    /\ WF_sendVars(NoticeOk(t) \/ NoticeErr(t))
    /\ WF_sendVars(SimulationErr(t) \/ SimulationOkOrUnreachable(t))
    /\ WF_sendVars(Execute(t) \/ Expire(t))
    /\ WF_sendVars(Notify(t))

-----------------------------------------------------------------------------
(* Properties.                                                             *)

\* sendTransaction returns only for a transaction that the cluster executed
\* without an error, however late the notification is (connection.tsx:580).
PlainResolvedLanded ==
  \A t \in Plain : caller[t] = "resolved" => ledger[t] = "landed"

\* A rejection that comes out of a wait that had its subscription means that
\* the transaction failed for good: a caller that retries on it cannot apply
\* the transaction twice, whether timer, notification or resend loop came first
\* (connection.tsx:712).  A wait whose subscription could not be opened says
\* nothing of the transaction, although its error says `Timed out'.
RejectedByWaitFailed ==
  \A t \in Txs : caller[t] = "rejected" /\ Subscribed(t) => ledger[t] = "failed"

\* What a caller was told after it had its subscription is the last that becomes
\* of the transaction: no copy that is still on its way, from the resend loop
\* or before it, lands behind a caller that went on (connection.tsx:739).
NothingLandsBehindAnswer ==
  [][\A t \in Txs : Answered(t) /\ Subscribed(t) => ledger'[t] = ledger[t]]_sendVars

\* A transaction that the cluster executes while its caller waits is answered
\* to that caller, also when the timer fires first, unless the one notification
\* of it is lost (connection.tsx:797).
ExecutedIsAnswered ==
  \A t \in Txs : caller[t] = "waiting" /\ Executed(t) ~> Answered(t) \/ notice[t] = "lost"

\* The inductive strengthening of the two invariants above: a pending
\* notification tells the truth about the ledger, who has a subscription
\* simulates after a failure and is answered after a verdict, and only who has
\* one waits.
NoticeTruthful ==
  \A t \in Txs : /\ notice[t] = "ok"  => ledger[t] = "landed"
                 /\ notice[t] = "err" => ledger[t] = "failed"
VerdictBehindAnswer ==
  \A t \in Txs : Subscribed(t) =>
    /\ caller[t] \in {"waiting", "simulating", "resolved", "rejected"}
    /\ caller[t] = "simulating" => ledger[t] = "failed"
    /\ Answered(t) => Executed(t)
WaitingSubscribed ==
  \A t \in Txs : /\ caller[t] = "waiting" => Subscribed(t)
                 /\ caller[t] = "idle" => ledger[t] = "absent" /\ ~wire[t]
IInv ==
  /\ SendTypeOK
  /\ NoticeTruthful
  /\ VerdictBehindAnswer
  /\ WaitingSubscribed
  /\ PlainResolvedLanded
  /\ RejectedByWaitFailed

\* The calls of sendTransaction implement the abstract promise, next to any
\* number of calls of sendSignedTransaction: they are a promise a caller can
\* build on (connection.tsx:569-605).
Promise == INSTANCE SendPromise WITH
  Txs     <- Plain,
  verdict <- [t \in Plain |-> IF Executed(t) THEN ledger[t] ELSE "open"],
  heard   <- [t \in Plain |-> Subscribed(t)],
  answer  <- [t \in Plain |-> IF Answered(t) THEN caller[t] ELSE "none"]
ImplementsPromise == Promise!Spec
=============================================================================
