----------------------------- MODULE SendPromise -----------------------------
(***************************************************************************)
(* What a caller of sendTransaction relies on, abstractly: the ledger      *)
(* decides each transaction at most once, and the promise settles at most  *)
(* once.  A transaction that is heard of resolves when the ledger decided  *)
(* for it and is rejected when it decided against it; one that is not may  *)
(* be rejected at any time and never resolves.                             *)
(***************************************************************************)
CONSTANT Txs

VARIABLES
  verdict,  (* per transaction: "open", "landed" or "failed"                 *)
  heard,    (* per transaction: its sender will hear of the verdict          *)
  answer    (* per transaction: "none", "resolved" or "rejected"             *)

vars == <<verdict, heard, answer>>

Init ==
  /\ verdict = [t \in Txs |-> "open"]
  /\ heard   = [t \in Txs |-> FALSE]
  /\ answer  = [t \in Txs |-> "none"]

Decide(t) ==
  /\ verdict[t] = "open"
  /\ \E v \in {"landed", "failed"} : verdict' = [verdict EXCEPT ![t] = v]
  /\ UNCHANGED <<heard, answer>>

Listen(t) ==
  /\ answer[t] = "none"
  /\ heard' = [heard EXCEPT ![t] = TRUE]
  /\ UNCHANGED <<verdict, answer>>

Resolve(t) ==
  /\ answer[t] = "none"
  /\ heard[t] /\ verdict[t] = "landed"
  /\ answer' = [answer EXCEPT ![t] = "resolved"]
  /\ UNCHANGED <<verdict, heard>>

Reject(t) ==
  /\ answer[t] = "none"
  /\ heard[t] => verdict[t] = "failed"
  /\ answer' = [answer EXCEPT ![t] = "rejected"]
  /\ UNCHANGED <<verdict, heard>>

Next == \E t \in Txs : Decide(t) \/ Listen(t) \/ Resolve(t) \/ Reject(t)

Spec == Init /\ [][Next]_vars
=============================================================================
