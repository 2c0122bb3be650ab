-------------------------- MODULE TransactionBatch --------------------------
(***************************************************************************)
(* One call that sends a list of transactions: sendTransactions,           *)
(* sendTransactionsInChunks and sendTransactionsWithRecentBlock of         *)
(* js/packages/common/src/contexts/connection.tsx.                         *)
(*                                                                         *)
(* What matters is the order in which the event loop runs the callbacks of *)
(* one settled promise: the `await` of the loop and the handler that       *)
(* records a failure in breakEarlyObject are both waiting for it.  The     *)
(* microtask queue is therefore explicit.  sendSignedTransaction is        *)
(* abstracted to its answer; module SignedTransaction says what an answer  *)
(* is worth.                                                               *)
(***************************************************************************)
EXTENDS Integers, Sequences, FiniteSets, StopOnFailure

CONSTANTS
  N,          (* length of the instruction set handed in                     *)
  BatchSize,  (* the batchSize of sendTransactionsInChunks                   *)
  Calls       (* the calls to consider: records [fn, sequenceType]           *)

Functions  == {"sendTransactions", "sendTransactionsInChunks",
               "sendTransactionsWithRecentBlock"}
SequenceType == {"Sequential", "Parallel", "StopOnFailure"}

ASSUME BatchAssumption ==
  /\ N \in Nat \ {0}
  /\ BatchSize \in Nat \ {0}
  /\ Calls \subseteq [fn : Functions, sequenceType : SequenceType]

Inputs == 1..N

VARIABLES
  call,        (* the call being made                                        *)
  nonEmpty,    (* the inputs that have at least one instruction              *)
  pc,          (* "signing" a chunk, "sending" it, "returned" or "thrown"     *)
  rest,        (* number of inputs already taken into a chunk                *)
  signed,      (* signedTxns: the inputs of this chunk, without empty ones   *)
  i,           (* loop index into signed                                     *)
  answer,      (* per input: "unsent", "sent", "resolved" or "rejected"      *)
  microtasks,  (* callbacks that are ready, in the order they will run       *)
  breakEarly,  (* breakEarlyObject.breakEarly                                *)
  breakIndex,  (* breakEarlyObject.i, counted from 0                         *)
  result       (* the number returned                                        *)

vars == <<call, nonEmpty, pc, rest, signed, i, answer, microtasks, breakEarly,
          breakIndex, result>>

Jobs == [job : {"relay", "resume", "recordFailure"}, at : Inputs]

TypeOK ==
  /\ call \in Calls
  /\ nonEmpty \subseteq Inputs
  /\ pc \in {"signing", "sending", "returned", "thrown"}
  /\ rest \in 0..N
  /\ signed \in Seq(Inputs) /\ Len(signed) <= N
  /\ i \in 0..N
  /\ answer \in [Inputs -> {"unsent", "sent", "resolved", "rejected"}]
  /\ microtasks \in Seq(Jobs) /\ Len(microtasks) <= 2
  /\ breakEarly \in BOOLEAN
  /\ breakIndex \in 0..N
  /\ result \in 0..N

Init ==
  /\ call \in Calls
  /\ nonEmpty \in SUBSET Inputs
  /\ pc = "signing"
  /\ rest = 0
  /\ signed = <<>>
  /\ i = 0
  /\ answer = [t \in Inputs |-> "unsent"]
  /\ microtasks = <<>>
  /\ breakEarly = FALSE
  /\ breakIndex = 0
  /\ result = 0

Chunked  == call.fn = "sendTransactionsInChunks"
\* sendTransactionsWithRecentBlock always stops on a failure.
Stopping == call.sequenceType = "StopOnFailure" \/ call.fn = "sendTransactionsWithRecentBlock"
\* Only sendTransactions looks at Parallel before it awaits.
Awaiting == call.fn # "sendTransactions" \/ call.sequenceType # "Parallel"

\* End of the inputs that the next chunk takes.
ChunkEnd == IF Chunked /\ rest + BatchSize < N THEN rest + BatchSize ELSE N

\* The inputs of a chunk that become transactions: the loop over them passes
\* over the empty ones.
Signable(from, to) ==
  LET txns[k \in 0..N] ==
        IF k = 0 THEN <<>>
        ELSE IF k > from /\ k \in nonEmpty THEN Append(txns[k - 1], k) ELSE txns[k - 1]
  IN  txns[to]

\* What the function returns when its loops are through.
FullCount(txns) == IF Chunked THEN N ELSE Len(txns)

\* Mutant of LoopAt: the loop sends the next transaction along with this one.
LoopAtPipelined(k, txns, from) ==
  IF k <= Len(txns)
  THEN /\ i' = k
       /\ pc' = "sending"
       /\ answer' = [t \in Inputs |->
            IF \E l \in k..(k + 1) : l <= Len(txns) /\ txns[l] = t THEN "sent" ELSE answer[t]]
       /\ result' = result
  ELSE /\ i' = 0
       /\ answer' = answer
       /\ pc' = IF from = N THEN "returned" ELSE "signing"
       /\ result' = IF from = N THEN FullCount(txns) ELSE result

\* The head of the loop at index k: send the transaction there, or leave the
\* loop for the next chunk or the final return.
LoopAt(k, txns, from) ==
  IF k <= Len(txns)
  THEN /\ i' = k
       /\ pc' = "sending"
       /\ answer' = [answer EXCEPT ![txns[k]] = "sent"]
       /\ result' = result
  ELSE /\ i' = 0
       /\ answer' = answer
       /\ pc' = IF from = N THEN "returned" ELSE "signing"
       /\ result' = IF from = N THEN FullCount(txns) ELSE result

\* The wallet signs the chunk; breakEarlyObject is new for every chunk.
Sign ==
  /\ pc = "signing"
  /\ microtasks = <<>>
  /\ rest' = ChunkEnd
  /\ signed' = Signable(rest, ChunkEnd)
  /\ breakEarly' = FALSE
  /\ breakIndex' = 0
  /\ LET txns == Signable(rest, ChunkEnd)
     IN  IF Awaiting
         THEN LoopAt(1, txns, ChunkEnd)
         ELSE \* The loop runs through and returns with every answer pending.
              /\ pc' = "returned"
              /\ result' = Len(txns)
              /\ i' = 0
              /\ answer' = [t \in Inputs |-> IF t \in nonEmpty THEN "sent" ELSE answer[t]]
  /\ UNCHANGED <<call, nonEmpty, microtasks>>

\* No blockhash, or the wallet declines: the exception leaves the function.
SignThrows ==
  /\ pc = "signing"
  /\ microtasks = <<>>
  /\ pc' = "thrown"
  /\ UNCHANGED <<call, nonEmpty, rest, signed, i, answer, microtasks, breakEarly,
                 breakIndex, result>>

\* Mutant of Callbacks: sendTransactions attaches its handler directly.
CallbacksDirect(t, verdict) ==
  (IF verdict = "resolved" THEN <<>> ELSE <<[job |-> "recordFailure", at |-> t]>>)
  \o (IF Awaiting THEN <<[job |-> "resume", at |-> t]>> ELSE <<>>)

\* The callbacks registered on the promise of one transaction, in the order of
\* their registration.  sendTransactions chains `.then(...).catch(...)`: the
\* rejection is first relayed by the promise in between.  The other two attach
\* `.catch(...)` to the promise itself.
Callbacks(t, verdict) ==
  (IF verdict = "resolved" THEN <<>>
   ELSE IF call.fn = "sendTransactions"
        THEN <<[job |-> "relay", at |-> t]>>
        ELSE <<[job |-> "recordFailure", at |-> t]>>)
  \o (IF Awaiting THEN <<[job |-> "resume", at |-> t]>> ELSE <<>>)

\* sendSignedTransaction settles; callbacks only run from an empty queue.
Answer(t) ==
  /\ answer[t] = "sent"
  /\ microtasks = <<>>
  /\ \E verdict \in {"resolved", "rejected"} :
       /\ answer' = [answer EXCEPT ![t] = verdict]
       /\ microtasks' = Callbacks(t, verdict)
  /\ UNCHANGED <<call, nonEmpty, pc, rest, signed, i, breakEarly, breakIndex, result>>

\* The promise made by `.then` is rejected in turn: its catch handler queues up.
Relay ==
  /\ microtasks # <<>>
  /\ Head(microtasks).job = "relay"
  /\ microtasks' = Append(Tail(microtasks), [Head(microtasks) EXCEPT !.job = "recordFailure"])
  /\ UNCHANGED <<call, nonEmpty, pc, rest, signed, i, answer, breakEarly, breakIndex, result>>

\* Position of an input in signed, counted from 0.
IndexOf(t) == (CHOOSE k \in 1..Len(signed) : signed[k] = t) - 1

\* The catch handler.
RecordFailure ==
  /\ microtasks # <<>>
  /\ Head(microtasks).job = "recordFailure"
  /\ microtasks' = Tail(microtasks)
  /\ IF Stopping
     THEN /\ breakEarly' = TRUE
          /\ breakIndex' = IndexOf(Head(microtasks).at)
     ELSE UNCHANGED <<breakEarly, breakIndex>>
  /\ UNCHANGED <<call, nonEmpty, pc, rest, signed, i, answer, result>>

\* The await in the loop: on a rejection with breakEarly set the function
\* returns, otherwise the loop goes on.
Resume ==
  /\ microtasks # <<>>
  /\ Head(microtasks).job = "resume"
  /\ microtasks' = Tail(microtasks)
  /\ IF answer[Head(microtasks).at] = "rejected" /\ breakEarly
     THEN /\ pc' = "returned"
          /\ result' = breakIndex
          /\ UNCHANGED <<i, answer>>
     ELSE LoopAt(i + 1, signed, rest)
  /\ UNCHANGED <<call, nonEmpty, rest, signed, breakEarly, breakIndex>>

Next ==
  \/ Sign \/ SignThrows
  \/ \E t \in Inputs : Answer(t)
  \/ Relay \/ RecordFailure \/ Resume

Spec == Init /\ [][Next]_vars

-----------------------------------------------------------------------------
(* Properties.                                                             *)

Finished == pc = "returned" /\ microtasks = <<>>
Failures == {t \in nonEmpty : answer[t] = "rejected"}
StopsFor(fns) == call.fn \in fns /\ Stopping
Direct   == {"sendTransactionsInChunks", "sendTransactionsWithRecentBlock"}

\* Outside Parallel a transaction is sent only when every earlier one has been
\* answered: later transactions build on the accounts of earlier ones
\* (connection.tsx:346, 436, 515).
SentInOrder ==
  Awaiting => \A s, t \in nonEmpty : s < t /\ answer[s] \in {"unsent", "sent"} => answer[t] = "unsent"

\* With the handler attached to the promise itself, nothing is sent behind a
\* rejected transaction (connection.tsx:338, 509).
StopsAtFailure ==
  StopsFor(Direct) =>
    \A s, t \in nonEmpty : s < t /\ answer[s] = "rejected" => answer[t] = "unsent"

\* sendTransactionsWithRecentBlock returns the index of the transaction that
\* failed, with everything before it resolved, or the count with everything
\* resolved (connection.tsx:520, 525).
RecentBlockReturnsFailure ==
  call.fn = "sendTransactionsWithRecentBlock" /\ pc = "returned" =>
    /\ \A k \in 1..result : answer[signed[k]] = "resolved"
    /\ result < Len(signed) => answer[signed[result + 1]] = "rejected"

\* sendTransactions with StopOnFailure runs on through its first failure and
\* stops at the second, returning the index of the first; with fewer than two
\* failures it returns the full count.  Module ManualRetry builds on this.
StopsAtSecondFailure ==
  StopsFor({"sendTransactions"}) /\ Awaiting /\ Finished =>
    /\ Outcome(Cardinality({k \in DOMAIN signed : answer[signed[k]] # "unsent"}),
               {k \in DOMAIN signed : signed[k] \in Failures},
               result) \in StopOnFailureOutcomes(Len(signed))
    /\ \A k \in 2..Len(signed) :
         answer[signed[k]] # "unsent" => answer[signed[k - 1]] # "unsent"

\* A list is sent in order, is not sent on behind a failure, and what the call
\* returns is where it failed.
SentUpToFailure == TypeOK /\ SentInOrder /\ StopsAtFailure /\ RecentBlockReturnsFailure
=============================================================================
