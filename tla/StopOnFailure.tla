---------------------------- MODULE StopOnFailure ----------------------------
(***************************************************************************)
(* What one call of sendTransactions with SequenceType.StopOnFailure can   *)
(* do to a list of `len` transactions.  TransactionBatch checks that its   *)
(* event loop stays within this set; ManualRetry takes a member of it as   *)
(* one step.                                                               *)
(***************************************************************************)
LOCAL INSTANCE Integers

Outcome(sent, rejected, answer) ==
  [sent |-> sent, rejected |-> rejected, answer |-> answer]

\* The call runs on through its first rejected transaction and stops at the
\* second, returning the index (from 0) of the first.  With fewer than two
\* rejections it sends everything and returns the full count.
StopOnFailureOutcomes(len) ==
  {Outcome(len, {}, len)}
  \cup {Outcome(len, {f}, len) : f \in 1..len}
  \cup {Outcome(fs[2], {fs[1], fs[2]}, fs[1] - 1) :
          fs \in {p \in (1..len) \X (1..len) : p[1] < p[2]}}
=============================================================================
