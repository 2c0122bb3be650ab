------------------------- MODULE MCTransactionBatch -------------------------
(***************************************************************************)
(* The calls of TransactionBatch that the runs consider.                   *)
(***************************************************************************)
EXTENDS TransactionBatch

MCCall(fn, st) == [fn |-> fn, sequenceType |-> st]

\* Every function with every sequence type that changes what it does;
\* sendTransactionsWithRecentBlock takes none.
MCAllCalls ==
  {MCCall("sendTransactions", st) : st \in SequenceType}
  \cup {MCCall("sendTransactionsInChunks", st) : st \in {"Sequential", "StopOnFailure"}}
  \cup {MCCall("sendTransactionsWithRecentBlock", "Sequential")}
=============================================================================
