------------------------------ MODULE MCSenders -----------------------------
(***************************************************************************)
(* The storefront's copy of the send and the tools' copy of it, each with  *)
(* transactions of its own, on one network.                                *)
(***************************************************************************)
EXTENDS SignedTransaction

CONSTANT ToolTxs

VARIABLES toolLedger, toolCaller, toolNotice, toolTimer, toolReplies, toolDone

Tool == INSTANCE PolledTransaction
          WITH Txs <- ToolTxs, ledger <- toolLedger,
               caller <- toolCaller, notice <- toolNotice, timer <- toolTimer,
               replies <- toolReplies, done <- toolDone

toolVars == <<toolLedger, toolCaller, toolNotice, toolTimer, toolReplies, toolDone>>

MCInit == SendInit /\ Tool!Init
MCNext == \/ SendNext /\ UNCHANGED toolVars
          \/ Tool!Next /\ UNCHANGED sendVars
MCSpec == MCInit /\ [][MCNext]_<<sendVars, toolVars>> /\ Fairness

\* In the tools, a rejection other than the timeout is final and a wait that
\* resolves has a verdict of the ledger behind it (cli/src/helpers/transactions.ts).
VerdictTruthful == Tool!VerdictTruthful
=============================================================================
