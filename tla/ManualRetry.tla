----------------------------- MODULE ManualRetry -----------------------------
(***************************************************************************)
(* The retry loop around a list of transactions:                           *)
(*   - sendTransactionsWithManualRetry of common/src/contexts/connection.tsx *)
(*   - the same loop inlined in web/src/actions/createAuctionManager.ts    *)
(*   - its copy in candy-machine-ui/src/connection.tsx, whose              *)
(*     sendTransactions stops at the first failure.                        *)
(*                                                                         *)
(* One step is one turn of the loop with all the sends it makes; what a    *)
(* call of sendTransactions does comes from module StopOnFailure.  The     *)
(* lists are already without their empty instruction sets.                 *)
(***************************************************************************)
EXTENDS Integers, Sequences, FiniteSets, StopOnFailure

CONSTANTS
  Length,  (* number of transactions                                         *)
  Callers  (* the loops to consider                                          *)

Loops == {"sendTransactionsWithManualRetry", "createAuctionManager", "candyMachineUi"}

ASSUME RetryAssumption == Length \in Nat \ {0} /\ Callers \subseteq Loops

Entries == 1..Length
MaxTries == 3

VARIABLES
  loop,        (* which of the loops runs                                    *)
  stage,       (* "loop", "returned" or "thrown"                             *)
  base,        (* transactions sliced off so far: the list is base+1..Length *)
  stopPoint,
  tries,
  lastLength,  (* lastInstructionsLength, 0 for null                         *)
  last,        (* per transaction: the answer of its last send               *)
  applied,     (* the transactions that took effect                          *)
  threw,       (* some turn of the loop ended in its catch block             *)
  turns        (* turns of the loop so far                                   *)

retryVars == <<loop, stage, base, stopPoint, tries, lastLength, last, applied, threw, turns>>

\* Type invariant.
RetryTypeOK ==
  /\ loop \in Callers
  /\ stage \in {"loop", "returned", "thrown"}
  /\ base \in 0..(Length - 1)
  /\ stopPoint \in 0..Length
  /\ tries \in 0..MaxTries
  /\ lastLength \in 0..Length
  /\ last \in [Entries -> {"unsent", "resolved", "rejected"}]
  /\ applied \subseteq Entries
  /\ threw \in BOOLEAN
  /\ turns \in Nat

RetryInit ==
  /\ loop \in Callers
  /\ stage = "loop"
  /\ base = 0
  /\ stopPoint = 0
  /\ tries = 0
  /\ lastLength = 0
  /\ last = [t \in Entries |-> "unsent"]
  /\ applied = {}
  /\ threw = FALSE
  /\ turns = 0

\* The first `sent` transactions of the list after `slice` go out, those at the
\* positions in `rejected` in vain.
Send(b, sent, rejected) ==
  LET out == (b + 1)..(b + sent)
      bad == {b + k : k \in rejected}
  IN  /\ last' = [t \in Entries |-> IF t \notin out THEN last[t]
                               ELSE IF t \in bad THEN "rejected" ELSE "resolved"]
      /\ applied' = applied \cup {t \in Entries : t \in out \ bad}

\* Mutant of Turn: the try counter also starts over when the length is the same.
TurnForgetsTries ==
  /\ stage = "loop"
  /\ stopPoint < Length - base
  /\ tries < MaxTries
  /\ base' = base + stopPoint
  /\ lastLength' = Length - base'
  /\ tries' = IF Length - base' = lastLength /\ stopPoint # 0 THEN tries + 1 ELSE 0
  /\ turns' = IF turns > 4 * Length THEN turns ELSE turns + 1
  /\ UNCHANGED <<loop, stage>>

\* Mutant of Turn: the slice drops the failed transaction as well.
TurnSlicesTooMuch ==
  /\ stage = "loop"
  /\ stopPoint < Length - base
  /\ tries < MaxTries
  /\ base' = IF base + stopPoint + 1 < Length THEN base + stopPoint + 1 ELSE Length - 1
  /\ lastLength' = Length - base'
  /\ tries' = IF Length - base' = lastLength THEN tries + 1 ELSE 0
  /\ turns' = turns + 1
  /\ UNCHANGED <<loop, stage>>

\* The top of the loop: slice, and count the turns that got no further.
Turn ==
  /\ stage = "loop"
  /\ stopPoint < Length - base
  /\ tries < MaxTries
  /\ base' = base + stopPoint
  /\ lastLength' = Length - base'
  /\ tries' = IF Length - base' = lastLength THEN tries + 1 ELSE 0
  /\ turns' = turns + 1
  /\ UNCHANGED <<loop, stage>>

\* No blockhash, or the wallet declines: the catch block leaves stopPoint as
\* it was.
TurnThrows ==
  /\ Turn
  /\ threw' = TRUE
  /\ UNCHANGED <<stopPoint, last, applied>>

\* A single transaction goes out with sendTransactionWithRetry, which throws
\* when the send is rejected.
TurnSingle ==
  /\ Turn
  /\ Length - base' = 1
  /\ \/ /\ Send(base', 1, {})
        /\ stopPoint' = 1
        /\ UNCHANGED threw
     \/ /\ Send(base', 1, {1})
        /\ threw' = TRUE
        /\ UNCHANGED stopPoint

\* Mutant of TurnBatch: the answer is read as a count from one.
TurnBatchOffByOne ==
  /\ loop # "candyMachineUi"
  /\ Turn
  /\ Length - base' > 1
  /\ \E out \in StopOnFailureOutcomes(Length - base') :
       /\ Send(base', out.sent, out.rejected)
       /\ stopPoint' = IF out.answer < Length - base' THEN out.answer + 1 ELSE out.answer
  /\ UNCHANGED threw

\* Several go out with sendTransactions; its answer is the new stopPoint.
TurnBatch ==
  /\ loop # "candyMachineUi"
  /\ Turn
  /\ Length - base' > 1
  /\ \E out \in StopOnFailureOutcomes(Length - base') :
       /\ Send(base', out.sent, out.rejected)
       /\ stopPoint' = out.answer
  /\ UNCHANGED threw

\* candy-machine-ui: sendTransactions stops at the first failure, and the
\* number it returns is not looked at.
TurnBatchUi ==
  /\ loop = "candyMachineUi"
  /\ Turn
  /\ Length - base' > 1
  /\ \E n \in 1..(Length - base') :
       \/ Send(base', n, {n})
       \/ n = Length - base' /\ Send(base', n, {})
  /\ UNCHANGED <<stopPoint, threw>>

Exit == stage = "loop" /\ ~(stopPoint < Length - base /\ tries < MaxTries)

\* sendTransactionsWithManualRetry returns however the loop ended.
Return ==
  /\ Exit
  /\ loop # "createAuctionManager"
  /\ stage' = "returned"
  /\ UNCHANGED <<loop, base, stopPoint, tries, lastLength, last, applied, threw, turns>>

\* createAuctionManager throws 'Failed to create' if transactions are left.
ReturnOrFailToCreate ==
  /\ Exit
  /\ loop = "createAuctionManager"
  /\ stage' = IF stopPoint < Length - base THEN "thrown" ELSE "returned"
  /\ UNCHANGED <<loop, base, stopPoint, tries, lastLength, last, applied, threw, turns>>

RetryNext ==
  \/ TurnThrows \/ TurnSingle \/ TurnBatch \/ TurnBatchUi
  \/ Return \/ ReturnOrFailToCreate

RetrySpec == RetryInit /\ [][RetryNext]_retryVars

-----------------------------------------------------------------------------
(* Properties.                                                             *)

\* As long as no turn threw, everything sliced off was sent and resolved: the
\* loop only moves past what sendTransactions reported (connection.tsx:240).
PrefixResolved == ~threw => \A t \in 1..base : last[t] = "resolved"

\* As long as no turn threw, a retry starts at a transaction whose last send
\* was rejected, never at one that was not sent (connection.tsx:257).
RestartsAtRejected ==
  ~threw /\ turns > 0 /\ loop # "candyMachineUi" /\ stopPoint < Length - base =>
    last[base + stopPoint + 1] = "rejected"

\* The loop gives up: whatever the answers, the user is asked to sign at most
\* four times for one length of the list, and four times for each transaction
\* altogether (connection.tsx:239-244).
BoundedTurns ==
  /\ turns <= 4 * base + tries + 1
  /\ turns <= 4 * Length

\* The inductive strengthening of the invariants above: lastLength is the
\* length of the current list, the copy in candy-machine-ui never slices, and
\* what lies before the next start is resolved.
LengthKnown == IF turns = 0 THEN lastLength = 0 /\ base = 0 /\ stopPoint = 0 /\ tries = 0
               ELSE lastLength = Length - base
UiNeverSlices == loop = "candyMachineUi" => base = 0 /\ (stopPoint = 0 \/ stopPoint = Length)
NextStartResolved ==
  ~threw /\ stopPoint < Length - base => \A t \in 1..(base + stopPoint) : last[t] = "resolved"
RetryInv ==
  /\ RetryTypeOK
  /\ LengthKnown
  /\ UiNeverSlices
  /\ NextStartResolved
  /\ PrefixResolved
  /\ RestartsAtRejected
  /\ BoundedTurns
=============================================================================
