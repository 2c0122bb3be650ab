----------------------------- MODULE Settlement -----------------------------
(***************************************************************************)
(* How the seller of an ended auction collects the money                   *)
(* (web/src/actions/settle.ts, called from the notification and from the   *)
(* billing page).  settle ends the auction on the chain, claims the pots   *)
(* of the winners into one escrow account and empties that account, one    *)
(* payment for each creator of each item and for the seller.  It lays the  *)
(* instructions out in transactions and the transactions in batches; a     *)
(* batch of several is sent with StopOnFailure and its answer is dropped.  *)
(*                                                                         *)
(* Against it work the winners, who claim their own pots while redeeming,  *)
(* and the recipients, who close their token accounts to get at the money. *)
(* The programs are external, from how the code uses them and              *)
(* ARCHITECTURE.md: a pot is claimed once the auction has ended, payments  *)
(* are made when every pot is in, into an account that exists.             *)
(*                                                                         *)
(* The page goes by what it read: whether the auction has ended, when it   *)
(* was loaded; the pots, then or when the auction was last visited; the    *)
(* money in the escrow, once, to decide whether to notify at all.          *)
(*                                                                         *)
(* Up to MaxFaults times a transaction is lost, or lands though its sender *)
(* is told it did not, the data of the auction cannot be pulled, or the    *)
(* page is reloaded in the middle of a settle.                             *)
(***************************************************************************)
EXTENDS Integers, Sequences, FiniteSets, SequencesExt

CONSTANTS
  Winners,      (* the bidders whose pots are to be claimed, in order        *)
  Payouts,      (* the recipient of each payment, in the order of the loops  *)
  Seller,       (* authority of the auction manager                          *)
  TxSize,       (* CLAIM_ and SETTLE_TRANSACTION_SIZE, 6 in the code         *)
  BatchSize,    (* BATCH_SIZE, 10 in the code                                *)
  Price,        (* what is in the pot of each winner                         *)
  Due,          (* what each payment takes out of the escrow                 *)
  Threshold,    (* up to this much in the escrow is not notified, 0.00001    *)
  MaxFaults

ASSUME SettlementAssumption ==
  /\ Winners \in Seq(ToSet(Winners)) /\ Payouts \in Seq(ToSet(Payouts))
  /\ IsInjective(Winners) /\ Winners # <<>>
  /\ Seller \in ToSet(Payouts)
  /\ TxSize \in Nat \ {0} /\ BatchSize \in Nat \ {0} /\ MaxFaults \in Nat
  /\ Price \in [ToSet(Winners) -> Nat \ {0}]
  /\ Due \in [DOMAIN Payouts -> Nat \ {0}]
  /\ Threshold \in Nat

Bidders == ToSet(Winners)
Recipients == ToSet(Payouts)
Payments == DOMAIN Payouts

VARIABLES
  over,       (* the auction is Ended on the chain                           *)
  claimed,    (* winners whose pot is in the escrow                          *)
  atas,       (* recipients with a token account                             *)
  funds,      (* recipients with money in it                                 *)
  paid,       (* payments made                                               *)
  pots,       (* winners whose pot the store of the page shows as not emptied *)
  found,      (* what the page made of the balance when it was loaded        *)
  ended,      (* the auction is Ended in the store of the page               *)
  bids,       (* pots the settle under way is still to claim                 *)
  stage,      (* idle, or the part of settle that is running                 *)
  from,       (* the button it was started with                              *)
  shown,      (* the icon on the notification                                *)
  todo,       (* batches still to be sent, each with what is left of it      *)
  rejected,   (* rejections in the batch at the head of todo                 *)
  disturbed,  (* something went wrong, or another actor moved, since the click *)
  faults

Stages == {"idle", "pulling", "ending", "claiming", "paying", "closing"}
chain == <<over, claimed, atas, funds, paid>>
page == <<pots, found, ended>>
vars == <<over, claimed, atas, funds, paid, pots, found, ended, bids, stage, from,
          shown, todo, rejected, disturbed, faults>>

-----------------------------------------------------------------------------
(* Transactions and batches.  An instruction says what it does and to whom. *)

Instr(op, of) == [op |-> op, of |-> of]
Instrs ==
  [op : {"end"}, of : {Seller}] \cup [op : {"claim"}, of : Bidders]
  \cup [op : {"ata"}, of : Recipients] \cup [op : {"pay"}, of : Payments]

\* Where a transaction is complete.
Full(tx) == Len(tx) >= TxSize

\* Groups of instructions fill transactions; what is left at the end makes a
\* shorter one.
Filled(groups) ==
  LET fill[i \in 0..Len(groups)] ==
        IF i = 0 THEN [txs |-> <<>>, tx |-> <<>>]
        ELSE LET b == fill[i - 1]
                 tx == b.tx \o groups[i]
             IN  IF Full(tx) THEN [txs |-> Append(b.txs, tx), tx |-> <<>>]
                 ELSE [b EXCEPT !.tx = tx]
      end == fill[Len(groups)]
  IN  IF end.tx = <<>> THEN end.txs ELSE Append(end.txs, end.tx)

\* Transactions fill batches in the same way.
Batched(groups) ==
  LET txs == Filled(groups)
  IN  [i \in 1..((Len(txs) + BatchSize - 1) \div BatchSize) |->
         SubSeq(txs, (i - 1) * BatchSize + 1, Min({i * BatchSize, Len(txs)}))]

Queue(batches) ==
  [i \in DOMAIN batches |-> [single |-> Len(batches[i]) = 1, txs |-> batches[i]]]

\* The batches for the pots of these bidders; a pot that is left out adds nothing.
ClaimBids ==
  [of \in SUBSET Bidders |->
    Queue(Batched([i \in DOMAIN Winners |->
      IF Winners[i] \in of THEN <<Instr("claim", Winners[i])>> ELSE <<>>]))]

\* Mutant of EmptyPaymentAccount: the lookup of accounts is forgotten.
EmptyPaymentAccountNoLookup ==
  [existing \in SUBSET Recipients |->
    Queue(Batched([k \in Payments |->
      IF Payouts[k] \in existing THEN <<Instr("pay", k)>>
      ELSE <<Instr("ata", Payouts[k]), Instr("pay", k)>>]))]

\* The batches of payments.  A payment brings the creation of its account with
\* it, unless the account exists or an earlier payment of the list creates it.
EmptyPaymentAccount ==
  [existing \in SUBSET Recipients |->
    LET missing(k) == /\ Payouts[k] \notin existing
                      /\ \A j \in 1..(k - 1) : Payouts[j] # Payouts[k]
    IN  Queue(Batched([k \in Payments |->
          IF missing(k) THEN <<Instr("ata", Payouts[k]), Instr("pay", k)>>
          ELSE <<Instr("pay", k)>>]))]

-----------------------------------------------------------------------------
(* The chain.                                                               *)

Of(tx, op) == {tx[i].of : i \in {j \in DOMAIN tx : tx[j].op = op}}
Count(tx, op) == Cardinality({j \in DOMAIN tx : tx[j].op = op})

\* What a transaction needs to be accepted; all of it happens or nothing.
Accepted(tx) ==
  /\ Of(tx, "end") # {} => ~over
  /\ Of(tx, "claim") # {} => over
  /\ Of(tx, "ata") \cap atas = {} /\ Count(tx, "ata") = Cardinality(Of(tx, "ata"))
  /\ Of(tx, "pay") # {} => claimed = Bidders
  /\ \A k \in Of(tx, "pay") : Payouts[k] \in atas \cup Of(tx, "ata")

\* Nothing tells whether a pot that is empty may be claimed again.
MayBeRefused(tx) == ~Accepted(tx) \/ Of(tx, "claim") \cap claimed # {}

Land(tx) ==
  /\ over' = (over \/ Of(tx, "end") # {})
  /\ claimed' = claimed \cup Of(tx, "claim")
  /\ atas' = atas \cup Of(tx, "ata")
  /\ funds' = funds \cup {Payouts[k] : k \in Of(tx, "pay") \ paid}
  /\ paid' = paid \cup Of(tx, "pay")

\* The escrow holds the claimed pots less what was paid out of them.
Balance ==
  MapThenSumSet(LAMBDA w : Price[w], claimed) - MapThenSumSet(LAMBDA k : Due[k], paid)

Fault == faults < MaxFaults /\ faults' = faults + 1 /\ disturbed' = TRUE
NoFault == UNCHANGED <<faults, disturbed>>

-----------------------------------------------------------------------------
(* The page.                                                                *)

\* Little is in the escrow: the auction is not notified, whatever its pots hold.
Small == 0 < Balance /\ Balance <= Threshold

\* Mutant of Fresh: only money in the escrow makes a notification, as if no
\* auction ended with all its pots still full.
FreshMoneyOnly ==
  /\ found' = IF Balance <= Threshold THEN "dropped" ELSE "money"
  /\ pots' = Bidders \ claimed /\ ended' = over /\ shown' = "none"

\* What a load brings: the pots and the auction with the rest of the store, and
\* the balance of the escrow, read once (a mutex that is never released).
Fresh ==
  /\ found' = IF Small THEN "dropped" ELSE IF Balance > 0 THEN "money" ELSE "empty"
  /\ pots' = Bidders \ claimed /\ ended' = over /\ shown' = "none"

Load ==
  /\ stage = "idle" /\ Fresh
  /\ UNCHANGED <<chain, bids, stage, from, todo, rejected, disturbed, faults>>

\* A reload that kills a settle under way.
Reload ==
  /\ stage # "idle" /\ Fault /\ Fresh
  /\ stage' = "idle" /\ bids' = {} /\ todo' = <<>> /\ rejected' = 0
  /\ UNCHANGED <<chain, from>>

\* The page of the auction pulls its pots again, but not the auction.
Visit ==
  /\ pots' = Bidders \ claimed
  /\ UNCHANGED <<chain, found, ended, bids, stage, from, shown, todo, rejected,
                 disturbed, faults>>

\* How settle begins with these pots: the stored auction says whether it has to
\* be ended.
Begin(of) ==
  IF ended THEN stage' = "claiming" /\ todo' = ClaimBids[of] /\ bids' = {}
  ELSE stage' = "ending" /\ todo' = Queue(<<<<<<Instr("end", Seller)>>>>>>) /\ bids' = of

\* A click on what is no longer so is disturbed from the start.
Stale(of) == of \cap claimed # {} \/ ended # over

Offered == found # "dropped" /\ (pots # {} \/ found = "money") /\ shown # "success"

\* The pots to claim are those shown at the click; the data of the auction is
\* pulled before they are claimed.
ClickNotification ==
  /\ stage = "idle" /\ Offered
  /\ stage' = "pulling" /\ from' = "notification" /\ shown' = "none"
  /\ bids' = pots /\ disturbed' = Stale(pots)
  /\ UNCHANGED <<chain, page, todo, rejected, faults>>

\* The billing page settles at once, the pots it showed when it was opened.
ClickBilling ==
  \E of \in SUBSET Bidders :
    /\ stage = "idle" /\ pots \subseteq of
    /\ from' = "billing" /\ Begin(of) /\ disturbed' = Stale(of)
    /\ UNCHANGED <<chain, page, shown, rejected, faults>>

\* How a settle ends; only the notification shows it.
End(result) ==
  /\ stage' = "idle" /\ bids' = {} /\ todo' = <<>> /\ rejected' = 0
  /\ shown' = IF from = "notification" THEN result ELSE shown

\* The pull brings the pots, or leaves the store as it is while the page is still
\* loading.  One that fails, or leaves the auction incomplete, ends the settle;
\* in the second case the notification shows success.
Pulled ==
  /\ stage = "pulling"
  /\ \/ /\ pots' \in {pots, Bidders \ claimed} /\ Begin(bids) /\ NoFault
        /\ UNCHANGED <<rejected, shown>>
     \/ /\ End("failed") \/ End("success")
        /\ Fault /\ UNCHANGED pots
  /\ UNCHANGED <<chain, found, ended, from>>

\* The head batch without its first transaction, or the batches behind it.
Rest ==
  LET b == Head(todo)
  IN  IF Len(b.txs) = 1 THEN Tail(todo) ELSE <<[b EXCEPT !.txs = Tail(b.txs)]>> \o Tail(todo)

Told ==
  /\ todo' = Rest
  /\ rejected' = IF Len(Rest) < Len(todo) THEN 0 ELSE rejected
  /\ UNCHANGED <<bids, stage, shown>>

\* A batch of one transaction throws.  One of several runs on through the first
\* rejection and stops at the second, and settle goes on with the next batch.
ToldRejected ==
  IF Head(todo).single THEN End("failed")
  ELSE LET left == IF rejected = 1 THEN Tail(todo) ELSE Rest
       IN  /\ todo' = left
           /\ rejected' = IF Len(left) < Len(todo) THEN 0 ELSE 1
           /\ UNCHANGED <<bids, stage, shown>>

Sending == todo # <<>>
NextTx == Head(Head(todo).txs)

Lands == Sending /\ Accepted(NextTx) /\ Land(NextTx) /\ Told /\ NoFault /\ UNCHANGED <<page, from>>
Refused ==
  /\ Sending /\ MayBeRefused(NextTx) /\ ToldRejected
  /\ NoFault /\ UNCHANGED <<chain, page, from>>
Lost == Sending /\ Fault /\ ToldRejected /\ UNCHANGED <<chain, page, from>>
LandsUntold ==
  /\ Sending /\ Accepted(NextTx) /\ Fault
  /\ Land(NextTx) /\ ToldRejected /\ UNCHANGED <<page, from>>

\* The auction is ended, then the pots are claimed, then the accounts are looked
\* up and the escrow is emptied.
NextStage ==
  /\ ~Sending /\ UNCHANGED <<chain, page, from, faults, disturbed>>
  /\ \/ /\ stage = "ending" /\ stage' = "claiming" /\ todo' = ClaimBids[bids]
        /\ bids' = {} /\ UNCHANGED <<rejected, shown>>
     \/ /\ stage = "claiming" /\ stage' = "paying" /\ todo' = EmptyPaymentAccount[atas]
        /\ UNCHANGED <<bids, rejected, shown>>
     \/ stage = "paying" /\ from = "billing" /\ End("success")
     \/ /\ stage = "paying" /\ from = "notification" /\ stage' = "closing"
        /\ UNCHANGED <<bids, todo, rejected, shown>>

Close(r) == atas' = atas \ {r} /\ funds' = funds \ {r} /\ UNCHANGED <<over, claimed, paid>>

\* Behind the notification the seller's account is closed, which fails if there
\* is none.
CloseEscrow ==
  /\ stage = "closing"
  /\ \/ Seller \in atas /\ Close(Seller) /\ End("success")
     \/ Seller \notin atas /\ End("failed") /\ UNCHANGED chain
  /\ NoFault /\ UNCHANGED <<page, from>>

-----------------------------------------------------------------------------
(* The other actors, on pages of their own.                                 *)

Elsewhere ==
  /\ disturbed' = TRUE
  /\ UNCHANGED <<page, bids, stage, from, shown, todo, rejected, faults>>

\* A winner ends the auction or claims its own pot (sendRedeemBid).
BidderEnds == ~over /\ Land(<<Instr("end", Seller)>>) /\ Elsewhere
BidderClaims(w) == over /\ w \notin claimed /\ Land(<<Instr("claim", w)>>) /\ Elsewhere

\* A recipient with unsettled funds closes its account to get at them.
Collapse(r) == r \in funds /\ Close(r) /\ Elsewhere

Init ==
  /\ over \in BOOLEAN /\ claimed = {} /\ atas \in SUBSET Recipients
  /\ funds = {} /\ paid = {}
  /\ pots = Bidders /\ found = "empty" /\ ended \in {FALSE, over} /\ bids = {}
  /\ stage = "idle" /\ from = "billing" /\ shown = "none"
  /\ todo = <<>> /\ rejected = 0 /\ disturbed = FALSE /\ faults = 0

Settle == ClickNotification \/ ClickBilling
Send == Lands \/ Refused \/ Lost \/ LandsUntold
Others ==
  \/ BidderEnds
  \/ \E w \in Bidders : BidderClaims(w)
  \/ \E r \in Recipients : Collapse(r)

Next ==
  \/ Load \/ Reload \/ Visit
  \/ Settle \/ Pulled \/ Send \/ NextStage \/ CloseEscrow
  \/ Others

\* The page goes on with what it does, and the seller clicks while the
\* notification is there: which step that is, Next says.
Proceed == stage # "idle" /\ ~Sending /\ stage' \in Stages
Click == stage = "idle" /\ Offered /\ stage' = "pulling"

\* What is sent is answered; the seller comes back to the page and clicks.
Fairness ==
  /\ WF_vars(Send) /\ WF_stage(Proceed)
  /\ SF_vars(Load) /\ SF_stage(Click)

Spec == Init /\ [][Next]_vars /\ Fairness

-----------------------------------------------------------------------------
(* Properties.                                                              *)

TypeOK ==
  /\ over \in BOOLEAN /\ claimed \subseteq Bidders /\ atas \subseteq Recipients
  /\ funds \subseteq atas /\ paid \subseteq Payments
  /\ pots \subseteq Bidders /\ bids \subseteq Bidders
  /\ found \in {"money", "empty", "dropped"} /\ ended \in BOOLEAN
  /\ stage \in Stages
  /\ from \in {"notification", "billing"} /\ shown \in {"none", "success", "failed"}
  /\ \A i \in DOMAIN todo : todo[i].txs \in Seq(Seq(Instrs)) /\ todo[i].txs # <<>>
  /\ rejected \in 0..1 /\ disturbed \in BOOLEAN /\ faults \in 0..MaxFaults

\* A transaction of settle.ts holds at most one instruction more than its size
\* (a payment that brings its account with it), a batch at most BATCH_SIZE
\* transactions, and no instruction is laid out twice.
BatchesFit ==
  LET txs == FlattenSeq([i \in DOMAIN todo |-> todo[i].txs])
      all == FlattenSeq(txs)
  IN  /\ TypeOK
      /\ \A i \in DOMAIN todo : Len(todo[i].txs) <= BatchSize
      /\ \A i \in DOMAIN txs : Len(txs[i]) <= TxSize + 1
      /\ IsInjective(all)

\* A settlement nobody disturbs, from a page whose auction and pots are up to
\* date, is not refused anything: when it is done, every pot is in and every
\* payment made.  The transactions are built before the ones they depend on are
\* sent, from accounts looked up once, and cut into batches at two sizes, none of
\* which ever passes its bound.
UndisturbedSettles ==
  disturbed \/ stage # "paying" \/ Sending \/ (claimed = Bidders /\ paid = Payments)
UndisturbedRefusedNothing ==
  disturbed \/ ~Sending \/ Accepted(NextTx)
SettledInFull == BatchesFit /\ UndisturbedSettles /\ UndisturbedRefusedNothing

\* Everybody is paid in the end, whatever is lost on the way: a batch that
\* failed silently is found again from the balance of the escrow when the page
\* is loaded the next time.  The exception is the threshold of the notification:
\* little in the escrow hides all the pots and payments that are left.
EventuallyPaid == <>(paid = Payments) \/ <>[]Small
=============================================================================
