----------------------------- MODULE Redemption -----------------------------
(***************************************************************************)
(* How the prizes of an ended auction leave it: a bidder redeems what it   *)
(* won and has the rest refunded (sendRedeemBid, sendCancelBid of          *)
(* web/src/actions), the seller takes back what nobody won, after printing *)
(* for the others what they have not redeemed (claimUnusedPrizes).  All of *)
(* them work at the same time, each from a page that may show an older     *)
(* state of the chain, with a list of transactions built before the first  *)
(* of them is sent.                                                        *)
(*                                                                         *)
(* A place may win editions of one master (PrintingV2) and a box           *)
(* (FullRightsTransfer or TokenOnlyTransfer); those who are eligible get   *)
(* an edition of the participation master.  The deprecated PrintingV1 and  *)
(* MasterEditionV1 are left out.                                           *)
(*                                                                         *)
(* The programs are external, from how the code uses them and              *)
(* ARCHITECTURE.md: an edition is printed once, with the number that       *)
(* follows from the prize tracking ticket (or the supply, before there is  *)
(* one); the master leaves when all of its winners have theirs.            *)
(***************************************************************************)
EXTENDS Integers, Sequences, FiniteSets, SequencesExt

CONSTANTS
  Outcomes,   (* how the auction may have ended: bids, the highest first, and *)
              (* who gets a participation print (winners, losers)            *)
  NumPlaces,  (* numWinners of the auction manager, max of the bid state     *)
  Prints,     (* editions of the master for each place                       *)
  Boxes,      (* places with a box                                           *)
  Seller,     (* authority of the auction manager, no bidder                 *)
  Absent,     (* bidders who never come back for what is theirs              *)
  Supply,     (* editions printed before the auction                         *)
  MaxFaults   (* calls and answers lost, pages out of date, altogether       *)

Places == 1..NumPlaces
Bidders == UNION {ToSet(o.bids) : o \in Outcomes}
Pages == Bidders \cup {Seller}

ASSUME RedemptionAssumption ==
  /\ \A o \in Outcomes : /\ o.bids \in Seq(ToSet(o.bids)) /\ IsInjective(o.bids)
                         /\ o.prints \subseteq {"winners", "losers"}
  /\ Seller \notin Bidders /\ Absent \subseteq Bidders /\ NumPlaces \in Nat
  /\ Prints \in [Places -> Nat] /\ Boxes \subseteq Places
  /\ Supply \in Nat /\ MaxFaults \in Nat

NoTicket == -1
MaxTries == 3

VARIABLES
  auction,   (* the outcome                                                  *)
  over,      (* the auction's account says that it has ended                 *)
  printed,   (* the editions of the master: whose, for which place, number  *)
  ticket,    (* prize tracking ticket: the supply at the first redemption    *)
  box,       (* who has the box of each place                                *)
  pot,       (* full, claimed or refunded; none for those who did not bid    *)
  part,      (* the participation prints: whose and number                   *)
  out,       (* masters the seller has back                                  *)
  run,       (* what each page is sending                                    *)
  disturbed, (* pages for which something went wrong since their click       *)
  faults

chain == <<auction, over, printed, ticket, box, pot, part, out>>
vars == <<auction, over, printed, ticket, box, pot, part, out, run, disturbed, faults>>

-----------------------------------------------------------------------------
(* What the chain shows.                                                    *)

\* getWinnerAt and getWinnerIndex: the highest bids win, as many as there are
\* places.
Won == {i \in DOMAIN auction.bids : i \in Places}
Winners == {auction.bids[i] : i \in Won}
PlaceOf(b) == CHOOSE i \in Won : auction.bids[i] = b
Eligible ==
  (IF "winners" \in auction.prints THEN Winners ELSE {})
  \cup (IF "losers" \in auction.prints THEN ToSet(auction.bids) \ Winners ELSE {})

SupplyNow == Supply + Cardinality(printed)
HasPart == {p.of : p \in part}
PartSupply == Cardinality(part)
GivenBox == {i \in Places : box[i] # "vault"}

\* What a page knows when the user clicks.  Each account is as it is, or as it
\* was some time ago.
Current == [over |-> over, ticket |-> ticket, supply |-> SupplyNow, given |-> GivenBox,
            part |-> HasPart, partSupply |-> PartSupply,
            refunded |-> {b \in Bidders : pot[b] = "refunded"}]

Older ==
  {[Current EXCEPT !.over = FALSE],
   [Current EXCEPT !.ticket = NoTicket], [Current EXCEPT !.supply = Supply],
   [Current EXCEPT !.ticket = NoTicket, !.supply = Supply],
   [Current EXCEPT !.given = {}], [Current EXCEPT !.part = {}],
   [Current EXCEPT !.partSupply = 0]}

-----------------------------------------------------------------------------
(* The lists of transactions.                                               *)

Tx(op, of, place, number) == [op |-> op, of |-> of, place |-> place, number |-> number]

\* The editions of the places before, and one.
Offset(place) ==
  LET sum[i \in 0..NumPlaces] == IF i = 0 THEN 1 ELSE sum[i - 1] + Prints[i]
  IN  sum[place - 1]

\* Mutant of Desired: the ticket is not looked at.
DesiredBySupply(v, place, k) == v.supply + Offset(place) + k

Desired(v, place, k) ==
  (IF v.ticket # NoTicket THEN v.ticket ELSE v.supply) + Offset(place) + k

Taken == {p.number : p \in printed}

Unless(skip, txs) == IF skip THEN <<>> ELSE txs

\* One transaction for each edition that is not taken yet; the marks of the
\* editions are read from the chain.
PrintEditions(v, place) ==
  FlattenSeq([k \in 1..Prints[place] |->
    LET number == Desired(v, place, k - 1)
    IN  Unless(number \in Taken, <<Tx("print", auction.bids[place], place, number)>>)])

RedeemBox(v, place, for) ==
  Unless(place \notin Boxes \/ place \in v.given, <<Tx("box", for, place, 0)>>)

\* A participation print is minted, redeemed and, for oneself, marked as sold,
\* in transactions of their own.
RedeemParticipation(v, b, self) ==
  <<Tx("mint", b, 0, 0), Tx("part", b, 0, v.partSupply + 1)>>
  \o Unless(~self, <<Tx("sale", b, 0, 0)>>)

IsEligible(v, b) == b \in Eligible \ v.part

\* sendRedeemBid, and sendCancelBid for those who won nothing.
Redeem(v, b) ==
  (IF b \in Winners
   THEN PrintEditions(v, PlaceOf(b)) \o RedeemBox(v, PlaceOf(b), b) \o <<Tx("claim", b, 0, 0)>>
   ELSE <<Tx("cancel", b, 0, 0)>>)
  \o Unless(~IsEligible(v, b), RedeemParticipation(v, b, TRUE))

\* Bidders who did not cancel their bid and have not redeemed.
FindEligibleParticipation(v) ==
  {b \in ToSet(auction.bids) \ v.refunded : IsEligible(v, b)}

\* Their prints are prepared at the same time: each one's mint comes before its
\* redemption, with those of the others anywhere between.
Interleaved(v) ==
  LET others == FindEligibleParticipation(v)
      txs == UNION {ToSet(RedeemParticipation(v, b, FALSE)) : b \in others}
  IN  {s \in SetToSeqs(txs) :
         \A i, j \in DOMAIN s : s[i].op = "mint" /\ s[j].op = "part" /\ s[i].of = s[j].of => i < j}

\* Mutant of TakeBoxes: the boxes of places that were won are taken as well.
TakeBoxesAll(v) ==
  FlattenSeq([i \in Places |->
    Unless(box[i] # "vault", RedeemBox(v, i, Seller))])

\* Mutant of TakeBoxes: one place more counts as won.
TakeBoxesButOne(v) ==
  FlattenSeq([i \in Places |->
    Unless(i <= Len(auction.bids) + 1 \/ box[i] # "vault", RedeemBox(v, i, Seller))])

\* The boxes nobody won, unless they are empty.
TakeBoxes(v) ==
  FlattenSeq([i \in Places |->
    Unless(i <= Len(auction.bids) \/ box[i] # "vault", RedeemBox(v, i, Seller))])

\* claimUnusedPrizes: what the others have not redeemed is printed first.
ClaimUnused(v, prints) ==
  Unless("part" \in out, prints \o <<Tx("take", Seller, 0, 1)>>)
  \o Unless("master" \in out, FlattenSeq([i \in 1..Cardinality(Won) |-> PrintEditions(v, i)]))
  \o TakeBoxes(v)
  \o Unless("master" \in out, <<Tx("take", Seller, 0, 2)>>)

\* A bid of nothing ends the auction, before anything else is asked of it.
EndAuction(v, p) == Unless(v.over, <<Tx("end", p, 0, 0)>>)

\* What a page that shows v may send.
ListsOf(p, v) ==
  {EndAuction(v, p) \o list : list \in
     IF p = Seller THEN {ClaimUnused(v, prints) : prints \in Interleaved(v)} ELSE {Redeem(v, p)}}

-----------------------------------------------------------------------------
(* The programs.                                                            *)

PrintsOf(place) == {p \in printed : p.place = place}
AllPrinted == \A i \in Won : Cardinality(PrintsOf(i)) = Prints[i]

Accepted(p, t) ==
  CASE t.op = "print" ->
         /\ "master" \notin out /\ t.number \notin Taken
         /\ \E k \in 0..(Prints[t.place] - 1) :
              t.number = (IF ticket # NoTicket THEN ticket ELSE SupplyNow) + Offset(t.place) + k
    [] t.op = "box" -> box[t.place] = "vault"
    [] t.op = "end" -> TRUE
    [] t.op = "claim" -> over /\ pot[t.of] # "refunded"
    [] t.op = "cancel" -> pot[t.of] # "claimed"
    [] t.op = "mint" -> t.of \notin run[p].minted
    [] t.op = "part" -> /\ "part" \notin out /\ t.of \in run[p].minted \ HasPart
                        /\ \A q \in part : q.number # t.number
    [] t.op = "sale" -> t.of \in HasPart
    [] t.op = "take" -> IF t.number = 1 THEN "part" \notin out
                        ELSE "master" \notin out /\ AllPrinted

\* Nothing tells whether a pot that is empty may be claimed or refunded again,
\* whether an auction that has ended may be ended again, and what else is refused
\* until it has.
MayBeRefused(p, t) ==
  \/ ~Accepted(p, t)
  \/ t.op \in {"claim", "cancel"} /\ pot[t.of] # "full"
  \/ t.op = "end" <=> over

Effect(p, t) ==
  /\ printed' = printed \cup
       (IF t.op = "print" THEN {[of |-> t.of, place |-> t.place, number |-> t.number]} ELSE {})
  /\ over' = (over \/ t.op = "end")
  /\ ticket' = IF t.op = "print" /\ ticket = NoTicket THEN SupplyNow ELSE ticket
  /\ box' = IF t.op = "box" THEN [box EXCEPT ![t.place] = t.of] ELSE box
  /\ pot' = IF t.op = "claim" THEN [pot EXCEPT ![t.of] = "claimed"]
            ELSE IF t.op = "cancel" THEN [pot EXCEPT ![t.of] = "refunded"] ELSE pot
  /\ part' = part \cup (IF t.op = "part" THEN {[of |-> t.of, number |-> t.number]} ELSE {})
  /\ UNCHANGED auction
  /\ out' = out \cup (IF t.op = "take" THEN {IF t.number = 1 THEN "part" ELSE "master"} ELSE {})

-----------------------------------------------------------------------------
(* The pages.                                                               *)

Idle == [list |-> <<>>, at |-> 0, failed |-> <<>>, stop |-> 0, tries |-> 0,
         last |-> 0, minted |-> {}, retry |-> FALSE]
IsIdle(p) == run[p] = Idle

\* Who is eligible for anything sends with the retry loop; who is only refunded,
\* and the seller, send their list once.
EligibleForAnything(v, p) == p \in Winners \/ IsEligible(v, p)

\* The next turn over what is left behind the answer of the last one.
Turn(r) ==
  LET left == SubSeq(r.list, r.stop + 1, Len(r.list))
      tries == IF Len(left) = r.last THEN r.tries + 1 ELSE 0
  IN  IF left = <<>> \/ r.tries >= MaxTries THEN Idle
      ELSE [r EXCEPT !.list = left, !.at = 1, !.failed = <<>>, !.last = Len(left), !.tries = tries]

Ends(r) == IF r.retry THEN Turn(r) ELSE Idle

\* How a turn goes on behind a transaction: it stops at the second rejection
\* with the index of the first; a single transaction that is rejected leaves
\* the answer as it was.
Told(p, landed, resolved) ==
  LET r == run[p]
      t == r.list[r.at]
      failed == IF resolved THEN r.failed ELSE Append(r.failed, r.at)
      minted == IF t.op = "mint" /\ landed THEN r.minted \cup {t.of} ELSE r.minted
      s == [r EXCEPT !.failed = failed, !.minted = minted]
  IN  IF Len(r.list) = 1 THEN Ends(IF resolved THEN [s EXCEPT !.stop = 1] ELSE s)
      ELSE IF Len(failed) = 2 THEN Ends([s EXCEPT !.stop = failed[1] - 1])
      ELSE IF r.at = Len(r.list) THEN Ends([s EXCEPT !.stop = Len(r.list)])
      ELSE [s EXCEPT !.at = r.at + 1]

\* Who has still something to get.
Wants(p) ==
  IF p = Seller THEN out # {"part", "master"} \/ \E i \in Boxes \ Won : box[i] = "vault"
  ELSE \/ pot[p] = "full"
       \/ p \in Eligible \ HasPart /\ "part" \notin out
       \/ /\ p \in Winners
          /\ \/ PlaceOf(p) \in Boxes /\ box[PlaceOf(p)] = "vault"
             \/ Cardinality(PrintsOf(PlaceOf(p))) < Prints[PlaceOf(p)]

MayClick(p) == IsIdle(p) /\ Wants(p)

Click(p, v) ==
  /\ MayClick(p)
  /\ \E list \in ListsOf(p, v) :
       run' = [run EXCEPT ![p] =
                 Turn([Idle EXCEPT !.list = list, !.retry = EligibleForAnything(v, p)])]
  /\ UNCHANGED chain

ClickFresh(p) ==
  /\ Click(p, Current)
  /\ disturbed' = disturbed \ {p} /\ UNCHANGED faults

ClickStale(p) ==
  /\ faults < MaxFaults /\ faults' = faults + 1
  /\ \E v \in Older : Click(p, v)
  /\ disturbed' = disturbed \cup {p}

Sending(p) == run[p].at # 0
NextTx(p) == run[p].list[run[p].at]

BusyBeside(p) == {q \in Pages \ {p} : ~IsIdle(q)}

\* What one page changes disturbs the others.
Lands(p) ==
  /\ Sending(p) /\ Accepted(p, NextTx(p)) /\ Effect(p, NextTx(p))
  /\ run' = [run EXCEPT ![p] = Told(p, TRUE, TRUE)]
  /\ disturbed' = disturbed \cup BusyBeside(p)
  /\ UNCHANGED faults

Refused(p) ==
  /\ Sending(p) /\ MayBeRefused(p, NextTx(p))
  /\ run' = [run EXCEPT ![p] = Told(p, FALSE, FALSE)]
  /\ UNCHANGED <<chain, disturbed, faults>>

Lost(p) ==
  /\ Sending(p) /\ faults < MaxFaults /\ faults' = faults + 1
  /\ run' = [run EXCEPT ![p] = Told(p, FALSE, FALSE)]
  /\ disturbed' = disturbed \cup {p}
  /\ UNCHANGED chain

\* A transaction lands and its sender is told that it was rejected.
Unheard(p) ==
  /\ Sending(p) /\ Accepted(p, NextTx(p)) /\ Effect(p, NextTx(p))
  /\ faults < MaxFaults /\ faults' = faults + 1
  /\ run' = [run EXCEPT ![p] = Told(p, TRUE, FALSE)]
  /\ disturbed' = disturbed \cup {p} \cup BusyBeside(p)

\* A turn fails before it sends any of its transactions: the answer of the turn
\* before is used once more, and what it points over is dropped.
Throws(p) ==
  /\ Sending(p) /\ run[p].at = 1
  /\ faults < MaxFaults /\ faults' = faults + 1
  /\ run' = [run EXCEPT ![p] = Ends(run[p])]
  /\ disturbed' = disturbed \cup {p}
  /\ UNCHANGED chain

Init ==
  /\ auction \in Outcomes /\ over = FALSE
  /\ printed = {} /\ ticket = NoTicket
  /\ box = [i \in Places |-> IF i \in Boxes THEN "vault" ELSE "none"]
  /\ pot = [b \in Bidders |-> IF b \in ToSet(auction.bids) THEN "full" ELSE "none"]
  /\ part = {} /\ out = {}
  /\ run = [p \in Pages |-> Idle]
  /\ disturbed = {} /\ faults = 0

Send(p) == Lands(p) \/ Refused(p) \/ Lost(p) \/ Unheard(p) \/ Throws(p)

Visitors == Pages \ Absent

Next == \E p \in Visitors : ClickFresh(p) \/ ClickStale(p) \/ Send(p)

\* What is sent is answered: weak fairness of Send(p), which is enabled exactly
\* while p is sending and is the only action that then changes run[p].
Answered(p) == []<>~Sending(p) \/ []<><<Sending(p) /\ run'[p] # run[p]>>_run

\* Whoever comes back does so while there is something to get, to an up to date
\* page, and clicks:
\* strong fairness of ClickFresh(p), enabled exactly when there is something to
\* send.
ComesBack(p) ==
  \/ <>[]~(MayClick(p) /\ ListsOf(p, Current) # {<<>>})
  \/ []<><<MayClick(p) /\ ~IsIdle(p)' /\ p \notin disturbed'>>_vars

Fairness == \A p \in Visitors : Answered(p) /\ ComesBack(p)

Spec == Init /\ [][Next]_vars /\ Fairness

-----------------------------------------------------------------------------
(* Properties.                                                              *)

TypeOK ==
  /\ over \in BOOLEAN /\ ticket \in {NoTicket, Supply} /\ out \subseteq {"part", "master"}
  /\ pot \in [Bidders -> {"none", "full", "claimed", "refunded"}]
  /\ \A p \in Pages : run[p].at \in 0..Len(run[p].list) /\ Len(run[p].failed) <= 1

\* Winner number one gets edition number one, and so on (ARCHITECTURE.md:939),
\* from whichever page and in whichever order the editions are printed.
EditionsByPlace ==
  \A p \in printed :
    /\ p.place \in Won /\ p.of = auction.bids[p.place]
    /\ p.number - Supply \in (Offset(p.place)..(Offset(p.place) + Prints[p.place] - 1))

\* A box goes to the winner of its place, and to the seller if nobody won it.
BoxesByPlace ==
  \A i \in Boxes : box[i] \in {"vault", IF i \in Won THEN auction.bids[i] ELSE Seller}

\* The pots of winners are claimed, those of the others refunded.
PotsByPlace ==
  \A b \in ToSet(auction.bids) : pot[b] \in {"full", IF b \in Winners THEN "claimed" ELSE "refunded"}

PrizesByPlace == TypeOK /\ EditionsByPlace /\ BoxesByPlace /\ PotsByPlace

\* A list built from an up to date page is not refused anything while nobody
\* else changes the chain.  Two things are left out: a seller's list that prints
\* for several participants, for all of them get one edition number, and lists
\* with a participation print when its master was taken behind a failed one.
PrintsFor(p) == {i \in DOMAIN run[p].list : run[p].list[i].op = "part"}

UndisturbedAccepted ==
  \A p \in Pages \ disturbed :
    Sending(p) /\ ~Accepted(p, NextTx(p)) =>
      Cardinality(PrintsFor(p)) > 1 \/ (PrintsFor(p) # {} /\ "part" \in out)

\* Whatever is lost or out of date, everybody who comes back has what is theirs
\* in the end, and the editions of the others are printed for them.
AllServed ==
  /\ \A i \in Won : Cardinality(PrintsOf(i)) = Prints[i]
  /\ \A i \in Boxes : (i \in Won => auction.bids[i] \in Visitors) => box[i] # "vault"
  /\ \A b \in Bidders \ Absent : pot[b] # "full"
  /\ out = {"part", "master"}
EventuallyServed == <>AllServed
=============================================================================
