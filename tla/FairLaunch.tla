----------------------------- MODULE FairLaunch -----------------------------
(***************************************************************************)
(* The fair launch tool, cli/src/fair-launch-cli.ts: buyers' tickets and    *)
(* their sequence accounts, the lottery the authority draws and writes into *)
(* a bitmap, and the command that serves every outstanding ticket.          *)
(*                                                                         *)
(* A command reads accounts, computes and calls the program, one await      *)
(* after another, while other commands do the same.  A call may be refused  *)
(* or lost, or take effect although its caller is told of an error.         *)
(***************************************************************************)
EXTENDS Integers, FiniteSets, FiniteSetsExt

CONSTANTS
    Buyers,
    Prices,         \* what a ticket may offer
    Tokens,         \* numberOfTokens
    Whitelist,      \* buyers in the whitelist file
    ByteSize,       \* bits in a byte of the bitmap (8)
    ChunkBytes,     \* bytes per update of the bitmap (10)
    Header,         \* bytes before the bits, FAIR_LAUNCH_LOTTERY_SIZE
    Modulo,         \* participationModulo
    MaxTries,       \* tries of a retry loop (3)
    MaxFaults,      \* bound: calls that are lost, or whose answer is
    MaxAdjusts,     \* bound: adjustments and punches the buyers ask for
    MaxCommands     \* bound: commands of the authority

ASSUME LaunchAssumption ==
    /\ IsFiniteSet(Buyers) /\ Prices \subseteq Nat \ {0} /\ Whitelist \subseteq Buyers
    /\ {Header, Tokens, MaxFaults, MaxAdjusts, MaxCommands} \subseteq Nat
    /\ {ByteSize, ChunkBytes, Modulo, MaxTries} \subseteq Nat \ {0}

VARIABLES
    treasury,       \* what tickets are paid in, "SOL" or the "tokens" of a treasuryMint
    phase,          \* "sale" (phases one and two), "closed", "three"
    round,          \* how often the phase has changed
    ticket, sold, supply, median,
    bitmap,         \* the lottery account: whether it exists, the bytes in it
    client,         \* the command a buyer runs
    op,             \* the command the authority runs
    faults, adjusts, commands,
    result          \* history: the lottery the bitmap holds: whether all of its updates
                    \* were answered and its count of tokens holds, the round it read

program == <<ticket, sold, supply, median, bitmap>>
vars == <<treasury, phase, round, program, client, op, faults, adjusts, commands, result>>

NoTicket == [state |-> "none", amount |-> 0, seq |-> 0, gotten |-> FALSE]
Idle == [at |-> "idle", snap |-> NoTicket, median |-> 0, tries |-> 0]

Seqs == 0 .. (Cardinality(Buyers) - 1)

\* An account in bytes, each the set of the positions of its bits that are set, counted
\* from the right.  No bit is set in the bytes of a new one; the header is not empty.
Bits == 0 .. (ByteSize - 1)
Cells == 0 .. (Header + Cardinality(Buyers))
Blank == [c \in Cells |-> IF c < Header THEN Bits ELSE {}]

\* `upTo' are the tickets known, `drawn' the winners, `todo' what is left to do.
AtRest == [at |-> "idle", upTo |-> 0, median |-> 0, round |-> 0, data |-> Blank, drawn |-> {},
           snap |-> [b \in Buyers |-> NoTicket], todo |-> {}, tries |-> 0, failed |-> FALSE]

TypeOK ==
    /\ treasury \in {"SOL", "tokens"} /\ phase \in {"sale", "closed", "three"} /\ round \in Nat
    /\ ticket \in [Buyers -> [state : {"none", "noseq", "unpunched", "punched", "withdrawn"},
                              amount : Prices \cup {0}, seq : Seqs, gotten : BOOLEAN]]
    /\ sold \in 0..Cardinality(Buyers) /\ supply \in Nat /\ median \in Prices \cup {0}
    /\ bitmap \in [exists : BOOLEAN, data : [Cells -> SUBSET Bits]]
    /\ \A b \in Buyers : /\ client[b].at \in {"idle", "poll", "seq", "adjust", "nft", "punch"}
                         /\ client[b].tries \in 0..(MaxTries - 1)
    /\ op.at \in {"idle", "bitmap", "read", "write", "missing", "tickets",
                  "nft", "refund", "adjust", "punch", "served"}
    /\ op.tries \in 0..(MaxTries - 1)

Init ==
    /\ treasury \in {"SOL", "tokens"}
    /\ phase = "sale" /\ round = 0
    /\ ticket = [b \in Buyers |-> NoTicket]
    /\ sold = 0 /\ supply = 0 /\ median = 0
    /\ bitmap = [exists |-> FALSE, data |-> Blank]
    /\ client = [b \in Buyers |-> Idle] /\ op = AtRest
    /\ faults = 0 /\ adjusts = 0 /\ commands = 0
    /\ result = [ok |-> FALSE, round |-> 0]

(***************************************************************************)
(* The program (external, from the calls the tool makes).                  *)
(***************************************************************************)

Live(t) == {b \in Buyers : t[b].state \in {"noseq", "unpunched"}}

\* The least amount that half of the tickets do not exceed.
MedianOf(t) ==
    IF Live(t) = {} THEN 0
    ELSE Min({t[b].amount : b \in {c \in Live(t) :
              2 * Cardinality({d \in Live(t) : t[d].amount <= t[c].amount}) >= Cardinality(Live(t))}})

\* Accounts and calls of a command: the call is admitted and answered, refused or
\* lost, or its answer is lost.
Call(admitted, effect, answered, thrown) ==
    \/ admitted /\ effect /\ answered /\ UNCHANGED faults
    \/ ~admitted /\ UNCHANGED <<program, faults>> /\ thrown
    \/ /\ admitted /\ faults < MaxFaults /\ faults' = faults + 1
       /\ effect \/ UNCHANGED program
       /\ thrown

Put(b, t) ==
    /\ ticket' = [ticket EXCEPT ![b] = t]
    /\ median' = IF phase = "sale" THEN MedianOf(ticket') ELSE median
    /\ UNCHANGED bitmap

CanPurchase(b) == phase = "sale" /\ ticket[b].state = "none"
PurchaseEffect(b, p) ==
    /\ Put(b, [state |-> "noseq", amount |-> p, seq |-> sold, gotten |-> FALSE])
    /\ sold' = sold + 1 /\ UNCHANGED supply

CanSequence(b) == ticket[b].state = "noseq"
SequenceEffect(b) ==
    Put(b, [ticket[b] EXCEPT !.state = "unpunched"]) /\ UNCHANGED <<sold, supply>>

\* After the sale a ticket is given up or lowered to the median.
CanAdjust(b, amount) ==
    /\ ticket[b].state = "unpunched"
    /\ phase = "sale" \/ (phase = "three" /\ amount \in {0, median} /\ amount <= ticket[b].amount)
AdjustEffect(b, amount) ==
    /\ Put(b, [ticket[b] EXCEPT !.amount = amount,
                                !.state = IF amount = 0 THEN "withdrawn" ELSE @])
    /\ UNCHANGED <<sold, supply>>

\* The sequence numbers whose bit is set: the first is the leftmost of its byte.
Marks(data) ==
    {s \in Seqs : ByteSize - 1 - (s % ByteSize) \in data[Header + s \div ByteSize]}

CanPunch(b) ==
    /\ phase = "three" /\ ticket[b].state = "unpunched"
    /\ ticket[b].seq \in Marks(bitmap.data) /\ ticket[b].amount >= median
PunchEffect(b) ==
    Put(b, [ticket[b] EXCEPT !.state = "punched"]) /\ supply' = supply + 1 /\ UNCHANGED sold

CanGetNft(b) == ~ticket[b].gotten
NftEffect(b) == Put(b, [ticket[b] EXCEPT !.gotten = TRUE]) /\ UNCHANGED <<sold, supply>>

CanUpdateBitmap == phase = "closed" /\ bitmap.exists

EndSale ==
    /\ phase = "sale" /\ phase' = "closed" /\ round' = round + 1
    /\ UNCHANGED <<program, client, op, faults, adjusts, commands, result>>

(***************************************************************************)
(* adjustTicket, which the buyer and the authority share.                  *)
(***************************************************************************)

\* With a treasury of tokens an amount brings an approval, which only the buyer may sign,
\* and a revocation that is sent to the program of the launch: it is always refused.
\* Giving the ticket up needs neither.
Adjusts(b, amount) == CanAdjust(b, amount) /\ (treasury = "tokens" => amount = 0)

(***************************************************************************)
(* Commands of a buyer.                                                    *)
(***************************************************************************)

To(b, job) == client' = [client EXCEPT ![b] = job]
buyerFrame == <<phase, round, op, commands, result>>

\* purchase_ticket
PurchaseTicket(b, p) ==
    /\ client[b].at = "idle" /\ CanPurchase(b)
    /\ Call(TRUE, PurchaseEffect(b, p), To(b, [Idle EXCEPT !.at = "poll"]), To(b, Idle))
    /\ UNCHANGED <<buyerFrame, adjusts>>

\* Ten looks for the ticket; when none finds it the command dies of its undefined object.
PollTicket(b) ==
    /\ client[b].at = "poll"
    /\ \/ To(b, [Idle EXCEPT !.at = "seq"]) /\ UNCHANGED faults
       \/ faults < MaxFaults /\ faults' = faults + 1 /\ To(b, Idle)
    /\ UNCHANGED <<program, buyerFrame, adjusts>>

CreateTicketSeq(b) ==
    /\ client[b].at = "seq"
    /\ Call(CanSequence(b), SequenceEffect(b), To(b, Idle), To(b, Idle))
    /\ UNCHANGED <<buyerFrame, adjusts>>

\* adjust_ticket
AdjustTicket(b, amount) ==
    /\ client[b].at = "idle" /\ adjusts < MaxAdjusts /\ adjusts' = adjusts + 1
    /\ CanAdjust(b, amount) /\ amount # ticket[b].amount
    /\ Call(Adjusts(b, amount), AdjustEffect(b, amount), To(b, Idle), To(b, Idle))
    /\ UNCHANGED buyerFrame

\* getParticipationNft calls the program for every Modulo-th ticket.
NftDue(t) == ~t.gotten /\ t.seq % Modulo = 0

AfterAdjust(job) ==
    [job EXCEPT !.at = IF NftDue(job.snap) THEN "nft" ELSE "punch", !.tries = 0]

\* punch_ticket, which a buyer runs in phase three: the median and the ticket are read;
\* what is above the median comes back.
PunchTicket(b) ==
    /\ client[b].at = "idle" /\ adjusts < MaxAdjusts /\ adjusts' = adjusts + 1
    /\ phase = "three" /\ ticket[b].state # "none"
    /\ LET job == [Idle EXCEPT !.snap = ticket[b], !.median = median]
       IN  To(b, IF ticket[b].amount > median THEN [job EXCEPT !.at = "adjust"] ELSE AfterAdjust(job))
    /\ UNCHANGED <<program, buyerFrame, faults>>

PunchAdjust(b) ==
    /\ client[b].at = "adjust"
    /\ Call(Adjusts(b, client[b].median), AdjustEffect(b, client[b].median),
            To(b, AfterAdjust(client[b])), To(b, Idle))
    /\ UNCHANGED <<buyerFrame, adjusts>>

\* Mutant: no second try.
AgainNever(job, next) == next

\* A loop of tries ends by itself: nothing is thrown after the last.
Again(job, next) ==
    IF job.tries + 1 < MaxTries THEN [job EXCEPT !.tries = @ + 1] ELSE next

PunchNft(b) ==
    LET next == [client[b] EXCEPT !.at = "punch", !.tries = 0] IN
    /\ client[b].at = "nft"
    /\ Call(CanGetNft(b), NftEffect(b), To(b, next), To(b, Again(client[b], next)))
    /\ UNCHANGED <<buyerFrame, adjusts>>

PunchPunch(b) ==
    /\ client[b].at = "punch"
    /\ Call(CanPunch(b), PunchEffect(b), To(b, Idle), To(b, Again(client[b], Idle)))
    /\ UNCHANGED <<buyerFrame, adjusts>>

(***************************************************************************)
(* create_fair_launch_lottery.                                             *)
(***************************************************************************)

opFrame == <<phase, round, client, adjusts, result>>

Command(job) == op.at \in {"idle", "served"} /\ commands < MaxCommands /\ commands' = commands + 1 /\ op' = job

\* The launch account is read once: the number of tickets and the median are of now.
StartLottery ==
    /\ Command([AtRest EXCEPT !.at = IF bitmap.exists THEN "read" ELSE "bitmap",
                              !.upTo = sold, !.median = median, !.round = round])
    /\ UNCHANGED <<opFrame, program, faults>>

CreateBitmap ==
    /\ op.at = "bitmap"
    /\ Call(phase = "closed" /\ ~bitmap.exists,
            bitmap' = [bitmap EXCEPT !.exists = TRUE] /\ UNCHANGED <<ticket, sold, supply, median>>,
            op' = [op EXCEPT !.at = "read"], op' = AtRest)
    /\ UNCHANGED <<opFrame, commands>>

\* The tickets behind the sequence accounts.  An account that is missing is undefined
\* in the answer, and reading its data throws.
Known(upTo) == {b \in Buyers : ticket[b].state # "none" /\ ticket[b].seq < upTo}
AllSequenced(upTo) == \A b \in Known(upTo) : ticket[b].state # "noseq"

Eligible(upTo, m) == {b \in Known(upTo) : ticket[b].state = "unpunched" /\ ticket[b].amount >= m}

\* The winners a lottery may come out with: the eligible buyers of the whitelist, and
\* others at random until as many have won as there are tokens left.
Draws(known, eligible, left) ==
    LET n == IF left < Cardinality(eligible) THEN left ELSE Cardinality(eligible)
        listed == eligible \cap Whitelist
        others == n - Cardinality(listed)
    IN  IF n >= Cardinality(known) THEN {known}
        ELSE {listed \cup rest : rest \in kSubset(IF others < 0 THEN 0 ELSE others, eligible \ listed)}

\* The updates, by their numbers: each has the tickets of ChunkBytes bytes.
ChunkSize == ByteSize * ChunkBytes
Chunks(n) == {s \div ChunkSize : s \in 0..(n - 1)}

ReadAndDraw ==
    /\ op.at = "read"
    /\ IF AllSequenced(op.upTo)
       THEN \E won \in Draws(Known(op.upTo), Eligible(op.upTo, op.median), Tokens - supply) :
                op' = [op EXCEPT !.at = IF op.upTo = 0 THEN "idle" ELSE "write",
                                 !.drawn = {ticket[b].seq : b \in won},
                                 !.todo = Chunks(op.upTo)]
       ELSE op' = AtRest
    /\ UNCHANGED <<opFrame, program, faults, commands>>

\* The bytes of an update: its entries, those of the n tickets there are, fill byte after
\* byte from the left, and the last byte may be short.
Packed(chunk, n, won) ==
    LET entries == {i \in 0..(ChunkSize - 1) : chunk * ChunkSize + i < n}
    IN  [j \in {i \div ByteSize : i \in entries} |->
            {ByteSize - 1 - (i % ByteSize) : i \in {e \in entries :
                e \div ByteSize = j /\ chunk * ChunkSize + e \in won}}]

\* The bytes replace those from the offset of the update on.
Overlaid(data, chunk, n, won) ==
    LET startingOffset == (chunk * ChunkSize) \div ByteSize
        bytes == Packed(chunk, n, won)
        nth(c) == c - Header - startingOffset
    IN  [c \in Cells |-> IF nth(c) \in DOMAIN bytes THEN bytes[nth(c)] ELSE data[c]]

\* Mutant: the bytes are added to those that an earlier lottery left.
WriteBitsOr(chunk) ==
    bitmap' = [bitmap EXCEPT !.data =
        [c \in Cells |-> @[c] \cup Overlaid(bitmap.data, chunk, op.upTo, op.drawn)[c]]]

WriteBits(chunk) == bitmap' = [bitmap EXCEPT !.data = Overlaid(@, chunk, op.upTo, op.drawn)]

\* The updates are sent together and answered in any order; the command has failed
\* when one of them has, the others take place all the same.
UpdateBitmap(chunk) ==
    LET rest == [op EXCEPT !.todo = @ \ {chunk}] IN
    /\ op.at = "write" /\ chunk \in op.todo
    /\ Call(CanUpdateBitmap, WriteBits(chunk) /\ UNCHANGED <<ticket, sold, supply, median>>,
            op' = rest, op' = [rest EXCEPT !.failed = TRUE])
    /\ result' = [result EXCEPT !.ok = FALSE]
    /\ UNCHANGED <<phase, round, client, adjusts, commands>>

EndLottery ==
    /\ op.at = "write" /\ op.todo = {}
    /\ op' = AtRest
    /\ result' = [ok |-> ~op.failed, round |-> op.round]
    /\ UNCHANGED <<phase, round, client, adjusts, program, faults, commands>>

(***************************************************************************)
(* create_missing_sequences, start_phase_three, restart_phase_2,           *)
(* mint_flp_tokens.                                                        *)
(***************************************************************************)

CreateMissingSequences ==
    /\ Command([AtRest EXCEPT !.at = "missing", !.todo = {b \in Buyers : ticket[b].state = "noseq"}])
    /\ UNCHANGED <<opFrame, program, faults>>

\* A call that fails is skipped.
CreateMissing ==
    /\ op.at = "missing"
    /\ IF op.todo = {} THEN op' = AtRest /\ UNCHANGED <<program, faults>>
       ELSE LET b == CHOOSE c \in op.todo : \A d \in op.todo : ticket[c].seq <= ticket[d].seq
                rest == op' = [op EXCEPT !.todo = @ \ {b}]
            IN  Call(CanSequence(b), SequenceEffect(b), rest, rest)
    /\ UNCHANGED <<opFrame, commands>>

StartPhaseThree ==
    /\ phase = "closed" /\ bitmap.exists
    /\ Command(AtRest)
    /\ phase' = "three" /\ round' = round + 1
    /\ UNCHANGED <<program, client, faults, adjusts, result>>

RestartPhaseTwo ==
    /\ phase = "closed"
    /\ Command(AtRest)
    /\ phase' = "sale" /\ round' = round + 1
    /\ UNCHANGED <<program, client, faults, adjusts, result>>

MintTokens ==
    /\ supply < Tokens
    /\ Command(AtRest)
    /\ supply' = supply + 1
    /\ result' = [result EXCEPT !.ok = FALSE]
    /\ UNCHANGED <<phase, round, ticket, sold, median, bitmap, client, faults, adjusts>>

(***************************************************************************)
(* punch_and_refund_all_outstanding, which the authority runs in phase     *)
(* three; its slices of 1000 tickets are one slice here.                   *)
(***************************************************************************)

\* The launch and the bitmap are read before the tickets.
StartPunchAll ==
    /\ phase = "three"
    /\ Command([AtRest EXCEPT !.at = "tickets", !.upTo = sold, !.median = median, !.data = bitmap.data])
    /\ UNCHANGED <<opFrame, program, faults>>

\* Mutant: the bit is counted from the left.
IsWinnerFromLeft(job, seq) == seq % ByteSize \in job.data[Header + seq \div ByteSize]

\* The bit of a ticket in the account that was read.
IsWinner(job, seq) ==
    LET myByte == job.data[Header + seq \div ByteSize]
        positionFromRight == ByteSize - 1 - (seq % ByteSize)
    IN  positionFromRight \in myByte

\* Mutant: a ticket above the median is punched at what it offered.
StageAsOffered(job, t) ==
    IF t.state # "unpunched" THEN "next"
    ELSE IF t.amount < job.median \/ ~IsWinner(job, t.seq) THEN "refund"
    ELSE "punch"

\* What is done with a ticket after its participation token.
Stage(job, t) ==
    IF t.state # "unpunched" THEN "next"
    ELSE IF t.amount < job.median \/ ~IsWinner(job, t.seq) THEN "refund"
    ELSE IF t.amount > job.median THEN "adjust" ELSE "punch"

\* The tickets, of those read, about which something is to be done.
Outstanding(job, tickets) ==
    {b \in Known(job.upTo) : NftDue(tickets[b]) \/ Stage(job, tickets[b]) # "next"}

First == CHOOSE b \in op.todo : \A c \in op.todo : op.snap[b].seq <= op.snap[c].seq

\* The next of them, and what comes first.
Serve(job) ==
    IF job.todo = {} THEN [AtRest EXCEPT !.at = "served"]
    ELSE LET b == CHOOSE b \in job.todo : \A c \in job.todo : job.snap[b].seq <= job.snap[c].seq
         IN  [job EXCEPT !.tries = 0,
                         !.at = IF NftDue(job.snap[b]) THEN "nft" ELSE Stage(job, job.snap[b])]

NextTicket == Serve([op EXCEPT !.todo = @ \ {First}])

ReadTickets ==
    /\ op.at = "tickets"
    /\ op' = IF AllSequenced(op.upTo)
             THEN Serve([op EXCEPT !.snap = ticket, !.todo = Outstanding(op, ticket)])
             ELSE AtRest
    /\ UNCHANGED <<opFrame, program, faults, commands>>

Tries(at, admitted, effect, next) ==
    /\ op.at = at
    /\ Call(admitted, effect, op' = next, op' = Again(op, next))
    /\ UNCHANGED <<opFrame, commands>>

ServeNft ==
    LET b == First
        at == Stage(op, op.snap[b])
    IN  Tries("nft", CanGetNft(b), NftEffect(b),
              IF at = "next" THEN NextTicket ELSE [op EXCEPT !.at = at, !.tries = 0])

ServeRefund ==
    LET b == First
    IN  Tries("refund", Adjusts(b, 0), AdjustEffect(b, 0), NextTicket)

ServeAdjust ==
    LET b == First
    IN  Tries("adjust", Adjusts(b, op.median), AdjustEffect(b, op.median),
              [op EXCEPT !.at = "punch", !.tries = 0])

ServePunch ==
    LET b == First
    IN  Tries("punch", CanPunch(b), PunchEffect(b), NextTicket)

Lottery ==
    \/ StartLottery \/ CreateBitmap \/ ReadAndDraw
    \/ \E chunk \in op.todo : UpdateBitmap(chunk)
    \/ EndLottery

PunchAll == StartPunchAll \/ ReadTickets \/ ServeNft \/ ServeRefund \/ ServeAdjust \/ ServePunch

Steps ==
    \/ EndSale
    \/ \E b \in Buyers : \/ \E p \in Prices : PurchaseTicket(b, p)
                         \/ PollTicket(b) \/ CreateTicketSeq(b)
                         \/ \E amount \in Prices \cup {0} : AdjustTicket(b, amount)
                         \/ PunchTicket(b) \/ PunchAdjust(b) \/ PunchNft(b) \/ PunchPunch(b)
    \/ Lottery
    \/ CreateMissingSequences \/ CreateMissing
    \/ StartPhaseThree \/ RestartPhaseTwo \/ MintTokens
    \/ PunchAll

Next == Steps /\ UNCHANGED treasury

Spec == Init /\ [][Next]_vars

(***************************************************************************)
(* Properties.                                                             *)
(***************************************************************************)

Marked(b) == ticket[b].state # "none" /\ ticket[b].seq \in Marks(bitmap.data)
OpenWinners == {b \in Buyers : Marked(b) /\ ticket[b].state = "unpunched"}

\* A lottery whose updates were all answered, and which was read in the period in which
\* it was written, leaves phase three with a fair outcome: no more tokens are won than
\* there are for sale, the whitelist apart; the winners offer the median at least; and
\* whoever does and lost, lost because every token was won.
LotteryFair ==
    phase = "three" /\ result.ok /\ result.round = round - 1 =>
        /\ \/ supply + Cardinality(OpenWinners) <= Tokens
           \/ {b \in Buyers : Marked(b)} \subseteq Whitelist
        /\ \A b \in OpenWinners : ticket[b].amount >= median
        /\ (\E b \in Buyers : ticket[b].state = "unpunched" /\ ticket[b].amount >= median /\ ~Marked(b))
            => supply + Cardinality({b \in Buyers : Marked(b) /\ ticket[b].state # "punched"}) >= Tokens

FairOutcome == TypeOK /\ LotteryFair

\* When punch_and_refund_all_outstanding has come to its end, no ticket is outstanding,
\* unless all the tries of a call have been lost: then nobody is told.
AllServed ==
    op.at = "served" /\ faults < MaxTries => \A b \in Buyers : ticket[b].state # "unpunched"

\* Whoever got a token has paid the median and no more, with the same proviso, if the
\* tickets are paid in SOL.  In tokens nothing above the median comes back: the
\* adjustment throws as often as it is tried, and the ticket is punched as it stands.
PaysMedian ==
    treasury = "SOL" /\ faults < MaxTries =>
        \A b \in Buyers : ticket[b].state = "punched" => ticket[b].amount = median

\* The authority gives no winner's money back: the bit it reads for a ticket, byte by byte
\* from behind the header, is the bit the lottery wrote for it and the program honours.
RefundsLosersOnly ==
    [][\A b \in Buyers :
            op # op' /\ ticket[b].state = "unpunched" /\ ticket'[b].state = "withdrawn" =>
                ticket[b].amount < median \/ ~Marked(b)]_vars

=============================================================================
