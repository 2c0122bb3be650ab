----------------------------- MODULE PackOpening ----------------------------
(***************************************************************************)
(* A visitor with a voucher opens a pack (web/src/views/pack): requests    *)
(* cards, reads which ones were drawn, claims them one by one, and comes   *)
(* back to it after whatever went wrong, while the page polls the proving  *)
(* process and other visitors open packs with the same cards.              *)
(*                                                                         *)
(* A call of handleOpenPack keeps the process of the render in which the   *)
(* modal last changed (onClickOpen depends on nothing else), and the modal *)
(* can be left with Escape while a call runs.                              *)
(*                                                                         *)
(* External: the packs program.  It draws the cards, never more than the   *)
(* pack allows, and numbers the editions itself; the number in the page    *)
(* only names the account with the marks of its MarkSize editions.  A card *)
(* that was claimed stays in the process with a count of zero.  An answer  *)
(* that does not come is waited for without end, and a transaction that    *)
(* was reported lost may yet land, as SignedTransaction shows.             *)
(*                                                                         *)
(* A transaction lands and is answered in one step, unless its sender is   *)
(* cut off from it between the two: it is then in flight, and lands at any *)
(* later time, behind whatever was read in between, or never.              *)
(***************************************************************************)
EXTENDS PackCreation

CONSTANTS
  Allowed,        (* allowedAmountToRedeem                                  *)
  RequestChunk,   (* requests in a transaction, half of the 46 instructions *)
  ClaimBatch,     (* claims signed at a time                                *)
  MarkSize,       (* EDITION_MARKER_BIT_SIZE                                *)
  Calls,          (* room for calls of handleOpenPack under way             *)
  Links,          (* how the visitor got here, "voucher" or "process"       *)
  MaxOthers       (* bound on the cards other visitors claim                *)

ASSUME OpeningAssumption ==
  /\ Calls = 1 .. Cardinality(Calls)
  /\ {Allowed, RequestChunk, ClaimBatch, MarkSize} \subseteq Nat \ {0}
  /\ Links \subseteq {"voucher", "process"}
  /\ MaxOthers \in Nat

VARIABLES
  process,        (* the visitor's ProvingProcess on the chain              *)
  supply,         (* the editions printed of each card                      *)
  owned,          (* the cards the visitor got                              *)
  page,           (* the state of PackProvider and of the modal             *)
  calls,          (* the calls of handleOpenPack                            *)
  poll,           (* what the listener has read and not yet stored          *)
  requestsLate, claimsLate, (* sent by calls that are gone, and not landed  *)
  others,         (* cards other visitors claimed                           *)
  disturbed,      (* something happened that excuses a refused transaction  *)
  unexplained     (* a transaction was refused without such an excuse       *)

chainVars == <<process, supply, owned>>
flying == <<requestsLate, claimsLate>>
vars == <<creationVars, chainVars, page, calls, poll, flying, others, disturbed, unexplained>>

Zero == [i \in Items |-> 0]
NoProcess == [exists |-> FALSE, left |-> Zero, redeemed |-> 0]
Sum(f) == FoldFunction(+, 0, f)
Requested(p) == Sum(p.left)
Exhausted(p) == p.redeemed = Allowed

Away == [at |-> "away", process |-> NoProcess, supply |-> Zero, modal |-> "initial",
         bound |-> NoProcess, queue |-> <<>>, polling |-> FALSE]
Idle == [at |-> "idle", todo |-> <<>>, signed |-> 0]
NoPoll == [reading |-> FALSE, answer |-> NoProcess]

OnPage == page.at = "pack"
Running == {c \in Calls : calls[c].at # "idle"}

InitOpening ==
  /\ process = NoProcess /\ supply = Zero /\ owned = Zero
  /\ page = Away
  /\ calls = [c \in Calls |-> Idle]
  /\ poll = NoPoll
  /\ requestsLate = {} /\ claimsLate = {}
  /\ others = 0 /\ disturbed = FALSE /\ unexplained = FALSE

\* What a call has broadcast and not yet heard of stays in flight when it is
\* cut off at this fault.
Under(c) == calls[c].at \in {"request", "claim"} /\ calls[c].todo # <<>>
Sent(c) == [by |-> <<faults, c>>, tx |-> Head(calls[c].todo)]
CutOff(cut) ==
  /\ requestsLate' = requestsLate \cup {Sent(c) : c \in {d \in cut : calls[d].at = "request"}}
  /\ claimsLate' = claimsLate \cup {Sent(c) : c \in {d \in cut : calls[d].at = "claim"}}

-----------------------------------------------------------------------------
(* The page.                                                                *)

\* Mutant: what was loaded before is kept.
MasterEditionsKept == page.supply

\* The editions as pullEditions finds them.
MasterEditions == supply

\* The page is loaded: pullPackPage reads pack, process and editions.  With a
\* link by voucher the process is found through the voucher's metadata, which
\* may not have been loaded when the effect was made; only then is it missed.
Load(link, found) ==
  /\ seller.told # "nothing" /\ pack.voucher /\ link \in Links
  /\ found => process.exists
  /\ link = "process" => found
  /\ page' = [Away EXCEPT !.at = "pack", !.supply = MasterEditions,
                          !.process = IF found THEN process ELSE NoProcess]
  /\ calls' = [c \in Calls |-> Idle]
  /\ poll' = NoPoll
  /\ disturbed' = (disturbed \/ (process.exists /\ ~found))
  /\ UNCHANGED <<pack, seller, chainVars, others, unexplained>>

\* A visitor comes, or comes back when nothing runs any more or all is stuck.
Stuck(c) ==
  \/ calls[c].at = "hung"
  \/ calls[c].at = "request" /\ calls[c].todo = <<>> /\ ~process.exists
Still == \A c \in Running : Stuck(c)
Visit(link, found) ==
  /\ ~Exhausted(process)
  /\ Still
  /\ Load(link, found) /\ UNCHANGED <<faults, flying>>

\* The page is reloaded in the middle of something.  The calls under way may
\* have a transaction each that was broadcast, and that is not read yet.
Reload(link, found) ==
  /\ OnPage /\ ~Still
  /\ faults < MaxFaults /\ faults' = faults + 1
  /\ \E cut \in SUBSET {c \in Calls : Under(c)} : CutOff(cut)
  /\ Load(link, found)

\* The first click asks for approval.  The second one will use what is known
\* in this render.
ClickRedeem ==
  /\ OnPage /\ page.modal = "initial" /\ ~Exhausted(page.process)
  /\ page' = [page EXCEPT !.modal = "approval", !.bound = page.process]
  /\ UNCHANGED <<creationVars, chainVars, calls, poll, flying, others, disturbed, unexplained>>

\* Back, Escape, the error dismissed, the cards viewed.
Close ==
  /\ OnPage /\ page.modal # "initial"
  /\ page' = [page EXCEPT !.modal = "initial", !.bound = NoProcess]
  /\ UNCHANGED <<creationVars, chainVars, calls, poll, flying, others, disturbed, unexplained>>

\* The slider of ClaimingStep gets as far as the count of claimed cards.
Shown == 1 .. Min({page.process.redeemed, Len(page.queue)})

-----------------------------------------------------------------------------
(* The listener.                                                            *)

\* The answer holds what the node knew when it was asked.
PollStarts ==
  /\ OnPage /\ page.polling /\ page.process.exists /\ ~poll.reading
  /\ poll' = [reading |-> TRUE, answer |-> process]
  /\ UNCHANGED <<creationVars, chainVars, page, calls, flying, others, disturbed, unexplained>>

\* An answer that comes late may replace a newer process.
PollAnswered ==
  /\ poll.reading /\ poll' = NoPoll
  /\ page' = [page EXCEPT !.process = poll.answer]
  /\ disturbed' = (disturbed \/ poll.answer.redeemed < page.process.redeemed)
  /\ UNCHANGED <<creationVars, chainVars, calls, flying, others, unexplained>>

-----------------------------------------------------------------------------
(* handleOpenPack.                                                          *)

CardsLeftToOpen(p) == Allowed - p.redeemed - Requested(p)

\* A cleanUp and a request for each card, in transactions of RequestChunk.
RequestList(n) == [k \in 1 .. (n + RequestChunk - 1) \div RequestChunk |->
                     IF k * RequestChunk <= n THEN RequestChunk
                     ELSE n - (k - 1) * RequestChunk]

\* Mutant: another order than that of the claims.
QueueBackwards(p) ==
  FlattenSeq([i \in Items |-> [k \in 1 .. p.left[NumItems + 1 - i] |-> NumItems + 1 - i]])

\* The cards of a process, card by card.
QueueOf(p) == FlattenSeq([i \in Items |-> [k \in 1 .. p.left[i] |-> i]])

\* Mutant: every claim of a card counts from the supply alone.
EditionOnce(card, k) == page.supply[card] + 1

\* The claims, with the editions counted from the supply the page has read.
Edition(card, k) == page.supply[card] + k
ClaimList(p) == FlattenSeq([i \in Items |-> [k \in 1 .. p.left[i] |->
                                                [card |-> i, edition |-> Edition(i, k)]]])

\* The process is known: store it, list its cards, poll, claim.
Opened(c, p) ==
  /\ page' = [page EXCEPT !.process = p, !.queue = QueueOf(p), !.polling = TRUE]
  /\ calls' = [calls EXCEPT ![c] = [Idle EXCEPT !.at = "claim", !.todo = ClaimList(p)]]

\* There is room for a call, which takes the first place.
Free(c) == c = Min({d \in Calls : calls[d].at = "idle"} \cup {Cardinality(Calls) + 1})

\* The second click, with another call under way only MaxFaults times.  If
\* everything was requested before, the process of the render is used as it is.
ClickOpen(c) ==
  /\ OnPage /\ page.modal = "approval" /\ Free(c)
  /\ LET now == [page EXCEPT !.modal = "claiming", !.bound = NoProcess]
         left == CardsLeftToOpen(page.bound)
     IN IF left = 0 /\ page.bound.exists
        THEN /\ page' = [now EXCEPT !.process = page.bound, !.queue = QueueOf(page.bound),
                                    !.polling = TRUE]
             /\ calls' = [calls EXCEPT ![c] =
                            [Idle EXCEPT !.at = "claim", !.todo = ClaimList(page.bound)]]
        ELSE /\ page' = now
             /\ calls' = [calls EXCEPT ![c] =
                            [Idle EXCEPT !.at = "request", !.todo = RequestList(left)]]
  /\ disturbed' = (disturbed \/ Running # {} \/ page.bound # page.process)
  /\ \/ Still /\ UNCHANGED faults
     \/ ~Still /\ faults < MaxFaults /\ faults' = faults + 1
  /\ UNCHANGED <<pack, seller, chainVars, poll, flying, others, unexplained>>

\* All requests are signed at once, the claims in batches.
ToSign(c) == IF calls[c].at = "claim" /\ Len(calls[c].todo) > ClaimBatch
             THEN ClaimBatch ELSE Len(calls[c].todo)
Signed(c) == IF calls[c].signed = 0 THEN ToSign(c) ELSE calls[c].signed

Passed1(c) == calls' = [calls EXCEPT ![c].todo = Tail(@), ![c].signed = Signed(c) - 1]
Ended(c) == calls' = [calls EXCEPT ![c].todo = <<>>, ![c].signed = 0]
Refused == unexplained' = (unexplained \/ ~disturbed)

\* The program draws k cards, for a voucher of an active pack.
Draws(k) == {d \in [Items -> 0 .. k] : Sum(d) = k /\ \A i \in Items \ pack.cards : d[i] = 0}
RequestAccepted(k) ==
  /\ pack.active /\ pack.cards # {}
  /\ Requested(process) + process.redeemed + k <= Allowed

Drawn(k) ==
  \E d \in Draws(k) :
    process' = [process EXCEPT !.exists = TRUE, !.left = [i \in Items |-> @[i] + d[i]]]

Request(c) ==
  /\ calls[c].at = "request" /\ calls[c].todo # <<>>
  /\ LET k == Head(calls[c].todo) IN
       IF RequestAccepted(k)
       THEN /\ Drawn(k)
            /\ Passed1(c)
            /\ UNCHANGED unexplained
       ELSE /\ UNCHANGED process
            /\ \/ Passed1(c)
               \/ Ended(c)
            /\ Refused
  /\ UNCHANGED <<creationVars, supply, owned, page, poll, flying, others, disturbed>>

\* fetchProvingProcessWithRetry asks until there is one.
Fetch(c) ==
  /\ calls[c].at = "request" /\ calls[c].todo = <<>>
  /\ process.exists
  /\ Opened(c, process)
  /\ UNCHANGED <<creationVars, chainVars, poll, flying, others, disturbed, unexplained>>

\* The program prints a card that was drawn, when the account with the marks is
\* that of the next edition.
Mark(edition) == edition \div MarkSize
ClaimAccepted(claim) ==
  process.left[claim.card] > 0 /\ Mark(claim.edition) = Mark(supply[claim.card] + 1)
Printed(card) ==
  /\ process' = [process EXCEPT !.left[card] = @ - 1, !.redeemed = @ + 1]
  /\ supply' = [supply EXCEPT ![card] = @ + 1]
  /\ owned' = [owned EXCEPT ![card] = @ + 1]

Claim(c) ==
  /\ calls[c].at = "claim" /\ calls[c].todo # <<>>
  /\ LET claim == Head(calls[c].todo)
     IN IF ClaimAccepted(claim)
        THEN Printed(claim.card) /\ UNCHANGED unexplained
        ELSE UNCHANGED chainVars /\ Refused
  /\ Passed1(c)
  /\ UNCHANGED <<creationVars, page, poll, flying, others, disturbed>>

\* All claims are answered: stop polling, and read the process once more.
ClaimsEnd(c) ==
  /\ calls[c].at = "claim" /\ calls[c].todo = <<>>
  /\ page' = [page EXCEPT !.polling = FALSE]
  /\ calls' = [calls EXCEPT ![c].at = "last"]
  /\ UNCHANGED <<creationVars, chainVars, poll, flying, others, disturbed, unexplained>>

LastFetch(c) ==
  /\ calls[c].at = "last" /\ process.exists
  /\ page' = [page EXCEPT !.process = process]
  /\ calls' = [calls EXCEPT ![c] = Idle]
  /\ UNCHANGED <<creationVars, chainVars, poll, flying, others, disturbed, unexplained>>

Step(c) == Request(c) \/ Fetch(c) \/ Claim(c) \/ ClaimsEnd(c) \/ LastFetch(c)

-----------------------------------------------------------------------------
(* What goes wrong.                                                         *)

Fault == faults < MaxFaults /\ faults' = faults + 1 /\ disturbed' = TRUE

\* The caller is told that a transaction is lost, and it is, or still in flight:
\* no more requests are sent, but the claims go on.
Lost(c) ==
  /\ Under(c) /\ Fault
  /\ \E cut \in SUBSET {c} : CutOff(cut)
  /\ IF calls[c].at = "request" THEN Ended(c) ELSE Passed1(c)
  /\ UNCHANGED <<pack, seller, chainVars, page, poll, others, unexplained>>

\* A transaction expires, and its answer never comes.
Expires(c) ==
  /\ Under(c) /\ Fault
  /\ calls' = [calls EXCEPT ![c] = [Idle EXCEPT !.at = "hung"]]
  /\ UNCHANGED <<pack, seller, chainVars, page, poll, flying, others, unexplained>>

\* The wallet declines, all the requests or the next batch of claims.  The
\* listener goes on.
Declines(c) ==
  /\ Under(c) /\ Fault
  /\ calls[c].signed = 0
  /\ calls' = [calls EXCEPT ![c] = Idle]
  /\ page' = [page EXCEPT !.modal = "error", !.bound = NoProcess]
  /\ UNCHANGED <<pack, seller, chainVars, poll, flying, others, unexplained>>

\* A request in flight lands: whoever has read the process since does not know
\* of the cards it draws.
RequestLands(request) ==
  /\ request \in requestsLate /\ requestsLate' = requestsLate \ {request}
  /\ \/ RequestAccepted(request.tx) /\ Drawn(request.tx) /\ disturbed' = TRUE
     \/ ~RequestAccepted(request.tx) /\ UNCHANGED <<process, disturbed>>
  /\ UNCHANGED <<creationVars, supply, owned, page, calls, poll, claimsLate, others, unexplained>>

\* A claim in flight lands.
ClaimLands(claim) ==
  /\ claim \in claimsLate /\ claimsLate' = claimsLate \ {claim}
  /\ \/ ClaimAccepted(claim.tx) /\ Printed(claim.tx.card) /\ disturbed' = TRUE
     \/ ~ClaimAccepted(claim.tx) /\ UNCHANGED <<chainVars, disturbed>>
  /\ UNCHANGED <<creationVars, page, calls, poll, requestsLate, others, unexplained>>

\* Another visitor claims a card of the same pack.
OtherClaims(card) ==
  /\ pack.active /\ card \in pack.cards /\ others < MaxOthers
  /\ others' = others + 1 /\ disturbed' = TRUE
  /\ supply' = [supply EXCEPT ![card] = @ + 1]
  /\ UNCHANGED <<creationVars, process, owned, page, calls, poll, flying, unexplained>>
-----------------------------------------------------------------------------
Init == InitCreation /\ InitOpening

Next ==
  \/ /\ Creation /\ disturbed' = (disturbed \/ faults' # faults)
     /\ UNCHANGED <<chainVars, page, calls, poll, flying, others, unexplained>>
  \/ \E link \in Links, found \in BOOLEAN : Visit(link, found) \/ Reload(link, found)
  \/ ClickRedeem \/ Close \/ PollStarts \/ PollAnswered
  \/ \E c \in Calls : ClickOpen(c) \/ Step(c) \/ Lost(c) \/ Expires(c) \/ Declines(c)
  \/ \E request \in requestsLate : RequestLands(request)
  \/ \E claim \in claimsLate : ClaimLands(claim)
  \/ \E card \in Items : OtherClaims(card)

\* What runs goes on and what was read is stored.  From time to time the visitor
\* waits until nothing moves any more; then, again and again, closes the modal
\* and clicks, both in pages just loaded and in pages that know the process, and
\* loads the page anew.
Fairness ==
  /\ \A c \in Calls : WF_vars(Step(c))
  /\ WF_vars(PollAnswered)
  /\ []<>Still
  /\ SF_vars(Close /\ Still)
  /\ SF_vars(ClickRedeem) /\ SF_vars(ClickRedeem /\ page.process.exists)
  /\ SF_vars(\E c \in Calls : ClickOpen(c))
  /\ SF_vars(\E link \in Links, found \in BOOLEAN : Visit(link, found))

Spec == Init /\ [][Next]_vars /\ Fairness

-----------------------------------------------------------------------------
TypeOK ==
  /\ process.left \in [Items -> 0 .. Allowed] /\ process.redeemed \in 0 .. Allowed
  /\ Sum(owned) = process.redeemed
  /\ page.at \in {"away", "pack"}
  /\ page.modal \in {"initial", "approval", "claiming", "error"}
  /\ \A c \in Calls : calls[c].at \in {"idle", "request", "claim", "last", "hung"}

\* A pack made undisturbed is whole, and a visitor whom nothing disturbed has
\* no transaction refused: never more cards are requested than are left, none is
\* claimed that was not drawn, and each claim names the account with the marks of
\* the edition it gets.  That holds also when an opening was cut off by a reload
\* and is resumed, up to the moment at which a transaction that was in flight at
\* the reload lands behind the reading of the new page.  From then on the next
\* request or claim may be refused, and the code does nothing against it.
UndisturbedAccepted == TypeOK /\ CreatedWhole /\ ~unexplained

\* When a pack is opened in one go, the cards the slider can have shown so far
\* are the visitor's: it walks the list of drawn cards as fast as the polled
\* number of claimed ones grows, and both follow the order of the claims.
ShownAreClaimed ==
  ~disturbed /\ page.modal = "claiming" /\ Len(page.queue) = Allowed =>
    \A i \in Items : Cardinality({k \in Shown : page.queue[k] = i}) <= owned[i]

\* A visitor with a voucher who keeps coming back gets all cards of an active
\* pack, whatever was lost, declined or cut off, and whoever else opens packs.
EventuallyOpened ==
  (seller.told # "nothing" /\ pack.active /\ pack.voucher /\ pack.cards # {})
    ~> Exhausted(process)
=============================================================================
