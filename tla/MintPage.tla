------------------------------ MODULE MintPage ------------------------------
(***************************************************************************)
(* The mint page of a candy machine (candy-machine-ui): what the page      *)
(* knows of the machine and of its visitor, the calls of onMint with their *)
(* set-up and mint transactions, the button with the gate of Encore, and   *)
(* the refreshes that run all the while.                                   *)
(*                                                                         *)
(* A call of onMint belongs to the render it was made in: it keeps the     *)
(* wallet, the set-up and the number of items of that moment.  The object  *)
(* candyMachine is shared with the page until a refresh replaces it, and   *)
(* signs with the wallet it was loaded for.                                *)
(*                                                                         *)
(* External: the candy machine program, and Encore's pass with its         *)
(* notification.  Not modelled: Civic's pass, dates on which a sale ends,  *)
(* prices; who can pay, and who is on the list, does not change.           *)
(***************************************************************************)
EXTENDS Integers, FiniteSets, FiniteSetsExt, Functions

CONSTANTS
  Wallets,      (* First is connected first                                 *)
  First,
  Funded,       (* those that can pay                                       *)
  Listed,       (* those that hold a whitelist token                        *)
  Machines,     (* what a machine and its visitor may be like: records
                   [split, gate, sale, items, wallets]                      *)
  Calls,        (* room for calls of onMint under way                       *)
  Supply,       (* bound on the items of a machine                          *)
  MaxReads,     (* bound on refreshes of the timers under way               *)
  MaxFaults,    (* bound on faults                                          *)
  MaxSwitches   (* bound on changes of the wallet                           *)

\* Names for set-ups: one more than the page, the calls and the late mints can
\* refer to.
None == 0
Ids == 1 .. Cardinality(Calls) + MaxFaults + 2

ASSUME MintAssumption ==
  /\ IsFiniteSet(Wallets) /\ IsFiniteSet(Calls) /\ Calls = 1 .. Cardinality(Calls)
  /\ First \in Wallets /\ Funded \subseteq Wallets /\ Listed \subseteq Wallets
  /\ Machines \subseteq [split : BOOLEAN, gate : {"none", "encore"},
                         sale : {"public", "presale", "restricted"},
                         items : 0 .. Supply, wallets : SUBSET Wallets]
  /\ {Supply, MaxReads, MaxFaults, MaxSwitches} \subseteq Nat

VARIABLES
  machine,      (* what the machine is like                                 *)
  chain,        (* items left, tokens made for each wallet, set-up accounts,
                   whether the sale has begun, mints that may yet land      *)
  page,         (* the state of Home                                        *)
  button,       (* the state of MintButton                                  *)
  calls,        (* the calls of onMint                                      *)
  reads,        (* refreshes that have read the chain and not yet rendered  *)
  loops,        (* the wallets in whose name a refresh comes every 20 s     *)
  told,         (* how often the page said "Mint succeeded"                 *)
  pass,         (* Encore has issued the pass                               *)
  luck          (* faults and changes of wallet so far                      *)

mintVars == <<machine, chain, page, button, calls, reads, loops, told, pass, luck>>

-----------------------------------------------------------------------------
(* The page.                                                                *)

NoMachine == [by |-> First, active |-> FALSE, soldOut |-> FALSE, loaded |-> FALSE]

\* Every piece of state as useState starts it.
HomeState ==
  [wallet |-> First, minting |-> FALSE, isActive |-> FALSE, isPresale |-> FALSE,
   isWhitelistUser |-> FALSE, isValidBalance |-> FALSE, itemsRemaining |-> 0,
   setupTxn |-> None, countdown |-> FALSE, candyMachine |-> NoMachine]

NewButton == [clicked |-> FALSE, verified |-> FALSE, listening |-> FALSE, due |-> FALSE]
Idle == [at |-> "idle", wallet |-> First, by |-> First, current |-> FALSE,
         setup |-> None, remaining |-> 0, minted |-> FALSE, effect |-> FALSE, own |-> FALSE]

\* There is room for a call, which takes the first place.
Free(c) == c = Min({d \in Calls : calls[d].at = "idle"} \cup {Cardinality(Calls) + 1})
Gated(p) == machine.gate = "encore" /\ p.candyMachine.active

\* Home is rendered.  onMint is a new function then, so that an effect of the
\* button is due; a button that moves in or out of the gateway is a new one.
Render(p, b, cs) ==
  /\ page' = p
  /\ IF Gated(page) = Gated(p)
     THEN button' = [b EXCEPT !.due = TRUE] /\ calls' = cs
     ELSE /\ button' = NewButton
          /\ calls' = [c \in Calls |-> [cs[c] EXCEPT !.own = FALSE]]

\* A call made in the present render.
Closure(at, effect) ==
  [at |-> at, wallet |-> page.wallet, by |-> page.candyMachine.by, current |-> TRUE,
   setup |-> page.setupTxn, remaining |-> page.itemsRemaining, minted |-> FALSE,
   effect |-> effect, own |-> TRUE]

\* The beginning of onMint.
OnMint(c, call, b) ==
  Render([page EXCEPT !.minting = TRUE], b,
         [calls EXCEPT ![c] = [call EXCEPT !.at =
            IF machine.split /\ call.setup = None THEN "setup" ELSE "mint"]])

-----------------------------------------------------------------------------
(* refreshCandyMachineState.                                                *)

ReadNow(w) == [by |-> w, left |-> chain.left, live |-> chain.live]

Loop(w) ==
  /\ w \in loops /\ Cardinality(reads) < MaxReads
  /\ reads' = reads \cup {ReadNow(w)}
  /\ UNCHANGED <<machine, chain, page, button, calls, loops, told, pass, luck>>

\* May the wallet of the read mint, as far as the page can tell?
ActiveFor(r) ==
  /\ r.live
  /\ machine.sale = "restricted" => r.by \in Listed
  /\ r.by \in Funded
  /\ r.left > 0

Refreshed(r) ==
  [page EXCEPT !.itemsRemaining = r.left,
               !.isActive = ActiveFor(r),
               !.isPresale = machine.sale = "presale" /\ ~r.live,
               !.isWhitelistUser = IF machine.sale = "public" THEN page.isWhitelistUser
                                   ELSE r.by \in Listed,
               !.isValidBalance = r.by \in Funded,
               !.countdown = page.countdown \/ ~chain.live,
               !.candyMachine = [by |-> r.by, active |-> ActiveFor(r),
                                 soldOut |-> r.left = 0, loaded |-> TRUE]]

Refresh(r) ==
  /\ r \in reads /\ reads' = reads \ {r}
  /\ Render(Refreshed(r), button, [c \in Calls |-> [calls[c] EXCEPT !.current = FALSE]])
  /\ UNCHANGED <<machine, chain, loops, told, pass, luck>>

\* The wallet changes: a refresh and a loop of its own; the old loop goes on.
Switch(w) ==
  /\ w \in machine.wallets \ {page.wallet} /\ luck.switches < MaxSwitches
  /\ luck' = [luck EXCEPT !.switches = @ + 1]
  /\ loops' = loops \cup {w} /\ reads' = reads \cup {ReadNow(w)}
  /\ Render([page EXCEPT !.wallet = w], button, calls)
  /\ UNCHANGED <<machine, chain, told, pass>>

\* toggleMintButton, when the countdown to the sale has run out.
Countdown ==
  /\ page.countdown /\ chain.live
  /\ LET active == /\ ~page.isActive \/ page.isPresale
                   /\ machine.sale = "restricted" => page.isWhitelistUser
     IN  Render([page EXCEPT !.isActive = active, !.candyMachine.active = active,
                             !.isPresale = FALSE, !.countdown = FALSE], button, calls)
  /\ UNCHANGED <<machine, chain, reads, loops, told, pass, luck>>

-----------------------------------------------------------------------------
(* MintButton.                                                              *)

Enabled ==
  /\ page.candyMachine.loaded /\ ~page.minting
  /\ page.isActive \/ (page.isPresale /\ page.isWhitelistUser /\ page.isValidBalance)

Click(c) ==
  /\ Enabled /\ Free(c)
  /\ IF Gated(page)
     THEN /\ calls' = [calls EXCEPT ![c] = Closure("pass", FALSE)]
          /\ button' = [button EXCEPT !.clicked = TRUE, !.due = TRUE]
          /\ UNCHANGED page
     ELSE OnMint(c, Closure("mint", FALSE), button)
  /\ UNCHANGED <<machine, chain, reads, loops, told, pass, luck>>

\* findGatewayToken has answered: mint, or listen for a pass.
PassFound(c) ==
  /\ calls[c].at = "pass"
  /\ IF pass
     THEN OnMint(c, calls[c], button)
     ELSE /\ calls' = [calls EXCEPT ![c] = Idle]
          /\ button' = [button EXCEPT !.listening = @ \/ calls[c].own, !.due = TRUE]
          /\ UNCHANGED page
  /\ UNCHANGED <<machine, chain, reads, loops, told, pass, luck>>

PassGranted ==
  /\ machine.gate = "encore" /\ ~pass /\ pass' = TRUE
  /\ UNCHANGED <<machine, chain, page, button, calls, reads, loops, told, luck>>

PassNoticed ==
  /\ pass /\ button.listening /\ ~button.verified
  /\ button' = [button EXCEPT !.verified = TRUE, !.due = TRUE]
  /\ UNCHANGED <<machine, chain, page, calls, reads, loops, told, pass, luck>>

\* The effect of a pass that came after the click, again in every render until
\* its call of onMint has ended.
Effect(c) ==
  /\ button.verified /\ button.clicked /\ button.due /\ Free(c)
  /\ button' = [button EXCEPT !.due = FALSE]
  /\ calls' = [calls EXCEPT ![c] = Closure("unlisten", TRUE)]
  /\ UNCHANGED <<machine, chain, page, reads, loops, told, pass, luck>>

Unlistened(c) ==
  /\ calls[c].at = "unlisten"
  /\ OnMint(c, calls[c], [button EXCEPT !.listening = @ /\ ~calls[c].own])
  /\ UNCHANGED <<machine, chain, reads, loops, told, pass, luck>>

-----------------------------------------------------------------------------
(* The set-up and the mint.                                                 *)

\* What goes against the caller: a transaction or an answer lost or late, a
\* signature declined, a node that lags behind.
Fault == luck.faults < MaxFaults /\ luck' = [luck EXCEPT !.faults = @ + 1]
NoFault == UNCHANGED luck

\* The last lines of onMint and, for a call of the effect, of the effect.
Ended(c, p) ==
  Render(p, IF calls[c].effect /\ calls[c].own
            THEN [button EXCEPT !.clicked = FALSE, !.verified = FALSE] ELSE button,
         [calls EXCEPT ![c] = Idle])

RefreshFor(c) ==
  reads' = reads \cup {[by |-> calls[c].wallet, left |-> chain'.left, live |-> chain'.live]}

\* Mutant of Failed: the button is not given back.
FailedStillMinting(c) == Ended(c, page) /\ RefreshFor(c) /\ UNCHANGED told

\* A call of which the visitor is told that it failed.
Failed(c) ==
  Ended(c, [page EXCEPT !.minting = FALSE]) /\ RefreshFor(c) /\ UNCHANGED told

Step(c, at) == c \in Calls /\ calls[c].at = at
Frame == UNCHANGED <<machine, loops, pass>>

\* The machine was loaded for the wallet that pays.
Signable(c) == calls[c].by = calls[c].wallet

\* Set-up accounts nobody refers to are as good as gone; their names are free.
Unused == Ids \ ({page.setupTxn} \cup {calls[c].setup : c \in Calls}
                 \cup {m.setup : m \in chain.late})
Fresh == Min(Unused)

SetupSent(c, state) ==
  /\ chain' = [chain EXCEPT !.setups[Fresh] = [state |-> state, owner |-> calls[c].wallet]]
  /\ calls' = [calls EXCEPT ![c].at = "confirm", ![c].setup = Fresh]
  /\ UNCHANGED <<page, button, reads, told>>

\* createAccountsForMint: the set-up is on the chain; or it failed there and an
\* id is returned for it all the same.
Setup(c) ==
  /\ Step(c, "setup") /\ Signable(c)
  /\ \/ SetupSent(c, "ready") /\ NoFault
     \/ SetupSent(c, "none") /\ Fault
  /\ Frame

\* It is rejected, or not signed; txs[0] is undefined.  If it has landed, its
\* accounts are forgotten.
SetupFails(c) ==
  /\ Step(c, "setup")
  /\ IF Signable(c) THEN Fault ELSE NoFault
  /\ UNCHANGED chain /\ Failed(c) /\ Frame

\* Mutant of SetupKept: the set-up is for one call only.
SetupForgotten(c) == page

SetupKept(c) == [page EXCEPT !.setupTxn = calls[c].setup]

\* Mutant of Confirm: the status is not looked at.
ConfirmUnseen(c) ==
  /\ Step(c, "confirm")
  /\ Render(SetupKept(c), button, [calls EXCEPT ![c].at = "mint"])
  /\ NoFault /\ UNCHANGED <<chain, reads, told>> /\ Frame

Confirm(c) ==
  /\ Step(c, "confirm")
  /\ chain.setups[calls[c].setup].state # "none"
  /\ Render(SetupKept(c), button, [calls EXCEPT ![c].at = "mint"])
  /\ NoFault /\ UNCHANGED <<chain, reads, told>> /\ Frame

\* The wait is over without an answer, or with that of a failure.
ConfirmFails(c) ==
  /\ Step(c, "confirm")
  /\ IF chain.setups[calls[c].setup].state = "none" THEN NoFault ELSE Fault
  /\ UNCHANGED chain /\ Failed(c) /\ Frame

\* Would the program mint for w, with this set-up?
Allowed(w) ==
  /\ w \in Funded
  /\ chain.live \/ (machine.sale = "presale" /\ w \in Listed)
  /\ machine.sale = "restricted" => w \in Listed
  /\ chain.left > 0

Mintable(w, setup) ==
  /\ Allowed(w)
  /\ setup # None => chain.setups[setup] = [state |-> "ready", owner |-> w]

Minted(w, setup) ==
  [chain EXCEPT !.left = @ - 1, !.made[w] = @ + 1,
                !.setups = IF setup = None THEN @ ELSE [@ EXCEPT ![setup].state = "minted"]]

Accepted(c) == Signable(c) /\ Mintable(calls[c].wallet, calls[c].setup)

\* mintOneToken: the transaction lands and is answered.
Mint(c) ==
  /\ Step(c, "mint") /\ Accepted(c)
  /\ chain' = Minted(calls[c].wallet, calls[c].setup)
  /\ calls' = [calls EXCEPT ![c].at = "await", ![c].minted = TRUE]
  /\ NoFault /\ UNCHANGED <<page, button, reads, told>> /\ Frame

\* The program takes its fee from a bot and mints nothing.
Taxed(c) ==
  /\ Step(c, "mint") /\ Signable(c) /\ ~Allowed(calls[c].wallet)
  /\ calls' = [calls EXCEPT ![c].at = "await"]
  /\ NoFault /\ UNCHANGED <<chain, page, button, reads, told>> /\ Frame

\* The transaction is refused, or not signed; then the wait for its missing id
\* times out.
MintRefused(c) ==
  /\ Step(c, "mint") /\ ~Accepted(c)
  /\ UNCHANGED chain /\ Failed(c) /\ NoFault /\ Frame

\* It is declined or lost; or rejected by a timer though it lands, now or later
\* (of mints that are alike, one at a time may be late).
MintUntold(c) ==
  /\ Step(c, "mint") /\ Accepted(c) /\ Fault
  /\ \/ UNCHANGED chain
     \/ chain' = Minted(calls[c].wallet, calls[c].setup)
     \/ LET m == [wallet |-> calls[c].wallet, setup |-> calls[c].setup]
        IN  m \notin chain.late /\ chain' = [chain EXCEPT !.late = @ \cup {m}]
  /\ Failed(c) /\ Frame

LateMint(m) ==
  /\ m \in chain.late
  /\ chain' = [(IF Mintable(m.wallet, m.setup) THEN Minted(m.wallet, m.setup) ELSE chain)
               EXCEPT !.late = @ \ {m}]
  /\ UNCHANGED <<page, button, calls, reads, told, luck>> /\ Frame

Await(c) ==
  /\ Step(c, "await")
  /\ calls' = [calls EXCEPT ![c].at = "look"]
  /\ NoFault /\ UNCHANGED <<chain, page, button, reads, told>> /\ Frame

AwaitFails(c) ==
  /\ Step(c, "await") /\ Fault
  /\ UNCHANGED chain /\ Failed(c) /\ Frame

\* Is the metadata of the mint on the chain?
Metadata(c) ==
  IF calls[c].setup = None THEN calls[c].minted
  ELSE chain.setups[calls[c].setup].state = "minted"

Success(c) ==
  LET remaining == calls[c].remaining - 1
      p == [page EXCEPT !.minting = FALSE, !.itemsRemaining = remaining,
                        !.isActive = remaining > 0, !.setupTxn = None]
  IN  /\ Step(c, "look") /\ Metadata(c)
      /\ Ended(c, IF calls[c].current
                  THEN [p EXCEPT !.candyMachine.active = remaining > 0,
                                 !.candyMachine.soldOut = remaining = 0]
                  ELSE p)
      /\ UNCHANGED chain /\ RefreshFor(c)
      /\ told' = told + 1
      /\ NoFault /\ Frame

\* Nothing was minted, or the node does not know of it yet.
LikelyFailed(c) ==
  /\ Step(c, "look")
  /\ IF Metadata(c) THEN Fault ELSE NoFault
  /\ UNCHANGED chain /\ Failed(c) /\ Frame

-----------------------------------------------------------------------------
\* Others mint, and the sale begins.
OthersMint ==
  /\ chain.live \/ machine.sale = "presale"
  /\ chain.left > 0 /\ chain' = [chain EXCEPT !.left = @ - 1]
  /\ UNCHANGED <<page, button, calls, reads, told, luck>> /\ Frame

GoesLive ==
  /\ ~chain.live /\ chain' = [chain EXCEPT !.live = TRUE]
  /\ UNCHANGED <<page, button, calls, reads, told, luck>> /\ Frame

MintInit ==
  /\ machine \in Machines
  /\ chain = [left |-> machine.items, live |-> FALSE, late |-> {},
              made |-> [w \in Wallets |-> 0],
              setups |-> [i \in Ids |-> [state |-> "none", owner |-> First]]]
  /\ page = HomeState /\ button = NewButton
  /\ calls = [c \in Calls |-> Idle]
  /\ reads = {ReadNow(First)} /\ loops = {First}
  /\ told = 0 /\ pass = FALSE
  /\ luck = [faults |-> 0, switches |-> 0]

\* What brings a call nearer to its end.
Proceed(c) ==
  \/ PassFound(c) \/ Unlistened(c)
  \/ Setup(c) \/ SetupFails(c) \/ Confirm(c) \/ ConfirmFails(c)
  \/ Mint(c) \/ Taxed(c) \/ MintRefused(c) \/ MintUntold(c)
  \/ Await(c) \/ AwaitFails(c) \/ Success(c) \/ LikelyFailed(c)

MintNext ==
  \/ \E w \in Wallets : Loop(w) \/ Switch(w)
  \/ \E r \in reads : Refresh(r)
  \/ Countdown \/ PassGranted \/ PassNoticed \/ OthersMint \/ GoesLive
  \/ \E c \in Calls : Click(c) \/ Effect(c) \/ Proceed(c)
  \/ \E m \in chain.late : LateMint(m)

OwnMachine == page.candyMachine.by = page.wallet
Reads == [by : Wallets, left : 0 .. Supply, live : BOOLEAN]

\* Timers fire and requests are answered; the sale begins and Encore issues its
\* pass.  From time to time no call is under way while the page holds the
\* machine of the wallet that is connected, and the visitor clicks then.
Fairness ==
  /\ \A w \in Wallets : SF_mintVars(Loop(w))
  /\ \A r \in Reads : WF_mintVars(Refresh(r))
  /\ \A c \in Calls : WF_mintVars(Proceed(c))
  /\ WF_mintVars(GoesLive) /\ WF_mintVars(PassGranted) /\ WF_mintVars(PassNoticed)
  /\ WF_mintVars(\E c \in Calls : Effect(c))
  /\ []<>(OwnMachine /\ \A c \in Calls : calls[c].at = "idle")
  /\ SF_mintVars(OwnMachine /\ \E c \in Calls : Click(c))

MintSpec == MintInit /\ [][MintNext]_mintVars /\ Fairness

-----------------------------------------------------------------------------
MintTypeOK ==
  /\ machine \in Machines
  /\ chain.left \in 0 .. Supply /\ chain.made \in [Wallets -> 0 .. Supply]
  /\ chain.setups \in [Ids -> [state : {"none", "ready", "minted"}, owner : Wallets]]
  /\ page.setupTxn \in Ids \cup {None} /\ page.wallet \in Wallets
  /\ \A c \in Calls :
       calls[c].at \in {"idle", "pass", "unlisten", "setup", "confirm", "mint", "await", "look"}
  /\ reads \subseteq Reads /\ loops \subseteq Wallets

Made == FoldFunction(+, 0, chain.made)

\* With the set-up apart, a visitor whose mint was not answered in time and who
\* clicks again does not pay for a second token: at most one token has been
\* made of which the page has not said so, and none is announced twice.
NeverPaidTwice ==
  machine.split /\ machine.gate = "none" => Made \in {told, told + 1}

\* A set-up the page goes on using is on the chain, whatever became of the call
\* that made it.
SetupStands ==
  MintTypeOK /\ (page.setupTxn # None => chain.setups[page.setupTxn].state # "none")

\* The page holds a set-up that is used up, or that of another wallet.
Stuck ==
  page.setupTxn # None
    /\ chain.setups[page.setupTxn] # [state |-> "ready", owner |-> page.wallet]

MayEver(w) == w \in Funded /\ (machine.sale = "restricted" => w \in Listed)

\* A visitor who may mint and goes on clicking gets a token in the end, unless
\* the items run out or the page holds on to a set-up that is of no use.
EventuallyServed ==
  <>(chain.made[page.wallet] > 0 \/ chain.left = 0 \/ Stuck \/ ~MayEver(page.wallet))
=============================================================================
