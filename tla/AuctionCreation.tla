--------------------------- MODULE AuctionCreation ---------------------------
(***************************************************************************)
(* How the storefront creates an auction                                   *)
(* (web/src/actions/createAuctionManager.ts): it lays out the transactions *)
(* that build the vault, the auction and its manager, and sends the list   *)
(* with StopOnFailure in a retry loop.  The programs on the chain are      *)
(* external: a transaction that creates what exists, or that uses what     *)
(* does not, is rejected.                                                  *)
(*                                                                         *)
(* Besides those rejections up to Glitches transactions are rejected for   *)
(* reasons of their own (a lost one, a timeout); the effect of such a      *)
(* transaction may still reach the chain before the next send.             *)
(*                                                                         *)
(* Only drafts that are not PrintingV1 are modelled: the deprecated steps  *)
(* yield empty instruction sets, which the code filters out.               *)
(***************************************************************************)
EXTENDS Integers, Sequences, FiniteSets

CONSTANTS
  NumPrizes,     (* safety deposits, a participation prize included          *)
  NotMine,       (* prizes the seller did not make and that were never sold  *)
  BatchSize,     (* BATCH_SIZE of addTokensToVault, 1 in the code            *)
  GroupSize,     (* SALE_, INDEX_ and TRANSACTION_SIZE, 10 in the code       *)
  FullPages,     (* full pages of the store's index                          *)
  Glitches       (* bound on the transactions rejected for their own reasons *)

ASSUME AuctionAssumption ==
  /\ NumPrizes \in Nat \ {0}
  /\ NotMine \subseteq 1..NumPrizes
  /\ BatchSize \in Nat \ {0} /\ GroupSize \in Nat \ {0}
  /\ FullPages \in Nat /\ Glitches \in Nat

Prizes == 1..NumPrizes
PrizeList == [i \in Prizes |-> i]
MaxTries == 3

-----------------------------------------------------------------------------
(* The list of transactions.  A step is an operation and the prizes (or     *)
(* index pages) it covers; a step without instructions covers none.         *)

Step(op, items) == [op |-> op, items |-> items]
Steps(op, batches) == [i \in DOMAIN batches |-> Step(op, batches[i])]
Once(op) == Step(op, {0})
Empty(s) == s.items = {}

\* The entries of a list at the places to keep, in their order.
Kept(s, places) ==
  LET kept[n \in 0..Len(s)] ==
        IF n = 0 THEN <<>>
        ELSE IF n \in places THEN Append(kept[n - 1], s[n]) ELSE kept[n - 1]
  IN  kept[Len(s)]

\* Batches of GroupSize, and a shorter last one if something is left.
Groups(s) ==
  [k \in 1..((Len(s) + GroupSize - 1) \div GroupSize) |->
     {s[i] : i \in {j \in DOMAIN s : (k - 1) * GroupSize < j /\ j <= k * GroupSize}}]

\* The batches of addTokensToVault: the counter is only compared before the
\* prize counts, and a last batch follows even when it is empty.
TokenBatches ==
  LET batched[p \in 0..NumPrizes] ==
        IF p = 0 THEN [done |-> <<>>, cur |-> {}, counter |-> 0]
        ELSE LET b == batched[p - 1]
                 cur == b.cur \cup {p}
             IN  IF b.counter = BatchSize
                 THEN [done |-> Append(b.done, cur), cur |-> {}, counter |-> 1]
                 ELSE [done |-> b.done, cur |-> cur, counter |-> b.counter + 1]
      end == batched[NumPrizes]
  IN  Append(end.done, end.cur)

MarkSold == Steps("markSold", Groups(Kept(PrizeList, NotMine)))
AddTokens == Steps("addTokens", TokenBatches)
ValidateBoxes == Steps("validateBox", [p \in Prizes |-> {p}])
PropagateIndex == Steps("propagateIndex", Groups([i \in 1..FullPages |-> i]))
CacheAuction ==
  Steps("cacheAuction", Groups(PrizeList)) \o <<Once("setStoreIndex")>> \o PropagateIndex

\* All instruction sets, in the order of createAuctionManager.
Plan ==
     MarkSold
  \o <<Once("externalPriceAccount"), Step("populateAuthorization", {}),
       Step("populatePrintingTokens", {}), Once("createVault")>>
  \o AddTokens
  \o <<Step("createReservationList", {}), Once("closeVault"), Once("makeAuction"),
       Once("initAuctionManager"), Once("setAuthorities"), Step("validateParticipation", {})>>
  \o ValidateBoxes \o <<Once("startAuction")>> \o CacheAuction

\* The key pairs a transaction has to be signed with besides the wallet's:
\* those of the accounts it creates and of the transfers it lets the vault make
\* (one stands for all of a prize, or of an operation without prizes).
KeyOps == {"externalPriceAccount", "createVault", "addTokens", "closeVault", "initAuctionManager"}
KeysOf(step) == IF step.op \in KeyOps THEN {<<step.op, i>> : i \in step.items} ELSE {}

\* The list of signers, which is laid out beside that of the instruction sets:
\* one entry per set, empty where the wallet alone signs.
WalletAlone(batches) == [i \in DOMAIN batches |-> {}]
SignersOf(op) == {<<op, 0>>}
TokenSigners == [i \in DOMAIN TokenBatches |-> {<<"addTokens", p>> : p \in TokenBatches[i]}]
SignerLists ==
     WalletAlone(MarkSold)
  \o <<SignersOf("externalPriceAccount"), {}, {}, SignersOf("createVault")>>
  \o TokenSigners
  \o <<{}, SignersOf("closeVault"), {}, SignersOf("initAuctionManager"), {}, {}>>
  \o WalletAlone(ValidateBoxes) \o <<{}>> \o WalletAlone(CacheAuction)

\* Mutant of FilteredSigners: the signers keep the entries of the sets that
\* were filtered out.
FilteredSignersAll == SignerLists

\* The sets without instructions go, and from the other list the entries at
\* their places.
ToRemove == {i \in DOMAIN Plan : Empty(Plan[i])}
Instructions == Kept(Plan, DOMAIN Plan \ ToRemove)
FilteredSigners == Kept(SignerLists, DOMAIN SignerLists \ ToRemove)

Total == Len(Instructions)
Txs == 1..Total

-----------------------------------------------------------------------------
(* The accounts on the chain, as the transactions of the list use them.     *)

Fresh == [epa |-> FALSE, vault |-> "none", inVault |-> {}, auction |-> "none",
          manager |-> FALSE, authority |-> "wallet", validated |-> {}, sold |-> {},
          cached |-> {}, indexed |-> FALSE]

\* What the transaction surely needs: accounts it creates are new, accounts it
\* uses exist, the seller still holds or controls what it gives away, and the
\* vault takes tokens while it is inactive.
Needs(c, s) ==
  CASE s.op = "markSold" -> s.items \cap c.inVault = {}
    [] s.op = "externalPriceAccount" -> ~c.epa
    [] s.op = "createVault" -> c.vault = "none"
    [] s.op = "addTokens" -> c.vault = "inactive" /\ s.items \cap c.inVault = {}
    [] s.op = "closeVault" -> c.vault = "inactive" /\ c.epa
    [] s.op = "makeAuction" -> c.auction = "none"
    [] s.op = "initAuctionManager" -> ~c.manager /\ c.vault # "none" /\ c.auction # "none"
    [] s.op = "setAuthorities" -> c.vault # "none" /\ c.auction # "none" /\ c.authority = "wallet"
    [] s.op = "validateBox" -> c.manager /\ s.items \subseteq c.inVault
    [] s.op = "startAuction" -> c.manager /\ c.authority = "manager" /\ c.validated = Prizes
    [] OTHER -> TRUE

\* Where the code does not tell whether the program minds: a step that is
\* repeated, an account that is only named.
MayRefuse(c, s) ==
  \/ s.op = "createVault" /\ ~c.epa
  \/ s.op = "closeVault" /\ c.inVault = {}
  \/ s.op = "setAuthorities" /\ ~c.manager
  \/ s.op = "initAuctionManager" /\ c.vault # "combined"
  \/ s.op = "validateBox" /\ (s.items \subseteq c.validated \/ c.vault # "combined"
                              \/ c.authority # "manager")
  \/ s.op = "startAuction" /\ c.auction = "started"
  \/ s.op = "cacheAuction" /\ (~c.manager \/ s.items \subseteq c.cached)
  \/ s.op = "setStoreIndex" /\ (c.indexed \/ c.cached = {})

Effect(c, s) ==
  CASE s.op = "markSold" -> [c EXCEPT !.sold = @ \cup s.items]
    [] s.op = "externalPriceAccount" -> [c EXCEPT !.epa = TRUE]
    [] s.op = "createVault" -> [c EXCEPT !.vault = "inactive"]
    [] s.op = "addTokens" -> [c EXCEPT !.inVault = @ \cup s.items]
    [] s.op = "closeVault" -> [c EXCEPT !.vault = "combined"]
    [] s.op = "makeAuction" -> [c EXCEPT !.auction = "created"]
    [] s.op = "initAuctionManager" -> [c EXCEPT !.manager = TRUE]
    [] s.op = "setAuthorities" -> [c EXCEPT !.authority = "manager"]
    [] s.op = "validateBox" -> [c EXCEPT !.validated = @ \cup s.items]
    [] s.op = "startAuction" -> [c EXCEPT !.auction = "started"]
    [] s.op = "cacheAuction" -> [c EXCEPT !.cached = @ \cup s.items]
    [] s.op = "setStoreIndex" -> [c EXCEPT !.indexed = TRUE]
    [] OTHER -> c

-----------------------------------------------------------------------------
(* One call of the sender.  A partial call knows the chain, the glitches    *)
(* left, how many transactions went out and which were rejected.  A         *)
(* transaction whose entry in the list of signers is not its own is         *)
(* rejected.                                                                *)

\* Everything the next transaction of a partial call may lead to: nothing
\* once two were rejected, for the call stops at the second.
SendOne(r, step, signers) ==
  LET k == r.sent + 1
      done(c, g, bad) == [chain |-> c, glitches |-> g, sent |-> k,
                          rejected |-> r.rejected \cup bad]
      valid == Needs(r.chain, step) /\ signers = KeysOf(step)
  IN  IF Cardinality(r.rejected) = 2 THEN {r}
      ELSE {done(Effect(r.chain, step), r.glitches, {}) : x \in {y \in {1} : valid}}
           \cup {done(r.chain, r.glitches, {k}) : x \in {y \in {1} : ~valid \/ MayRefuse(r.chain, step)}}
           \cup {done(c, r.glitches - 1, {k}) :
                   c \in IF valid /\ r.glitches > 0
                         THEN {r.chain, Effect(r.chain, step)} ELSE {}}

\* All the ways a call for the steps and signers from position b + 1 can end.
Calls(c, g, b) ==
  LET after[k \in 0..(Total - b)] ==
        IF k = 0 THEN {[chain |-> c, glitches |-> g, sent |-> 0, rejected |-> {}]}
        ELSE UNION {SendOne(r, Instructions[b + k], FilteredSigners[b + k]) : r \in after[k - 1]}
  IN  after[Total - b]

\* Mutant of Answer: the index of the first rejection also when the call sent
\* everything.
AnswerFirstFailure(r, len) ==
  IF r.rejected # {}
  THEN (CHOOSE k \in r.rejected : \A j \in r.rejected : k <= j) - 1 ELSE len

\* What sendTransactions answers: the full count, or after two rejections the
\* index of the first.
Answer(r, len) ==
  IF Cardinality(r.rejected) = 2
  THEN (CHOOSE k \in r.rejected : \A j \in r.rejected : k <= j) - 1 ELSE len

-----------------------------------------------------------------------------
(* The loop of createAuctionManager.                                        *)

VARIABLES
  pc,          (* "loop", "returned" or "thrown"                             *)
  chain,       (* the accounts on the chain                                  *)
  glitches,    (* transactions that may still be rejected by chance          *)
  base,        (* steps sliced off so far                                    *)
  stopPoint,
  tries,
  lastLength,  (* lastInstructionsLength, 0 for null                         *)
  last,        (* per step: the answer of its last send                      *)
  resolved,    (* steps of which some send was answered with success         *)
  threw,       (* some turn ended in its catch block                         *)
  turns        (* turns of the loop so far                                   *)

loopVars == <<base, stopPoint, tries, lastLength, turns>>
vars == <<pc, chain, glitches, last, resolved, threw, loopVars>>

\* Type invariant.
TypeOK ==
  /\ pc \in {"loop", "returned", "thrown"}
  /\ chain \in [epa : BOOLEAN, vault : {"none", "inactive", "combined"},
                inVault : SUBSET Prizes, auction : {"none", "created", "started"},
                manager : BOOLEAN, authority : {"wallet", "manager"},
                validated : SUBSET Prizes, sold : SUBSET Prizes,
                cached : SUBSET Prizes, indexed : BOOLEAN]
  /\ glitches \in 0..Glitches
  /\ base \in 0..(Total - 1) /\ stopPoint \in 0..Total
  /\ tries \in 0..MaxTries /\ lastLength \in 0..Total
  /\ last \in [Txs -> {"unsent", "resolved", "rejected"}]
  /\ resolved \subseteq Txs
  /\ threw \in BOOLEAN
  /\ turns \in Nat

Init ==
  /\ pc = "loop"
  /\ chain = Fresh /\ glitches = Glitches
  /\ base = 0 /\ stopPoint = 0 /\ tries = 0 /\ lastLength = 0 /\ turns = 0
  /\ last = [t \in Txs |-> "unsent"]
  /\ resolved = {}
  /\ threw = FALSE

\* The top of the loop.
Turn ==
  /\ pc = "loop"
  /\ stopPoint < Total - base
  /\ tries < MaxTries
  /\ base' = base + stopPoint
  /\ lastLength' = Total - base'
  /\ tries' = IF Total - base' = lastLength THEN tries + 1 ELSE 0
  /\ turns' = turns + 1
  /\ UNCHANGED pc

\* The answers of a call, seen by the loop and by the chain.
Record(r) ==
  LET out == {base' + k : k \in 1..r.sent}
      bad == {base' + k : k \in r.rejected}
  IN  /\ chain' = r.chain
      /\ glitches' = r.glitches
      /\ last' = [t \in Txs |-> IF t \notin out THEN last[t]
                               ELSE IF t \in bad THEN "rejected" ELSE "resolved"]
      /\ resolved' = resolved \cup (out \ bad)

\* No blockhash, or the wallet declines: nothing is sent.
TurnThrows ==
  /\ Turn
  /\ threw' = TRUE
  /\ UNCHANGED <<chain, glitches, stopPoint, last, resolved>>

\* The last transaction alone, with sendTransactionWithRetry, which throws if
\* it is rejected.
TurnSingle ==
  /\ Turn
  /\ Total - base' = 1
  /\ \E r \in Calls(chain, glitches, base') :
       /\ Record(r)
       /\ stopPoint' = IF r.rejected = {} THEN 1 ELSE stopPoint
       /\ threw' = (threw \/ r.rejected # {})

\* Mutant of TurnBatch: the answer is read as a count from one.
TurnBatchOffByOne ==
  /\ Turn
  /\ Total - base' > 1
  /\ \E r \in Calls(chain, glitches, base') :
       /\ Record(r)
       /\ stopPoint' = IF r.rejected = {} THEN Total - base' ELSE Answer(r, Total - base') + 1
  /\ UNCHANGED threw

\* The rest of the list with sendTransactions.
TurnBatch ==
  /\ Turn
  /\ Total - base' > 1
  /\ \E r \in Calls(chain, glitches, base') :
       /\ Record(r)
       /\ stopPoint' = Answer(r, Total - base')
  /\ UNCHANGED threw

\* 'Failed to create' if the loop gave up before the end of the list.
ReturnOrFailToCreate ==
  /\ pc = "loop"
  /\ ~(stopPoint < Total - base /\ tries < MaxTries)
  /\ pc' = IF stopPoint < Total - base THEN "thrown" ELSE "returned"
  /\ UNCHANGED <<chain, glitches, last, resolved, threw, loopVars>>

Next == TurnThrows \/ TurnSingle \/ TurnBatch \/ ReturnOrFailToCreate

Spec == Init /\ [][Next]_vars

-----------------------------------------------------------------------------
(* Properties.                                                             *)

\* The list is in an order the chain accepts, and each transaction is signed
\* by its own signers: as long as nothing was rejected by chance, no
\* transaction of it is rejected at all, whatever the wallet declines and
\* however often the loop starts over (createAuctionManager.ts:278-334).
AcceptedInOrder ==
  /\ TypeOK
  /\ glitches = Glitches => \A t \in Txs : last[t] # "rejected"

\* When createAuctionManager returns and no turn threw, at most one transaction
\* of the whole list went without effect, and it is never one the prizes depend
\* on: all of them are in the vault and validated, under the manager's
\* authority; only an unclosed vault, or an auction that was not started, can be
\* what is missing (createAuctionManager.ts:340-382).
Rejected == {Instructions[t].op : t \in {u \in Txs : last[u] = "rejected"}}
CreatedMeansPlaced ==
  pc = "returned" /\ ~threw =>
    /\ Cardinality({t \in Txs : last[t] # "resolved"}) <= 1
    /\ chain.inVault = Prizes /\ chain.validated = Prizes
    /\ chain.manager /\ chain.authority = "manager"
    /\ chain.vault = "combined" \/ Rejected = {"closeVault"}
    /\ chain.auction = "started" \/ Rejected = {"startAuction"}

\* One transaction rejected by chance, whether or not it lands after all, never
\* has the seller told 'Failed to create' for an auction that is running
\* (createAuctionManager.ts:380).
FailedMeansNotRunning ==
  pc = "thrown" /\ ~threw /\ Glitches <= 1 => chain.auction # "started"

\* What the seller is told about the auction is true, whatever was lost.
OutcomeTold == CreatedMeansPlaced /\ FailedMeansNotRunning

\* The loop is the loop of ManualRetry, for the list of this auction.
Retry == INSTANCE ManualRetry WITH
  Length <- Total, Callers <- {"createAuctionManager"}, loop <- "createAuctionManager",
  stage <- pc, applied <- resolved
ImplementsRetry == Retry!RetrySpec
=============================================================================
