# Friyay in TLA+

A verification project for the JavaScript part of Friyay, a fork of the Metaplex
storefront and tools: `js/packages/{common,web,cli,candy-machine-ui,token-entangler}`.
Paths below are relative to `js/packages/` unless they start with `js/`.

The programs on the chain (token vault, auction, metaplex, token metadata, candy
machine, fair launch, packs) are not in the repository. What the repository has to get
right is the *client*: it sends lists of transactions that build on each other over a
network that loses them, keeps its own idea of what has happened (flags, indices, a
cache file, React state), and resumes from there. That is what is modelled, with the
chain as an environment.

Contents: 1. Inventory, 2. Modules, 3. Runs, 4. Proofs, 5. Behaviour met while
modelling, 6. Plan and what is not modelled.

## 1. Inventory

| component | state it keeps | operations | talks to |
|---|---|---|---|
| A. confirmed send (`common/src/contexts/connection.tsx` 528-855, copies in `cli/src/helpers/transactions.ts`, `token-entangler/src/utils/transactions.ts`, `candy-machine-ui/src/candy-machine.ts`) | per call: `done`, a timer, a signature subscription, a resend loop | `sendTransaction`, `sendTransactionWithRetry`, `sendSignedTransaction`, `awaitTransactionSignatureConfirmation`, `simulateTransaction` | the RPC node, by requests, and by one notification per signature |
| B. lists of transactions (same file, 281-526) | loop index, `breakEarlyObject`, pending promises | `sendTransactions` (`Sequential`, `Parallel`, `StopOnFailure`), `sendTransactionsInChunks`, `sendTransactionsWithRecentBlock` | A, by promises and their callbacks |
| C. retry loops (same file 219-279; `web/src/actions/createAuctionManager.ts` 336-380; `candy-machine-ui/src/connection.tsx` 60-125) | `stopPoint`, `tries`, `lastInstructionsLength`, the rest of the list | one loop | B, by the number it returns |
| D1. auction creation (`web/src/actions/createAuctionManager.ts` and its builders) | nothing between calls; the chain is the state | one list | B and C |
| D2. settlement (`web/src/actions/settle.ts`, `components/Notifications`, `views/auction/billing.tsx`) | batches to be sent, a notification with its icon, what the page read | `settle`, `claimAllBids`, `emptyPaymentAccountForAllTokens`, collapsing of wrapped SOL | B and C; winners and recipients act on the same accounts |
| D3. redemption (`web/src/actions/sendRedeemBid.ts`, `claimUnusedPrizes.ts`, `cancelBid.ts`) | a list made from what the page shows | redeem, refund, participation prints, taking back | C; every bidder and the seller at once |
| E. candy machine upload (`cli/src/commands/upload.ts`, `helpers/cache.ts`, `candy-machine-v2-cli.ts`) | the cache file and its copy in memory | `upload`, `verify_upload` | storage services, the candy machine account |
| F. other candy machine commands (`cli/src/commands/*`, `candy-machine-v1-cli.ts`) | as E | mint, sign, withdraw, collections, update from cache | as E |
| G. meta store (`common/src/contexts/meta/*`) | React state objects, mutated in place by the loaders; `window.loadingData`; a count of queued updates | paging, loads of pages, `update` | RPC node; every page reads it |
| H. account cache (`common/src/contexts/accounts/*`) | `genericCache`, `pendingCalls`, subscriptions | `query`, `add`, `delete`, precaching, `useMint` | RPC node by requests and subscriptions |
| I. pipeline executor (`common/src/utils/createPipelineExecutor.ts`) | a shared iterator, running executors | one function | G |
| J. packs (`web/src/views/packCreate`, `views/pack`) | the proving process, the modal, the calls under way, the list shown | create, request, claim, poll | B; other visitors print the same cards |
| K1. fair launch tool (`cli/src/fair-launch-cli.ts`) | none between commands; the bitmap and the tickets are the state | tickets, lottery, phases, punching and refunding | A; buyers and the authority run commands side by side |
| K2. auction house, token entangler tools | none | one transaction per command | A |
| L. candy machine page (`candy-machine-ui/src`) | React state of `Home` and `MintButton`, refresh loops | set up, mint | its own copies of A to C; Encore's gateway |
| M. storage back ends, pages and components, Friyay scripts (`js/*.mjs`, `js/*.js`) | none of their own | I/O, rendering | services |

A calls nobody but the node; B calls A; C calls B; D, J and L call B or C. So what
an answer of A is worth decides what C may conclude from it, and what C does with it
decides what a seller may believe of an auction. The modules follow that chain.
G and H stand between the chain and every page. E stands alone: its partner is the
cache file an earlier process left behind.

What is hard about it, component by component, and what makes each correct:

- **A**: a transaction may land, fail, expire or be dropped while a timer, a
  notification, status queries and a resend loop race. Correct: success is reported
  only for a transaction that landed, a rejection out of a wait that had its
  subscription is final, and nothing becomes of a transaction behind the answer to such
  a wait.
- **B**: two callbacks wait for the same promise and the order in which the event
  loop runs them decides whether a flag is seen. Correct: a transaction is sent only
  when the earlier ones were answered, the call stops at a failure, and the number
  returned says which.
- **C**: the number returned refers to a list that is sliced. Correct: nothing is
  sliced off that did not resolve, a retry starts at the rejected transaction, the
  loop gives up.
- **D1**: a dozen transactions of different effects, each refused if repeated or out
  of order. Correct: the list is in executable order, each has its own signers, and
  "created" and "failed" mean what they say.
- **D2, D3**: transactions built from accounts looked up once, cut at two sizes, with
  answers that are dropped, while others act on the same accounts. Correct: who
  settles or redeems undisturbed is refused nothing, every prize goes to its place,
  and in the end everybody is paid and served.
- **E**: kills, skipped assets and lost answers over several runs. Correct: marks in
  the cache mean lines on the chain, success means all is written.
- **G**: objects changed in place, copies that become the state, a flag. Correct: what
  is shown stays shown, pages come one after the other, and all of them in the end.
- **H**: answers that were overtaken by subscriptions, subscriptions of a wallet that
  was left. Correct: no change is missed but in a gap that is there by construction,
  one request per account, accounts of the own wallet only.
- **J**: an opening consists of two lists with a reading between them, may be cut off
  at any point, and is repeated from what the page believes. Correct: never more cards
  are asked for than are left, what is claimed is accepted, what is shown is the
  visitor's, and whoever comes back gets all cards.
- **K1**: tickets change while the authority works from what it read. Correct: winners
  pay the median, only losers are refunded, no more tokens are won than there are, and
  every ticket is served.
- **L**: a mint that is late, a set-up that outlives its call, pages of another wallet.
  Correct: nobody pays twice, and whoever goes on clicking is served.

## 2. Modules

| module | models | kind |
|---|---|---|
| `SignedTransaction` | A of the storefront, with the cluster as environment | detailed |
| `SendPromise` | what callers of `sendTransaction` build on | abstract; implemented by `SignedTransaction` |
| `PolledTransaction` | A of the tools | detailed |
| `MCSenders` | both beside each other | composition, for the run |
| `StopOnFailure` | the possible results of one `StopOnFailure` call | operators, the seam between B and C |
| `TransactionBatch`, `MCTransactionBatch` | B, at the grain of microtasks | detailed; shown to stay within `StopOnFailure` |
| `ManualRetry` | C, one step per turn; takes B from `StopOnFailure` | detailed for C, abstract for D1 |
| `AuctionCreation` | D1, list and loop and chain | implements `ManualRetry` |
| `Settlement`, `MCSettlement` | D2 | detailed, with winners and recipients |
| `Redemption`, `MCRedemption` | D3 | detailed, all bidders and the seller |
| `CandyMachineUpload` | E | detailed |
| `MetaStore`, `MCMetaStore` | G | detailed |
| `AccountCache`, `MCAccountCache` | H | detailed |
| `PackCreation` | J, the seller | detailed |
| `PackOpening` | J, the visitor; extends `PackCreation` | composition of both sides |
| `FairLaunch`, `MCFairLaunch` | K1 | detailed, buyers and authority |
| `MintPage`, `MCMintPage` | L | detailed |
| `TransactionBatch_proofs` | A, both copies, B and C; extends `TransactionBatch`, `ManualRetry` and `MCSenders` | theorems |
| `Settlement_proofs` | D2 | theorems |
| `Redemption_proofs` | D3 | theorems |
| `AuctionCreation_proofs` | D1 | theorems |
| `CandyMachine_proofs` | E and L; extends `CandyMachineUpload` and `MintPage` | theorems |
| `MetaStore_proofs` | G and H; extends `MetaStore` and `AccountCache` | theorems |
| `PackOpening_proofs` | J, seller and visitor | theorems |
| `FairLaunch_proofs` | K1 | theorems |

So C's assumption about B is a property of the model of B (`StopsAtSecondFailure`, proved
for lists of every length by `StopsOneFailureLate`), and D1's loop is C's loop
(`ImplementsRetry`, proved by `AuctionImplementsRetry`), for which the theorems
`RetryInvariance` to `RestartsCorrectly` hold at any length of the list. Where a later
module needs A to C it takes their outcomes: an answer, a rejection, or no answer at all.

### SignedTransaction, SendPromise

`Resent` are the transactions sent with `sendSignedTransaction`, `Plain` those sent
with `sendTransaction` and `awaitConfirmation`. `ledger` is what the cluster knows,
`wire` whether a copy is on its way there, `caller` where the function is, `notice` the
subscription with its one notification, `timer` the `setTimeout`, `settled` the flag
`done`. `Broadcast`, `BroadcastThrows`, `Subscribe`, `SetupFails`, `Resend`,
`TimerFires`, `NoticeOk`, `NoticeErr`, `SimulationErr` and `SimulationOkOrUnreachable`
are the code; `Receive`, `Drop`, `Execute`, `Expire` and `Notify` the cluster and the
node (external, from how the code uses `Connection`). A broadcast leaves the caller in
one step and arrives in another: the first is awaited, those of the resend loop are not,
so that one of them may be on its way when the caller is answered. A transaction may be
dropped and received again from such a copy. Where the first broadcast throws there is
no wait and no loop, though the transaction may still arrive.

`SetupFails` is the catch around the subscription (connection.tsx:817-820): it sets
`done`, the wait ends at once without a status, `sendTransaction` rejects with 'Timed
out' and `sendSignedTransaction` goes on to simulate, although nothing failed, timed out
or was refused. `Subscribed` tells these callers, and those of a broadcast that threw,
from the ones that wait: what an answer says of the ledger is only said of the latter.
The status polling at connection.tsx:821 is unreachable (`done` is set or the block has
returned) and is not in the model.

`SendPromise` has three variables, the verdict of the ledger, whether the sender will
hear of it, and the answer. A promise whose verdict is heard of resolves only after the
ledger decided for the transaction and rejects only after it decided against it; one
that is not heard of never resolves and may be rejected at any time. `sendTransaction`
implements it, with `Subscribed` for `heard`.

### PolledTransaction

The same function in the tools: the timer really rejects, and REST queries are
started every two seconds without waiting for the last, so that their `replies`
race the notification and the timer; all share `done`. Copies of the resend loop are not
counted: one may arrive (`Arrive`) at any time behind the first broadcast. A subscription
that cannot be opened (`SetupFails`) sets `done` here too, which ends the queries and
disarms the timer: nothing settles the promise any more. `MCSenders` runs it beside
`SignedTransaction`, each with transactions of its own; they share nothing but the
bounds, and the run tells the two copies apart in what they promise.

### TransactionBatch

One call of one of the three functions on a list whose members may be empty
(`nonEmpty`). The `await` of the loop (`resume`) and the handler that records a
failure (`relay`, then `recordFailure` two microtasks later in `sendTransactions`)
are jobs in the queue `microtasks`; an `Answer` of the network puts jobs in, and
they run in order. Whether `sendTransactions` sees its own failure flag is decided
by this order and by nothing else: it runs on through the first rejection and stops
at the second, with the index of the first.

### ManualRetry

One step is a turn of the loop: slice, count, send, take the answer as the new
`stopPoint`. `TurnThrows` is the catch block (no blockhash, the wallet declines),
which leaves `stopPoint` alone although the list was sliced. `last` is the answer
of each transaction's last send, `applied` those that took effect.

### AuctionCreation

`Plan` is the list of instruction sets in the order of `createAuctionManager`, with
the batches each builder makes (`Groups`, `TokenBatches`). The signers are a second list,
laid out by the same builders beside it (`SignerLists`). The indices of the empty sets
(`ToRemove`) are taken from the first list, and both are filtered by them separately
(`Instructions`, `FilteredSigners`), so that the two may come apart; a transaction is
sent with the signers at its own place, and refused if they are not its own. `Calls`
computes every way one call can go: the chain
refuses what it surely must (`Needs`: an account that exists already or not yet, a
token the wallet no longer holds, a vault that is closed), may refuse where the
source does not say (`MayRefuse`: a step repeated, an account only named), and
`Glitches` more transactions are rejected by chance, of which the effect may still
reach the chain before the next send. A call follows what `TransactionBatch` found
of `StopOnFailure`. One turn of the loop is one step.

The programs on the chain are external; a transaction whose effect is late has
landed before the next send or not at all. PrintingV1 prizes are not modelled.

### Settlement

`settle` runs through its stages (`pulling`, `ending`, `claiming`, `paying`, `closing`),
each of which lays its instructions out (`ClaimBids`, `EmptyPaymentAccount`: pots and
payments in the order of the loops, with the creation of a recipient's account in
front of its first payment), fills transactions (`Filled`) and batches (`Batched`),
and queues them as `todo`. A batch of several goes out with `StopOnFailure`, whose
answer is dropped, and a single transaction that is rejected ends the whole settle
(`Told`, `ToldRejected`).

What the page knows is `ended`, the auction in its store, which nothing refreshes until
a reload; `pots`, which the auction's own page pulls again (`Visit`), but without the
auction; and `found`, what the balance of the escrow was when the page was loaded: money,
empty, or `dropped`, since a balance above zero and up to `Threshold` (0.00001) hides the
notification, whatever the pots hold (`Small`; `Price` and `Due` are what comes in and
goes out). `Begin` ends the auction when the stored auction says so, in a transaction of
its own, with the pots of the click kept in `bids`. From the notification
(`ClickNotification`) the auction's data are pulled first (`Pulled`), from the billing
page (`ClickBilling`) the pots may be older ones. `Reload` happens in the middle of
anything. `Others` are winners who end the auction or claim their own pots while
redeeming, and recipients who collapse their accounts. A disturbed settle is one that
started from what is no longer so (`Stale`), or during which something was lost or
somebody else moved.

### Redemption

Every bidder and the seller has a page. A click builds a list of transactions
(`ListsOf`) from what the page shows: the chain as it is (`ClickFresh`) or as it was
(`ClickStale`). It begins with a bid of nothing that ends the auction, if the page shows
it as running (`EndAuction`). `Desired` are the numbers of the editions a place wins,
from the tracking ticket or the supply; `RedeemParticipation` the participation prints,
whose number is one behind the supply; `ClaimUnused` what the seller takes and prints,
with the participation prints of several bidders in any interleaving (`Interleaved`),
since they are prepared under one `Promise.all`. Who is eligible for anything sends with
the loop of C (`Turn`, at most four turns), who is only refunded and the seller send once
(`EligibleForAnything`). A transaction may be lost (`Lost`), land though its sender is
told it was rejected (`Unheard`), and a turn may throw before it sends (`Throws`), which
drops what the old `stopPoint` covers. Some bidders never come back (`Absent`). The chain
is external: whether the auction has ended, what is printed with which number, who has
the boxes and pots, and when a master may leave. `Accepted` is what it surely takes,
`MayBeRefused` what the sources leave open.

### CandyMachineUpload

`disk` is the cache file, `mem` `cacheContent`. Per asset a cache holds the link and
the marks `onChain` and `verified`; a link is named by the run that made it, so that
a line written from an older upload differs from the current one. `queue` are the
slices of `poolArray` not yet on the chain, `landed` those on the chain and not
yet answered. `Start` loads the cache and lists the assets that need an upload;
`CreateMachine` and `SetCollection` are apart because a kill or a failure in between
loses the machine; `UploadAsset`, `SkipAsset` (the error handler of the pool) and
`UploadBundle` fill the cache; `StartWriting` cuts the slices; `Land`, `Mark` and
`WriteFails` are the transactions, `Finish` the message. `Crash` kills the process
anywhere. `VerifyPasses`, `VerifyFindsBad` and `VerifyFindsFew` are `verify_upload`
in one step, with the save the loop makes first.

Abstracted: a slice is `SliceSize` lines (the 850-byte rule is not modelled, its
lines are short); a transaction that timed out has landed by the time the error is
thrown, or never does; the storage is the same in every run; `saveCache` is one
step. Not modelled: hidden settings, `resetCandyMachine`.

### MetaStore

State objects are references: `heap` holds the objects, `maps` the maps a family of
copies shares, `known` the metadata of each object, `current` is the one React shows.
The auctions of copies stay one map, changed in place; the metadata do not:
`queryExtendedMetadata` spreads the map before it waits for the mints (`Spreads`), and
what it returns, without the mints that are no NFTs (`Fungible`), replaces the state's
(`Copy`), so that metadata that came meanwhile is lost. `StartUpdate`, `IndexRead`,
`ContentRead` and `Paged` are an `update` with its two awaits; the effect queues
updates behind `window.loadingData` and looks at them every three seconds (`Tick`).
`Pull` starts the load a page of the site asks for, which makes a copy
(`updateMints`) or replaces the state. `Batches` computes which auctions of a page are
read at all: the one that does not fit ends the batch and is dropped. Every read may
fail (`Fail`), and the connection may change (`Rerun`).

### AccountCache

An account is its version and whether it is open. The node answers a request in two
steps, `Read` (what it saw) and one of `QueryAnswered`, `PrecacheAnswered`,
`NativeAnswered`, `MintLoaded` (when the browser runs the callback), so that answers
are overtaken; a subscription is asked for, comes into force (`StartSubscription`),
collects notifications and delivers them one by one (`Deliver`). `SwitchWallet` and
the runs of the provider's effects drop subscriptions with what is on its way.
`useMint` is the hook: `SetKey`, `Unmount`, `HookHears`, and what it awaits. `lapse`
is history: up to which version an account can have been missed, because no
subscription was in force or because an older answer came later.

### FairLaunch

Each command is a chain of awaits, one action for each call: `PurchaseTicket`,
`PollTicket`, `CreateTicketSeq`; `PunchTicket`, `PunchAdjust`, `PunchNft`,
`PunchPunch`; the lottery with `StartLottery`, `CreateBitmap`, `ReadAndDraw`,
`WriteBits` per chunk and `EndLottery`; `CreateMissingSequences`; the phases;
`punch_and_refund_all_outstanding` with `ReadTickets` and then `ServeNft`,
`ServeRefund`, `ServeAdjust`, `ServePunch` per ticket. A call is refused, lost, or
takes effect with its answer lost; `Again` is the loop of three tries. The program
(what it admits, what the median is) is external. As in the tool, the commands of
phase three are run in phase three.

The lottery account is bytes. An update packs its entries from the left of each byte
(`Packed`) and puts them at its offset (`Overlaid`); the authority reads a ticket's bit
behind the header, counted from the right (`IsWinner`), and so does the program
(`Marks`). `treasury` is what tickets are paid in. With a treasury of tokens an
adjustment to an amount above nothing always throws (`Adjusts`): it approves in the name
of the adjuster and sends the revocation to the program of the launch
(fair-launch-cli.ts:738-821).

### MintPage

A render of `Home` and `MintButton` is a step with the actions that change their
state; a call of `onMint` keeps the wallet, the set-up and the counter of its render.
`Loop` starts a refresh in the name of a wallet, for ever, `Refresh` renders its
answer, `Switch` changes the wallet. `Proceed` takes a call through set-up, wait,
mint, wait and the last look; each wait is answered, fails or times out, and a mint
that timed out may land later (`LateMint`). With Encore, the pass is noticed
(`PassNoticed`) and the effect of the button fires (`Effect`). Of several mints of
one kind at most one is late. Civic's pass and ends of sales are not modelled.

### PackCreation, PackOpening

The seller's side is the list of `createPack`: instructions and signers cut into
chunks separately and joined by position (`InstructionSets`, `SignerSets`, `Plan`),
sent with `Sequential`, which goes on behind a failure; `SellerTold` and
`SellerDeclines` are the two messages.

The visitor's side: `Load` is `handleFetch`; `ClickRedeem` and `ClickOpen` the two
clicks, of which the second uses the process of the render in which the modal last
changed (`page.bound`); a call of `handleOpenPack` then requests (`Request`, all signed
at once, ended by the first failure), waits until it can read the process (`Fetch`),
claims card by card (`Claim`, signed in batches, a failure is passed over), stops the
polling and reads once more (`ClaimsEnd`, `LastFetch`). `Close` leaves the modal at any
moment, and the call goes on; another may then be started. `PollStarts` and
`PollAnswered` are the listener. `Edition` and `Mark` are the number a claim is made
with and the account it names. Faults are lost and expired transactions, a wallet
that declines, a reload in the middle of something and a second call beside the first.

Assumed of the packs program, from how the pages use it: it never draws more than the
pack allows, it numbers the editions itself (the instruction carries only the
card's index), and a claimed card stays in the process with a count of zero. A visitor
arrives when the seller has been told something and the voucher is in the pack.

A request or a claim lands with its answer in one step, unless its sender is cut off from
it: by a reload, or by an answer that is lost (`CutOff`). It is then in flight
(`requestsLate`, `claimsLate`) and lands at any later time (`RequestLands`, `ClaimLands`),
behind whatever the resumed page has read, or never.

## 3. Runs

| run | question | bounds | states |
|---|---|---|---|
| `confirm` | what an answer of A says about the ledger, in both copies; A implements the promise | one transaction of each kind, lossy socket | 734187 |
| `batch` | order, stopping and result of the three functions | four inputs, any of them empty, chunks of two, every sequence type | 2515 |
| `retry` | what is sliced off, where the loop starts again, how often | four transactions, the three loops | 3109 |
| `auction` | what stands on the chain when the seller is told "created" or "failed"; the loop is C's | three prizes, two to be marked as sold, groups of two, one full index page, one transaction lost or late | 21150 |
| `settle` | what an undisturbed settlement reaches; everybody is paid | three winners, one of them with a bid of the threshold, five payments to three recipients, two instructions to a transaction, two transactions to a batch, two faults | 778118 |
| `redeem` | who gets which edition and box; all are served | two places with a print each and a box for the second; one winner and a place left over, two winners at once, a winner beside one who never comes back, and a loser behind these two with a participation print or without; one fault | 481056 |
| `upload` | what marks and messages mean across runs | four assets, slices of two, two uploads and two writes at a time, three runs, both kinds of storage | 71130 |
| `meta` | what is shown stays shown; pages in order; all of them in the end | three pages, of which the first has an auction that fits exactly, one that does not and one behind it; batches of three accounts, two loads, one change of connection, one failed read, one mint that is no NFT | 672804 |
| `accounts` | what is never missed, fetched once, shown | two wallets, a token account, a mint, two changes, two moves, three runs of the effects | 975432 |
| `packs` | what is refused, what is shown, all cards are received | two cards, two to open, chunks that differ for accounts and cards, two calls, marks of two editions, one card to another visitor, one fault | 298016 |
| `launch` | fair outcome, prices, refunds, nobody left over | two buyers, one whitelisted, one token, two prices in SOL or in tokens, two tickets to a byte, a header of one byte, two tries, two faults, one adjustment, four commands | 2472244 |
| `mint` | who pays for what; who goes on clicking is served | three machines (set-up apart, two items, two wallets; presale, one item, second wallet without the whitelist token; restricted behind Encore), two calls, one refresh under way, one fault, one change of wallet | 514979 |

The properties, and what a step would have to do to break them, stand in the modules
with the lines they are about. In short:

- `confirm`: `RejectedByWaitFailed` (a rejection that comes out of a wait that had its
  subscription is final; one out of a wait whose subscription could not be opened says
  nothing, which is why the property leaves it out), `ExecutedIsAnswered` (a caller whose
  transaction was executed is told, if its notification arrives at all),
  `NothingLandsBehindAnswer` (who had its subscription and was answered has heard the
  last of the transaction, with copies of the resend loop still on their way),
  `ImplementsPromise` (`SendPromise!Spec` under the refinement of section 2),
  `VerdictTruthful` (the same of the tools, with three sources of the answer racing).
- `batch`: `SentUpToFailure` (type, order, stopping of the two functions whose handler
  sits on the promise, index returned) and `StopsAtSecondFailure`: `StopOnFailure` is late
  by one.
- `retry`: `PrefixResolved`, `RestartsAtRejected`, `BoundedTurns`.
- `auction`: `AcceptedInOrder` (order, and signers from the other list), `OutcomeTold` (a
  list with one rejected transaction is reported as created, yet no prize is then missing
  from the vault or unvalidated, since a second rejection would follow; and with one
  glitch a running auction is never reported as failed; both suppose that no turn threw),
  `ImplementsRetry`.
- `settle`: `SettledInFull` (bounds of transactions and batches, nothing laid out twice,
  and from a page whose auction and pots are up to date nothing refused and everything
  paid when undisturbed), `EventuallyPaid` (unless little money in the escrow hides what
  is left for ever, which the threshold of the notification does).
- `redeem`: `PrizesByPlace`, `UndisturbedAccepted`, `EventuallyServed` (also behind turns
  that throw and transactions that landed though they were reported rejected).
- `upload`: `LinesOnRecordedMachine`, `ConcurrentSlicesDisjoint` (with bundles cached
  assets are an initial segment at all times), `MarkedIsWritten` (with the repair that
  `verify_upload` asks for), `BundleMessagesTrue`, `CachedNotUploadedAgain`.
- `meta`: `PagesInOrder`, `ShownKept` (of the auctions; of metadata, what all loads under
  way know), `EventuallyAllPages`. The second of two
  neighbours in a page may be missing, a copy that becomes the state during paging
  may end it early, and metadata that came while a load waited for its mints goes when it
  ends: that is what the code does, and the properties name it.
- `accounts`: `UserAccountsOwned`, `OneFetch`, `HookShowsCache`, `NothingElseMissed`.
- `packs`: `UndisturbedAccepted` (with the pack whole when it was made undisturbed; from
  the landing of a transaction that was in flight at a reload on, it promises nothing),
  `ShownAreClaimed`, `EventuallyOpened`.
- `launch`: `FairOutcome`, `AllServed`, `PaysMedian` (of a treasury in SOL; with one in
  tokens winners above the median are punched as they stand), `RefundsLosersOnly` (bit for
  bit: what the authority reads for a ticket is what the lottery wrote for it).
- `mint`: `NeverPaidTwice`, `SetupStands`, `EventuallyServed`.

### Why the bounds are enough

Calls of A share nothing, so that one transaction of each kind shows every
interleaving of the timer, the socket and the loop. In B and C the second rejection
matters and what lies before, between and behind the two: three transactions show it,
four add a full chunk and a rest. In D1 three prizes are the least for which
`addTokensToVault` makes two batches, and for which a retried validation is followed
by two repeated ones. In D2 three winners make two claim transactions, and the five
payments a transaction that passes its size by the account it creates, two batches, and
recipients paid twice; the small bid alone in the escrow does not exceed the threshold,
nor does what the last payment takes. In D3 two places on one master make the numbers of the
editions depend on each other; one of the outcomes leaves a place to the seller, and who
never comes back leaves a second participation print to the seller's list. In E
the slice, the gap before it and the slice behind it need three assets; four give two
slices in flight, and three runs a run on what a rerun left. In G the three pages are
the first, one behind it that has to queue, and a last; the first shows the dropped
auction. In H a second wallet and two changes give every answer something newer to
be overtaken by. In J the chunks of accounts and cards differ, an opening takes two
requests and two claims, and the marks end between two editions. In K1 one token for two
buyers makes one of them lose unless the whitelist adds one, and the two tickets share a
byte behind the header, so that a bit that is miscounted is the other buyer's. The one
update holds both: a failed one leaves the bytes of an earlier lottery. That the bits of
larger lotteries come out right, over several bytes and updates and with a short byte at
the end, TLC evaluates for up to nine tickets with every set of winners (`BitsOfLottery`
in `MCFairLaunch`, one to three bytes to an update). In L two items let a token be paid
for twice.

Numbers that the code fixes (16 lines, groups of 10, 6 instructions and 10 transactions,
bytes of 8 bits and updates of 10 bytes, 248 editions, `SaveEvery` 100, 100 accounts,
tries 3, the threshold of 0.00001) are constants, small in the runs except for `MaxTries`
of `ManualRetry`. Bounds without a counterpart in the code, each a constant of its module:
`Glitches`, `MaxFaults`, `MaxRuns`, `MaxPulls`, `MaxReruns`, `MaxChanges`, `MaxMoves`,
`MaxAdjusts`, `MaxCommands`, `MaxReads`, `MaxSwitches`, `MaxOthers`, and `Calls` where a
page can have several calls under way.

### Fairness

- `SignedTransaction`: weak fairness of the caller's own steps and of its timer (the
  event loop runs what is ready, and `setTimeout` fires), of the cluster deciding
  (every blockhash expires in the end) and of the node's notification, which a lossy
  socket may still lose. Nothing is assumed of the copy in the tools, of which only
  safety is checked.
- `MetaStore`: every read is answered or fails and the timers run; no page need load
  anything.
- `Settlement`: what is sent is answered, `settle` goes on, and the seller comes back
  to the page and clicks while the notification is there. Without the last, nobody pays.
- `Redemption`: each list is answered (`Answered`), and whoever has something to get
  comes back to an up to date page and clicks, again and again (`ComesBack`). Both are
  written with `[]<>`, over the state of the page alone.
- `MintPage`: timers fire, requests are answered, the sale begins, the pass is
  issued; from time to time no call is under way while the page holds the machine of
  the wallet that is connected, and the visitor clicks then.
- `PackOpening`: calls go on and readings are stored; from time to time the visitor
  waits until nothing moves any more, and then, again and again, closes the modal,
  clicks and loads the page anew. That a fault leaves nothing moving is not assumed but
  checked: `Still` counts only calls that are stuck in the code's own waits.
- The runs of the other modules check safety only. In `TransactionBatch`, `ManualRetry`
  and `AuctionCreation` a step presupposes that every send is answered, which in the
  storefront is not so for a transaction that expires (section 5).

`CHECK_DEADLOCK FALSE` is set throughout: every modelled call ends, users may stop
clicking, and then nothing happens.

## 4. Proofs

The proof modules follow the same argument: an inductive invariant of the
specification, a lemma for its initial truth, one step per action for its
preservation, and PTL for the temporal theorem. Each invariant was checked with TLC on
the instance of its run before it was proved. No theorem assumes anything but the
assumptions of the modules on their constants, which TLC evaluates in the runs.

`TransactionBatch_proofs` goes along the chain from A to C. For A (it assumes only
`TxAssumption`: the two kinds of transaction are disjoint) `IInv` adds to the type that a
pending notification tells the truth about the ledger (`NoticeTruthful`), that who has a
subscription simulates only after a failure and is answered only after a verdict
(`VerdictBehindAnswer`), and that only who has one waits, and nothing is on its way before
the broadcast (`WaitingSubscribed`). Needed because the safety properties are
about the answer, which is given from the notification, not from the ledger, and because a
wait that got no subscription ends beside them without knowing anything.
Theorems: `Invariance`, `PlainSound` (`PlainResolvedLanded`: a plain send that resolves
is on the ledger, executed without error; no run of its own), `RejectionSound`
(`RejectedByWaitFailed`), `NothingLandsLate` (`NothingLandsBehindAnswer`, an action
property: a copy that arrives late meets a verdict), `PlainImplementsPromise`
(`ImplementsPromise`: initial states map to
initial states, each step to a step of `SendPromise` or a stutter). It
also proves the copy in the tools: `SendersCompose` says that the composition `MCSenders`
does to each copy what it does alone, so that theorems of one hold beside the other, and
`ToolVerdictTruthful` (`VerdictTruthful`) is proved from what is on its way to the
caller, from the socket and from the queries, being true of the ledger.

For B (`BatchAssumption`), for every length of the list and of the chunks, `BatchInv` says
where the loop may be when which jobs wait in the queue of microtasks (`LoopInv`: at most
one `await` to resume, nothing sent beyond the loop's index), that the handlers attached
to the promise itself see a rejection before the loop does (`DirectInv`), and that
`sendTransactions` knows of its first rejection one turn late (`OneRecorded`: not failed,
or failed in the last turn with its handler still waiting, or recorded with the index of
the first). The last is why it stops at the second failure and not earlier. What a chunk
signs is a fold over the inputs (`Signable`); that it is made of the inputs with
instructions, in their order, is shown by induction over the list. Theorems:
`BatchInvariance`, `ListSentUpToFailure` (`SentUpToFailure`), `StopsOneFailureLate`
(`StopsAtSecondFailure`, the seam to C).

For C, the loop around such lists (`RetryAssumption`),
`RetryInv` adds that `lastLength` is the length of the current list, that the loop of
candy-machine-ui never slices, and that what lies before the *next* start is resolved
unless a turn threw; the last part is what makes `PrefixResolved` inductive, since the
slice happens one turn after the answer. Theorems: `RetryInvariance`, `RetryBounded`
(`BoundedTurns`), `SlicesOnlyResolved` (`PrefixResolved`), `RestartsCorrectly`
(`RestartsAtRejected`).

`AuctionCreation_proofs` (assumes `AuctionAssumption`: at least one prize, positive
sizes). For every number of prizes, all sizes of batches, groups and pages, and any number
of glitches. First the list. The operators that lay it out (`Groups`, `TokenBatches`,
`Kept`) are shown to cover each prize once (`BatchesOf`), so that the list is in the order
of its steps (`Layout`); and the two lists, filtered each for itself, to have at every
place a transaction and its own signers (`SignersMatch`). `Made(n)` is the chain when the
first n transactions have taken effect, and nothing else: it has what transaction n + 1
needs (`MadeNeeds`), and that one makes it `Made(n + 1)` (`MadeNext`). A call is taken
apart transaction by transaction (`AfterDefined`), and shown to stop at its second
rejection and to answer what `StopOnFailure` allows (`CallsStopOnFailure`), which is the
seam to C. `AuctionInv` has beside the types: `Sound`, the chain is one the programs can
make; every transaction that resolved has its effect on the chain (`Holds`); `LoopInv`, as
long as no turn threw the list up to the next start resolved, and all but one of its
transactions did once the loop is through; `InOrder`, as long as nothing was lost nothing
was sent or all of it resolved; `Retried`, with at most one lost a list that is not
through was not shown yet, and if its auction runs the lost one is the one that caches it.
The last is needed for 'Failed to create': a retry that finds the auction running starts
at the transaction that was lost, nothing behind it was sent before, and so it goes
through. Theorems: `SignersMatch`, `AuctionInvariant`, `ListAccepted` (`AcceptedInOrder`),
`SellerIsTold` (`OutcomeTold`), `AuctionImplementsRetry` (`ImplementsRetry`: each turn is
a turn of `ManualRetry`): all properties of the run `auction`.

`CandyMachine_proofs`, for the upload (assumes `UploadAssumption`). For any number of assets and
runs. `UploadInv` has four parts beside the properties: where the process is and what
the file knows by then (`ProcessInv`: nothing is uploaded before the file names a
machine); what is still to be uploaded (`TodoInv`: with bundles the assets from some
point on, all before it cached); that the transactions of `writeIndices` belong to
slices of the cache as it is (`WriteInv`), and that with bundles whatever landed or is
marked is written with its present link (`BundleInv`). The cached assets of a bundle are
an initial segment even after a kill, and so the n-th key is n and a slice goes where
its assets belong; that keys of one slice lie together in the order of keys is shown
with ranks (cardinalities of the keys below). Theorems: `UploadInvariance`,
`LinesOnTheMachine`, `SlicesDisjoint`, `MessagesTrue`, `MarksAndRepairs`,
`NotUploadedTwice` (an action property): all properties of the run `upload`.

`MetaStore_proofs` (assumes `MetaAssumption`). For every index, any batch size and any
number of loads, failures and changes of the connection. `MetaInv` has four parts. The
types, with where a load of each kind may be. `OneFamily`: until everything is loaded anew
all objects share their maps of auctions, which only grow; hence the part of `ShownKept`
about auctions. Its part about metadata needs no more than the types: what is known to all
loads and queued updates is in every object and in every map spread by a load, so that
whichever ends next makes no object the state that lacks it, unless it is the metadata of
a mint that is no NFT. `InStep`: as long as no copy was made during paging, all objects
have read the same pages, an initial segment of the index, `page` is not ahead of
`lastLength` nor that of the segment, and every update under way or queued asks for a page
at most one behind it; a copy is then only there when the whole index was read. `Phases`:
before the address of the store is known only the user's accounts are read; then one
update holds the flag, and nothing but the user's loads runs beside it, because
`isLoading` is set with it; afterwards every object has a store and nobody sets the flag.
Theorems: `MetaInvariance`, `PagesComeInOrder` (`PagesInOrder`), `ShownStays`
(`ShownKept`, an action property). The attempt to prove the flag's part found it too
strong: with two changes of the connection, and no index, an update that waited in the
queue sets the flag from its old state without a store, and one that ends beside it clears
it. The property now names that case.

`MetaStore_proofs` has the account cache in its second part (assumes `CacheAssumption`:
wallets, tokens and mints are disjoint, every token account has an owner). For any sets of
wallets, accounts and owners and any bounds. `IInv` falls into four parts, each inductive
together with the types, and the proof has one lemma for each: the accounts of the pages
(`UserAccountsOwned`); the requests (`FetchPending`: a query is outstanding only for an
account that is pending or cached by now, which gives `OneFetch`); the hook
(`HookOfFirstKey`, `HookShowsCache`); and the delivery of changes. The last is the long
one. `NothingElseMissed` says that the last change of an open account is in the cache or
in a feed; to be inductive it needs that a feed's news reach the cache (`OnItsWay`: the
feed is one whose callback takes the account), that a feed tells only what its
subscription hears of (`FeedsTell`) and ends with the account's last change
(`FeedsReachChain`), and that no answer is newer than the chain (`ReadsFollowChain`), so
that an answer that overwrites something is an older one, which `lapse` records. Theorems:
`CacheInvariant`, `OwnedAlways`, `OneFetchAlways`, `HookAlways`,
`NothingElseMissedAlways`, one for each property of the run `accounts`.

`CandyMachine_proofs` has the mint page in its second part (assumes `MintAssumption`:
wallets and calls are finite in number). For any machines, any number of calls under way,
of wallets and of faults. `MintInv` has four parts. The types. `Bounded`: items left and
tokens made never exceed what the machine had, and there are no more late mints than
faults, so that a new set-up always finds a name nobody refers to (`FreshIsUnused`, by
counting). `Stands` is `SetupStands` without the types. Where the set-up is apart and
there is no gateway, `OneCall` and `Counted`: one call is under way at a time, because
`minting` is set in the click that starts it and the effect, which does not ask, needs a
pass; from the confirmation on the call and the page refer to the same set-up; every late
mint holds the set-up of the page or one that is used up, and so can only make the token
the page still waits for; the tokens made are those announced, and one more when the
page's set-up is used up. What a sum over wallets is, `FoldFunction` says by recursion
over sets; that one token more makes it one more is shown by induction over the parts of
the set (`TotalOf`). Theorems: `MintInvariance`, `SetupAlwaysStands` (`SetupStands`),
`NeverPaidTwiceAlways` (`NeverPaidTwice`). The attempt found the model short of names for
set-ups: with more faults than one, late mints held them all. `Ids` now has one more than
page, calls and late mints can refer to.

`FairLaunch_proofs` (assumes `LaunchAssumption`: finitely many buyers, positive prices,
sizes of bytes and updates, modulus and number of tries). For any buyers, prices and tokens, and any
number of commands, adjustments and lost calls. Every call about one ticket is a
`TicketStep`: it moves that ticket forward and no other (`Moves`), and a punch takes one
token. `LaunchInv` has, beside the types and the numbering of tickets and bits, four
parts. `Clients`: a buyer who has come past the adjustment holds a ticket of the median at
most. `OpInv`: the command that serves everyone works from tickets it read, and those it
has not come to are as they were read, brought down to the median, or settled (`Follows`);
the one on turn has been tried no more often than calls were lost, and so a ticket given
up has cost `MaxTries` faults, which is the proviso of `AllServed` and `PaysMedian`. An
adjustment paid for in tokens is refused as often as it is tried, without a call being
lost; that is why `PaysMedian` speaks of a treasury in SOL, while `AllServed` holds with
both. `DrawInv`: a draw of the present period of closure was made of all tickets and is
fair, and what has been written of it is the bitmap so far. `ResultInv`: the last good
result of that period is fair, then and in phase three (`FairDraw`, which is the outcome
as a statement about a set of numbers). That a fair draw stays fair while tickets move is
the heart of it (`FairMoves`): a winner who is paid takes one token and leaves the winners
who still hope by one. Of the draw itself only what it owes is used: the number of
winners, and that no one eligible is left while a token is. The bits, for any size of a
byte, of an update and of the header: writing an update leaves set, of the tickets it
covers, those of the winners, and of all other tickets what was set before (`OverlaidIs`),
and what the authority reads for a ticket is what the program honours. Theorems:
`LaunchInvariance`, `FairOutcomeAlways` (`FairOutcome`), `AllServedAlways` (`AllServed`),
`PaysMedianAlways` (`PaysMedian`), `RefundsLosersOnlyAlways` (`RefundsLosersOnly`, an
action property).

`Redemption_proofs` (assumes `RedemptionAssumption`: bids are lists of different bidders,
the seller is none of them). For every outcome, any number of places, of editions and
boxes for each, and of faults. A transaction is `Lawful` when what it asks for is what the
auction gives: an edition of a place for its winner, a box for the winner of its place or
for the seller where nobody won, a claim on the pot of a winner, a refund of another's.
`RedeemInv` says that every list still to be sent is lawful, beside the types and the
parts of `PrizesByPlace`. Lists are lawful whatever state of the chain they were built
from and however the participation prints interleave (`ListLawful`), and a retry sends a
part of one, also behind a turn that threw or an answer that was not true. That a page
goes by an old ticket or supply is caught by the chain, which takes a number only if it
follows from its own; what that is counted from never changes, since nothing is printed
before there is a ticket and the ticket then holds the supply (`TicketFirst`,
`CountsFrom`). Theorems: `RedeemInvariance`, `PrizesComeByPlace` (`PrizesByPlace`) and
`NumbersAlwaysTellPlaces`, which has no run of its own: no two places share a number,
since the numbers of a place end where those of the next begin (`OffsetsApart`).

`UndisturbedAccepted` needs, of every list under way, what its remaining transactions find
on the chain. `Coherent` says that no transaction of a list stands in the way of a later
one: no two editions of one number or boxes of one place, one claim or refund at most, a
participation print behind its mint and its sale behind it, the withdrawal of the master
last. A list from a page that shows the auction as running begins with its end
(`EndsFirst`), so that a claim finds it ended. The lists of every page are coherent,
unless a seller's has several participation prints (`ListAsked`), and ask for nothing
their page shows as given (`Asked`). A list `Fits` the chain when each transaction still
to be sent finds what it needs there, or among those sent before it, and only a claim or
refund has been rejected. `AcceptInv` says that a page nothing disturbed sends a list that
fits, or one the property leaves out (`Escapes`); that the numbers of participation prints
never run ahead of the supply by more than one (`PartsLow`); that the master is given back
behind the last edition only (`GoneIsPrinted`), which is a matter of the chain's own
check; and that a pot is claimed of winners only. A list that fits is refused one
transaction at most, the claim of a pot that may be empty: nothing behind it depends on
it, and since a second rejection cannot follow the loop never starts over. Theorems:
`AcceptInvariance`, `AcceptsUndisturbed` (`UndisturbedAccepted`).

`Settlement_proofs` (assumes `SettlementAssumption`: winners are a list of different
bidders, payments a list of recipients with the seller among them, sizes and amounts are
positive). For any winners and payments, bids and threshold, every size of transactions and
batches, any accounts there are at first, and any number of faults. The instructions are given a
`Rank`: pots by the place of their winner, payments by theirs, the creation of an account
just before the first payment into it. The loops that fill transactions and batches keep
that order (`FilledLaid`, `BatchedLaid`; the recursive function behind `Filled` is shown
to be defined before anything is said of it), no transaction passes its size by more than
one, no batch its own, and together they hold what was asked for (`ClaimsLaid`,
`PaymentsLaid`). Ranks grow along the list, so nothing is laid out twice (`LaidFits`).
`SettleInv` says, beside the types: what is still to be sent is laid out (`LaidOut`), on
which the page depends however it was cut off; the store of the page, and a settle that
has not come to the pots, have forgotten none that is to be claimed (`PotsKnown`); and for
a settle nobody disturbs, what is left to be sent is what is still to be done (`OnItsWay`,
stage by stage: `ToPull`, the stored auction is up to date and no pot of the click is
empty; `ToEnd`, the end of the auction is sent if and only if it runs; `ToClaim`, the pots
not claimed; `ToPay`, the payments not made, each with its account on the chain or still
in the list). Since the
creation of an account has the lower rank it comes no later than the payment, and an
account is created once: that is why nothing is refused (`NextAccepted`), although the
accounts were looked up before the first payment. `ClaimBids` lists a pot that is not to
be claimed as an empty group, which adds nothing, because the prover knows nothing of
`SelectSeq`. Theorems: `SettlementInvariance`, `SettlesInFull` (`SettledInFull`).

`PackOpening_proofs` (assumes the assumptions on sizes of `PackCreation` and
`PackOpening`). For packs of any number of cards, any size of chunks, batches and
accounts with marks, any number of calls and faults. The list of the seller is a
`FlattenSeq` of chunks, and what a visitor claims a list of lists of editions; what such
a list holds at which place is shown first (`FlattenSeq` and the sum of a function are
shown to be defined by their recursion before anything is said of them).
`CreationInv` says that the pack is what the first transactions of the list make
(`Built`), as long as nothing went wrong. `OpeningInv` says, of a visitor nothing
disturbed, that one call runs at most (`OneByOne`); that while it requests, what it has
still to request is what the pack has left; that while it claims, its list names every
edition of every card that is left, those of one card in their order, and goes on in the
queue where the claimed cards end; and that whatever the page and the listener know of
the process may be old, but is the process itself once the counts agree. The last is
needed because the poll reads the process between any two claims. What is in flight
disturbs when it lands, not before: until then a resumed opening goes by what is on the
chain, and the invariant holds of it. Theorems:
`PackInvariant`, `NothingRefusedUnexplained` (`UndisturbedAccepted`) and
`CardsShownAreOwned` (`ShownAreClaimed`).

Only model-checked:

- liveness (`ExecutedIsAnswered`, `EventuallyPaid`, the two `EventuallyServed`,
  `EventuallyAllPages`, `EventuallyOpened`), which is beyond the prover. Every
  invariant, every action property and every refinement that a run checks is also
  a theorem.

The library's induction theorems take an operator for a parameter, which the provers
cannot instantiate; where a proof needs induction over a list or over keys, it uses a
least element of a set instead (`NatLessThanWellFounded` and `WFMin`).

## 5. Behaviour met while modelling

None of this contradicts a property above; where a property would have, it names the
exception. The lines are those of the code.

**Sending (A to C).**
- The timer of the storefront's wait throws inside its own callback
  (connection.tsx:787-794), so that nobody catches it: a transaction that expires is
  waited for without end, although :703-704 and :714-715 handle the timeout.
- A transaction that failed on the chain resolves with its id, the throw behind the
  simulation being commented out (:737); the wait of the tools does the same
  (transactions.ts:145).
- `StopOnFailure` sends one more transaction behind the first rejection (:439), so that a
  list with one rejection is reported as complete (:453), and an auction as created with
  one transaction missing (createAuctionManager.ts:380).
- `sendTransactions` with `Parallel` returns before the answers: the pending sends are
  awaited only when the type is not `Parallel` (:449).
- `sendTransactionsInChunks` returns an index within the chunk (:352). No caller reads it.
- Transactions that took effect behind a rejected one are sent again (:240); so does
  candy-machine-ui from the start of the list.
- After a turn that threw, `stopPoint` is applied to the list already sliced, and
  transactions are skipped unsent.
- The loop that resends compares seconds with milliseconds (:687): only `done` stops it.
- A subscription that cannot be opened sets `done` and no status (:817-820): the caller of
  `sendTransaction` is told 'Timed out' although nothing timed out or failed, that of
  `sendSignedTransaction` gets the answer of a simulation of a transaction that may have
  landed; in the tools the same catch leaves the wait without anything that could end it.

**Auctions (D).**
- A creation may fail for good after a single lost transaction: a batch of tokens
  that is lost is found out only behind `closeVault`, and can then no longer be added;
  the vault keeps the other prizes.
- `settle` drops the answer of its batches (settle.ts:191); what was missed is offered
  again only when the page has been loaded anew, the mutex of the notification never
  being released. `closePersonalEscrow` of an account that is not there makes a good
  settle look failed.
- Whether the auction has to be ended is read from the page's store (settle.ts:36), which
  nothing refreshes: when somebody else ended it, or the page itself did in a settle that
  failed later, the end is sent again, refused, and ends the settle, until a reload.
- A balance of the escrow in (0, 0.00001] hides the notification, with all pots that are
  still full (Notifications/index.tsx:225-236, with a FIXME).
- Where the auction's data cannot be completed (`completeAuctionView`), the notification
  shows success although nothing was settled.
- Who only cancels a bid sends once, without the loop (cancelBid.ts:93-108), and so does
  the seller: what is lost there waits for the next click.
- The participation prints of a seller's list share one number, supply and one
  (sendRedeemBid.ts:819, claimUnusedPrizes.ts), so that only the first is accepted, and
  the master's withdrawal stands behind a single refused print: a participant can lose
  its print for good. No property asks for participation prints.
- `sendPlaceBid` drops the instructions that create the token account (:189-203);
  `setupCancelBid` pushes nothing when the mint is not cached, and its caller then reads
  what is not there. `uiAmount || 0 > 0` compares the wrong way. `unwindVault` counts its
  batches with a counter that lags; `decommAuctionManager` ignores the retry's answer.
- `useCachedRedemptionKeysByWallet` (web/src/hooks/useAuctions.ts:67-108) is keyed by the
  auction alone and keeps the first wallet's tickets after a switch.

**Upload (E).**
- A skipped asset shifts the lines behind it (upload.ts:516), with "Successful = true"
  and "ready to deploy!" all the same, for storages that upload one asset at a time.
- Cached assets of a bundle upload have no `dataUri` and are uploaded again in every
  run (:429), though the comment above says that the `link` decides.
- `upload` exits with 0 whatever `uploadV2` returned (candy-machine-v2-cli.ts:237).
- A config line of 850 characters or more makes the slicing loop run for ever
  (upload.ts:512).

**Meta store (G).**
- A load that ends its `updateMints` while pages load makes its copy the state; the
  next page's update starts from the copy, which lacks pages, and paging stops early.
- In a store that was never indexed, an update that was queued behind the first load sets
  `window.loadingData` again, for it starts from the state of its render, which has no
  store (meta.tsx:234-237); an update begun meanwhile that ends first clears the flag.
- `window.loadingData` is never cleared if the first load throws; `isLoading` is set by
  three loads and reset by none of them; a failed `pullUserMetadata` leaves
  `isLoadingMetadata` set.
- A load that ends late makes an older object the state, whose `metadata` array then
  replaces the newer one.
- Metadata that are loaded while another load waits for its mints are lost when that one
  ends: it replaces the maps by copies it spread before the await (meta.tsx:72-76,
  queryExtendedMetadata.ts:13 and :32).
- The auction that ends a batch is dropped (loadAccounts.ts:660), and so is an edition
  (:172); two loops send an empty last batch. `pullBillingPage` is called with the key of
  a thumbnail (billing.tsx:376-378). `subscribeAccountsChange` has no caller.

**Account cache (H).**
- `useMint` goes on awaiting the promise of its old key (accounts.tsx:233).
- Closed token accounts do not parse, and the cache keeps them (cache.ts:80-83); mints
  that `queryExtendedMetadata` adds are never subscribed; a rejected promise stays in
  `pendingCalls` (:60).
- A wallet switched during the read leaves a native subscription behind
  (accounts.tsx:85-88); every change of the native account runs the effects again.

**Packs (J).**
- `onClickOpen` depends on the modal's state alone (RedeemModal/index.tsx:71): the second
  click uses an older process, and after Escape a second call can run beside the first.
  After the wallet declined, the polling goes on.
- The supply of the editions is read with the page only. Past the end of an account with
  edition marks (248 editions, reached by others' prints or the visitor's own) every
  claim is refused until the page is loaded anew.
- `fetchProvingProcessWithRetry` compares seconds with 15000 (:30): if the first request
  failed, a call waits four hours.
- A late answer of the listener replaces the final process, and the button is back. A
  resumed opening starts the slider at the first of the cards left, with the count of all
  claimed ones, and shows cards not yet claimed.
- A request or claim that is in flight at a reload, or behind an answer that was lost, may
  land behind the reading of the resumed page, which then asks for too many cards, or for
  one that is claimed already, and is refused.
- With a voucher's link, a reload may miss the process (the effect keeps the metadata of
  its first render); all cards are then asked for again, and refused.
- None of the three lists' answers is looked at: "Your pack has been created." comes with
  a card missing or the pack inactive, and the cards then stay in the pack's accounts.

**Fair launch (K1).**
- The loops of three tries have their error behind a bound they never reach
  (fair-launch-cli.ts:1504); a call whose tries are all lost is skipped in silence.
- A chunk of the bitmap whose update failed keeps the bits of an earlier lottery (:2732).
- With a treasury of tokens `adjustTicket` to any amount above nothing always throws: the
  approval names the adjuster as the owner of the buyer's tokens, and the revocation goes
  to the program of the launch (:738-821). `punch_and_refund_all_outstanding` tries three
  times and then punches the ticket above the median, without a fault of anything else.
- `punch_ticket` begun before phase three and ended in it can punch above the median;
  `purchase_ticket` scales the amount it approves twice (:455).
- Listed buyers alone may win more tokens than are left; the account of the launch is
  read once per command; a sequence account that is missing is a TypeError (various.ts:308-345).

**Mint page (L).**
- A mint that timed out and landed leaves its used set-up in the page, and every later
  mint is refused until a reload; a set-up made for another wallet stays as well.
- The refresh loops are never stopped (Home.tsx:499): after a switch the page flips
  between the wallets' machines every twenty seconds.
- The effect of `MintButton` runs in every render once the pass is there, and starts
  another mint each time (MintButton.tsx:73).
- `indexOf` of a missing string is truthy: every error with a message says "SOLD OUT!".
  A set-up that was rejected ends in a TypeError, a rejected mint in a wait for an
  undefined id; a finalized transaction counts as unconfirmed.

## 6. Plan and what is not modelled

Done: A, B, C, D1 to D3, E without its side paths, G, H, J, K1 and L; theorems on A, B,
C, D1 to D3, E, G, H, J, K1 and L.

Not modelled, and why:

- **Pipeline executor**: `execute` does not wait for its executors, and no caller waits
  for it; `MetaStore` takes the loads that use it as one reading of the chain.
- **Instruction builders** (`common/src/actions`, `models`) and the borsh schemas:
  serialisation of one instruction or account each, no state of their own; what they do
  to the chain is the external part of the modules above.
- **Auction house and token entangler tools, the remaining commands of fair launch and
  candy machine** (set-up of a launch and its metadata, dummy mints, burn, withdraw,
  `send_flp_tokens`, show; mint, sign, withdraw, collections, v1): one transaction, or a
  loop over independent ones, with nothing kept in between.
- **PrintingV1 and MasterEditionV1 prizes, instant sales, placing a bid, `endSale`,
  `unwindVault`, `decommAuctionManagerAndReturnPrizes`**: deprecated, single
  transactions, or lists handed to the loop `ManualRetry` models.
- **Hidden settings and `resetCandyMachine`** of the upload; **Civic's pass** and ends of
  sales of the mint page; the **filter of metadata** and the loads of single accounts in
  the meta store.
- **Storage back ends** (I/O with services; their success, failure or skip is an input of
  `CandyMachineUpload`), **pages and components** (rendering), the **Friyay scripts**
  (straight-line calls of services).

These are the larger part of the sources by lines: most of the repository is rendering,
forms, schemas and single transactions. What keeps state between two steps and can be
interrupted between them is in the models above.
