---------------------------- MODULE AccountCache ----------------------------
(***************************************************************************)
(* The account cache of the storefront and the hooks that show it:         *)
(* common/src/contexts/accounts/cache.ts and accounts.tsx.  An account      *)
(* gets into the cache by the answer of a request, which shows it as it    *)
(* was when the node read it, or by a websocket subscription.  Callbacks    *)
(* run to completion; React's effects follow in the same step.             *)
(*                                                                         *)
(* What an account holds is its version `n' and whether it is `open'.      *)
(***************************************************************************)
EXTENDS Integers, Sequences, FiniteSets, SequencesExt

CONSTANTS
    Wallets,        \* the wallets the user switches between; also the address of
                    \* a wallet's native account
    Tokens,         \* token accounts
    Mints,          \* accounts shown by useMint
    Absent,         \* accounts that do not exist at first
    OwnerOf,        \* the wallet that owns a token account
    NoWallet,       \* no wallet is connected
    NoMint,         \* useMint without a key
    MaxChanges,     \* bound: how often the accounts change on the chain
    MaxMoves,       \* bound: how often the user switches wallets or pages
    MaxRuns         \* bound: how often the provider's effects run

Accounts == Wallets \cup Tokens \cup Mints

ASSUME CacheAssumption ==
    /\ OwnerOf \in [Tokens -> Wallets]
    /\ NoWallet \notin Wallets /\ NoMint \notin Accounts
    /\ Wallets \cap Tokens = {} /\ Wallets \cap Mints = {} /\ Tokens \cap Mints = {}
    /\ Absent \subseteq Accounts
    /\ MaxChanges \in Nat /\ MaxMoves \in Nat /\ MaxRuns \in Nat

VARIABLES
    chain,          \* the accounts on the chain
    reads,          \* requests the node has not answered to the browser yet
    asked,          \* subscriptions on their way to the node, in order
    feeds,          \* subscriptions in force, with the notifications underway
    genericCache,
    pendingCalls,   \* per account: no promise, one that waits, one that rejected
    wallet,         \* publicKey of useWallet
    effect,         \* the run of UseNativeAccount's effect
    runs,           \* how often the provider's effects have run
    precached,      \* PRECACHED_OWNERS
    userAccounts,   \* what the pages get from useUserAccounts
    hook,           \* useMint: its key, what it shows, whether the key is its first,
                    \* the promises it awaits
    changes, moves,
    lapse           \* history: up to which version an account may have been missed

browserVars == <<genericCache, pendingCalls, userAccounts, hook>>
counters == <<changes, moves>>
cacheVars == <<chain, reads, asked, feeds, genericCache, pendingCalls, wallet, effect, runs,
          precached, userAccounts, hook, changes, moves, lapse>>

Content == [n : Nat, open : BOOLEAN]
NotCached == [n |-> -1, open |-> FALSE]
NotRead == [n |-> -2, open |-> FALSE]

NoHook == [key |-> NoMint, first |-> TRUE, shows |-> NotCached, awaits |-> {}]

\* `by' tells the runs of an effect apart.
Subscriptions == [kind : {"account", "native", "program"}, about : Accounts, by : Nat]
ReadKinds == {"query", "precache", "native", "loader"}

Requests ==
    {r \in [kind : ReadKinds, about : Accounts, by : Nat, done : BOOLEAN,
            seen : [Accounts -> Content \cup {NotRead}]] :
        r.kind = "native" => r.about \in Wallets}
Notes == [of : Accounts, is : Content]

Typed ==
    /\ chain \in [Accounts -> Content]
    /\ reads \subseteq Requests
    /\ feeds \in [DOMAIN feeds -> Seq(Notes)]
    /\ genericCache \in [Accounts -> Content \cup {NotCached}]
    /\ pendingCalls \in [Accounts -> {"none", "waiting", "rejected"}]
    /\ wallet \in Wallets \cup {NoWallet}
    /\ runs \in Nat
    /\ precached \subseteq Wallets
    /\ userAccounts \in [Accounts -> Content \cup {NotCached}]
    /\ hook \in [key : Mints \cup {NoMint}, first : BOOLEAN,
                  shows : Content \cup {NotCached}, awaits : SUBSET Mints]
    /\ changes \in Nat /\ moves \in Nat
    /\ lapse \in [Accounts -> Nat]

CacheTypeOK ==
    /\ Typed
    /\ asked \in Seq(Subscriptions)
    /\ DOMAIN feeds \subseteq Subscriptions
    /\ effect \in Nat

CacheInit ==
    /\ chain = [a \in Accounts |-> [n |-> 0, open |-> a \notin Absent]]
    /\ reads = {} /\ asked = <<>> /\ feeds = <<>>
    /\ genericCache = [a \in Accounts |-> NotCached]
    /\ pendingCalls = [a \in Accounts |-> "none"]
    /\ wallet = NoWallet /\ effect = 0 /\ runs = 0
    /\ precached = {}
    /\ userAccounts = [a \in Accounts |-> NotCached]
    /\ hook = NoHook
    /\ changes = 0 /\ moves = 0
    /\ lapse = [a \in Accounts |-> 0]

(***************************************************************************)
(* The cache.                                                              *)
(***************************************************************************)

\* A closed token account does not parse, so that `cache.add' leaves the cache alone.
Parsed(seen, as) == {a \in as : seen[a].open}

\* The handler of AccountsProvider subscribes to an account that is new and active.
Subscribe(added) ==
    SetToSeq({[kind |-> "account", about |-> a, by |-> 0] :
                    a \in {b \in added : genericCache[b] = NotCached}})

\* Mutants: an account that is cached stays as it is, its hooks are not told, all token
\* accounts are the user's, a pending promise is not looked up.
UpdatedIfNew(seen, as) ==
    [a \in Accounts |-> IF a \in Parsed(seen, as) /\ genericCache[a] = NotCached
                        THEN seen[a] ELSE genericCache[a]]

Updated(seen, as) ==
    [a \in Accounts |-> IF a \in Parsed(seen, as) THEN seen[a] ELSE genericCache[a]]

\* cache.add of the accounts `as': the pending promise is dropped, and useMint hears
\* the event for its key.
AddToCache(seen, as) ==
    /\ genericCache' = Updated(seen, as)
    /\ pendingCalls' = [a \in Accounts |-> IF a \in as THEN "none" ELSE pendingCalls[a]]

HookHearsNew(seen, as) ==
    IF hook.key \in Parsed(seen, as) /\ genericCache[hook.key] = NotCached
    THEN [hook EXCEPT !.shows = seen[hook.key]] ELSE hook

HookHears(seen, as) ==
    IF hook.key \in Parsed(seen, as) THEN [hook EXCEPT !.shows = seen[hook.key]] ELSE hook

\* An answer that is older than what the cache has by now puts the account back.
Overtaken(seen, as) ==
    [a \in Accounts |-> IF a \in Parsed(seen, as) /\ seen[a].n < genericCache[a].n
                        THEN chain[a].n ELSE lapse[a]]

SelectAll(cache, w) ==
    [a \in Accounts |-> IF a = w \/ (a \in Tokens /\ w # NoWallet) THEN cache[a] ELSE NotCached]

\* selectUserAccounts: the native account of the wallet, and what it owns.
Select(cache, w) ==
    [a \in Accounts |->
        IF a = w \/ (a \in Tokens /\ OwnerOf[a] = w) THEN cache[a] ELSE NotCached]

Ask(kind, about, by) ==
    [kind |-> kind, about |-> about, by |-> by, done |-> FALSE,
     seen |-> [a \in Accounts |-> NotRead]]

(***************************************************************************)
(* The node (external, from the use of Connection): it reads the accounts  *)
(* of a request some time before its answer arrives, which may be never;   *)
(* it takes up subscriptions in the order in which they were sent.         *)
(***************************************************************************)

Wanted(r) ==
    IF r.kind = "precache" THEN {a \in Tokens : OwnerOf[a] = r.about} ELSE {r.about}

Read(r) ==
    /\ r \in reads /\ ~r.done
    /\ reads' = (reads \ {r}) \cup
            {[r EXCEPT !.done = TRUE,
                       !.seen = [a \in Accounts |-> IF a \in Wanted(r) THEN chain[a] ELSE @[a]]]}
    /\ UNCHANGED <<chain, asked, feeds, wallet, effect, runs, precached, lapse, browserVars, counters>>

StartSubscription ==
    /\ asked # <<>>
    /\ asked' = Tail(asked)
    /\ feeds' = [s \in DOMAIN feeds \cup {Head(asked)} |->
                    IF s \in DOMAIN feeds THEN feeds[s] ELSE <<>>]
    /\ UNCHANGED <<chain, reads, wallet, effect, runs, precached, lapse, browserVars, counters>>

\* The token program's subscription tells of every token account that is open.
Hears(s, a, c) ==
    IF s.kind = "program" THEN a \in Tokens /\ c.open ELSE s.about = a

\* The handler of the subscription takes what it hears of the account.
Takes(s, a) == s.kind = "program" => a \in Tokens /\ OwnerOf[a] \in precached

\* A change that reaches no subscription whose handler takes it is missed.
AccountChange(a, open) ==
    /\ changes < MaxChanges
    /\ changes' = changes + 1
    /\ ~open => a \in Tokens /\ chain[a].open
    /\ LET c == [n |-> chain[a].n + 1, open |-> open]
           hearing == {s \in DOMAIN feeds : Hears(s, a, c)}
       IN  /\ chain' = [chain EXCEPT ![a] = c]
           /\ feeds' = [s \in DOMAIN feeds |->
                            IF s \in hearing THEN Append(feeds[s], [of |-> a, is |-> c]) ELSE feeds[s]]
           /\ lapse' = IF \E s \in hearing : Takes(s, a)
                       THEN lapse ELSE [lapse EXCEPT ![a] = c.n]
    /\ UNCHANGED <<reads, asked, wallet, effect, runs, precached, browserVars, moves>>

(***************************************************************************)
(* useMint and cache.query.                                                *)
(***************************************************************************)

FetchesAnyway(m) == genericCache[m] = NotCached

\* cache.query starts a request when there is neither an account nor a promise, be
\* it one that has rejected.
Fetches(m) == genericCache[m] = NotCached /\ pendingCalls[m] = "none"

Awaits(m) ==
    IF genericCache[m] = NotCached /\ pendingCalls[m] # "rejected" THEN {m} ELSE {}

\* useMint is mounted with a key, or gets another one; it goes on awaiting the promise
\* it asked for with the key before.
SetKey(m) ==
    /\ moves < MaxMoves /\ m # hook.key
    /\ moves' = moves + 1
    /\ reads' = IF Fetches(m) THEN reads \cup {Ask("query", m, moves)} ELSE reads
    /\ pendingCalls' = IF Fetches(m) THEN [pendingCalls EXCEPT ![m] = "waiting"]
                                     ELSE pendingCalls
    /\ hook' = [key |-> m, first |-> hook.key = NoMint,
                shows |-> IF genericCache[m] # NotCached THEN genericCache[m] ELSE hook.shows,
                awaits |-> hook.awaits \cup Awaits(m)]
    /\ UNCHANGED <<chain, asked, feeds, genericCache, wallet, effect, runs, precached, userAccounts,
                   changes, lapse>>

\* The component goes away, and with it what it shows; its request stays.
Unmount ==
    /\ hook.key # NoMint
    /\ hook' = NoHook
    /\ UNCHANGED <<chain, reads, asked, feeds, genericCache, pendingCalls, wallet, effect, runs, precached,
                   userAccounts, counters, lapse>>

\* The answer is added; the promise resolves for whoever awaits it, also if the hook
\* has another key by now.
QueryAnswered(r) ==
    LET m == r.about IN
    /\ r \in reads /\ r.kind = "query" /\ r.done /\ r.seen[m].open
    /\ reads' = reads \ {r}
    /\ asked' = asked \o Subscribe({m})
    /\ AddToCache(r.seen, {m})
    /\ hook' = [HookHears(r.seen, {m}) EXCEPT !.shows = IF m \in hook.awaits THEN r.seen[m] ELSE @,
                                              !.awaits = @ \ {m}]
    /\ lapse' = Overtaken(r.seen, {m})
    /\ UNCHANGED <<chain, feeds, wallet, effect, runs, precached, userAccounts, counters>>

\* There is no such account, or the request failed: the rejected promise stays in
\* pendingCalls.
QueryRejected(r) ==
    LET m == r.about IN
    /\ r \in reads /\ r.kind = "query"
    /\ r.done => ~r.seen[m].open
    /\ reads' = reads \ {r}
    /\ pendingCalls' = [pendingCalls EXCEPT ![m] = IF @ = "waiting" THEN "rejected" ELSE @]
    /\ hook' = [hook EXCEPT !.awaits = @ \ {m}]
    /\ UNCHANGED <<chain, asked, feeds, genericCache, wallet, effect, runs, precached, userAccounts,
                   counters, lapse>>

\* queryExtendedMetadata of the meta store: mints that are not in the cache are read
\* and added without a subscription (isActive is false).
LoadMint(m) ==
    /\ genericCache[m] = NotCached
    /\ \A r \in reads : r.kind = "loader" => r.about # m
    /\ reads' = reads \cup {Ask("loader", m, 0)}
    /\ UNCHANGED <<chain, asked, feeds, wallet, effect, runs, precached, lapse, browserVars, counters>>

MintLoaded(r) ==
    /\ r \in reads /\ r.kind = "loader" /\ r.done
    /\ reads' = reads \ {r}
    /\ LET as == Parsed(r.seen, {r.about}) IN
           /\ AddToCache(r.seen, as)
           /\ hook' = HookHears(r.seen, as)
           /\ lapse' = Overtaken(r.seen, as)
    /\ UNCHANGED <<chain, asked, feeds, wallet, effect, runs, precached, userAccounts, counters>>

(***************************************************************************)
(* AccountsProvider and UseNativeAccount.                                  *)
(***************************************************************************)

\* The provider's effect runs for a wallet: it reads the token accounts again and
\* subscribes to the token program, after its cleanup has dropped the subscription
\* to it.
Programs == {s \in DOMAIN feeds \cup ToSet(asked) : s.kind = "program"}

Precache(w) == IF w = NoWallet THEN {} ELSE {Ask("precache", w, runs)}

Resubscribe(w) ==
    IF w = NoWallet THEN <<>> ELSE <<[kind |-> "program", about |-> w, by |-> 0]>>

\* UseNativeAccount drops the subscription to the native account if it was asked for
\* by the time the wallet is switched.
RemovedListeners ==
    Programs \cup {s \in DOMAIN feeds \cup ToSet(asked) : s.kind = "native" /\ s.by = effect}

\* What a dropped subscription had still to tell is missed.
Dropping(gone, before) ==
    [a \in Accounts |->
        IF \E s \in gone \cap DOMAIN feeds : \E i \in DOMAIN feeds[s] : feeds[s][i].of = a
        THEN chain[a].n ELSE before[a]]

\* The wallet is connected, switched or disconnected: the effects clean up and run.
SwitchWallet(w) ==
    /\ moves < MaxMoves /\ runs < MaxRuns /\ w # wallet
    /\ moves' = moves + 1
    /\ wallet' = w /\ effect' = runs /\ runs' = runs + 1
    /\ precached' = precached \cup ({w} \ {NoWallet})
    /\ reads' = reads \cup Precache(w)
                      \cup (IF w = NoWallet THEN {} ELSE {Ask("native", w, runs)})
    /\ asked' = SelectSeq(asked, LAMBDA s : s \notin RemovedListeners) \o Resubscribe(w)
    /\ feeds' = [s \in DOMAIN feeds \ RemovedListeners |-> feeds[s]]
    /\ lapse' = Dropping(RemovedListeners, lapse)
    /\ userAccounts' = Select(genericCache, w)
    /\ UNCHANGED <<chain, genericCache, pendingCalls, hook, changes>>

\* precacheUserTokenAccounts adds what the owner had when the node read it; the list
\* of the provider is set, and its effect selects for the wallet of this moment.
PrecacheAnswered(r) ==
    LET mine == Parsed(r.seen, Wanted(r)) IN
    /\ r \in reads /\ r.kind = "precache" /\ r.done
    /\ reads' = reads \ {r}
    /\ asked' = asked \o Subscribe(mine)
    /\ AddToCache(r.seen, mine)
    /\ lapse' = Overtaken(r.seen, mine)
    /\ userAccounts' = Select(genericCache', wallet)
    /\ UNCHANGED <<chain, feeds, wallet, effect, runs, precached, hook, counters>>

\* UseNativeAccount: the account is written into the cache without `add', and
\* subscribed to after it was read, also when the wallet was switched meanwhile.  The
\* new nativeAccount makes a new selectUserAccounts, for which the provider's effect
\* runs again.
NativeAnswered(r) ==
    LET mine == Parsed(r.seen, {r.about})
        again == mine # {}
        gone == IF again THEN Programs ELSE {}
    IN  /\ r \in reads /\ r.kind = "native" /\ r.done /\ runs < MaxRuns
        /\ reads' = (reads \ {r}) \cup (IF again THEN Precache(wallet) ELSE {})
        /\ asked' = SelectSeq(asked, LAMBDA s : s \notin gone)
                     \o <<[kind |-> "native", about |-> r.about, by |-> r.by]>>
                     \o (IF again THEN Resubscribe(wallet) ELSE <<>>)
        /\ feeds' = [s \in DOMAIN feeds \ gone |-> feeds[s]]
        /\ genericCache' = Updated(r.seen, mine)
        /\ lapse' = Dropping(gone, Overtaken(r.seen, mine))
        /\ userAccounts' = IF again THEN Select(genericCache', wallet) ELSE userAccounts
        /\ runs' = IF again THEN runs + 1 ELSE runs
        /\ UNCHANGED <<chain, pendingCalls, wallet, effect, precached, hook, counters>>

(***************************************************************************)
(* Notifications, in order within a subscription.  One of the native       *)
(* account sets nativeAccount, and the effect runs again.                  *)
(***************************************************************************)

Deliver(s) ==
    LET note == Head(feeds[s])
        as == {a \in {note.of} : Takes(s, a)}
        seen == [a \in Accounts |-> note.is]
        again == s.kind = "native"
        gone == IF again THEN Programs ELSE {}
    IN  /\ feeds[s] # <<>>
        /\ again => runs < MaxRuns
        /\ feeds' = [t \in DOMAIN feeds \ gone |-> IF t = s THEN Tail(feeds[t]) ELSE feeds[t]]
        /\ genericCache' = Updated(seen, as)
        /\ pendingCalls' = [a \in Accounts |-> IF a \in as /\ ~again THEN "none" ELSE pendingCalls[a]]
        /\ asked' = IF again THEN SelectSeq(asked, LAMBDA t : t \notin gone) \o Resubscribe(wallet)
                             ELSE asked \o Subscribe(Parsed(seen, as))
        /\ reads' = IF again THEN reads \cup Precache(wallet) ELSE reads
        /\ hook' = HookHears(seen, as)
        /\ userAccounts' = IF s.kind # "account" /\ as # {} THEN Select(genericCache', wallet)
                                                          ELSE userAccounts
        /\ lapse' = Dropping(gone, lapse)
        /\ runs' = IF again THEN runs + 1 ELSE runs
        /\ UNCHANGED <<chain, wallet, effect, precached, counters>>

CacheNext ==
    \/ \E r \in reads : \/ Read(r)
                        \/ QueryAnswered(r) \/ QueryRejected(r)
                        \/ MintLoaded(r)
                        \/ PrecacheAnswered(r)
                        \/ NativeAnswered(r)
    \/ StartSubscription
    \/ \E a \in Accounts, open \in BOOLEAN : AccountChange(a, open)
    \/ \E m \in Mints : SetKey(m) \/ LoadMint(m)
    \/ Unmount
    \/ \E w \in Wallets \cup {NoWallet} : SwitchWallet(w)
    \/ \E s \in DOMAIN feeds : Deliver(s)

CacheSpec == CacheInit /\ [][CacheNext]_cacheVars

(***************************************************************************)
(* Properties.                                                             *)
(***************************************************************************)

\* The pages see accounts of the connected wallet only, whatever answer of an
\* earlier wallet comes in late.
UserAccountsOwned ==
    \A a \in Accounts : userAccounts[a] # NotCached =>
        a = wallet \/ (a \in Tokens /\ OwnerOf[a] = wallet)

\* cache.query does not start a request for an account while one is outstanding.
OneFetch ==
    \A r, q \in reads : r.kind = "query" /\ q.kind = "query" /\ r.about = q.about => r = q

\* An open account's last change is in the cache or on its way there, unless it came
\* when no subscription was in force or an older answer overwrote it afterwards.
NothingElseMissed ==
    \A a \in Accounts : chain[a].open /\ chain[a].n > lapse[a] =>
        \/ genericCache[a] = chain[a]
        \/ \E s \in DOMAIN feeds : \E i \in DOMAIN feeds[s] :
                feeds[s][i] = [of |-> a, is |-> chain[a]]

\* useMint, as long as it keeps its first key, shows what the cache has, whoever put it there.
HookShowsCache ==
    hook.key # NoMint /\ hook.first => hook.shows = genericCache[hook.key]


(***************************************************************************)
(* The inductive invariant behind them.                                    *)
(***************************************************************************)

\* A change of a mint is always an open account.
OnlyTokensClose ==
    \A s \in DOMAIN feeds : \A i \in DOMAIN feeds[s] :
        feeds[s][i].is.open \/ feeds[s][i].of \in Tokens

\* A query is outstanding only for an account that is pending, or in the cache by now.
FetchPending ==
    \A r \in reads : r.kind = "query" =>
        /\ r.about \in Mints
        /\ pendingCalls[r.about] = "waiting" \/ genericCache[r.about] # NotCached

HookOfFirstKey ==
    /\ hook.key = NoMint => hook.shows = NotCached /\ hook.awaits = {}
    /\ hook.first => hook.awaits \subseteq {hook.key}

\* An answer is about the account as it is or as it was before.
ReadsFollowChain ==
    \A r \in reads, a \in Accounts :
        r.seen[a] # NotRead => r.seen[a].n < chain[a].n \/ r.seen[a] = chain[a]

\* A feed tells only of what its subscription hears of.
FeedsTell ==
    \A s \in DOMAIN feeds : \A i \in DOMAIN feeds[s] : Hears(s, feeds[s][i].of, feeds[s][i].is)

\* A feed that has something to tell of an open account ends with its last change.
FeedsReachChain ==
    \A s \in DOMAIN feeds : \A i \in DOMAIN feeds[s] :
        chain[feeds[s][i].of].open =>
            \E j \in DOMAIN feeds[s] :
                j >= i /\ feeds[s][j] = [of |-> feeds[s][i].of, is |-> chain[feeds[s][i].of]]

OnItsWay ==
    \A a \in Accounts : chain[a].open /\ chain[a].n > lapse[a] =>
        \/ genericCache[a] = chain[a]
        \/ \E s \in DOMAIN feeds : /\ Takes(s, a)
                                  /\ \E i \in DOMAIN feeds[s] : feeds[s][i] = [of |-> a, is |-> chain[a]]

IInv ==
    /\ Typed
    /\ UserAccountsOwned
    /\ OnlyTokensClose /\ FetchPending /\ OneFetch
    /\ HookOfFirstKey /\ HookShowsCache
    /\ ReadsFollowChain /\ FeedsTell /\ FeedsReachChain /\ OnItsWay

=============================================================================
