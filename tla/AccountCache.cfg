CONSTANTS
    Wallets <- MCWallets
    Tokens <- MCTokens
    Mints <- MCMints
    Absent <- MCMints
    OwnerOf <- MCOwnerOf
    NoWallet = NoWallet
    NoMint = NoMint
    MaxChanges = 2
    MaxMoves = 2
    MaxRuns = 3
    w1 = w1
    w2 = w2
    t1 = t1
    t2 = t2
    m1 = m1
    m2 = m2
SPECIFICATION CacheSpec
INVARIANTS
  UserAccountsOwned
  OneFetch
  HookShowsCache
  NothingElseMissed
CHECK_DEADLOCK FALSE
