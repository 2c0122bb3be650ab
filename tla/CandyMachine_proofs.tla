------------------------- MODULE CandyMachine_proofs -------------------------
(***************************************************************************)
(* What is proved of the candy machine, of its upload and of its mint      *)
(* page.                                                                   *)
(*                                                                         *)
(* The upload, for every number of assets, slice size, batch size and rate *)
(* limit and any number of runs: LinesOnRecordedMachine,                   *)
(* ConcurrentSlicesDisjoint, BundleMessagesTrue, MarkedIsWritten and       *)
(* CachedNotUploadedAgain.                                                 *)
(*                                                                         *)
(* The mint page, for every set of wallets, of machines, of calls under    *)
(* way and every number of faults: NeverPaidTwice and SetupStands.         *)
(*                                                                         *)
(* With the set-up apart and no gateway, at most one call of onMint is     *)
(* under way: minting is set in the click that starts it and reset as it   *)
(* ends, and the effect of the button, which asks nobody, needs a gateway. *)
(* The call and the page refer to the same set-up from its confirmation    *)
(* to the success.  A mint that may yet land holds the set-up of the page  *)
(* or one that is used up; so it can only make the token the page is still *)
(* waiting for.                                                            *)
(***************************************************************************)
EXTENDS CandyMachineUpload, MintPage, WellFoundedInduction, FiniteSetTheorems, TLAPS

-----------------------------------------------------------------------------
(* The upload: the inductive invariant.                                    *)

\* Where the process is, and what the cache file knows by then.  Nothing is
\* uploaded before the file names a machine.
ProcessInv ==
  /\ pc # "off" => run \in Runs /\ said = "nothing"
  /\ pc \in {"create", "collection"} => disk.machine = 0
  /\ pc = "collection" => mem = [disk EXCEPT !.machine = run]
  /\ pc \in {"upload", "write"} => disk.machine # 0
  /\ disk.machine = 0 => Cached(disk) = {}

\* What is still to be uploaded: with single uploads never an asset that is
\* cached; with bundles the assets from some point on, all before it cached.
TodoInv ==
  /\ ~Bundle => todo \cap Cached(disk) = {}
  /\ Bundle /\ pc \in {"create", "collection", "upload"} => Keys \ todo \subseteq Cached(disk)
  /\ Bundle => \A k \in todo, j \in Keys : k < j => j \in todo

\* The transactions of writeIndices are those of slices of the cache, and as
\* long as none has failed every other slice is on chain.
WriteInv ==
  /\ pc # "write" => queue = {} /\ landed = {}
  /\ queue \cup landed \subseteq Slices(disk)
  /\ pc = "write" /\ clean =>
       \A s \in Slices(disk) : s \in queue \cup landed \/ s \subseteq disk.onChain

\* With a bundle storage: what is marked in either way, or has landed, is
\* written; every line is that of a cached asset; the messages are true.
BundleInv ==
  Bundle =>
    /\ \A k \in disk.verified : Written(disk, k)
    /\ \A s \in landed : \A k \in s : Written(disk, k)
    /\ \A m \in Runs : \A p \in Keys : lines[m][p] # Empty => p \in Cached(disk)

UploadInv ==
  /\ LinesOnRecordedMachine /\ CachedIsPrefix /\ MarkedIsWritten /\ BundleMessagesTrue
  /\ ProcessInv /\ TodoInv /\ WriteInv /\ BundleInv

-----------------------------------------------------------------------------
(* Keys, ranks and slices.                                                 *)

\* The constants.
LEMMA Constants ==
  /\ N \in Nat /\ N > 0 /\ SliceSize \in Nat /\ SliceSize > 0
  /\ MaxRuns \in Nat /\ MaxRuns > 0
  /\ Keys = 0 .. N-1 /\ Runs = 1 .. MaxRuns
  BY UploadAssumption DEF Keys, Runs

\* A set of natural numbers that is not empty has a least element, its Min.
LEMMA MinOf ==
  ASSUME NEW S, S \subseteq Nat, S # {}
  PROVE  Min(S) \in S /\ \A y \in S : Min(S) <= y
<1> DEFINE R == {ss \in Nat \X Nat : ss[1] < ss[2]}
<1>1. IsWellFoundedOn(R, Nat)
  BY NatLessThanWellFounded DEF OpToRel
<1>2. PICK x \in S : \A y \in S : ~(<<y, x>> \in R)
  <2> HIDE DEF R
  <2> QED BY <1>1, WFMin
<1>3. \A y \in S : x <= y
  <2> SUFFICES ASSUME NEW y \in S PROVE x <= y
    OBVIOUS
  <2>1. x \in Nat /\ y \in Nat /\ ~(y < x)
    BY <1>2
  <2> QED BY <2>1
<1> HIDE DEF R
<1> QED BY <1>3 DEF Min

\* The keys of the assets are the numbers below N.
LEMMA KeysAreNumbers == \A k \in Keys : k \in Nat /\ k < N
  BY Constants

\* How many members of K come before k.
Rank(K, k) == Cardinality({j \in K : j < k})

\* A set of keys is finite.
LEMMA KeysFinite ==
  ASSUME NEW K, K \subseteq Keys
  PROVE  IsFiniteSet(K) /\ Cardinality(K) \in Nat /\ Cardinality(K) <= N
<1>1. IsFiniteSet(Keys)
  BY Constants, FS_Interval
<1>2. Cardinality(0 .. N-1) = IF 0 > N-1 THEN 0 ELSE N-1 - 0 + 1
  BY Constants, FS_Interval
<1>3. Cardinality(Keys) = N
  BY <1>2, Constants
<1>4. IsFiniteSet(K) /\ Cardinality(K) <= N
  BY <1>1, <1>3, FS_Subset
<1> QED BY <1>4, FS_CardinalityType

\* The cache covers everything when it holds as many items as there are.
LEMMA AllKeys == ASSUME NEW K, K \subseteq Keys, Cardinality(K) = N PROVE K = Keys
<1>1. IsFiniteSet(Keys)
  BY Constants, FS_Interval
<1>2. Cardinality(0 .. N-1) = IF 0 > N-1 THEN 0 ELSE N-1 - 0 + 1
  BY Constants, FS_Interval
<1>3. Cardinality(Keys) = N
  BY <1>2, Constants
<1> QED BY <1>1, <1>3, FS_Subset

\* Ranks follow the order of the keys.
LEMMA RankMonotone ==
  ASSUME NEW K, K \subseteq Keys, NEW j \in Keys, NEW k \in Keys, j <= k
  PROVE  Rank(K, j) \in Nat /\ Rank(K, k) \in Nat /\ Rank(K, j) <= Rank(K, k)
<1> DEFINE A == {x \in K : x < j}
           B == {x \in K : x < k}
<1>1. A \subseteq B /\ A \subseteq Keys /\ B \subseteq Keys
  <2>1. ASSUME NEW x \in K, x < j PROVE x < k
    BY <2>1, KeysAreNumbers
  <2> QED BY <2>1
<1>2. IsFiniteSet(B) /\ Cardinality(A) \in Nat /\ Cardinality(B) \in Nat
  <2> HIDE DEF A, B
  <2> QED BY <1>1, KeysFinite
<1>3. Cardinality(A) <= Cardinality(B)
  <2> HIDE DEF A, B
  <2> QED BY <1>1, <1>2, FS_Subset
<1> QED BY <1>2, <1>3 DEF Rank

\* Division keeps the order.
LEMMA QuotientMonotone ==
  ASSUME NEW a \in Nat, NEW b \in Nat, NEW d \in Nat, d > 0, a <= b
  PROVE  a \div d \in Nat /\ b \div d \in Nat /\ a \div d <= b \div d
  OBVIOUS

\* The slice that a key is in.
SliceWith(K, l) == {k \in K : Rank(K, k) \div SliceSize = Rank(K, l) \div SliceSize}

\* The slices are those of the cached keys, each of them in its own.
LEMMA SlicesAre ==
  ASSUME NEW cache
  PROVE  /\ Slices(cache) = {SliceWith(Cached(cache), l) : l \in Cached(cache)}
         /\ Cached(cache) \subseteq Keys
         /\ \A k \in Cached(cache) : \E s \in Slices(cache) : k \in s
         /\ \A s \in Slices(cache) : s \subseteq Cached(cache) /\ s # {}
<1>1. Slices(cache) = {SliceWith(Cached(cache), l) : l \in Cached(cache)}
  BY DEF Slices, SliceWith, Rank
<1>2. Cached(cache) \subseteq Keys
  BY DEF Cached
<1>3. \A l \in Cached(cache) : l \in SliceWith(Cached(cache), l)
                              /\ SliceWith(Cached(cache), l) \subseteq Cached(cache)
  BY DEF SliceWith
<1> QED BY <1>1, <1>2, <1>3

\* Of two slices one lies before the other entirely.
LEMMA SlicesApart ==
  ASSUME NEW cache, NEW r \in Slices(cache), NEW s \in Slices(cache), r # s
  PROVE  (\A a \in r, b \in s : a < b) \/ (\A a \in r, b \in s : b < a)
<1> DEFINE K == Cached(cache)
           Q(k) == Rank(K, k) \div SliceSize
<1>1. K \subseteq Keys
  BY SlicesAre
<1>2. PICK l \in K, m \in K : r = SliceWith(K, l) /\ s = SliceWith(K, m)
  BY SlicesAre
<1>3. \A a \in r : a \in K /\ a \in Keys /\ Q(a) = Q(l)
  BY <1>1, <1>2 DEF SliceWith
<1>4. \A b \in s : b \in K /\ b \in Keys /\ Q(b) = Q(m)
  BY <1>1, <1>2 DEF SliceWith
<1>5. Q(l) # Q(m)
  BY <1>2 DEF SliceWith
<1>6. \A a, b \in Keys : a <= b => Q(a) <= Q(b) /\ Q(a) \in Nat /\ Q(b) \in Nat
  BY <1>1, RankMonotone, QuotientMonotone, Constants
<1>7. Q(l) \in Nat /\ Q(m) \in Nat /\ l \in Keys /\ m \in Keys
  <2>1. l \in Keys /\ m \in Keys /\ l <= l /\ m <= m
    BY <1>1, Constants
  <2> QED BY <1>6, <2>1
<1>8. \A a, b \in Keys : a <= b \/ b < a
  BY Constants
<1>9. \A a, b \in Keys : a < b => a <= b
  BY Constants
<1> HIDE DEF Q, K
<1>10. CASE Q(l) < Q(m)
  <2> SUFFICES ASSUME NEW a \in r, NEW b \in s, ~(a < b) PROVE FALSE
    BY <1>10
  <2>1. b <= a
    BY <1>3, <1>4, <1>8, <1>9
  <2>2. Q(b) <= Q(a)
    BY <1>3, <1>4, <1>6, <2>1
  <2> QED BY <1>3, <1>4, <1>7, <1>10, <2>2
<1>11. CASE Q(m) < Q(l)
  <2> SUFFICES ASSUME NEW a \in r, NEW b \in s, ~(b < a) PROVE FALSE
    BY <1>11
  <2>1. a <= b
    BY <1>3, <1>4, <1>8, <1>9
  <2>2. Q(a) <= Q(b)
    BY <1>3, <1>4, <1>6, <2>1
  <2> QED BY <1>3, <1>4, <1>7, <1>11, <2>2
<1> QED BY <1>5, <1>7, <1>10, <1>11

\* The transaction of a slice writes between its first key and the key that
\* the line is of.
LEMMA LineAtBetween ==
  ASSUME NEW s, s \subseteq Keys, NEW p, NEW k \in LineAt(s, p)
  PROVE  k \in s /\ Min(s) \in s /\ p \in Int /\ Min(s) <= p /\ p <= k
<1>1. k \in s /\ p = Min(s) + Rank(s, k)
  BY DEF LineAt, Rank
<1>2. s \subseteq Nat /\ Min(s) \in s /\ Min(s) <= k /\ k \in Keys
  <2>1. s \subseteq Nat /\ s # {}
    BY <1>1, Constants
  <2> QED BY <1>1, <2>1, MinOf
<1>3. {j \in s : j < k} \subseteq Min(s) .. (k - 1)
  <2> SUFFICES ASSUME NEW j \in s, j < k PROVE j \in Min(s) .. (k - 1)
    OBVIOUS
  <2>1. j \in Nat /\ k \in Nat /\ Min(s) \in Nat /\ Min(s) <= j
    BY <1>2, MinOf, KeysAreNumbers
  <2> QED BY <2>1
<1>4. IsFiniteSet(Min(s) .. (k-1)) /\ Cardinality(Min(s) .. (k-1)) = k - Min(s)
  <2>0. Min(s) \in Nat /\ k \in Nat
    BY <1>2, KeysAreNumbers
  <2>1. Min(s) \in Int /\ k - 1 \in Int
    BY <2>0
  <2>2. /\ IsFiniteSet(Min(s) .. (k-1))
        /\ Cardinality(Min(s) .. (k-1)) = IF Min(s) > k-1 THEN 0 ELSE (k-1) - Min(s) + 1
    BY <2>1, FS_Interval
  <2> QED BY <1>2, <2>1, <2>2
<1>5. Rank(s, k) \in Nat /\ Rank(s, k) <= k - Min(s)
  <2>1. Rank(s, k) <= k - Min(s)
    BY <1>3, <1>4, FS_Subset DEF Rank
  <2>2. Rank(s, k) \in Nat
    BY <1>2, RankMonotone, Constants
  <2> QED BY <2>1, <2>2
<1>6. Min(s) \in Nat /\ k \in Nat
  BY <1>2, KeysAreNumbers
<1> QED BY <1>1, <1>2, <1>5, <1>6

\* Two slices write to different positions.
LEMMA DisjointWrites ==
  ASSUME NEW cache, NEW r \in Slices(cache), NEW s \in Slices(cache), r # s, NEW p
  PROVE  LineAt(r, p) = {} \/ LineAt(s, p) = {}
<1> SUFFICES ASSUME NEW a \in LineAt(r, p), NEW b \in LineAt(s, p) PROVE FALSE
  OBVIOUS
<1>1. r \subseteq Keys /\ s \subseteq Keys /\ Keys \subseteq Nat
  BY SlicesAre, Constants
<1>2. a \in r /\ Min(r) \in r /\ p \in Int /\ Min(r) <= p /\ p <= a
  BY <1>1, LineAtBetween
<1>3. b \in s /\ Min(s) \in s /\ p \in Int /\ Min(s) <= p /\ p <= b
  BY <1>1, LineAtBetween
<1>4. a < Min(s) \/ b < Min(r)
  BY <1>2, <1>3, SlicesApart
<1>5. a \in Nat /\ b \in Nat /\ Min(r) \in Nat /\ Min(s) \in Nat
  BY <1>1, <1>2, <1>3, KeysAreNumbers
<1> QED BY <1>2, <1>3, <1>4, <1>5

\* When the cached keys are an initial segment, a slice writes every line at
\* the position of its own key.
LEMMA InPlace ==
  ASSUME NEW cache, \A k \in Cached(cache) : 0 .. k \subseteq Cached(cache),
         NEW s \in Slices(cache), NEW p
  PROVE  LineAt(s, p) = {k \in s : k = p}
<1> DEFINE K == Cached(cache)
           Q(k) == Rank(K, k) \div SliceSize
<1>1. K \subseteq Keys /\ s \subseteq K /\ s # {} /\ Keys \subseteq Nat
  BY SlicesAre, Constants
<1>2. Min(s) \in s /\ \A j \in s : Min(s) <= j
  BY <1>1, MinOf
<1>3. PICK l \in K : s = SliceWith(K, l)
  BY SlicesAre
<1>4. ASSUME NEW k \in s PROVE Min(s) .. (k-1) = {j \in s : j < k}
  <2>0. k \in Nat /\ Min(s) \in Nat
    BY <1>1, <1>2
  <2>1. ASSUME NEW j \in Min(s) .. (k-1) PROVE j \in s
    <3>1. j \in K /\ j \in Keys /\ k \in Keys /\ Min(s) \in Keys /\ Min(s) <= j /\ j <= k
      BY <1>1, <1>2, <2>0
    <3>2. Q(Min(s)) <= Q(j) /\ Q(j) <= Q(k) /\ Q(j) \in Nat /\ Q(k) \in Nat
      BY <1>1, <3>1, RankMonotone, QuotientMonotone, Constants
    <3>3. Q(Min(s)) = Q(l) /\ Q(k) = Q(l)
      BY <1>2, <1>3 DEF SliceWith
    <3>4. Q(j) = Q(l)
      <4> HIDE DEF Q
      <4> QED BY <3>2, <3>3
    <3> QED BY <1>3, <3>1, <3>4 DEF SliceWith
  <2>2. \A j \in Min(s) .. (k-1) : j < k
    BY <2>0
  <2>3. \A j \in s : j < k => j \in Min(s) .. (k-1)
    BY <1>1, <1>2, <2>0
  <2> QED BY <2>1, <2>2, <2>3
<1>5. ASSUME NEW k \in s PROVE Min(s) + Rank(s, k) = k
  <2>1. k \in Nat /\ Min(s) \in Nat /\ Min(s) <= k
    BY <1>1, <1>2, KeysAreNumbers
  <2>2. Cardinality(Min(s) .. (k-1)) = k - Min(s)
    <3>1. Min(s) \in Int /\ k - 1 \in Int
      BY <2>1
    <3>2. Cardinality(Min(s) .. (k-1)) = IF Min(s) > k-1 THEN 0 ELSE (k-1) - Min(s) + 1
      BY <3>1, FS_Interval
    <3> QED BY <2>1, <3>2
  <2>3. Rank(s, k) = k - Min(s)
    BY <1>4, <2>2 DEF Rank
  <2> QED BY <2>1, <2>3
<1>6. LineAt(s, p) = {k \in s : p = Min(s) + Rank(s, k)}
  BY DEF LineAt, Rank
<1> QED BY <1>5, <1>6

\* The assets uploaded next come before those that are left.
LEMMA FirstOfAre ==
  ASSUME NEW T, T \subseteq Keys, NEW c
  PROVE  /\ FirstOf(T, c) \subseteq T
         /\ \A j \in T, k \in FirstOf(T, c) : j <= k => j \in FirstOf(T, c) \/ c \notin Int
<1>1. FirstOf(T, c) = {k \in T : Rank(T, k) < c}
  BY DEF FirstOf, Rank
<1>2. ASSUME c \in Int, NEW j \in T, NEW k \in FirstOf(T, c), j <= k PROVE j \in FirstOf(T, c)
  <2>1. Rank(T, j) \in Nat /\ Rank(T, k) \in Nat /\ Rank(T, j) <= Rank(T, k)
    BY <1>1, <1>2, RankMonotone
  <2> QED BY <1>1, <1>2, <2>1
<1> QED BY <1>1, <1>2

-----------------------------------------------------------------------------
(* What a step that keeps the links of the cache file keeps.               *)

\* The lines that are written belong to the machine of the cache file.
OnMachine == \A m \in Runs : (\E p \in Keys : lines[m][p] # Empty) => m = disk.machine

\* The fields of a cache.
LEMMA Fields ==
  ASSUME NEW c \in Caches
  PROVE  /\ c.machine \in 0 .. MaxRuns /\ c.link \in [Keys -> 0 .. MaxRuns]
         /\ c.onChain \subseteq Keys /\ c.verified \subseteq Keys
         /\ \A n : [c EXCEPT !.machine = n].machine = n /\ [c EXCEPT !.machine = n].link = c.link
                   /\ [c EXCEPT !.machine = n].onChain = c.onChain
                   /\ [c EXCEPT !.machine = n].verified = c.verified
         /\ \A n \in 0 .. MaxRuns : [c EXCEPT !.machine = n] \in Caches
<1>1. /\ c.machine \in 0 .. MaxRuns /\ c.link \in [Keys -> 0 .. MaxRuns]
      /\ c.onChain \subseteq Keys /\ c.verified \subseteq Keys
  BY DEF Caches
<1>2. \A n : [c EXCEPT !.machine = n].machine = n /\ [c EXCEPT !.machine = n].link = c.link
             /\ [c EXCEPT !.machine = n].onChain = c.onChain
             /\ [c EXCEPT !.machine = n].verified = c.verified
  BY DEF Caches
<1>3. \A n \in 0 .. MaxRuns : [c EXCEPT !.machine = n] \in Caches
  BY DEF Caches
<1> QED BY <1>1, <1>2, <1>3

\* The marks of the cache file may change, its links and its machine do not.
LEMMA LinksKept ==
  ASSUME disk'.link = disk.link, disk'.machine = disk.machine, lines' = lines, storage' = storage
  PROVE  /\ Bundle' <=> Bundle
         /\ Cached(disk)' = Cached(disk) /\ Slices(disk)' = Slices(disk)
         /\ \A k \in Keys : Written(disk, k)' <=> Written(disk, k)
         /\ CachedIsPrefix' <=> CachedIsPrefix
         /\ AllWritten' <=> AllWritten
         /\ OnMachine' <=> OnMachine
<1>1. (Bundle' <=> Bundle) /\ Cached(disk)' = Cached(disk)
  BY DEF Bundle, Cached
<1>2. Slices(disk)' = Slices(disk)
  BY <1>1 DEF Slices
<1>3. \A k \in Keys : Written(disk, k)' <=> Written(disk, k)
  BY DEF Written, Line
<1>4. CachedIsPrefix' <=> CachedIsPrefix
  BY <1>1 DEF CachedIsPrefix
<1>5. AllWritten' <=> AllWritten
  BY <1>3 DEF AllWritten
<1>6. OnMachine' <=> OnMachine
  BY DEF OnMachine
<1> QED BY <1>1, <1>2, <1>3, <1>4, <1>5, <1>6

\* The invariant, in the parts that the steps below deal with.
LEMMA Parts ==
  UploadInv <=>
    /\ TypeOK /\ OnMachine /\ CachedIsPrefix /\ MarksTrue /\ RepairIsQueued
    /\ BundleMessagesTrue /\ ProcessInv /\ TodoInv /\ WriteInv /\ BundleInv
  BY DEF UploadInv, LinesOnRecordedMachine, OnMachine, MarkedIsWritten

\* A command that is running has nothing to say yet.
LEMMA Silent ==
  ASSUME said = "nothing" PROVE BundleMessagesTrue /\ RepairIsQueued
  BY DEF BundleMessagesTrue, RepairIsQueued

\* It holds with an empty cache, before the first run.
LEMMA InitUpload == Init => UploadInv
<1> SUFFICES ASSUME Init PROVE UploadInv
  OBVIOUS
<1>1. /\ storage \in Storages /\ run = 0 /\ pc = "off" /\ mem = disk /\ todo = {} /\ queue = {}
      /\ landed = {} /\ clean = TRUE /\ said = "nothing"
      /\ lines = [m \in Runs |-> [p \in Keys |-> Empty]]
      /\ disk.machine = 0 /\ disk.link = [k \in Keys |-> 0]
      /\ disk.onChain = {} /\ disk.verified = {} /\ disk \in Caches
  BY Constants DEF Init, Caches
<1>2. Cached(disk) = {} /\ Slices(disk) = {}
  BY <1>1 DEF Cached, Slices
<1>3. TypeOK
  <2>1. lines \in [Runs -> [Keys -> (Keys \X Runs) \cup {Empty}]]
    BY <1>1
  <2> QED BY <1>1, <1>2, <2>1, Constants DEF TypeOK
<1>4. OnMachine
  BY <1>1 DEF OnMachine
<1>5. CachedIsPrefix /\ MarksTrue
  BY <1>1, <1>2 DEF CachedIsPrefix, MarksTrue
<1>6. ProcessInv /\ TodoInv /\ WriteInv
  BY <1>1, <1>2 DEF ProcessInv, TodoInv, WriteInv
<1>7. BundleInv
  BY <1>1 DEF BundleInv
<1> QED BY <1>1, <1>3, <1>4, <1>5, <1>6, <1>7, Silent, Parts

\* The process ends, by an exception or because it is killed.
LEMMA ExitStep ==
  ASSUME UploadInv, pc # "off", UNCHANGED <<storage, run, disk, lines, said>>, Exit
  PROVE  UploadInv'
<1>0. /\ TypeOK /\ OnMachine /\ CachedIsPrefix /\ MarksTrue /\ ProcessInv /\ TodoInv /\ WriteInv
      /\ BundleInv /\ said = "nothing"
  BY Parts DEF ProcessInv
<1>1. /\ pc' = "off" /\ mem' = disk /\ todo' = {} /\ queue' = {} /\ landed' = {} /\ clean' = TRUE
      /\ storage' = storage /\ run' = run /\ disk' = disk /\ lines' = lines /\ said' = said
  BY DEF Exit
<1>2. /\ Bundle' <=> Bundle
      /\ Cached(disk)' = Cached(disk) /\ Slices(disk)' = Slices(disk)
      /\ \A k \in Keys : Written(disk, k)' <=> Written(disk, k)
      /\ CachedIsPrefix' /\ OnMachine'
  BY <1>0, <1>1, LinksKept
<1>3. TypeOK'
  BY <1>0, <1>1, <1>2 DEF TypeOK
<1>4. MarksTrue' /\ BundleInv'
  <2>1. disk.onChain \subseteq Keys /\ disk.verified \subseteq Keys
    BY <1>0, Fields DEF TypeOK
  <2> QED BY <1>0, <1>1, <1>2, <2>1 DEF MarksTrue, BundleInv
<1>5. ProcessInv' /\ TodoInv' /\ WriteInv'
  BY <1>0, <1>1, <1>2 DEF ProcessInv, TodoInv, WriteInv
<1>6. BundleMessagesTrue' /\ RepairIsQueued'
  BY <1>0, <1>1 DEF BundleMessagesTrue, RepairIsQueued
<1> QED BY <1>2, <1>3, <1>4, <1>5, <1>6 DEF UploadInv, LinesOnRecordedMachine, OnMachine, MarkedIsWritten

\* A step that leaves the cache file and the lines alone.
LEMMA FileKept ==
  ASSUME UploadInv, disk' = disk, lines' = lines, storage' = storage, landed' \subseteq landed
  PROVE  /\ (Bundle' <=> Bundle) /\ Cached(disk)' = Cached(disk) /\ Slices(disk)' = Slices(disk)
         /\ OnMachine' /\ CachedIsPrefix' /\ MarksTrue' /\ BundleInv'
<1>0. TypeOK /\ OnMachine /\ CachedIsPrefix /\ MarksTrue /\ WriteInv /\ BundleInv
  BY Parts
<1>1. /\ Bundle' <=> Bundle
      /\ Cached(disk)' = Cached(disk) /\ Slices(disk)' = Slices(disk)
      /\ \A k \in Keys : Written(disk, k)' <=> Written(disk, k)
      /\ CachedIsPrefix' /\ OnMachine'
  BY <1>0, LinksKept
<1>2. /\ disk.onChain \subseteq Keys /\ disk.verified \subseteq Keys
      /\ \A s \in landed : \A k \in s : k \in Keys
  BY <1>0, Fields DEF TypeOK
<1>3. MarksTrue' /\ BundleInv'
  BY <1>0, <1>1, <1>2 DEF MarksTrue, BundleInv
<1> QED BY <1>1, <1>3

\* A run begins: it reads the cache, and works out what is still to be uploaded.
LEMMA StartStep == ASSUME UploadInv, Start PROVE UploadInv'
<1>0. /\ TypeOK /\ ProcessInv /\ WriteInv /\ pc = "off" /\ run < MaxRuns /\ run' = run + 1
      /\ mem' = disk /\ todo' = NeedingUpload(disk) /\ said' = "nothing"
      /\ pc' = IF disk.machine = 0 THEN "create" ELSE "upload"
      /\ storage' = storage /\ disk' = disk /\ queue' = queue /\ landed' = landed
      /\ clean' = clean /\ lines' = lines
  BY Parts DEF Start
<1>1. /\ (Bundle' <=> Bundle) /\ Cached(disk)' = Cached(disk) /\ Slices(disk)' = Slices(disk)
      /\ OnMachine' /\ CachedIsPrefix' /\ MarksTrue' /\ BundleInv'
  BY <1>0, FileKept
<1>2. run' \in Runs /\ run' \in 0 .. MaxRuns
  BY <1>0, Constants DEF TypeOK
<1>3. TypeOK'
  <2>1. todo' \subseteq Keys
    BY <1>0 DEF NeedingUpload
  <2> QED BY <1>0, <1>1, <1>2, <2>1 DEF TypeOK
<1>4. ProcessInv'
  BY <1>0, <1>1, <1>2 DEF ProcessInv
<1>5. TodoInv'
  BY <1>0, <1>1 DEF TodoInv, NeedingUpload, Cached
<1>6. WriteInv'
  BY <1>0, <1>1 DEF WriteInv
<1>7. BundleMessagesTrue' /\ RepairIsQueued'
  BY <1>0 DEF BundleMessagesTrue, RepairIsQueued
<1> QED BY <1>1, <1>3, <1>4, <1>5, <1>6, <1>7
        DEF UploadInv, LinesOnRecordedMachine, OnMachine, MarkedIsWritten

\* The machine is created, and has no lines yet.
LEMMA CreateMachineStep == ASSUME UploadInv, CreateMachine PROVE UploadInv'
<1>0. /\ TypeOK /\ ProcessInv /\ WriteInv /\ TodoInv /\ pc = "create" /\ pc' = "collection"
      /\ mem' = [mem EXCEPT !.machine = run]
      /\ storage' = storage /\ run' = run /\ disk' = disk /\ todo' = todo /\ queue' = queue
      /\ landed' = landed /\ clean' = clean /\ lines' = lines /\ said' = said
  BY Parts DEF CreateMachine
<1>1. /\ (Bundle' <=> Bundle) /\ Cached(disk)' = Cached(disk) /\ Slices(disk)' = Slices(disk)
      /\ OnMachine' /\ CachedIsPrefix' /\ MarksTrue' /\ BundleInv'
  BY <1>0, FileKept
<1>2. mem = disk /\ said = "nothing" /\ run \in Runs /\ run \in 0 .. MaxRuns /\ disk \in Caches
  BY <1>0 DEF TypeOK, ProcessInv
<1>3. TypeOK'
  <2>1. mem' \in Caches
    BY <1>0, <1>2, Fields
  <2> QED BY <1>0, <1>1, <2>1 DEF TypeOK
<1>4. ProcessInv' /\ TodoInv' /\ WriteInv'
  BY <1>0, <1>1, <1>2 DEF ProcessInv, TodoInv, WriteInv
<1>5. BundleMessagesTrue' /\ RepairIsQueued'
  BY <1>0, <1>2 DEF BundleMessagesTrue, RepairIsQueued
<1> QED BY <1>1, <1>3, <1>4, <1>5
        DEF UploadInv, LinesOnRecordedMachine, OnMachine, MarkedIsWritten

\* The machine is recorded when no line and no item exists yet.
LEMMA SetCollectionStep == ASSUME UploadInv, SetCollection PROVE UploadInv'
<1>0. /\ TypeOK /\ OnMachine /\ ProcessInv /\ WriteInv /\ TodoInv /\ BundleInv
      /\ pc = "collection" /\ pc' = "upload" /\ disk' = mem
      /\ storage' = storage /\ run' = run /\ mem' = mem /\ todo' = todo /\ queue' = queue
      /\ landed' = landed /\ clean' = clean /\ lines' = lines /\ said' = said
  BY Parts DEF SetCollection
<1>1. /\ mem = [disk EXCEPT !.machine = run] /\ said = "nothing" /\ run \in Runs
      /\ disk.machine = 0 /\ Cached(disk) = {} /\ queue = {} /\ landed = {}
  BY <1>0 DEF ProcessInv, WriteInv
<1>2. /\ disk'.link = disk.link /\ disk'.machine = run /\ disk'.onChain = disk.onChain
      /\ disk'.verified = disk.verified /\ disk' \in Caches
  BY <1>0, <1>1, Fields DEF TypeOK
<1>3. (Bundle' <=> Bundle) /\ Cached(disk)' = {} /\ Slices(disk)' = {}
  <2>1. (Bundle' <=> Bundle) /\ Cached(disk)' = {}
    BY <1>0, <1>1, <1>2 DEF Bundle, Cached
  <2> QED BY <2>1 DEF Slices
<1>4. disk.onChain = {} /\ disk.verified = {}
  BY <1>0, <1>1 DEF TypeOK
<1>5. \A m \in Runs : \A p \in Keys : lines[m][p] = Empty
  <2>1. \A m \in Runs : m # 0
    BY Constants
  <2> QED BY <1>0, <1>1, <2>1 DEF OnMachine
<1>6. TypeOK'
  BY <1>0, <1>2, <1>4 DEF TypeOK
<1>7. OnMachine' /\ CachedIsPrefix' /\ MarksTrue' /\ BundleInv'
  BY <1>0, <1>1, <1>2, <1>3, <1>4, <1>5 DEF OnMachine, CachedIsPrefix, MarksTrue, BundleInv
<1>8. ProcessInv'
  <2>1. run # 0
    BY <1>1, Constants
  <2> QED BY <1>0, <1>1, <1>2, <1>3, <2>1 DEF ProcessInv
<1>9. TodoInv' /\ WriteInv'
  BY <1>0, <1>1, <1>3 DEF TodoInv, WriteInv
<1>10. BundleMessagesTrue' /\ RepairIsQueued'
  BY <1>0, <1>1 DEF BundleMessagesTrue, RepairIsQueued
<1> QED BY <1>6, <1>7, <1>8, <1>9, <1>10
        DEF UploadInv, LinesOnRecordedMachine, OnMachine, MarkedIsWritten

\* Assets are uploaded and recorded: one of them, or the next of a bundle.
LEMMA EntriesStep ==
  ASSUME UploadInv, pc = "upload", NEW keys, keys \subseteq todo,
         disk' = Entries(mem, keys), mem' = disk', todo' = todo \ keys,
         UNCHANGED <<storage, run, pc, queue, landed, clean, lines, said>>,
         Bundle => \A j \in todo, k \in keys : j <= k => j \in keys
  PROVE  /\ UploadInv'
         /\ ~Bundle => \A k \in Keys : disk.link[k] # 0 => disk'.link[k] = disk.link[k]
<1>0. /\ TypeOK /\ OnMachine /\ CachedIsPrefix /\ MarksTrue /\ ProcessInv /\ WriteInv /\ TodoInv
      /\ BundleInv /\ mem = disk /\ said = "nothing" /\ run \in Runs /\ disk.machine # 0
      /\ queue = {} /\ landed = {} /\ todo \subseteq Keys /\ disk \in Caches
  BY Parts DEF TypeOK, ProcessInv, WriteInv
<1>u. /\ storage' = storage /\ run' = run /\ pc' = pc /\ queue' = queue /\ landed' = landed
      /\ clean' = clean /\ lines' = lines /\ said' = said
  OBVIOUS
<1>1. /\ disk'.machine = disk.machine
      /\ disk'.link = [k \in Keys |-> IF k \in keys THEN run ELSE disk.link[k]]
      /\ disk'.onChain = disk.onChain \ keys /\ disk'.verified = disk.verified \ keys
  BY <1>0 DEF Entries, Caches
<1>2. run \in 0 .. MaxRuns /\ run # 0 /\ keys \subseteq Keys
  BY <1>0, Constants
<1>3. disk' \in Caches
  <2>1. disk'.link \in [Keys -> 0 .. MaxRuns]
    BY <1>0, <1>1, <1>2, Fields
  <2>2. disk' = [machine |-> disk'.machine, link |-> disk'.link, onChain |-> disk'.onChain,
                 verified |-> disk'.verified]
    BY <1>0 DEF Entries, Caches
  <2>3. disk'.machine \in 0 .. MaxRuns /\ disk'.onChain \subseteq Keys /\ disk'.verified \subseteq Keys
    BY <1>0, <1>1, Fields
  <2> QED BY <2>1, <2>2, <2>3 DEF Caches
<1>4. Cached(disk)' = Cached(disk) \cup keys /\ (Bundle' <=> Bundle)
  BY <1>1, <1>2, <1>u DEF Cached, Bundle
<1>5. \A k \in Keys \ keys : Written(disk, k)' <=> Written(disk, k)
  <2>1. \A k \in Keys \ keys : disk'.link[k] = disk.link[k]
    BY <1>1
  <2> QED BY <1>1, <1>u, <2>1 DEF Written, Line
<1>6. TypeOK'
  BY <1>0, <1>1, <1>2, <1>3, <1>4, <1>u DEF TypeOK
<1>7. OnMachine'
  BY <1>0, <1>1, <1>u DEF OnMachine
<1>8. CachedIsPrefix'
  <2> SUFFICES ASSUME Bundle, NEW k \in Cached(disk) \cup keys, NEW j \in 0 .. k
               PROVE  j \in Cached(disk) \cup keys
    BY <1>4 DEF CachedIsPrefix
  <2>1. CASE k \in Cached(disk)
    BY <1>0, <2>1 DEF CachedIsPrefix
  <2>2. CASE k \in keys
    <3>1. k \in Nat /\ k < N
      BY <1>2, <2>2, KeysAreNumbers
    <3>2. j \in Keys /\ j <= k
      BY <3>1, Constants
    <3>3. j \notin todo => j \in Cached(disk)
      BY <1>0, <3>2 DEF TodoInv
    <3> QED BY <2>2, <3>2, <3>3
  <2> QED BY <2>1, <2>2
<1>9. MarksTrue'
  <2>1. disk.onChain \subseteq Keys
    BY <1>0, Fields
  <2> QED BY <1>0, <1>1, <1>4, <1>5, <2>1 DEF MarksTrue
<1>10. BundleInv'
  <2>1. disk.verified \subseteq Keys
    BY <1>0, Fields
  <2> QED BY <1>0, <1>1, <1>4, <1>5, <1>u, <2>1 DEF BundleInv
<1>11. ProcessInv'
  BY <1>0, <1>1, <1>u DEF ProcessInv
<1>12. WriteInv'
  BY <1>0, <1>u DEF WriteInv
<1>13. TodoInv'
  <2>1. ASSUME ~Bundle PROVE todo' \cap Cached(disk)' = {}
    BY <1>0, <1>4, <2>1 DEF TodoInv
  <2>2. Bundle => Keys \ todo' \subseteq Cached(disk)'
    BY <1>0, <1>4 DEF TodoInv
  <2>3. ASSUME Bundle, NEW k \in todo', NEW j \in Keys, k < j PROVE j \in todo'
    <3>1. k \in todo /\ k \notin keys /\ j \in todo
      BY <1>0, <2>3 DEF TodoInv
    <3>2. k <= j
      BY <1>0, <2>3, <3>1, KeysAreNumbers
    <3> QED BY <2>3, <3>1, <3>2
  <2> QED BY <1>4, <1>u, <2>1, <2>2, <2>3 DEF TodoInv
<1>14. BundleMessagesTrue' /\ RepairIsQueued'
  BY <1>0, <1>u DEF BundleMessagesTrue, RepairIsQueued
<1>15. ~Bundle => \A k \in Keys : disk.link[k] # 0 => disk'.link[k] = disk.link[k]
  <2> SUFFICES ASSUME ~Bundle, NEW k \in Keys, disk.link[k] # 0
               PROVE  disk'.link[k] = disk.link[k]
    OBVIOUS
  <2>1. k \notin keys
    BY <1>0 DEF TodoInv, Cached
  <2> QED BY <1>1, <2>1
<1> QED BY <1>6, <1>7, <1>8, <1>9, <1>10, <1>11, <1>12, <1>13, <1>14, <1>15
        DEF UploadInv, LinesOnRecordedMachine, OnMachine, MarkedIsWritten

\* One asset is uploaded and cached; only without bundles.
LEMMA UploadAssetStep ==
  ASSUME UploadInv, NEW k \in Keys, UploadAsset(k)
  PROVE  /\ UploadInv'
         /\ ~Bundle => \A a \in Keys : disk.link[a] # 0 => disk'.link[a] = disk.link[a]
<1>1. todo \subseteq Keys
  BY Parts DEF TypeOK
<1>2. {k} \subseteq todo
  BY <1>1, FirstOfAre DEF UploadAsset
<1> QED BY <1>2, EntriesStep DEF UploadAsset

\* A bundle is uploaded: the first assets that are left, so that what is cached
\* stays an initial segment.
LEMMA UploadBundleStep ==
  ASSUME UploadInv, UploadBundle
  PROVE  UploadInv' /\ Bundle
<1>1. todo \subseteq Keys
  BY Parts DEF TypeOK
<1>2. PICK c \in 1 .. Cardinality(todo) :
        /\ mem' = Entries(mem, FirstOf(todo, c)) /\ disk' = mem'
        /\ todo' = todo \ FirstOf(todo, c)
  BY DEF UploadBundle
<1>3. c \in Int
  OBVIOUS
<1>4. /\ FirstOf(todo, c) \subseteq todo
      /\ \A j \in todo, k \in FirstOf(todo, c) : j <= k => j \in FirstOf(todo, c)
  BY <1>1, <1>3, FirstOfAre
<1> QED BY <1>2, <1>4, EntriesStep DEF UploadBundle

\* An asset is passed over; only without bundles.
LEMMA SkipAssetStep == ASSUME UploadInv, NEW k \in Keys, SkipAsset(k) PROVE UploadInv'
<1>0. /\ TypeOK /\ ProcessInv /\ WriteInv /\ TodoInv /\ pc = "upload" /\ ~Bundle
      /\ todo' = todo \ {k}
      /\ storage' = storage /\ run' = run /\ pc' = pc /\ disk' = disk /\ mem' = mem
      /\ queue' = queue /\ landed' = landed /\ clean' = clean /\ lines' = lines /\ said' = said
  BY Parts DEF SkipAsset
<1>1. /\ (Bundle' <=> Bundle) /\ Cached(disk)' = Cached(disk) /\ Slices(disk)' = Slices(disk)
      /\ OnMachine' /\ CachedIsPrefix' /\ MarksTrue' /\ BundleInv'
  BY <1>0, FileKept
<1>2. TypeOK'
  BY <1>0, <1>1 DEF TypeOK
<1>3. ProcessInv' /\ TodoInv' /\ WriteInv'
  BY <1>0, <1>1 DEF ProcessInv, TodoInv, WriteInv
<1>4. BundleMessagesTrue' /\ RepairIsQueued'
  BY <1>0 DEF BundleMessagesTrue, RepairIsQueued, ProcessInv
<1> QED BY <1>1, <1>2, <1>3, <1>4 DEF UploadInv, LinesOnRecordedMachine, OnMachine, MarkedIsWritten

\* Every slice that is not queued is written already.
LEMMA StartWritingStep == ASSUME UploadInv, StartWriting PROVE UploadInv'
<1>0. /\ TypeOK /\ ProcessInv /\ WriteInv /\ TodoInv /\ pc = "upload" /\ pc' = "write"
      /\ todo = {} /\ disk' = disk /\ mem = disk /\ queue' = NeedingWrite(disk)
      /\ storage' = storage /\ run' = run /\ mem' = mem /\ todo' = todo
      /\ landed' = landed /\ clean' = clean /\ lines' = lines /\ said' = said
  BY Parts DEF StartWriting, TypeOK
<1>1. /\ (Bundle' <=> Bundle) /\ Cached(disk)' = Cached(disk) /\ Slices(disk)' = Slices(disk)
      /\ OnMachine' /\ CachedIsPrefix' /\ MarksTrue' /\ BundleInv'
  BY <1>0, FileKept
<1>2. NeedingWrite(disk) = {s \in Slices(disk) : ~(s \subseteq disk.onChain)}
  BY DEF NeedingWrite
<1>3. TypeOK'
  <2>1. queue' \subseteq SUBSET Keys
    BY <1>0, <1>2, SlicesAre
  <2> QED BY <1>0, <1>1, <2>1 DEF TypeOK
<1>4. ProcessInv' /\ TodoInv'
  BY <1>0, <1>1 DEF ProcessInv, TodoInv
<1>5. WriteInv'
  BY <1>0, <1>1, <1>2 DEF WriteInv
<1>6. BundleMessagesTrue' /\ RepairIsQueued'
  BY <1>0 DEF BundleMessagesTrue, RepairIsQueued, ProcessInv
<1> QED BY <1>1, <1>3, <1>4, <1>5, <1>6
        DEF UploadInv, LinesOnRecordedMachine, OnMachine, MarkedIsWritten

\* A transaction of a slice executes: its lines appear on the machine.
LEMMA LandStep == ASSUME UploadInv, NEW s \in queue \cup landed, Land(s) PROVE UploadInv'
<1>0. /\ TypeOK /\ OnMachine /\ CachedIsPrefix /\ MarksTrue /\ ProcessInv /\ WriteInv /\ TodoInv
      /\ BundleInv /\ pc = "write" /\ s \in queue /\ s \in Slices(disk) /\ mem = disk
      /\ queue' = queue \ {s} /\ landed' = landed \cup {s}
      /\ storage' = storage /\ run' = run /\ pc' = pc /\ disk' = disk /\ mem' = mem
      /\ todo' = todo /\ clean' = clean /\ said' = said
  BY Parts DEF Land, InFlight, TypeOK, WriteInv
<1>1. /\ said = "nothing" /\ disk.machine \in Runs /\ disk \in Caches
      /\ s \subseteq Cached(disk) /\ s \subseteq Keys
  <2>1. disk.machine \in 0 .. MaxRuns /\ disk.machine # 0
    BY <1>0, Fields DEF TypeOK, ProcessInv
  <2>2. disk.machine \in Runs
    BY <2>1, Constants
  <2> QED BY <1>0, <2>2, SlicesAre DEF TypeOK, ProcessInv
<1>2. /\ \A m \in Runs \ {disk.machine} : lines'[m] = lines[m]
      /\ \A p \in Keys : lines'[disk.machine][p] =
           IF LineAt(s, p) = {} THEN lines[disk.machine][p]
           ELSE Line(disk, CHOOSE k \in LineAt(s, p) : TRUE)
      /\ lines' \in [Runs -> [Keys -> (Keys \X Runs) \cup {Empty}]]
  <2> DEFINE new == [p \in Keys |-> IF LineAt(s, p) = {} THEN lines[disk.machine][p]
                                    ELSE Line(disk, CHOOSE k \in LineAt(s, p) : TRUE)]
  <2>1. lines' = [lines EXCEPT ![disk.machine] = new]
    BY <1>0 DEF Land
  <2>2. lines \in [Runs -> [Keys -> (Keys \X Runs) \cup {Empty}]]
    BY <1>0 DEF TypeOK
  <2>3. new \in [Keys -> (Keys \X Runs) \cup {Empty}]
    <3> SUFFICES ASSUME NEW p \in Keys PROVE new[p] \in (Keys \X Runs) \cup {Empty}
      OBVIOUS
    <3>1. CASE LineAt(s, p) = {}
      BY <1>1, <2>2, <3>1
    <3>2. CASE LineAt(s, p) # {}
      <4>1. PICK k : k = (CHOOSE j \in LineAt(s, p) : TRUE) /\ k \in LineAt(s, p)
        BY <3>2
      <4>2. k \in Cached(disk) /\ k \in Keys
        BY <1>1, <4>1 DEF LineAt
      <4>3. disk.link[k] \in 0 .. MaxRuns /\ disk.link[k] # 0
        BY <1>1, <4>2, Fields DEF Cached
      <4>4. disk.link[k] \in Runs
        BY <4>3, Constants
      <4> QED BY <3>2, <4>1, <4>2, <4>4 DEF Line
    <3> QED BY <3>1, <3>2
  <2> HIDE DEF new
  <2>4. lines'[disk.machine] = new /\ \A m \in Runs \ {disk.machine} : lines'[m] = lines[m]
    BY <1>1, <2>1, <2>2
  <2>5. lines' \in [Runs -> [Keys -> (Keys \X Runs) \cup {Empty}]]
    BY <1>1, <2>1, <2>2, <2>3
  <2> QED BY <2>4, <2>5 DEF new
<1>3. (Bundle' <=> Bundle) /\ Cached(disk)' = Cached(disk) /\ Slices(disk)' = Slices(disk)
  BY <1>0 DEF Bundle, Cached, Slices
<1>4. TypeOK'
  BY <1>0, <1>1, <1>2, <1>3 DEF TypeOK
<1>5. OnMachine'
  BY <1>0, <1>2 DEF OnMachine
<1>6. CachedIsPrefix'
  BY <1>0, <1>3 DEF CachedIsPrefix
<1>7. ASSUME Bundle, NEW p \in Keys
      PROVE  lines'[disk.machine][p] = IF p \in s THEN Line(disk, p) ELSE lines[disk.machine][p]
  <2>1. LineAt(s, p) = {k \in s : k = p}
    <3>1. \A k \in Cached(disk) : 0 .. k \subseteq Cached(disk)
      BY <1>0, <1>7 DEF CachedIsPrefix
    <3> QED BY <1>0, <3>1, InPlace
  <2>2. CASE p \in s
    <3>1. LineAt(s, p) = {p}
      BY <2>1, <2>2
    <3>2. (CHOOSE k \in {p} : TRUE) = p
      OBVIOUS
    <3> QED BY <1>2, <2>2, <3>1, <3>2
  <2>3. CASE p \notin s
    <3>1. LineAt(s, p) = {}
      BY <2>1, <2>3
    <3> QED BY <1>2, <2>3, <3>1
  <2> QED BY <2>2, <2>3
<1>8. ASSUME Bundle, NEW k \in Keys, k \in s \/ Written(disk, k) PROVE Written(disk, k)'
  <2>1. Line(disk, k)' = Line(disk, k)
    BY <1>0 DEF Line
  <2> QED BY <1>0, <1>7, <1>8, <2>1 DEF Written
<1>9. MarksTrue'
  <2>1. disk.onChain \subseteq Keys
    BY <1>1, Fields
  <2> QED BY <1>0, <1>3, <1>8, <2>1 DEF MarksTrue
<1>10. BundleInv'
  <2> SUFFICES ASSUME Bundle
               PROVE  /\ \A k \in disk.verified : Written(disk, k)'
                      /\ \A r \in landed' : \A k \in r : Written(disk, k)'
                      /\ \A m \in Runs : \A p \in Keys : lines'[m][p] # Empty => p \in Cached(disk)
    BY <1>0, <1>3 DEF BundleInv
  <2>1. disk.verified \subseteq Keys /\ \A r \in landed : \A k \in r : k \in Keys
    BY <1>0, <1>1, Fields DEF TypeOK
  <2>2. \A k \in disk.verified : Written(disk, k)'
    BY <1>0, <1>8, <2>1 DEF BundleInv
  <2>3. \A r \in landed' : \A k \in r : Written(disk, k)'
    <3>1. \A k \in s : Written(disk, k)'
      BY <1>1, <1>8
    <3>2. \A r \in landed : \A k \in r : Written(disk, k)'
      BY <1>0, <1>8, <2>1 DEF BundleInv
    <3> QED BY <1>0, <3>1, <3>2
  <2>4. ASSUME NEW m \in Runs, NEW p \in Keys, lines'[m][p] # Empty PROVE p \in Cached(disk)
    <3>1. lines[m][p] # Empty \/ p \in s
      BY <1>2, <1>7, <2>4
    <3> QED BY <1>0, <1>1, <3>1 DEF BundleInv
  <2> QED BY <2>2, <2>3, <2>4
<1>11. ProcessInv' /\ TodoInv'
  BY <1>0, <1>3 DEF ProcessInv, TodoInv
<1>12. WriteInv'
  BY <1>0, <1>3 DEF WriteInv
<1>13. BundleMessagesTrue' /\ RepairIsQueued'
  BY <1>0, <1>1 DEF BundleMessagesTrue, RepairIsQueued
<1> QED BY <1>4, <1>5, <1>6, <1>9, <1>10, <1>11, <1>12, <1>13
        DEF UploadInv, LinesOnRecordedMachine, OnMachine, MarkedIsWritten

\* The answer to a transaction that has executed marks its slice.
LEMMA MarkStep == ASSUME UploadInv, NEW s \in queue \cup landed, Mark(s) PROVE UploadInv'
<1>0. /\ TypeOK /\ OnMachine /\ CachedIsPrefix /\ MarksTrue /\ ProcessInv /\ WriteInv /\ TodoInv
      /\ BundleInv /\ pc = "write" /\ s \in landed /\ s \in Slices(disk) /\ mem = disk
      /\ disk' = [disk EXCEPT !.onChain = @ \cup s, !.verified = @ \ s] /\ mem' = disk'
      /\ queue' = queue /\ landed' = landed \ {s}
      /\ storage' = storage /\ run' = run /\ pc' = pc /\ lines' = lines
      /\ todo' = todo /\ clean' = clean /\ said' = said /\ said = "nothing"
  BY Parts DEF Mark, TypeOK, WriteInv, ProcessInv
<1>1. /\ disk \in Caches /\ s \subseteq Cached(disk) /\ s \subseteq Keys
      /\ disk.onChain \subseteq Keys /\ disk.verified \subseteq Keys
  BY <1>0, SlicesAre, Fields DEF TypeOK
<1>2. /\ disk' \in Caches /\ disk'.machine = disk.machine /\ disk'.link = disk.link
      /\ disk'.onChain = disk.onChain \cup s /\ disk'.verified = disk.verified \ s
  <2>1. /\ disk'.machine = disk.machine /\ disk'.link = disk.link
        /\ disk'.onChain = disk.onChain \cup s /\ disk'.verified = disk.verified \ s
        /\ disk' = [machine |-> disk'.machine, link |-> disk'.link, onChain |-> disk'.onChain,
                    verified |-> disk'.verified]
    BY <1>0, <1>1 DEF Caches
  <2> QED BY <1>1, <2>1, Fields DEF Caches
<1>3. /\ Bundle' <=> Bundle
      /\ Cached(disk)' = Cached(disk) /\ Slices(disk)' = Slices(disk)
      /\ \A k \in Keys : Written(disk, k)' <=> Written(disk, k)
      /\ CachedIsPrefix' /\ OnMachine'
  BY <1>0, <1>2, LinksKept
<1>4. TypeOK'
  BY <1>0, <1>1, <1>2, <1>3 DEF TypeOK
<1>5. MarksTrue'
  BY <1>0, <1>1, <1>2, <1>3 DEF MarksTrue, BundleInv
<1>6. BundleInv'
  <2>1. \A r \in landed : \A k \in r : k \in Keys
    BY <1>0 DEF TypeOK
  <2> QED BY <1>0, <1>1, <1>2, <1>3, <2>1 DEF BundleInv
<1>7. ProcessInv' /\ TodoInv'
  BY <1>0, <1>2, <1>3 DEF ProcessInv, TodoInv
<1>8. WriteInv'
  BY <1>0, <1>2, <1>3 DEF WriteInv
<1>9. BundleMessagesTrue' /\ RepairIsQueued'
  BY <1>0 DEF BundleMessagesTrue, RepairIsQueued
<1> QED BY <1>3, <1>4, <1>5, <1>6, <1>7, <1>8, <1>9
        DEF UploadInv, LinesOnRecordedMachine, OnMachine, MarkedIsWritten

\* A transaction fails, and its slice is not marked.
LEMMA WriteFailsStep ==
  ASSUME UploadInv, NEW s \in queue \cup landed, WriteFails(s) PROVE UploadInv'
<1>0. /\ TypeOK /\ ProcessInv /\ WriteInv /\ TodoInv /\ pc = "write" /\ said = "nothing"
      /\ queue' = queue \ {s} /\ landed' = landed \ {s} /\ clean' = FALSE
      /\ storage' = storage /\ run' = run /\ pc' = pc /\ disk' = disk /\ mem' = mem
      /\ todo' = todo /\ lines' = lines /\ said' = said
  BY Parts DEF WriteFails, ProcessInv
<1>1. /\ (Bundle' <=> Bundle) /\ Cached(disk)' = Cached(disk) /\ Slices(disk)' = Slices(disk)
      /\ OnMachine' /\ CachedIsPrefix' /\ MarksTrue' /\ BundleInv'
  BY <1>0, FileKept
<1>2. TypeOK'
  BY <1>0, <1>1 DEF TypeOK
<1>3. ProcessInv' /\ TodoInv' /\ WriteInv'
  BY <1>0, <1>1 DEF ProcessInv, TodoInv, WriteInv
<1>4. BundleMessagesTrue' /\ RepairIsQueued'
  BY <1>0 DEF BundleMessagesTrue, RepairIsQueued
<1> QED BY <1>1, <1>2, <1>3, <1>4 DEF UploadInv, LinesOnRecordedMachine, OnMachine, MarkedIsWritten

\* The verdict of a run: "successful" is said when nothing failed and every
\* item is cached; every slice then is on chain.
LEMMA FinishStep == ASSUME UploadInv, Finish PROVE UploadInv'
<1>0. /\ TypeOK /\ ProcessInv /\ WriteInv /\ TodoInv /\ MarksTrue /\ pc = "write" /\ mem = disk
      /\ queue = {} /\ landed = {} /\ disk' = disk /\ mem' = disk
      /\ said' = (IF clean /\ Cardinality(Cached(disk)) = N THEN "successful" ELSE "unsuccessful")
      /\ pc' = "off" /\ todo' = {} /\ queue' = {} /\ landed' = {} /\ clean' = TRUE
      /\ storage' = storage /\ run' = run /\ lines' = lines
  BY Parts DEF Finish, Exit, TypeOK
<1>1. /\ (Bundle' <=> Bundle) /\ Cached(disk)' = Cached(disk) /\ Slices(disk)' = Slices(disk)
      /\ OnMachine' /\ CachedIsPrefix' /\ MarksTrue' /\ BundleInv' /\ (AllWritten' <=> AllWritten)
  BY <1>0, FileKept, LinksKept
<1>2. TypeOK'
  BY <1>0, <1>1 DEF TypeOK
<1>3. ProcessInv' /\ TodoInv' /\ WriteInv'
  BY <1>0, <1>1 DEF ProcessInv, TodoInv, WriteInv
<1>4. BundleMessagesTrue'
  <2> SUFFICES ASSUME Bundle, clean, Cardinality(Cached(disk)) = N PROVE AllWritten
    BY <1>0, <1>1 DEF BundleMessagesTrue
  <2>1. Cached(disk) = Keys
    BY SlicesAre, AllKeys
  <2> SUFFICES ASSUME NEW k \in Keys PROVE disk.link[k] # 0 /\ Written(disk, k)
    BY DEF AllWritten
  <2>2. disk.link[k] # 0
    BY <2>1 DEF Cached
  <2>3. PICK s \in Slices(disk) : k \in s
    BY <2>1, SlicesAre
  <2>4. s \subseteq disk.onChain
    BY <1>0 DEF WriteInv
  <2> QED BY <1>0, <2>2, <2>3, <2>4 DEF MarksTrue
<1>5. RepairIsQueued'
  BY <1>0 DEF RepairIsQueued
<1> QED BY <1>1, <1>2, <1>3, <1>4, <1>5 DEF UploadInv, LinesOnRecordedMachine, OnMachine, MarkedIsWritten

\* verify_upload: marks of both kinds change, of items that it has looked at.
LEMMA VerifyStep ==
  ASSUME UploadInv, CanVerify, NEW verdict \in {"ready", "notReady"},
         NEW good, good \subseteq Unverified, NEW bad, VerifyWith(verdict, good, bad),
         \A k \in good : Written(disk, k),
         verdict = "ready" => (Bundle => AllWritten),
         verdict = "notReady" =>
           \A k \in Unverified \ good : Written(disk, k) \/ (k \in bad /\ k \in Cached(disk))
  PROVE  UploadInv'
<1>0. /\ TypeOK /\ OnMachine /\ CachedIsPrefix /\ MarksTrue /\ ProcessInv /\ WriteInv /\ TodoInv
      /\ BundleInv /\ pc = "off" /\ mem = disk /\ disk \in Caches /\ disk.machine # 0
      /\ queue = {} /\ landed = {}
  BY Parts DEF CanVerify, TypeOK, WriteInv
<1>1. /\ said' = verdict /\ mem' = disk'
      /\ disk' = [disk EXCEPT !.verified = @ \cup good, !.onChain = @ \ bad]
      /\ storage' = storage /\ run' = run /\ pc' = pc /\ todo' = todo /\ queue' = queue
      /\ landed' = landed /\ clean' = clean /\ lines' = lines
  BY DEF VerifyWith
<1>2. /\ disk.onChain \subseteq Keys /\ disk.verified \subseteq Keys
      /\ good \subseteq Cached(disk) /\ Cached(disk) \subseteq Keys
  BY <1>0, Fields, SlicesAre DEF Unverified
<1>3. /\ disk' \in Caches /\ disk'.machine = disk.machine /\ disk'.link = disk.link
      /\ disk'.onChain = disk.onChain \ bad /\ disk'.verified = disk.verified \cup good
  <2>1. /\ disk'.machine = disk.machine /\ disk'.link = disk.link
        /\ disk'.onChain = disk.onChain \ bad /\ disk'.verified = disk.verified \cup good
        /\ disk' = [machine |-> disk'.machine, link |-> disk'.link, onChain |-> disk'.onChain,
                    verified |-> disk'.verified]
    BY <1>0, <1>1 DEF Caches
  <2>2. disk'.onChain \subseteq Keys /\ disk'.verified \subseteq Keys
    BY <1>2, <2>1
  <2>3. disk'.machine \in 0 .. MaxRuns /\ disk'.link \in [Keys -> 0 .. MaxRuns]
    BY <1>0, <2>1, Fields
  <2> QED BY <2>1, <2>2, <2>3 DEF Caches
<1>4. /\ Bundle' <=> Bundle
      /\ Cached(disk)' = Cached(disk) /\ Slices(disk)' = Slices(disk)
      /\ \A k \in Keys : Written(disk, k)' <=> Written(disk, k)
      /\ CachedIsPrefix' /\ OnMachine' /\ (AllWritten' <=> AllWritten)
  BY <1>0, <1>1, <1>3, LinksKept
<1>5. TypeOK'
  <2>1. disk'.onChain \cup disk'.verified \subseteq Cached(disk)'
    BY <1>0, <1>2, <1>3, <1>4 DEF TypeOK
  <2> QED BY <1>0, <1>1, <1>3, <2>1 DEF TypeOK
<1>6. MarksTrue'
  BY <1>0, <1>2, <1>3, <1>4 DEF MarksTrue
<1>7. BundleInv'
  BY <1>0, <1>1, <1>2, <1>3, <1>4 DEF BundleInv
<1>8. ProcessInv' /\ TodoInv' /\ WriteInv'
  BY <1>0, <1>1, <1>3, <1>4 DEF ProcessInv, TodoInv, WriteInv
<1>9. BundleMessagesTrue'
  BY <1>1, <1>4 DEF BundleMessagesTrue
<1>10. RepairIsQueued'
  <2> SUFFICES ASSUME verdict = "notReady", NEW k \in Unverified'
               PROVE  Written(disk, k)' \/ k \in UNION NeedingWrite(disk)'
    BY <1>1 DEF RepairIsQueued
  <2>1. k \in Unverified \ good /\ k \in Cached(disk) /\ k \in Keys
    BY <1>2, <1>3, <1>4 DEF Unverified
  <2>2. CASE Written(disk, k)
    BY <1>4, <2>1, <2>2
  <2>3. CASE k \in bad
    <3>1. PICK s \in Slices(disk) : k \in s
      BY <2>1, SlicesAre
    <3>2. k \notin disk'.onChain
      BY <1>3, <2>3
    <3>3. s \in NeedingWrite(disk)'
      BY <1>4, <3>1, <3>2 DEF NeedingWrite
    <3> QED BY <3>1, <3>3
  <2> QED BY <2>1, <2>2, <2>3
<1> QED BY <1>4, <1>5, <1>6, <1>7, <1>8, <1>9, <1>10
        DEF UploadInv, LinesOnRecordedMachine, OnMachine, MarkedIsWritten

\* A line differs from its entry in the cache.
LEMMA VerifyFindsBadStep == ASSUME UploadInv, VerifyFindsBad PROVE UploadInv'
<1>1. CanVerify /\ VerifyWith("notReady", Unverified \ Bad, Bad)
  BY DEF VerifyFindsBad
<1>2. \A k \in Unverified \ Bad : Written(disk, k)
  BY DEF Bad
<1>3. \A k \in Unverified \ (Unverified \ Bad) : k \in Bad /\ k \in Cached(disk)
  BY DEF Unverified
<1> QED BY <1>1, <1>2, <1>3, VerifyStep

\* Too few lines, and only part of the verified items saved.
LEMMA VerifyFindsFewStep == ASSUME UploadInv, VerifyFindsFew PROVE UploadInv'
<1>1. CanVerify /\ VerifyWith("notReady", SavedEarly, {}) /\ Bad = {}
  BY DEF VerifyFindsFew
<1>2. Unverified \subseteq Keys
  BY SlicesAre DEF Unverified
<1>3. SavedEarly \subseteq Unverified
  BY <1>2, FirstOfAre DEF SavedEarly
<1>4. \A k \in Unverified : Written(disk, k)
  BY <1>1 DEF Bad
<1> QED BY <1>1, <1>3, <1>4, VerifyStep

\* As many lines as items, and none of them wrong.
LEMMA VerifyPassesStep == ASSUME UploadInv, VerifyPasses PROVE UploadInv'
<1>0. TypeOK /\ BundleInv /\ CanVerify /\ VerifyWith("ready", Unverified, {}) /\ Bad = {} /\ LineCount >= N
  BY Parts DEF VerifyPasses
<1>1. \A k \in Unverified : Written(disk, k)
  BY <1>0 DEF Bad
<1>2. Bundle => AllWritten
  <2> SUFFICES ASSUME Bundle, NEW k \in Keys PROVE disk.link[k] # 0 /\ Written(disk, k)
    BY DEF AllWritten
  <2>1. disk.machine \in Runs
    <3>1. disk.machine \in 0 .. MaxRuns /\ disk.machine # 0
      BY <1>0, Fields DEF TypeOK, CanVerify
    <3> QED BY <3>1, Constants
  <2>2. {p \in Keys : lines[disk.machine][p] # Empty} = Keys
    <3> DEFINE L == {p \in Keys : lines[disk.machine][p] # Empty}
    <3>1. L \subseteq Keys /\ Cardinality(L) >= N
      BY <1>0 DEF LineCount
    <3> HIDE DEF L
    <3>2. Cardinality(L) \in Nat /\ Cardinality(L) <= N
      BY <3>1, KeysFinite
    <3>3. Cardinality(L) = N
      BY <3>1, <3>2, Constants
    <3>4. L = Keys
      BY <3>1, <3>3, AllKeys
    <3> QED BY <3>4 DEF L
  <2>3. k \in Cached(disk)
    BY <1>0, <2>1, <2>2 DEF BundleInv
  <2>4. k \in disk.verified \/ k \in Unverified
    BY <2>3 DEF Unverified
  <2> QED BY <1>0, <1>1, <2>3, <2>4 DEF BundleInv, Cached
<1> QED BY <1>0, <1>1, <1>2, VerifyStep

-----------------------------------------------------------------------------
(* The theorems.                                                           *)

\* An asset with a link is not uploaded again by this step.
LinksStay == ~Bundle => \A k \in Keys : disk.link[k] # 0 => disk'.link[k] = disk.link[k]

\* Every step keeps the invariant, and with single uploads the links.
LEMMA UploadNext == UploadInv /\ [Next]_vars => UploadInv' /\ LinksStay
<1> SUFFICES ASSUME UploadInv, [Next]_vars PROVE UploadInv' /\ LinksStay
  OBVIOUS
<1> USE DEF LinksStay
<1>a. TypeOK /\ ProcessInv /\ disk \in Caches
  BY Parts DEF TypeOK
<1>b. disk' = disk => LinksStay
  OBVIOUS
<1>1. CASE Start
  BY <1>1, <1>b, StartStep DEF Start
<1>2. CASE CreateMachine
  BY <1>2, <1>b, CreateMachineStep DEF CreateMachine
<1>3. CASE SetCollection
  <2>1. mem = [disk EXCEPT !.machine = run] /\ disk' = mem
    BY <1>3, <1>a DEF SetCollection, ProcessInv
  <2>2. disk'.link = disk.link
    BY <1>a, <2>1, Fields
  <2> QED BY <1>3, <2>2, SetCollectionStep
<1>4. CASE InitializationFails
  BY <1>4, <1>b, ExitStep DEF InitializationFails
<1>5. CASE \E k \in Keys : UploadAsset(k) \/ SkipAsset(k)
  <2> PICK k \in Keys : UploadAsset(k) \/ SkipAsset(k)
    BY <1>5
  <2>1. CASE UploadAsset(k)
    BY <2>1, UploadAssetStep
  <2>2. CASE SkipAsset(k)
    BY <2>2, <1>b, SkipAssetStep DEF SkipAsset
  <2> QED BY <2>1, <2>2
<1>6. CASE UploadBundle
  BY <1>6, UploadBundleStep
<1>7. CASE BundleFails
  BY <1>7, <1>b, ExitStep DEF BundleFails
<1>8. CASE StartWriting
  BY <1>8, <1>a, StartWritingStep DEF StartWriting, TypeOK
<1>9. CASE \E s \in queue \cup landed : Land(s) \/ Mark(s) \/ WriteFails(s)
  <2> PICK s \in queue \cup landed : Land(s) \/ Mark(s) \/ WriteFails(s)
    BY <1>9
  <2>1. CASE Land(s)
    BY <2>1, <1>b, LandStep DEF Land
  <2>2. CASE Mark(s)
    <3>1. disk' = [disk EXCEPT !.onChain = @ \cup s, !.verified = @ \ s]
      BY <1>a, <2>2 DEF Mark, TypeOK
    <3>2. disk'.link = disk.link
      BY <1>a, <3>1 DEF Caches
    <3> QED BY <2>2, <3>2, MarkStep
  <2>3. CASE WriteFails(s)
    BY <2>3, <1>b, WriteFailsStep DEF WriteFails
  <2> QED BY <2>1, <2>2, <2>3
<1>10. CASE Finish
  BY <1>10, <1>a, FinishStep DEF Finish, TypeOK
<1>11. CASE Crash
  BY <1>11, <1>b, ExitStep DEF Crash
<1>12. CASE VerifyFindsBad \/ VerifyFindsFew \/ VerifyPasses
  <2>1. UploadInv'
    BY <1>12, VerifyFindsBadStep, VerifyFindsFewStep, VerifyPassesStep
  <2>2. \E good, bad : disk' = [disk EXCEPT !.verified = @ \cup good, !.onChain = @ \ bad]
    BY <1>12 DEF VerifyFindsBad, VerifyFindsFew, VerifyPasses, VerifyWith
  <2>3. disk'.link = disk.link
    BY <1>a, <2>2 DEF Caches
  <2> QED BY <2>1, <2>3
<1>13. CASE UNCHANGED vars
  <2>0. /\ storage' = storage /\ run' = run /\ pc' = pc /\ disk' = disk /\ mem' = mem
        /\ todo' = todo /\ queue' = queue /\ landed' = landed /\ clean' = clean
        /\ lines' = lines /\ said' = said
        /\ TypeOK /\ ProcessInv /\ TodoInv /\ WriteInv /\ RepairIsQueued /\ BundleMessagesTrue
    BY <1>13, Parts DEF vars
  <2>1. /\ (Bundle' <=> Bundle) /\ Cached(disk)' = Cached(disk) /\ Slices(disk)' = Slices(disk)
        /\ OnMachine' /\ CachedIsPrefix' /\ MarksTrue' /\ BundleInv'
        /\ (AllWritten' <=> AllWritten) /\ \A k \in Keys : Written(disk, k)' <=> Written(disk, k)
    BY <2>0, FileKept, LinksKept
  <2>2. TypeOK'
    BY <2>0, <2>1 DEF TypeOK
  <2>3. ProcessInv' /\ TodoInv' /\ WriteInv' /\ BundleMessagesTrue'
    BY <2>0, <2>1 DEF ProcessInv, TodoInv, WriteInv, BundleMessagesTrue
  <2>4. RepairIsQueued'
    <3>1. Unverified' = Unverified /\ NeedingWrite(disk)' = NeedingWrite(disk)
      BY <2>0, <2>1 DEF Unverified, NeedingWrite
    <3>2. Unverified \subseteq Keys
      BY SlicesAre DEF Unverified
    <3> QED BY <2>0, <2>1, <3>1, <3>2 DEF RepairIsQueued
  <2> QED BY <2>0, <2>1, <2>2, <2>3, <2>4, <1>b
          DEF UploadInv, LinesOnRecordedMachine, OnMachine, MarkedIsWritten
<1> QED BY <1>1, <1>2, <1>3, <1>4, <1>5, <1>6, <1>7, <1>8, <1>9, <1>10, <1>11, <1>12, <1>13
        DEF Next

\* The inductive invariant holds in every state, whatever is killed or fails.
THEOREM UploadInvariance == Spec => []UploadInv
<1>1. UploadInv /\ [Next]_vars => UploadInv'
  BY UploadNext
<1> QED BY <1>1, InitUpload, PTL DEF Spec

\* Lines are only written to the machine that the cache file names
\* (upload.ts:129-184, 527-545).
THEOREM LinesOnTheMachine == Spec => []LinesOnRecordedMachine
<1>1. UploadInv => LinesOnRecordedMachine
  BY DEF UploadInv
<1> QED BY <1>1, UploadInvariance, PTL

\* Transactions in flight together write different positions: their slices
\* are apart in the order of the keys (upload.ts:487-519).
THEOREM SlicesDisjoint == Spec => []ConcurrentSlicesDisjoint
<1>1. UploadInv => ConcurrentSlicesDisjoint
  <2> SUFFICES ASSUME UploadInv PROVE ConcurrentSlicesDisjoint
    OBVIOUS
  <2>1. CachedIsPrefix /\ queue \cup landed \subseteq Slices(disk)
    BY Parts DEF WriteInv
  <2> QED BY <2>1, DisjointWrites DEF ConcurrentSlicesDisjoint
<1> QED BY <1>1, UploadInvariance, PTL

\* "Done. Successful = true" and "ready to deploy!" are true of a bundle upload
\* (upload.ts:397-403, candy-machine-v2-cli.ts:594-595).
THEOREM MessagesTrue == Spec => []BundleMessagesTrue
<1>1. UploadInv => BundleMessagesTrue
  BY DEF UploadInv
<1> QED BY <1>1, UploadInvariance, PTL

\* What is marked as on chain is written, and what verify_upload found wrong is
\* queued again (upload.ts:546-555, candy-machine-v2-cli.ts:531-564).
THEOREM MarksAndRepairs == Spec => []MarkedIsWritten
<1>1. UploadInv => MarkedIsWritten
  BY DEF UploadInv
<1> QED BY <1>1, UploadInvariance, PTL

\* No run uploads an asset again that has its link in the cache
\* (upload.ts:405-438).
THEOREM NotUploadedTwice == Spec => CachedNotUploadedAgain
<1>1. UploadInv /\ [Next]_vars => [LinksStay]_vars
  BY UploadNext
<1>2. Spec => [][LinksStay]_vars
  BY <1>1, UploadInvariance, PTL DEF Spec
<1> QED BY <1>2 DEF CachedNotUploadedAgain, LinksStay

-----------------------------------------------------------------------------
(* The mint page: the inductive invariant.                                  *)

Setups == [state : {"none", "ready", "minted"}, owner : Wallets]
LateMints == [wallet : Wallets, setup : Ids \cup {None}]
Chain == [left : Nat, live : BOOLEAN, late : SUBSET LateMints,
          made : [Wallets -> Nat], setups : [Ids -> Setups]]
MachineObject == [by : Wallets, active : BOOLEAN, soldOut : BOOLEAN, loaded : BOOLEAN]
Page ==
  [wallet : Wallets, minting : BOOLEAN, isActive : BOOLEAN, isPresale : BOOLEAN,
   isWhitelistUser : BOOLEAN, isValidBalance : BOOLEAN, itemsRemaining : Int,
   setupTxn : Ids \cup {None}, countdown : BOOLEAN, candyMachine : MachineObject]
Button == [clicked : BOOLEAN, verified : BOOLEAN, listening : BOOLEAN, due : BOOLEAN]
Places == {"idle", "pass", "unlisten", "setup", "confirm", "mint", "await", "look"}
Call == [at : Places, wallet : Wallets, by : Wallets, current : BOOLEAN,
         setup : Ids \cup {None}, remaining : Int, minted : BOOLEAN,
         effect : BOOLEAN, own : BOOLEAN]
Luck == [faults : Nat, switches : Nat]

MintTyped ==
  /\ machine \in Machines
  /\ chain \in Chain
  /\ page \in Page
  /\ button \in Button
  /\ calls \in [Calls -> Call]
  /\ reads \subseteq Reads /\ loops \subseteq Wallets
  /\ told \in Nat /\ pass \in BOOLEAN
  /\ luck \in Luck

\* No more tokens than the machine had, no more late mints than faults.
Bounded ==
  /\ \A w \in Wallets : chain.left + chain.made[w] <= machine.items
  /\ IsFiniteSet(chain.late) /\ Cardinality(chain.late) <= luck.faults
  /\ luck.faults <= MaxFaults

\* What SetupStands says beyond the types.
Stands == page.setupTxn # None => chain.setups[page.setupTxn].state # "none"

StateOf(i) == chain.setups[i].state

\* A call that is under way and the page refer to the same set-up, once there
\* is one.
Holds(x) ==
  /\ calls[x].at \notin {"pass", "unlisten"}
  /\ calls[x].at = "setup" => calls[x].setup = None /\ page.setupTxn = None
  /\ calls[x].at = "confirm" =>
       /\ calls[x].setup # None /\ page.setupTxn = None
       /\ StateOf(calls[x].setup) # "minted"
  /\ calls[x].at \in {"mint", "await", "look"} =>
       calls[x].setup # None /\ page.setupTxn = calls[x].setup

Active(x) == calls[x].at # "idle"

OneCall ==
  /\ ~button.listening /\ ~button.verified
  /\ \A x, y \in Calls : Active(x) /\ Active(y) => x = y
  /\ \A x \in Calls : Active(x) => page.minting /\ Holds(x)

\* The token the page waits for has been made.
Spent == page.setupTxn # None /\ StateOf(page.setupTxn) = "minted"

Counted ==
  /\ Made = told + (IF Spent THEN 1 ELSE 0)
  /\ \A m \in chain.late :
       m.setup # None /\ (m.setup = page.setupTxn \/ StateOf(m.setup) = "minted")

Apart == machine.split /\ machine.gate = "none"

MintInv ==
  /\ MintTyped /\ Bounded /\ Stands
  /\ Apart => OneCall /\ Counted

-----------------------------------------------------------------------------
(* Sums over a function.                                                    *)

\* A set of natural numbers that is not empty has a least element.
LEMMA LeastElement ==
  ASSUME NEW T, T \subseteq Nat, T # {}
  PROVE  \E x \in T : \A y \in T : x <= y
<1>. DEFINE R == {ss \in Nat \X Nat : ss[1] < ss[2]}
<1>1. IsWellFoundedOn(R, Nat)
  BY NatLessThanWellFounded DEF OpToRel
<1>2. PICK x \in T : \A y \in T : ~(<<y, x>> \in R)
  <2>. HIDE DEF R
  <2>. QED  BY <1>1, WFMin
<1>3. \A y \in T : ~(y < x)
  BY <1>2
<1>. QED  BY <1>3

\* A set that holds zero and the successor of whatever it holds has all of them.
LEMMA SetInduction ==
  ASSUME NEW S, 0 \in S, \A n \in Nat : n \in S => n + 1 \in S
  PROVE  Nat \subseteq S
<1>. SUFFICES ASSUME Nat \ S # {}
              PROVE  FALSE
  OBVIOUS
<1>1. PICK x \in Nat \ S : \A y \in Nat \ S : x <= y
  BY LeastElement
<1>2. x # 0 /\ x - 1 \in Nat /\ x - 1 \notin Nat \ S
  BY <1>1
<1>. QED  BY <1>1, <1>2

\* The sum of a function, from the definition of the fold.
Total(f) == FoldFunction(+, 0, f)
Some(s) == CHOOSE x \in s : TRUE
Part(f, g, s) == IF s = {} THEN 0 ELSE f[Some(s)] + g[s \ {Some(s)}]
Totals(f) == CHOOSE g : g = [s \in SUBSET DOMAIN f |-> Part(f, g, s)]

\* The sum is the fold's function at the whole domain.
LEMMA TotalIs == ASSUME NEW f PROVE Total(f) = Totals(f)[DOMAIN f]
BY DEF Total, Totals, Part, Some, FoldFunction, FoldFunctionOnSet, MapThenFoldSet

\* A set without one of its elements is smaller.
LEMMA SomeLess ==
  ASSUME NEW s, IsFiniteSet(s), s # {}
  PROVE  /\ Some(s) \in s /\ IsFiniteSet(s \ {Some(s)})
         /\ Cardinality(s \ {Some(s)}) = Cardinality(s) - 1 /\ Cardinality(s) \in Nat
BY FS_RemoveElement, FS_CardinalityType DEF Some

\* The fold is defined.
LEMMA TotalsDefined ==
  ASSUME NEW W, IsFiniteSet(W), NEW f, DOMAIN f = W
  PROVE  \A s \in SUBSET W : Totals(f)[s] = Part(f, Totals(f), s)
<1>. DEFINE Small(n) == {s \in SUBSET W : Cardinality(s) <= n}
            IsFold(g, n) == g = [s \in Small(n) |-> Part(f, g, s)]
            S == {n \in Nat : \E g : IsFold(g, n)}
<1>0. \A s \in SUBSET W : IsFiniteSet(s) /\ Cardinality(s) \in Nat /\ Cardinality(s) <= Cardinality(W)
  BY FS_Subset, FS_CardinalityType
<1>1. 0 \in S
  <2>. DEFINE g == [s \in Small(0) |-> 0]
  <2>1. \A s \in Small(0) : s = {}
    BY <1>0, FS_EmptySet
  <2>2. \A s \in Small(0) : Part(f, g, s) = 0
    BY <2>1 DEF Part
  <2>3. IsFold(g, 0)
    BY <2>2
  <2>. QED  BY <2>3
<1>2. ASSUME NEW n \in Nat, n \in S
      PROVE  n + 1 \in S
  <2>1. PICK g : IsFold(g, n)
    BY <1>2
  <2>. DEFINE h == [s \in Small(n + 1) |-> Part(f, g, s)]
  <2>2. ASSUME NEW s \in Small(n + 1)
        PROVE  Part(f, g, s) = Part(f, h, s)
    <3>1. CASE s = {}
      BY <3>1 DEF Part
    <3>2. CASE s # {}
      <4>. DEFINE r == s \ {Some(s)}
      <4>1. r \in Small(n) /\ r \in Small(n + 1)
        BY <1>0, <3>2, SomeLess
      <4>2. g[r] = Part(f, g, r) /\ h[r] = Part(f, g, r)
        BY <2>1, <4>1
      <4>. HIDE DEF h
      <4>. QED  BY <3>2, <4>2 DEF Part
    <3>. QED  BY <3>1, <3>2
  <2>3. h = [s \in Small(n + 1) |-> Part(f, h, s)]
    <3>. HIDE DEF Small
    <3>1. \A s \in Small(n + 1) : h[s] = Part(f, h, s)
      BY <2>2
    <3>. QED  BY <3>1
  <2>4. IsFold(h, n + 1)
    BY <2>3
  <2>. HIDE DEF h, IsFold
  <2>. QED  BY <2>4
<1>3. Cardinality(W) \in S
  <2>. HIDE DEF S
  <2>. QED  BY <1>1, <1>2, SetInduction, FS_CardinalityType
<1>4. PICK g : IsFold(g, Cardinality(W))
  BY <1>3
<1>5. Small(Cardinality(W)) = SUBSET W
  BY <1>0
<1>6. g = [s \in SUBSET W |-> Part(f, g, s)]
  BY <1>4, <1>5
<1>7. Totals(f) = [s \in SUBSET W |-> Part(f, Totals(f), s)]
  BY <1>6 DEF Totals
<1>. QED  BY <1>7

\* What holds of the empty part, and of a part if it holds of the part without
\* one element, holds of every part of a finite set.
LEMMA PartInduction ==
  ASSUME NEW W, IsFiniteSet(W), NEW G, {} \in G,
         \A s \in SUBSET W : s # {} /\ s \ {Some(s)} \in G => s \in G
  PROVE  W \in G
<1>. DEFINE S == {n \in Nat : \A s \in SUBSET W : Cardinality(s) <= n => s \in G}
<1>0. \A s \in SUBSET W : IsFiniteSet(s) /\ Cardinality(s) \in Nat
  BY FS_Subset, FS_CardinalityType
<1>1. 0 \in S
  BY <1>0, FS_EmptySet
<1>2. ASSUME NEW n \in Nat, n \in S
      PROVE  n + 1 \in S
  <2>1. ASSUME NEW s \in SUBSET W, Cardinality(s) <= n + 1, s # {}
        PROVE  s \in G
    <3>1. s \ {Some(s)} \in SUBSET W /\ Cardinality(s \ {Some(s)}) <= n
      BY <1>0, <2>1, SomeLess
    <3>. QED  BY <1>2, <2>1, <3>1
  <2>2. \A s \in SUBSET W : Cardinality(s) <= n + 1 => s \in G
    BY <2>1
  <2>. QED  BY <2>2
<1>3. Cardinality(W) \in S
  <2>. HIDE DEF S
  <2>. QED  BY <1>1, <1>2, SetInduction, FS_CardinalityType
<1>. QED  BY <1>0, <1>3

\* A sum of natural numbers is one; that of zeros is zero; one more of one of
\* them makes the sum one more.
LEMMA TotalOf ==
  ASSUME NEW W, IsFiniteSet(W), NEW f \in [W -> Nat]
  PROVE  /\ Total(f) \in Nat
         /\ (\A w \in W : f[w] = 0) => Total(f) = 0
         /\ \A w \in W : Total([f EXCEPT ![w] = f[w] + 1]) = Total(f) + 1
<1>1. \A s \in SUBSET W : Totals(f)[s] = Part(f, Totals(f), s)
  BY TotalsDefined
<1>2. Total(f) = Totals(f)[W]
  BY TotalIs
<1>3. Total(f) \in Nat
  <2>. DEFINE G == {s \in SUBSET W : Totals(f)[s] \in Nat}
  <2>1. {} \in G
    BY <1>1 DEF Part
  <2>2. ASSUME NEW s \in SUBSET W, s # {}, s \ {Some(s)} \in G
        PROVE  s \in G
    <3>1. f[Some(s)] \in Nat /\ Totals(f)[s \ {Some(s)}] \in Nat
      BY <2>2 DEF Some
    <3>2. Totals(f)[s] = f[Some(s)] + Totals(f)[s \ {Some(s)}]
      BY <1>1, <2>2 DEF Part
    <3>. QED  BY <3>1, <3>2
  <2>3. W \in G
    <3>. HIDE DEF G
    <3>. QED  BY <2>1, <2>2, PartInduction
  <2>. QED  BY <1>2, <2>3
<1>4. ASSUME \A w \in W : f[w] = 0
      PROVE  Total(f) = 0
  <2>. DEFINE G == {s \in SUBSET W : Totals(f)[s] = 0}
  <2>1. {} \in G
    BY <1>1 DEF Part
  <2>2. ASSUME NEW s \in SUBSET W, s # {}, s \ {Some(s)} \in G
        PROVE  s \in G
    <3>1. f[Some(s)] = 0
      BY <1>4, <2>2 DEF Some
    <3>. QED  BY <1>1, <2>2, <3>1 DEF Part
  <2>3. W \in G
    <3>. HIDE DEF G
    <3>. QED  BY <2>1, <2>2, PartInduction
  <2>. QED  BY <1>2, <2>3
<1>5. ASSUME NEW w \in W
      PROVE  Total([f EXCEPT ![w] = f[w] + 1]) = Total(f) + 1
  <2>. DEFINE e == [f EXCEPT ![w] = f[w] + 1]
  <2>1. e \in [W -> Nat] /\ DOMAIN e = W
        /\ \A x \in W : e[x] = IF x = w THEN f[x] + 1 ELSE f[x]
    OBVIOUS
  <2>. HIDE DEF e
  <2>2. \A s \in SUBSET W : Totals(e)[s] = Part(e, Totals(e), s)
    BY <2>1, TotalsDefined
  <2>3. Total(e) = Totals(e)[W]
    BY <2>1, TotalIs
  <2>. DEFINE G == {s \in SUBSET W :
                      /\ Totals(f)[s] \in Nat
                      /\ Totals(e)[s] = Totals(f)[s] + (IF w \in s THEN 1 ELSE 0)}
  <2>4. {} \in G
    BY <1>1, <2>2 DEF Part
  <2>5. ASSUME NEW s \in SUBSET W, s # {}, s \ {Some(s)} \in G
        PROVE  s \in G
    <3>. DEFINE x == Some(s)
                r == s \ {x}
    <3>1. x \in s /\ x \in W /\ f[x] \in Nat
      BY <2>5 DEF Some
    <3>2. Totals(f)[s] = f[x] + Totals(f)[r] /\ Totals(e)[s] = e[x] + Totals(e)[r]
      BY <1>1, <2>2, <2>5 DEF Part
    <3>3. r \in G
      BY <2>5
    <3>4. w \in s <=> (w \in r \/ w = x)
      BY <3>1
    <3>5. ~(w \in r /\ w = x)
      OBVIOUS
    <3>. HIDE DEF x, r
    <3>. QED  BY <2>1, <3>1, <3>2, <3>3, <3>4, <3>5
  <2>6. W \in G
    <3>. HIDE DEF G
    <3>. QED  BY <2>4, <2>5, PartInduction
  <2>. QED  BY <1>2, <2>3, <2>6 DEF e
<1>. QED  BY <1>3, <1>4, <1>5

-----------------------------------------------------------------------------
(* Lemmas about the operators of the page.                                  *)

\* What the constants are, in the form the steps need.
LEMMA Sizes ==
  /\ Cardinality(Calls) \in Nat /\ Supply \in Nat /\ MaxFaults \in Nat
  /\ First \in Wallets /\ None \notin Ids /\ Ids \subseteq Nat
  /\ \A m \in Machines : m.items \in 0 .. Supply /\ m.split \in BOOLEAN
                         /\ m.gate \in {"none", "encore"} /\ m.wallets \subseteq Wallets
<1>1. Cardinality(Calls) \in Nat
  BY MintAssumption, FS_CardinalityType
<1>2. None \notin Ids /\ Ids \subseteq Nat
  BY DEF None, Ids
<1>. QED  BY <1>1, <1>2, MintAssumption

\* A name is free when a set-up is sent, and it is one that nobody refers to.
LEMMA FreshIsUnused ==
  ASSUME MintTyped, Bounded
  PROVE  /\ Fresh \in Ids /\ Fresh # page.setupTxn
         /\ \A c \in Calls : calls[c].setup # Fresh
         /\ \A m \in chain.late : m.setup # Fresh
<1>. DEFINE A == {calls[c].setup : c \in Calls}
            B == {m.setup : m \in chain.late}
            U == ({page.setupTxn} \cup A) \cup B
            f == [c \in Calls |-> calls[c].setup]
            g == [m \in chain.late |-> m.setup]
<1>1. IsFiniteSet(A) /\ Cardinality(A) <= Cardinality(Calls)
  <2>1. f \in Surjection(Calls, A)
    BY DEF Surjection
  <2>. HIDE DEF f, A
  <2>. QED  BY <2>1, FS_Surjection, MintAssumption
<1>2. IsFiniteSet(B) /\ Cardinality(B) <= MaxFaults
  <2>1. g \in Surjection(chain.late, B)
    BY DEF Surjection
  <2>. HIDE DEF g, B
  <2>2. IsFiniteSet(B) /\ Cardinality(B) <= Cardinality(chain.late)
    BY <2>1, FS_Surjection DEF Bounded
  <2>3. Cardinality(B) \in Nat /\ Cardinality(chain.late) \in Nat /\ luck.faults \in Nat
    BY <2>2, FS_CardinalityType DEF Bounded, MintTyped, Luck
  <2>. QED  BY <2>2, <2>3, Sizes DEF Bounded
<1>3. IsFiniteSet(U) /\ Cardinality(U) <= Cardinality(Calls) + MaxFaults + 1
  <2>. HIDE DEF A, B
  <2>1. IsFiniteSet(A \cup {page.setupTxn})
        /\ Cardinality(A \cup {page.setupTxn}) <= Cardinality(A) + 1
    <3>. DEFINE x == page.setupTxn
    <3>. HIDE DEF x
    <3>1. IsFiniteSet(A \cup {x})
          /\ Cardinality(A \cup {x}) = IF x \in A THEN Cardinality(A) ELSE Cardinality(A) + 1
      BY <1>1, FS_AddElement
    <3>2. Cardinality(A) \in Nat
      BY <1>1, FS_CardinalityType
    <3>3. IsFiniteSet(A \cup {x}) /\ Cardinality(A \cup {x}) <= Cardinality(A) + 1
      BY <3>1, <3>2
    <3>. QED  BY <3>3 DEF x
  <2>2. {page.setupTxn} \cup A = A \cup {page.setupTxn}
    OBVIOUS
  <2>3. IsFiniteSet({page.setupTxn} \cup A)
        /\ Cardinality({page.setupTxn} \cup A) <= Cardinality(A) + 1
    BY <2>1, <2>2
  <2>. DEFINE D == {page.setupTxn} \cup A
  <2>. HIDE DEF D
  <2>4. IsFiniteSet(D \cup B)
        /\ Cardinality(D \cup B) = Cardinality(D) + Cardinality(B) - Cardinality(D \cap B)
    BY <1>2, <2>3, FS_Union DEF D
  <2>5. IsFiniteSet(D \cap B)
    BY <1>2, FS_Subset
  <2>6. /\ Cardinality(A) \in Nat /\ Cardinality(B) \in Nat
        /\ Cardinality(D) \in Nat /\ Cardinality(D \cap B) \in Nat
    BY <1>1, <1>2, <2>3, <2>5, FS_CardinalityType DEF D
  <2>7. Cardinality(D \cup B) <= Cardinality(Calls) + MaxFaults + 1
    BY <1>1, <1>2, <2>3, <2>4, <2>6, Sizes DEF D
  <2>. QED  BY <2>4, <2>7 DEF D
<1>4. Unused # {}
  <2>. HIDE DEF U
  <2>1. SUFFICES ASSUME Unused = {} PROVE FALSE
    OBVIOUS
  <2>2. Ids \subseteq U
    BY <2>1 DEF Unused, U
  <2>3. Cardinality(Ids) <= Cardinality(U)
    BY <1>3, <2>2, FS_Subset
  <2>4. Cardinality(Ids) = Cardinality(Calls) + MaxFaults + 2
    <3>. DEFINE n == Cardinality(Calls) + MaxFaults + 2
    <3>1. n \in Int /\ n >= 1
      BY Sizes
    <3>. HIDE DEF n
    <3>2. Cardinality(1 .. n) = IF 1 > n THEN 0 ELSE n - 1 + 1
      BY <3>1, FS_Interval
    <3>3. Cardinality(1 .. n) = n
      BY <3>1, <3>2
    <3>. QED  BY <3>3 DEF n, Ids
  <2>5. Cardinality(U) \in Nat
    BY <1>3, FS_CardinalityType
  <2>. QED  BY <1>3, <2>3, <2>4, <2>5, Sizes
<1>5. Unused \subseteq Nat
  BY Sizes DEF Unused
<1>6. Fresh \in Unused
  BY <1>4, <1>5, LeastElement DEF Fresh, Min
<1>. QED  BY <1>6 DEF Unused

\* What comes of rendering Home: the calls stay where they are, and without a
\* gateway nothing but the page changes.
LEMMA RenderFacts ==
  ASSUME MintTyped, NEW p \in Page, NEW b \in Button, NEW cs \in [Calls -> Call],
         Render(p, b, cs)
  PROVE  /\ page' = p /\ button' \in Button /\ calls' \in [Calls -> Call]
         /\ \A c \in Calls : calls'[c].at = cs[c].at /\ calls'[c].setup = cs[c].setup
         /\ machine.gate = "none" => button' = [b EXCEPT !.due = TRUE] /\ calls' = cs
<1>1. page' = p
  BY DEF Render
<1>2. CASE Gated(page) = Gated(p)
  <2>1. button' = [b EXCEPT !.due = TRUE] /\ calls' = cs
    BY <1>2 DEF Render
  <2>2. button' \in Button
    BY <2>1 DEF Button
  <2>. QED  BY <1>1, <2>1, <2>2
<1>3. CASE Gated(page) # Gated(p)
  <2>1. button' = NewButton /\ calls' = [c \in Calls |-> [cs[c] EXCEPT !.own = FALSE]]
    BY <1>3 DEF Render
  <2>2. button' \in Button
    BY <2>1 DEF Button, NewButton
  <2>3. \A c \in Calls : [cs[c] EXCEPT !.own = FALSE] \in Call
    BY DEF Call
  <2>4. \A c \in Calls : /\ [cs[c] EXCEPT !.own = FALSE].at = cs[c].at
                         /\ [cs[c] EXCEPT !.own = FALSE].setup = cs[c].setup
    BY DEF Call
  <2>5. machine.gate # "none"
    BY <1>3 DEF Gated
  <2>. QED  BY <1>1, <2>1, <2>2, <2>3, <2>4, <2>5
<1>. QED  BY <1>2, <1>3

\* What a refresh may have read.
LEMMA ReadTyped ==
  ASSUME MintTyped, Bounded, NEW w \in Wallets
  PROVE  chain.left <= Supply /\ ReadNow(w) \in Reads
<1>1. chain.left \in Nat /\ chain.made[First] \in Nat /\ machine.items \in 0 .. Supply
  BY Sizes DEF MintTyped, Chain
<1>2. chain.left + chain.made[First] <= machine.items
  BY Sizes DEF Bounded
<1>3. chain.left \in 0 .. Supply /\ chain.live \in BOOLEAN
  BY <1>1, <1>2, Sizes DEF MintTyped, Chain
<1>. QED  BY <1>3 DEF ReadNow, Reads
\* A token more: what Minted does to the chain.
LEMMA MintedFacts ==
  ASSUME MintTyped, Bounded, NEW w \in Wallets, NEW i \in Ids \cup {None}, Mintable(w, i)
  PROVE  /\ Minted(w, i) \in Chain
         /\ Minted(w, i).left = chain.left - 1 /\ Minted(w, i).late = chain.late
         /\ Minted(w, i).made = [chain.made EXCEPT ![w] = chain.made[w] + 1]
         /\ Minted(w, i).live = chain.live
         /\ \A j \in Ids : Minted(w, i).setups[j].state
                             = IF j = i THEN "minted" ELSE StateOf(j)
         /\ \A v \in Wallets : Minted(w, i).left + Minted(w, i).made[v] <= machine.items
         /\ i # None => StateOf(i) = "ready"
<1>. DEFINE made == [chain.made EXCEPT ![w] = chain.made[w] + 1]
            setups == IF i = None THEN chain.setups
                      ELSE [chain.setups EXCEPT ![i].state = "minted"]
<1>1. chain \in Chain /\ chain.made \in [Wallets -> Nat] /\ chain.setups \in [Ids -> Setups]
      /\ chain.left \in Nat /\ chain.live \in BOOLEAN /\ chain.late \in SUBSET LateMints
  BY DEF MintTyped, Chain
<1>2. chain.left > 0 /\ (i # None => chain.setups[i] = [state |-> "ready", owner |-> w])
  BY DEF Mintable, Allowed
<1>3. Minted(w, i) = [chain EXCEPT !.left = chain.left - 1, !.made = made, !.setups = setups]
  BY <1>1 DEF Minted, Chain
<1>4. made \in [Wallets -> Nat]
      /\ \A v \in Wallets : made[v] = IF v = w THEN chain.made[v] + 1 ELSE chain.made[v]
  BY <1>1
<1>5. setups \in [Ids -> Setups]
  BY <1>1 DEF Setups
<1>6. \A j \in Ids : setups[j].state = IF j = i THEN "minted" ELSE chain.setups[j].state
  <2>1. CASE i = None
    BY <1>1, <2>1, Sizes
  <2>2. CASE i # None
    BY <1>1, <2>2 DEF Setups
  <2>. QED  BY <2>1, <2>2
<1>. HIDE DEF made, setups
<1>7. Minted(w, i) = [left |-> chain.left - 1, live |-> chain.live, late |-> chain.late,
                      made |-> made, setups |-> setups]
  BY <1>1, <1>3 DEF Chain
<1>8. Minted(w, i) \in Chain
  BY <1>1, <1>2, <1>4, <1>5, <1>7 DEF Chain
<1>9. \A v \in Wallets : chain.left - 1 + made[v] <= machine.items
  <2>1. TAKE v \in Wallets
  <2>2. chain.left + chain.made[v] <= machine.items /\ chain.made[v] \in Nat
        /\ machine.items \in Nat
    BY <1>1, Sizes DEF Bounded, MintTyped
  <2>. QED  BY <1>1, <1>4, <2>2
<1>10. made = [chain.made EXCEPT ![w] = chain.made[w] + 1]
  BY DEF made
<1>11. i # None => StateOf(i) = "ready"
  BY <1>2 DEF StateOf
<1>. QED  BY <1>6, <1>7, <1>8, <1>9, <1>10, <1>11 DEF StateOf

\* Faults are counted up to their bound.
LEMMA LuckCounted ==
  ASSUME MintTyped, Bounded, Fault \/ NoFault
  PROVE  /\ luck' \in Luck /\ luck.faults \in Nat
         /\ luck.faults <= luck'.faults /\ luck'.faults <= MaxFaults
         /\ Fault => luck'.faults = luck.faults + 1
<1>1. luck \in Luck /\ luck.faults \in Nat /\ MaxFaults \in Nat
  BY Sizes DEF MintTyped, Luck
<1>2. CASE NoFault
  BY <1>1, <1>2 DEF NoFault, Bounded, Fault, Luck
<1>3. CASE Fault
  BY <1>1, <1>3 DEF Fault, Luck
<1>. QED  BY <1>2, <1>3

-----------------------------------------------------------------------------
(* What keeps the parts of the invariant.                                   *)

\* The bounds hold when nothing but others' mints changed the sums.
LEMMA BoundedKept ==
  ASSUME MintTyped, Bounded, machine' = machine, chain' \in Chain, chain'.left <= chain.left,
         chain'.made = chain.made, chain'.late = chain.late,
         luck' \in Luck, luck.faults <= luck'.faults, luck'.faults <= MaxFaults
  PROVE  Bounded'
<1>1. \A w \in Wallets : chain'.left + chain'.made[w] <= machine'.items
  <2>1. TAKE w \in Wallets
  <2>2. chain.left + chain.made[w] <= machine.items /\ machine.items \in Nat
    BY Sizes DEF Bounded, MintTyped
  <2>3. chain.made[w] \in Nat /\ chain.left \in Nat /\ chain'.left \in Nat
    BY DEF MintTyped, Chain
  <2>. QED  BY <2>2, <2>3
<1>2. Cardinality(chain.late) \in Nat /\ luck.faults \in Nat /\ luck'.faults \in Nat
  BY FS_CardinalityType DEF Bounded, MintTyped, Luck
<1>3. IsFiniteSet(chain'.late) /\ Cardinality(chain'.late) <= luck'.faults
  BY <1>2 DEF Bounded
<1>. QED  BY <1>1, <1>3 DEF Bounded

\* The one call under way takes a step.
LEMMA CallMoves ==
  ASSUME OneCall, NEW c \in Calls, Active(c), Holds(c)', page'.minting,
         ~button'.listening, ~button'.verified,
         \A x \in Calls \ {c} : calls'[x].at = calls[x].at
  PROVE  OneCall'
<1>1. \A x \in Calls : Active(x)' => x = c
  BY DEF OneCall, Active
<1>. QED  BY <1>1 DEF OneCall

\* The one call under way ends.
LEMMA CallEnds ==
  ASSUME OneCall, NEW c \in Calls, Active(c), calls'[c].at = "idle",
         ~button'.listening, ~button'.verified,
         \A x \in Calls \ {c} : calls'[x].at = calls[x].at
  PROVE  OneCall'
<1>1. \A x \in Calls : ~Active(x)'
  BY DEF OneCall, Active
<1>. QED  BY <1>1 DEF OneCall

\* The tokens made are the sum over the wallets.
LEMMA MadeIs == Made = Total(chain.made) /\ Made' = Total(chain'.made)
<1>1. Made = Total(chain.made)
  BY DEF Made, Total, FoldFunction, FoldFunctionOnSet, MapThenFoldSet
<1>2. Made' = Total(chain'.made)
  BY DEF Made, Total, FoldFunction, FoldFunctionOnSet, MapThenFoldSet
<1>. QED  BY <1>1, <1>2

\* The sum is a function of the tokens made.
LEMMA MadeKept ==
  ASSUME chain'.made = chain.made
  PROVE  Made' = Made
<1>1. Total(chain'.made) = Total(chain.made)
  OBVIOUS
<1>. QED  BY <1>1, MadeIs

\* The account of tokens is not touched.
LEMMA CountedKept ==
  ASSUME MintTyped, Counted, chain'.made = chain.made, chain'.late = chain.late,
         \A i \in Ids : StateOf(i)' = StateOf(i),
         page'.setupTxn = page.setupTxn, told' = told
  PROVE  Counted'
<1>1. page.setupTxn \in Ids \cup {None}
  BY DEF MintTyped, Page
<1>2. Spent' = Spent
  BY <1>1 DEF Spent, StateOf
<1>3. Made' = Made
  BY MadeKept
<1>4. \A m \in chain.late : m.setup \in Ids \cup {None}
  BY DEF MintTyped, Chain, LateMints
<1>5. \A m \in chain'.late :
        m.setup # None /\ (m.setup = page'.setupTxn \/ StateOf(m.setup)' = "minted")
  BY <1>4 DEF Counted
<1>. QED  BY <1>2, <1>3, <1>5 DEF Counted

\* A step that leaves the set-ups, the places of the calls and the button of the
\* page alone.
LEMMA QuietStep ==
  ASSUME MintInv, machine' = machine, chain' \in Chain, page' \in Page, button' \in Button,
         calls' \in [Calls -> Call], reads' \subseteq Reads, loops' \subseteq Wallets,
         told' = told, pass' \in BOOLEAN, luck' \in Luck, luck'.faults = luck.faults,
         chain'.left <= chain.left, chain'.made = chain.made, chain'.late = chain.late,
         chain'.setups = chain.setups,
         page'.setupTxn = page.setupTxn, page'.minting = page.minting,
         \A c \in Calls : calls'[c].at = calls[c].at /\ calls'[c].setup = calls[c].setup,
         Apart => ~button'.listening /\ ~button'.verified
  PROVE  MintInv'
<1>1. MintTyped /\ Bounded /\ Stands /\ (Apart => OneCall /\ Counted)
  BY DEF MintInv
<1>2. MintTyped'
  BY <1>1 DEF MintTyped
<1>3. Bounded'
  <2>1. luck.faults <= luck'.faults /\ luck'.faults <= MaxFaults
    BY <1>1 DEF MintTyped, Bounded, Luck
  <2>. QED  BY <1>1, <2>1, BoundedKept
<1>4. Stands'
  BY <1>1 DEF Stands
<1>5. ASSUME Apart
      PROVE  OneCall' /\ Counted'
  <2>1. OneCall'
    BY <1>1, <1>5 DEF OneCall, Active, Holds, StateOf
  <2>2. Counted'
    BY <1>1, <1>5, CountedKept DEF StateOf
  <2>. QED  BY <2>1, <2>2
<1>. QED  BY <1>2, <1>3, <1>4, <1>5 DEF MintInv, Apart
-----------------------------------------------------------------------------
(* The steps of the refreshes, of the sale and of Encore.                   *)

\* What the constant parts of a step leave of the types.
LEMMA Typed ==
  ASSUME MintInv
  PROVE  /\ MintTyped /\ Bounded /\ machine \in Machines /\ chain \in Chain /\ page \in Page
         /\ button \in Button /\ calls \in [Calls -> Call] /\ reads \subseteq Reads
         /\ loops \subseteq Wallets /\ told \in Nat /\ pass \in BOOLEAN /\ luck \in Luck
         /\ chain.left \in Nat
         /\ (Apart => /\ OneCall /\ Counted /\ machine.gate = "none"
                      /\ ~button.listening /\ ~button.verified)
BY DEF MintInv, MintTyped, Chain, Apart, OneCall

\* A refresh starts and reads the chain.
LEMMA LoopKeeps ==
  ASSUME MintInv, NEW w \in Wallets, Loop(w)
  PROVE  MintInv'
<1>1. reads' \subseteq Reads
  BY Typed, ReadTyped DEF Loop
<1>2. /\ machine' = machine /\ chain' = chain /\ page' = page /\ button' = button
      /\ calls' = calls /\ loops' = loops /\ told' = told /\ pass' = pass /\ luck' = luck
  BY DEF Loop
<1>. QED  BY <1>1, <1>2, Typed, QuietStep

\* A step that renders Home with the set-up and the button it had.
LEMMA RenderedQuietly ==
  ASSUME MintInv, NEW p \in Page, NEW cs \in [Calls -> Call], Render(p, button, cs),
         p.setupTxn = page.setupTxn, p.minting = page.minting,
         \A c \in Calls : cs[c].at = calls[c].at /\ cs[c].setup = calls[c].setup,
         reads' \subseteq Reads, loops' \subseteq Wallets, machine' = machine,
         chain' = chain, told' = told, pass' = pass,
         luck' \in Luck, luck'.faults = luck.faults
  PROVE  MintInv'
<1>1. /\ page' = p /\ button' \in Button /\ calls' \in [Calls -> Call]
      /\ \A c \in Calls : calls'[c].at = cs[c].at /\ calls'[c].setup = cs[c].setup
      /\ machine.gate = "none" => button' = [button EXCEPT !.due = TRUE]
  BY Typed, RenderFacts
<1>2. Apart => ~button'.listening /\ ~button'.verified
  <2>1. [button EXCEPT !.due = TRUE].listening = button.listening
        /\ [button EXCEPT !.due = TRUE].verified = button.verified
    BY Typed DEF Button
  <2>. QED  BY <1>1, <2>1, Typed
<1>3. page'.setupTxn = page.setupTxn /\ page'.minting = page.minting /\ page' \in Page
  BY <1>1
<1>4. \A c \in Calls : calls'[c].at = calls[c].at /\ calls'[c].setup = calls[c].setup
  BY <1>1
<1>5. chain' \in Chain /\ chain'.left <= chain.left /\ chain'.made = chain.made
      /\ chain'.late = chain.late /\ chain'.setups = chain.setups /\ pass' \in BOOLEAN
  BY Typed
<1>. QED  BY <1>1, <1>2, <1>3, <1>4, <1>5, QuietStep

\* A refresh renders what it has read.
LEMMA RefreshKeeps ==
  ASSUME MintInv, NEW r \in reads, Refresh(r)
  PROVE  MintInv'
<1>. DEFINE cs == [c \in Calls |-> [calls[c] EXCEPT !.current = FALSE]]
            a == ActiveFor(r)
            m == [by |-> r.by, active |-> a, soldOut |-> r.left = 0, loaded |-> TRUE]
            p == Refreshed(r)
<1>1. r.by \in Wallets /\ r.left \in Int /\ r.live \in BOOLEAN
  BY Typed, Sizes DEF Reads
<1>2. a \in BOOLEAN
  BY DEF ActiveFor
<1>3. m \in MachineObject
  BY <1>1, <1>2 DEF MachineObject
<1>4. p \in Page /\ p.setupTxn = page.setupTxn /\ p.minting = page.minting
  <2>. DEFINE y == machine.sale = "presale" /\ ~r.live
              z == IF machine.sale = "public" THEN page.isWhitelistUser ELSE r.by \in Listed
              u == r.by \in Funded
              v == page.countdown \/ ~chain.live
  <2>1. page.wallet \in Wallets /\ page.minting \in BOOLEAN
        /\ page.setupTxn \in Ids \cup {None} /\ page.isWhitelistUser \in BOOLEAN
    BY Typed DEF Page
  <2>2. y \in BOOLEAN /\ u \in BOOLEAN /\ v \in BOOLEAN
    OBVIOUS
  <2>3. z \in BOOLEAN
    <3>1. CASE machine.sale = "public"
      BY <2>1, <3>1
    <3>2. CASE machine.sale # "public"
      BY <3>2
    <3>. QED  BY <3>1, <3>2
  <2>4. p = [page EXCEPT !.itemsRemaining = r.left, !.isActive = a, !.isPresale = y,
                         !.isWhitelistUser = z, !.isValidBalance = u,
                         !.countdown = v, !.candyMachine = m]
    BY DEF Refreshed
  <2>. HIDE DEF a, m, p, y, z, u, v
  <2>5. p = [wallet |-> page.wallet, minting |-> page.minting, isActive |-> a,
             isPresale |-> y, isWhitelistUser |-> z, isValidBalance |-> u,
             itemsRemaining |-> r.left, setupTxn |-> page.setupTxn, countdown |-> v,
             candyMachine |-> m]
    BY <2>4, Typed DEF Page
  <2>. QED  BY <1>1, <1>2, <1>3, <2>1, <2>2, <2>3, <2>5 DEF Page
<1>5. cs \in [Calls -> Call]
      /\ \A c \in Calls : cs[c].at = calls[c].at /\ cs[c].setup = calls[c].setup
  BY Typed DEF Call
<1>6. Render(p, button, cs) /\ reads' \subseteq Reads /\ machine' = machine /\ chain' = chain
      /\ loops' = loops /\ told' = told /\ pass' = pass /\ luck' = luck
  BY Typed DEF Refresh
<1>. HIDE DEF p, cs
<1>. QED  BY <1>4, <1>5, <1>6, Typed, RenderedQuietly

\* Another wallet is connected.
LEMMA SwitchKeeps ==
  ASSUME MintInv, NEW w \in Wallets, Switch(w)
  PROVE  MintInv'
<1>. DEFINE p == [page EXCEPT !.wallet = w]
<1>1. p \in Page /\ p.setupTxn = page.setupTxn /\ p.minting = page.minting
  BY Typed DEF Page
<1>2. luck' \in Luck /\ luck'.faults = luck.faults
  BY Typed DEF Switch, Luck
<1>3. loops' \subseteq Wallets /\ reads' \subseteq Reads
  BY Typed, ReadTyped DEF Switch
<1>4. Render(p, button, calls) /\ machine' = machine /\ chain' = chain /\ told' = told
      /\ pass' = pass
  BY DEF Switch
<1>. HIDE DEF p
<1>. QED  BY <1>1, <1>2, <1>3, <1>4, Typed, RenderedQuietly

\* toggleMintButton changes what is active.
LEMMA CountdownKeeps ==
  ASSUME MintInv, Countdown
  PROVE  MintInv'
<1>. DEFINE a == /\ ~page.isActive \/ page.isPresale
                 /\ machine.sale = "restricted" => page.isWhitelistUser
            p == [page EXCEPT !.isActive = a, !.candyMachine.active = a,
                              !.isPresale = FALSE, !.countdown = FALSE]
<1>1. a \in BOOLEAN
  OBVIOUS
<1>2. Render(p, button, calls) /\ reads' = reads /\ loops' = loops /\ machine' = machine
      /\ chain' = chain /\ told' = told /\ pass' = pass /\ luck' = luck
  BY DEF Countdown
<1>. HIDE DEF a
<1>3. p \in Page /\ p.setupTxn = page.setupTxn /\ p.minting = page.minting
  <2>1. page.candyMachine \in MachineObject
    BY Typed DEF Page
  <2>2. [page.candyMachine EXCEPT !.active = a] \in MachineObject
    BY <1>1, <2>1 DEF MachineObject
  <2>. QED  BY <1>1, <2>2, Typed DEF Page
<1>. HIDE DEF p
<1>. QED  BY <1>2, <1>3, Typed, RenderedQuietly

\* Encore's pass comes in, or is noticed; the button does not listen for it
\* without a gateway.
LEMMA PassKeeps ==
  ASSUME MintInv, PassGranted \/ PassNoticed
  PROVE  MintInv'
<1>1. CASE PassGranted
  <2>1. /\ pass' = TRUE /\ machine' = machine /\ chain' = chain /\ page' = page
        /\ button' = button /\ calls' = calls /\ reads' = reads /\ loops' = loops
        /\ told' = told /\ luck' = luck
    BY <1>1 DEF PassGranted
  <2>. QED  BY <2>1, Typed, QuietStep
<1>2. CASE PassNoticed
  <2>1. /\ pass' = pass /\ machine' = machine /\ chain' = chain /\ page' = page
        /\ calls' = calls /\ reads' = reads /\ loops' = loops
        /\ told' = told /\ luck' = luck
    BY <1>2 DEF PassNoticed
  <2>2. button' \in Button
    BY <1>2, Typed DEF PassNoticed, Button
  <2>3. ~Apart
    BY <1>2, Typed DEF PassNoticed
  <2>. QED  BY <2>1, <2>2, <2>3, Typed, QuietStep
<1>. QED  BY <1>1, <1>2

\* Others take items, and the sale begins.
LEMMA SaleKeeps ==
  ASSUME MintInv, OthersMint \/ GoesLive
  PROVE  MintInv'
<1>1. /\ page' = page /\ button' = button /\ calls' = calls /\ reads' = reads
      /\ told' = told /\ luck' = luck /\ machine' = machine /\ loops' = loops /\ pass' = pass
  BY DEF OthersMint, GoesLive, Frame
<1>2. /\ chain' \in Chain /\ chain'.left <= chain.left /\ chain'.made = chain.made
      /\ chain'.late = chain.late /\ chain'.setups = chain.setups
  <2>1. CASE OthersMint
    BY <2>1, Typed DEF OthersMint, Chain
  <2>2. CASE GoesLive
    <3>1. chain' = [left |-> chain.left, live |-> TRUE, late |-> chain.late,
                    made |-> chain.made, setups |-> chain.setups]
      BY <2>2, Typed DEF GoesLive, Chain
    <3>2. chain' \in Chain
      BY <3>1, Typed DEF Chain
    <3>. QED  BY <3>1, <3>2, Typed
  <2>. QED  BY <2>1, <2>2
<1>. QED  BY <1>1, <1>2, Typed, QuietStep
-----------------------------------------------------------------------------
(* The steps of the button.                                                 *)

\* A step that leaves the chain and the set-up of the page alone.
LEMMA ChainUntouched ==
  ASSUME MintInv, machine' = machine, chain' = chain, page' \in Page, button' \in Button,
         calls' \in [Calls -> Call], reads' \subseteq Reads, loops' \subseteq Wallets,
         told' = told, pass' \in BOOLEAN, luck' \in Luck,
         luck.faults <= luck'.faults, luck'.faults <= MaxFaults,
         page'.setupTxn = page.setupTxn, Apart => OneCall'
  PROVE  MintInv'
<1>1. MintTyped /\ Bounded /\ Stands /\ (Apart => OneCall /\ Counted)
  BY DEF MintInv
<1>2. MintTyped'
  BY <1>1 DEF MintTyped
<1>3. Bounded'
  BY <1>1, Typed, BoundedKept
<1>4. Stands'
  BY <1>1 DEF Stands
<1>5. Apart => Counted'
  BY <1>1, CountedKept DEF StateOf
<1>. QED  BY <1>2, <1>3, <1>4, <1>5 DEF MintInv, Apart

\* A call has the set-up the page had in its render.
LEMMA ClosureTyped ==
  ASSUME MintInv, NEW at \in Places, NEW effect \in BOOLEAN
  PROVE  /\ Closure(at, effect) \in Call
         /\ Closure(at, effect).at = at /\ Closure(at, effect).setup = page.setupTxn
<1>1. /\ page.wallet \in Wallets /\ page.setupTxn \in Ids \cup {None}
      /\ page.itemsRemaining \in Int /\ page.candyMachine \in MachineObject
  BY Typed DEF Page
<1>2. page.candyMachine.by \in Wallets
  BY <1>1 DEF MachineObject
<1>. QED  BY <1>1, <1>2 DEF Closure, Call

\* onMint sets minting and begins with the set-up, if there is none.
LEMMA OnMintFacts ==
  ASSUME MintInv, NEW c \in Calls, NEW call \in Call, NEW b \in Button, OnMint(c, call, b)
  PROVE  /\ page' \in Page /\ page'.setupTxn = page.setupTxn /\ page'.minting = TRUE
         /\ button' \in Button /\ calls' \in [Calls -> Call]
         /\ calls'[c].at = (IF machine.split /\ call.setup = None THEN "setup" ELSE "mint")
         /\ calls'[c].setup = call.setup
         /\ \A x \in Calls \ {c} : calls'[x].at = calls[x].at /\ calls'[x].setup = calls[x].setup
         /\ machine.gate = "none" =>
              button'.listening = b.listening /\ button'.verified = b.verified
<1>. DEFINE at == IF machine.split /\ call.setup = None THEN "setup" ELSE "mint"
            p == [page EXCEPT !.minting = TRUE]
            e == [call EXCEPT !.at = at]
            cs == [calls EXCEPT ![c] = e]
<1>1. at \in Places
  BY DEF Places
<1>2. Render(p, b, cs)
  BY DEF OnMint
<1>. HIDE DEF at
<1>3. p \in Page /\ p.setupTxn = page.setupTxn /\ p.minting = TRUE
  BY Typed DEF Page
<1>4. e \in Call /\ e.at = at /\ e.setup = call.setup
  BY <1>1 DEF Call
<1>. HIDE DEF p, e
<1>5. cs \in [Calls -> Call] /\ cs[c] = e /\ \A x \in Calls \ {c} : cs[x] = calls[x]
  BY <1>4, Typed
<1>. HIDE DEF cs
<1>6. /\ page' = p /\ button' \in Button /\ calls' \in [Calls -> Call]
      /\ \A x \in Calls : calls'[x].at = cs[x].at /\ calls'[x].setup = cs[x].setup
      /\ machine.gate = "none" => button' = [b EXCEPT !.due = TRUE]
  BY <1>2, <1>3, <1>5, Typed, RenderFacts
<1>7. [b EXCEPT !.due = TRUE].listening = b.listening
      /\ [b EXCEPT !.due = TRUE].verified = b.verified
  BY DEF Button
<1>8. machine.gate = "none" => button'.listening = b.listening /\ button'.verified = b.verified
  BY <1>6, <1>7
<1>9. calls'[c].at = at /\ calls'[c].setup = call.setup
      /\ \A x \in Calls \ {c} : calls'[x].at = calls[x].at /\ calls'[x].setup = calls[x].setup
  BY <1>4, <1>5, <1>6
<1>. QED  BY <1>3, <1>6, <1>8, <1>9 DEF at

\* A click starts a call when none is under way: minting is not set.
LEMMA ClickKeeps ==
  ASSUME MintInv, NEW c \in Calls, Click(c)
  PROVE  MintInv'
<1>1. /\ machine' = machine /\ chain' = chain /\ reads' = reads /\ loops' = loops
      /\ told' = told /\ pass' = pass /\ luck' = luck /\ ~page.minting
  BY DEF Click, Enabled
<1>2. luck' \in Luck /\ luck.faults <= luck'.faults /\ luck'.faults <= MaxFaults
  BY <1>1, Typed DEF Luck, Bounded
<1>3. CASE Gated(page)
  <2>1. /\ page' = page /\ calls' = [calls EXCEPT ![c] = Closure("pass", FALSE)]
        /\ button' = [button EXCEPT !.clicked = TRUE, !.due = TRUE]
    BY <1>3 DEF Click
  <2>2. Closure("pass", FALSE) \in Call
    BY ClosureTyped DEF Places
  <2>3. calls' \in [Calls -> Call]
    BY <2>1, <2>2, Typed
  <2>4. button' \in Button
    BY <2>1, Typed DEF Button
  <2>5. ~Apart
    BY <1>3 DEF Gated, Apart
  <2>. QED  BY <1>1, <1>2, <2>1, <2>3, <2>4, <2>5, Typed, ChainUntouched
<1>4. CASE ~Gated(page)
  <2>. DEFINE call == Closure("mint", FALSE)
  <2>1. call \in Call /\ call.setup = page.setupTxn
    BY ClosureTyped DEF Places
  <2>2. OnMint(c, call, button)
    BY <1>4 DEF Click
  <2>. HIDE DEF call
  <2>3. /\ page' \in Page /\ page'.setupTxn = page.setupTxn /\ page'.minting = TRUE
        /\ button' \in Button /\ calls' \in [Calls -> Call]
        /\ calls'[c].at = (IF machine.split /\ call.setup = None THEN "setup" ELSE "mint")
        /\ calls'[c].setup = call.setup
        /\ \A x \in Calls \ {c} : calls'[x].at = calls[x].at
        /\ machine.gate = "none" =>
             button'.listening = button.listening /\ button'.verified = button.verified
    BY <2>1, <2>2, Typed, OnMintFacts
  <2>4. ASSUME Apart
        PROVE  OneCall'
    <3>1. \A x \in Calls : ~Active(x)
      BY <1>1, <2>4, Typed DEF OneCall
    <3>2. \A x \in Calls : Active(x)' => x = c
      BY <2>3, <3>1 DEF Active
    <3>3. ~button'.listening /\ ~button'.verified
      BY <2>3, <2>4, Typed
    <3>4. Holds(c)'
      BY <2>1, <2>3, <2>4 DEF Holds, Apart
    <3>. QED  BY <2>3, <3>2, <3>3, <3>4 DEF OneCall
  <2>. QED  BY <1>1, <1>2, <2>3, <2>4, Typed, ChainUntouched
<1>. QED  BY <1>3, <1>4

\* A call that waits for Encore's pass, or for the end of its notifications,
\* does not exist without a gateway.
LEMMA GatewayCalls ==
  ASSUME MintInv, NEW c \in Calls, calls[c].at \in {"pass", "unlisten"}
  PROVE  ~Apart
BY Typed DEF OneCall, Active, Holds

\* The pass is there, or is waited for.
LEMMA PassFoundKeeps ==
  ASSUME MintInv, NEW c \in Calls, PassFound(c)
  PROVE  MintInv'
<1>1. /\ machine' = machine /\ chain' = chain /\ reads' = reads /\ loops' = loops
      /\ told' = told /\ pass' = pass /\ luck' = luck /\ calls[c].at = "pass"
  BY DEF PassFound
<1>2. luck' \in Luck /\ luck.faults <= luck'.faults /\ luck'.faults <= MaxFaults
  BY <1>1, Typed DEF Luck, Bounded
<1>3. ~Apart
  BY <1>1, GatewayCalls
<1>4. calls[c] \in Call
  BY Typed
<1>5. /\ page' \in Page /\ page'.setupTxn = page.setupTxn /\ button' \in Button
      /\ calls' \in [Calls -> Call]
  <2>1. CASE pass
    <3>1. OnMint(c, calls[c], button)
      BY <2>1 DEF PassFound
    <3>. QED  BY <1>4, <3>1, Typed, OnMintFacts
  <2>2. CASE ~pass
    <3>. DEFINE l == button.listening \/ calls[c].own
    <3>1. /\ page' = page /\ calls' = [calls EXCEPT ![c] = Idle]
          /\ button' = [button EXCEPT !.listening = l, !.due = TRUE]
      BY <2>2 DEF PassFound
    <3>2. Idle \in Call
      BY Sizes DEF Idle, Call, Places
    <3>3. calls' \in [Calls -> Call]
      BY <3>1, <3>2, Typed
    <3>4. l \in BOOLEAN
      OBVIOUS
    <3>. HIDE DEF l
    <3>5. button' \in Button
      BY <3>1, <3>4, Typed DEF Button
    <3>. QED  BY <3>1, <3>3, <3>5, Typed
  <2>. QED  BY <2>1, <2>2
<1>. QED  BY <1>1, <1>2, <1>3, <1>5, Typed, ChainUntouched

\* The effect fires only with a pass that was noticed.
LEMMA EffectKeeps ==
  ASSUME MintInv, NEW c \in Calls, Effect(c)
  PROVE  MintInv'
<1>1. /\ machine' = machine /\ chain' = chain /\ page' = page /\ reads' = reads
      /\ loops' = loops /\ told' = told /\ pass' = pass /\ luck' = luck
  BY DEF Effect
<1>2. luck' \in Luck /\ luck.faults <= luck'.faults /\ luck'.faults <= MaxFaults
  BY <1>1, Typed DEF Luck, Bounded
<1>3. ~Apart
  BY Typed DEF Effect
<1>4. Closure("unlisten", TRUE) \in Call
  BY ClosureTyped DEF Places
<1>5. calls' \in [Calls -> Call]
  BY <1>4, Typed DEF Effect
<1>6. button' \in Button
  BY Typed DEF Effect, Button
<1>. QED  BY <1>1, <1>2, <1>3, <1>5, <1>6, Typed, ChainUntouched

\* A call of the effect starts when the notifications have ended.
LEMMA UnlistenedKeeps ==
  ASSUME MintInv, NEW c \in Calls, Unlistened(c)
  PROVE  MintInv'
<1>. DEFINE l == button.listening /\ ~calls[c].own
            b == [button EXCEPT !.listening = l]
<1>1. /\ machine' = machine /\ chain' = chain /\ reads' = reads /\ loops' = loops
      /\ told' = told /\ pass' = pass /\ luck' = luck /\ calls[c].at = "unlisten"
      /\ OnMint(c, calls[c], b)
  BY DEF Unlistened
<1>2. luck' \in Luck /\ luck.faults <= luck'.faults /\ luck'.faults <= MaxFaults
  BY <1>1, Typed DEF Luck, Bounded
<1>3. ~Apart
  BY <1>1, GatewayCalls
<1>4. l \in BOOLEAN
  OBVIOUS
<1>. HIDE DEF l
<1>5. b \in Button
  BY <1>4, Typed DEF Button
<1>. HIDE DEF b
<1>6. calls[c] \in Call
  BY Typed
<1>7. /\ page' \in Page /\ page'.setupTxn = page.setupTxn /\ button' \in Button
      /\ calls' \in [Calls -> Call]
  BY <1>1, <1>5, <1>6, OnMintFacts
<1>. QED  BY <1>1, <1>2, <1>3, <1>7, Typed, ChainUntouched
-----------------------------------------------------------------------------
(* The end of a call.                                                       *)

\* A call that ends gives its place back, and the effect is disarmed.
LEMMA EndedFacts ==
  ASSUME MintInv, NEW c \in Calls, NEW p \in Page, Ended(c, p)
  PROVE  /\ page' = p /\ button' \in Button /\ calls' \in [Calls -> Call]
         /\ calls'[c].at = "idle"
         /\ \A x \in Calls \ {c} : calls'[x].at = calls[x].at
         /\ Apart => ~button'.listening /\ ~button'.verified
<1>. DEFINE b == IF calls[c].effect /\ calls[c].own
                 THEN [button EXCEPT !.clicked = FALSE, !.verified = FALSE] ELSE button
            cs == [calls EXCEPT ![c] = Idle]
<1>1. Render(p, b, cs)
  BY DEF Ended
<1>2. /\ [button EXCEPT !.clicked = FALSE, !.verified = FALSE] \in Button
      /\ [button EXCEPT !.clicked = FALSE, !.verified = FALSE].listening = button.listening
      /\ [button EXCEPT !.clicked = FALSE, !.verified = FALSE].verified = FALSE
  BY Typed DEF Button
<1>3. b \in Button /\ (Apart => ~b.listening /\ ~b.verified)
  <2>1. CASE calls[c].effect /\ calls[c].own
    BY <1>2, <2>1, Typed
  <2>2. CASE ~(calls[c].effect /\ calls[c].own)
    BY <2>2, Typed
  <2>. QED  BY <2>1, <2>2
<1>. HIDE DEF b
<1>4. Idle \in Call /\ Idle.at = "idle"
  BY Sizes DEF Idle, Call, Places
<1>5. cs \in [Calls -> Call] /\ cs[c] = Idle /\ \A x \in Calls \ {c} : cs[x] = calls[x]
  BY <1>4, Typed
<1>. HIDE DEF cs
<1>6. /\ page' = p /\ button' \in Button /\ calls' \in [Calls -> Call]
      /\ \A x \in Calls : calls'[x].at = cs[x].at /\ calls'[x].setup = cs[x].setup
      /\ machine.gate = "none" => button' = [b EXCEPT !.due = TRUE]
  BY <1>1, <1>3, <1>5, Typed, RenderFacts
<1>7. [b EXCEPT !.due = TRUE].listening = b.listening
      /\ [b EXCEPT !.due = TRUE].verified = b.verified
  BY <1>3 DEF Button
<1>8. Apart => ~button'.listening /\ ~button'.verified
  BY <1>3, <1>6, <1>7, Typed
<1>. QED  BY <1>4, <1>5, <1>6, <1>8

\* The refresh after a call reads the chain as it is then.
LEMMA RefreshForTyped ==
  ASSUME MintInv, NEW c \in Calls, RefreshFor(c), chain' \in Chain, chain'.left <= chain.left
  PROVE  reads' \subseteq Reads
<1>1. calls[c].wallet \in Wallets
  BY Typed DEF Call
<1>2. chain.left <= Supply /\ chain.left \in Nat /\ Supply \in Nat
  BY Typed, ReadTyped, Sizes
<1>3. chain'.left \in 0 .. Supply /\ chain'.live \in BOOLEAN
  BY <1>2 DEF Chain
<1>. DEFINE r == [by |-> calls[c].wallet, left |-> chain'.left, live |-> chain'.live]
<1>4. r \in Reads
  BY <1>1, <1>3 DEF Reads
<1>5. reads' = reads \cup {r}
  BY DEF RefreshFor
<1>. HIDE DEF r
<1>. QED  BY <1>4, <1>5, Typed

\* A call that failed gives the button back and refreshes; the set-up stays.
LEMMA FailedFacts ==
  ASSUME MintInv, NEW c \in Calls, Failed(c), chain' \in Chain, chain'.left <= chain.left
  PROVE  /\ page' \in Page /\ button' \in Button /\ calls' \in [Calls -> Call]
         /\ reads' \subseteq Reads /\ told' = told
         /\ page'.setupTxn = page.setupTxn
         /\ calls'[c].at = "idle"
         /\ \A x \in Calls \ {c} : calls'[x].at = calls[x].at
         /\ Apart => ~button'.listening /\ ~button'.verified
<1>. DEFINE p == [page EXCEPT !.minting = FALSE]
<1>1. Ended(c, p) /\ RefreshFor(c) /\ told' = told
  BY DEF Failed
<1>2. p \in Page /\ p.setupTxn = page.setupTxn
  BY Typed DEF Page
<1>. HIDE DEF p
<1>. QED  BY <1>1, <1>2, EndedFacts, RefreshForTyped

\* A failed call leaves the page as it was before the click, except that a set-up
\* that was confirmed stays.
LEMMA FailedKeeps ==
  ASSUME MintInv, NEW c \in Calls, Active(c), Failed(c), chain' = chain,
         Fault \/ NoFault, Frame
  PROVE  MintInv'
<1>1. chain' \in Chain /\ chain'.left <= chain.left
  BY Typed
<1>2. /\ page' \in Page /\ button' \in Button /\ calls' \in [Calls -> Call]
      /\ reads' \subseteq Reads /\ told' = told /\ page'.setupTxn = page.setupTxn
      /\ calls'[c].at = "idle" /\ \A x \in Calls \ {c} : calls'[x].at = calls[x].at
      /\ Apart => ~button'.listening /\ ~button'.verified
  BY <1>1, FailedFacts
<1>3. luck' \in Luck /\ luck.faults <= luck'.faults /\ luck'.faults <= MaxFaults
  BY Typed, LuckCounted
<1>4. machine' = machine /\ loops' = loops /\ pass' = pass
  BY DEF Frame
<1>5. Apart => OneCall'
  BY <1>2, Typed, CallEnds
<1>. QED  BY <1>2, <1>3, <1>4, <1>5, Typed, ChainUntouched

\* Whatever of the set-up or the mint failed or was not answered.
LEMMA FailuresKeep ==
  ASSUME MintInv, NEW c \in Calls,
         SetupFails(c) \/ ConfirmFails(c) \/ MintRefused(c) \/ AwaitFails(c) \/ LikelyFailed(c)
  PROVE  MintInv'
<1>1. Active(c) /\ Failed(c) /\ chain' = chain /\ Frame
  BY DEF SetupFails, ConfirmFails, MintRefused, AwaitFails, LikelyFailed, Step, Active
<1>2. Fault \/ NoFault
  BY DEF SetupFails, ConfirmFails, MintRefused, AwaitFails, LikelyFailed
<1>. QED  BY <1>1, <1>2, FailedKeeps

-----------------------------------------------------------------------------
(* The steps of the set-up.                                                 *)

\* A new set-up (createAccountsForMint) takes a name nobody refers to, so that
\* neither the page's nor a late mint's changes.
LEMMA SetupKeeps ==
  ASSUME MintInv, NEW c \in Calls, Setup(c)
  PROVE  MintInv'
<1>1. PICK state \in {"none", "ready"} : SetupSent(c, state)
  BY DEF Setup
<1>2. /\ machine' = machine /\ loops' = loops /\ pass' = pass /\ page' = page
      /\ button' = button /\ reads' = reads /\ told' = told /\ calls[c].at = "setup"
  BY <1>1 DEF Setup, Frame, SetupSent, Step
<1>3. luck' \in Luck /\ luck.faults <= luck'.faults /\ luck'.faults <= MaxFaults
  <2>1. Fault \/ NoFault
    BY DEF Setup
  <2>. QED  BY <2>1, Typed, LuckCounted
<1>. DEFINE new == [state |-> state, owner |-> calls[c].wallet]
            setups == [chain.setups EXCEPT ![Fresh] = new]
<1>4. Fresh \in Ids /\ Fresh # page.setupTxn /\ Fresh # None
      /\ (\A x \in Calls : calls[x].setup # Fresh) /\ \A m \in chain.late : m.setup # Fresh
  BY Typed, FreshIsUnused, Sizes
<1>5. new \in Setups /\ new.state = state
  BY Typed DEF Call, Setups
<1>6. chain' = [chain EXCEPT !.setups = setups]
  BY <1>1, Typed DEF SetupSent, Chain
<1>. HIDE DEF new
<1>7. setups \in [Ids -> Setups] /\ setups[Fresh] = new
      /\ \A i \in Ids \ {Fresh} : setups[i] = chain.setups[i]
  <2>1. chain.setups \in [Ids -> Setups]
    BY Typed DEF Chain
  <2>. QED  BY <1>4, <1>5, <2>1
<1>. HIDE DEF setups
<1>8. /\ chain' \in Chain /\ chain'.left = chain.left /\ chain'.made = chain.made
      /\ chain'.late = chain.late /\ chain'.setups = setups
  BY <1>6, <1>7, Typed DEF Chain
<1>9. \A i \in Ids \ {Fresh} : StateOf(i)' = StateOf(i)
  BY <1>7, <1>8 DEF StateOf
<1>10. chain'.setups[Fresh].state = state
  BY <1>5, <1>7, <1>8
<1>11. /\ calls' \in [Calls -> Call] /\ calls'[c].at = "confirm" /\ calls'[c].setup = Fresh
       /\ \A x \in Calls \ {c} : calls'[x].at = calls[x].at
  <2>. DEFINE e == [calls[c] EXCEPT !.at = "confirm", !.setup = Fresh]
  <2>1. e \in Call /\ e.at = "confirm" /\ e.setup = Fresh
    BY <1>4, Typed DEF Call, Places
  <2>2. calls' = [calls EXCEPT ![c] = e]
    BY <1>1, Typed DEF SetupSent
  <2>. HIDE DEF e
  <2>. QED  BY <2>1, <2>2, Typed
<1>12. MintTyped'
  BY <1>2, <1>3, <1>8, <1>11, Typed DEF MintTyped
<1>13. Bounded'
  <2>1. chain'.left <= chain.left
    BY <1>8, Typed
  <2>. QED  BY <1>2, <1>3, <1>8, <2>1, Typed, BoundedKept
<1>14. page.setupTxn \in Ids \cup {None}
  BY Typed DEF Page
<1>15. Stands'
  <2>1. Stands
    BY DEF MintInv
  <2>. QED  BY <1>2, <1>4, <1>9, <1>14, <2>1 DEF Stands, StateOf
<1>16. ASSUME Apart
       PROVE  OneCall' /\ Counted'
  <2>1. OneCall /\ Counted /\ Active(c) /\ ~button.listening /\ ~button.verified
    BY <1>2, <1>16, Typed DEF Active
  <2>2. page.minting /\ page.setupTxn = None
    BY <1>2, <2>1 DEF OneCall, Holds
  <2>3. Holds(c)'
    BY <1>2, <1>4, <1>10, <1>11, <2>2 DEF Holds, StateOf
  <2>4. OneCall'
    BY <1>2, <1>11, <2>1, <2>2, <2>3, CallMoves
  <2>5. ~Spent /\ ~Spent'
    <3>1. page.setupTxn = None /\ page'.setupTxn = None
      BY <1>2, <2>2
    <3>. QED  BY <3>1 DEF Spent
  <2>6. Made' = Made
    BY <1>8, MadeKept
  <2>7. \A m \in chain'.late :
          m.setup # None /\ (m.setup = page'.setupTxn \/ StateOf(m.setup)' = "minted")
    <3>1. TAKE m \in chain'.late
    <3>2. m \in chain.late /\ m.setup \in Ids \cup {None} /\ m.setup # Fresh
      BY <1>4, <1>8, Typed DEF Chain, LateMints
    <3>3. m.setup # None /\ StateOf(m.setup) = "minted"
      BY <2>1, <2>2, <3>2 DEF Counted
    <3>. QED  BY <1>9, <3>2, <3>3
  <2>8. Counted'
    BY <1>2, <2>1, <2>5, <2>6, <2>7 DEF Counted
  <2>. QED  BY <2>4, <2>8
<1>. QED  BY <1>2, <1>12, <1>13, <1>15, <1>16 DEF MintInv, Apart
\* The set-up is confirmed and the page keeps it: it is not used up yet.
LEMMA ConfirmKeeps ==
  ASSUME MintInv, NEW c \in Calls, Confirm(c)
  PROVE  MintInv'
<1>. DEFINE p == SetupKept(c)
            e == [calls[c] EXCEPT !.at = "mint"]
            cs == [calls EXCEPT ![c] = e]
            i == calls[c].setup
<1>1. /\ Render(p, button, cs) /\ machine' = machine /\ chain' = chain /\ loops' = loops
      /\ pass' = pass /\ luck' = luck /\ reads' = reads /\ told' = told
      /\ calls[c].at = "confirm" /\ chain.setups[i].state # "none"
  BY DEF Confirm, Step, NoFault, Frame
<1>2. luck' \in Luck /\ luck.faults <= luck'.faults /\ luck'.faults <= MaxFaults
  BY <1>1, Typed DEF Luck, Bounded
<1>3. i \in Ids \cup {None}
  BY Typed DEF Call
<1>4. e \in Call /\ e.at = "mint" /\ e.setup = i
  BY Typed DEF Call, Places
<1>. HIDE DEF i, e
<1>5. p = [page EXCEPT !.setupTxn = i]
  BY DEF SetupKept, i
<1>. HIDE DEF p
<1>6. p \in Page /\ p.setupTxn = i /\ p.minting = page.minting
  BY <1>3, <1>5, Typed DEF Page
<1>7. cs \in [Calls -> Call] /\ cs[c] = e /\ \A x \in Calls \ {c} : cs[x] = calls[x]
  BY <1>4, Typed
<1>. HIDE DEF cs
<1>8. /\ page' = p /\ button' \in Button /\ calls' \in [Calls -> Call]
      /\ \A x \in Calls : calls'[x].at = cs[x].at /\ calls'[x].setup = cs[x].setup
      /\ machine.gate = "none" => button' = [button EXCEPT !.due = TRUE]
  BY <1>1, <1>6, <1>7, Typed, RenderFacts
<1>9. [button EXCEPT !.due = TRUE].listening = button.listening
      /\ [button EXCEPT !.due = TRUE].verified = button.verified
  BY Typed DEF Button
<1>10. MintTyped'
  BY <1>1, <1>2, <1>6, <1>8, Typed DEF MintTyped
<1>11. Bounded'
  BY <1>1, <1>2, Typed, BoundedKept
<1>12. Stands'
  BY <1>1, <1>6, <1>8 DEF Stands
<1>13. ASSUME Apart
       PROVE  OneCall' /\ Counted'
  <2>1. OneCall /\ Counted /\ Active(c)
    BY <1>1, <1>13, Typed DEF Active
  <2>2. page.minting /\ i # None /\ page.setupTxn = None /\ StateOf(i) # "minted"
    BY <1>1, <2>1 DEF OneCall, Holds, i
  <2>3. ~button'.listening /\ ~button'.verified
    BY <1>8, <1>9, <1>13, Typed
  <2>4. calls'[c].at = "mint" /\ calls'[c].setup = i
        /\ \A x \in Calls \ {c} : calls'[x].at = calls[x].at
    BY <1>4, <1>7, <1>8
  <2>5. Holds(c)'
    BY <1>6, <1>8, <2>2, <2>4 DEF Holds
  <2>6. page'.minting
    BY <1>6, <1>8, <2>2
  <2>7. OneCall'
    BY <2>1, <2>3, <2>4, <2>5, <2>6, CallMoves
  <2>8. page.setupTxn = None /\ page'.setupTxn = i /\ chain'.setups[i].state # "minted"
    BY <1>1, <1>6, <1>8, <2>2 DEF StateOf
  <2>9. ~Spent /\ ~Spent'
    BY <2>8 DEF Spent, StateOf
  <2>10. Made' = Made /\ Made = told
    <3>1. Made' = Made
      BY <1>1, MadeKept
    <3>. QED  BY <2>1, <2>9, <3>1, Typed DEF Counted
  <2>11. \A m \in chain'.late : m.setup # None /\ StateOf(m.setup)' = "minted"
    <3>1. TAKE m \in chain'.late
    <3>2. m \in chain.late
      BY <1>1
    <3>3. m.setup # None /\ StateOf(m.setup) = "minted"
      BY <2>1, <2>2, <3>2 DEF Counted
    <3>. QED  BY <1>1, <3>3 DEF StateOf
  <2>12. Counted'
    <3>1. told' = told /\ told \in Nat
      BY <1>1, Typed
    <3>2. Made' = told' + 0
      BY <2>10, <3>1
    <3>. QED  BY <2>9, <2>11, <3>2 DEF Counted
  <2>. QED  BY <2>7, <2>12
<1>. QED  BY <1>1, <1>10, <1>11, <1>12, <1>13 DEF MintInv, Apart

-----------------------------------------------------------------------------
(* The steps of the mint.                                                   *)

\* A token is made with the set-up of the page, and the page has not said so yet.
LEMMA MintedCounted ==
  ASSUME MintInv, Apart, NEW w \in Wallets, NEW i \in Ids, Mintable(w, i),
         page.setupTxn = i, page'.setupTxn = i, told' = told,
         chain'.made = Minted(w, i).made, chain'.setups = Minted(w, i).setups,
         chain'.late \subseteq chain.late
  PROVE  Counted'
<1>1. i # None
  BY Sizes
<1>2. /\ chain'.made = [chain.made EXCEPT ![w] = chain.made[w] + 1]
      /\ \A j \in Ids : StateOf(j)' = IF j = i THEN "minted" ELSE StateOf(j)
      /\ StateOf(i) = "ready"
  <2>1. /\ Minted(w, i).made = [chain.made EXCEPT ![w] = chain.made[w] + 1]
        /\ \A j \in Ids : Minted(w, i).setups[j].state = IF j = i THEN "minted" ELSE StateOf(j)
        /\ StateOf(i) = "ready"
    BY <1>1, Typed, MintedFacts
  <2>2. \A j \in Ids : StateOf(j)' = Minted(w, i).setups[j].state
    BY DEF StateOf
  <2>. QED  BY <2>1, <2>2
<1>3. ~Spent /\ Spent'
  BY <1>1, <1>2 DEF Spent, StateOf
<1>4. Made = told /\ told \in Nat
  BY <1>3, Typed DEF Counted
<1>5. Made' = Made + 1
  <2>1. chain.made \in [Wallets -> Nat] /\ IsFiniteSet(Wallets)
    BY MintAssumption, Typed DEF Chain
  <2>2. Total([chain.made EXCEPT ![w] = chain.made[w] + 1]) = Total(chain.made) + 1
    BY <2>1, TotalOf
  <2>3. Total(chain'.made) = Total(chain.made) + 1
    BY <1>2, <2>2
  <2>. QED  BY <2>3, MadeIs
<1>6. \A m \in chain'.late : m.setup # None /\ (m.setup = page'.setupTxn \/ StateOf(m.setup)' = "minted")
  <2>1. TAKE m \in chain'.late
  <2>2. m \in chain.late
    OBVIOUS
  <2>3. m.setup # None /\ (m.setup = page.setupTxn \/ StateOf(m.setup) = "minted")
    BY <2>2, Typed DEF Counted
  <2>4. m.setup \in Ids
    BY <2>2, <2>3, Typed DEF Chain, LateMints
  <2>. QED  BY <1>2, <2>3, <2>4
<1>7. Made' = told' + 1
  BY <1>4, <1>5
<1>. QED  BY <1>3, <1>6, <1>7 DEF Counted

\* A set-up that stands goes on standing when a token is made.
LEMMA MintedStands ==
  ASSUME MintInv, NEW w \in Wallets, NEW i \in Ids \cup {None}, Mintable(w, i),
         page'.setupTxn = page.setupTxn, chain'.setups = Minted(w, i).setups
  PROVE  Stands'
<1>1. Stands /\ page.setupTxn \in Ids \cup {None}
  BY Typed DEF MintInv, Page
<1>2. \A j \in Ids : chain'.setups[j].state = IF j = i THEN "minted" ELSE chain.setups[j].state
  <2>1. \A j \in Ids : Minted(w, i).setups[j].state = IF j = i THEN "minted" ELSE StateOf(j)
    BY Typed, MintedFacts
  <2>. QED  BY <2>1 DEF StateOf
<1>. QED  BY <1>1, <1>2 DEF Stands

\* The bounds hold when a token is made and no late mint is added.
LEMMA MintedBounded ==
  ASSUME MintInv, NEW w \in Wallets, NEW i \in Ids \cup {None}, Mintable(w, i),
         machine' = machine, chain'.left = Minted(w, i).left, chain'.made = Minted(w, i).made,
         chain'.late \subseteq chain.late,
         luck' \in Luck, luck.faults <= luck'.faults, luck'.faults <= MaxFaults
  PROVE  Bounded'
<1>1. \A v \in Wallets : chain'.left + chain'.made[v] <= machine'.items
  BY Typed, MintedFacts
<1>2. IsFiniteSet(chain.late) /\ Cardinality(chain.late) <= luck.faults
  BY Typed DEF Bounded
<1>3. IsFiniteSet(chain'.late) /\ Cardinality(chain'.late) <= Cardinality(chain.late)
  BY <1>2, FS_Subset
<1>4. Cardinality(chain.late) \in Nat /\ Cardinality(chain'.late) \in Nat
      /\ luck.faults \in Nat /\ luck'.faults \in Nat
  BY <1>2, <1>3, FS_CardinalityType, Typed DEF Luck
<1>5. Cardinality(chain'.late) <= luck'.faults
  BY <1>2, <1>3, <1>4
<1>. QED  BY <1>1, <1>3, <1>5 DEF Bounded
\* What a call at its mint knows when the set-up is apart.
LEMMA MintingCall ==
  ASSUME MintInv, Apart, NEW c \in Calls, calls[c].at \in {"mint", "await", "look"}
  PROVE  /\ OneCall /\ Counted /\ Active(c) /\ page.minting
         /\ calls[c].setup \in Ids /\ page.setupTxn = calls[c].setup
<1>1. OneCall /\ Counted /\ Active(c)
  BY Typed DEF Active
<1>2. page.minting /\ Holds(c)
  BY <1>1 DEF OneCall
<1>3. calls[c].setup \in Ids \cup {None} /\ calls[c].setup # None
      /\ page.setupTxn = calls[c].setup
  BY <1>2, Typed DEF Holds, Call
<1>. QED  BY <1>1, <1>2, <1>3

\* A call that moves on to the transaction's end, or to the look at the chain.
LEMMA MovedOn ==
  ASSUME MintInv, NEW c \in Calls, calls[c].at \in {"mint", "await"},
         NEW e \in Call, calls' = [calls EXCEPT ![c] = e],
         e.at \in {"await", "look"}, e.setup = calls[c].setup, page' = page, button' = button
  PROVE  calls' \in [Calls -> Call] /\ (Apart => OneCall')
<1>1. /\ calls' \in [Calls -> Call] /\ calls'[c] = e
      /\ \A x \in Calls \ {c} : calls'[x].at = calls[x].at
  BY Typed
<1>2. ASSUME Apart
      PROVE  OneCall'
  <2>1. OneCall /\ Active(c) /\ page.minting
        /\ calls[c].setup \in Ids /\ page.setupTxn = calls[c].setup
    BY <1>2, MintingCall
  <2>2. calls[c].setup # None
    BY <2>1, Sizes
  <2>3. Holds(c)'
    BY <1>1, <2>1, <2>2 DEF Holds
  <2>4. page'.minting
    BY <2>1
  <2>5. ~button'.listening /\ ~button'.verified
    BY <1>2, Typed
  <2>. QED  BY <1>1, <2>1, <2>3, <2>4, <2>5, CallMoves
<1>. QED  BY <1>1, <1>2

\* The transaction is answered, or the program took its fee only.
LEMMA AwaitKeeps ==
  ASSUME MintInv, NEW c \in Calls, Taxed(c) \/ Await(c)
  PROVE  MintInv'
<1>1. /\ machine' = machine /\ chain' = chain /\ page' = page /\ button' = button
      /\ reads' = reads /\ loops' = loops /\ told' = told /\ pass' = pass /\ luck' = luck
      /\ calls[c].at \in {"mint", "await"}
  BY DEF Taxed, Await, Step, NoFault, Frame
<1>2. luck' \in Luck /\ luck.faults <= luck'.faults /\ luck'.faults <= MaxFaults
  BY <1>1, Typed DEF Luck, Bounded
<1>3. PICK at \in {"await", "look"} : calls' = [calls EXCEPT ![c].at = at]
  BY DEF Taxed, Await
<1>. DEFINE e == [calls[c] EXCEPT !.at = at]
<1>4. e \in Call /\ e.at = at /\ e.setup = calls[c].setup
  BY Typed DEF Call, Places
<1>5. calls' = [calls EXCEPT ![c] = e]
  BY <1>3
<1>. HIDE DEF e
<1>6. calls' \in [Calls -> Call] /\ (Apart => OneCall')
  BY <1>1, <1>4, <1>5, MovedOn
<1>. QED  BY <1>1, <1>2, <1>6, Typed, ChainUntouched

\* The mint lands and is answered.
LEMMA MintKeeps ==
  ASSUME MintInv, NEW c \in Calls, Mint(c)
  PROVE  MintInv'
<1>. DEFINE w == calls[c].wallet
            i == calls[c].setup
            e == [calls[c] EXCEPT !.at = "await", !.minted = TRUE]
<1>1. /\ machine' = machine /\ page' = page /\ button' = button
      /\ reads' = reads /\ loops' = loops /\ told' = told /\ pass' = pass /\ luck' = luck
      /\ calls[c].at = "mint" /\ Mintable(w, i) /\ chain' = Minted(w, i)
  BY DEF Mint, Accepted, Step, NoFault, Frame
<1>2. luck' \in Luck /\ luck.faults <= luck'.faults /\ luck'.faults <= MaxFaults
  BY <1>1, Typed DEF Luck, Bounded
<1>3. w \in Wallets /\ i \in Ids \cup {None}
  BY Typed DEF Call
<1>4. e \in Call /\ e.at = "await" /\ e.setup = calls[c].setup
  BY Typed DEF Call, Places
<1>5. calls' = [calls EXCEPT ![c] = e]
  BY Typed DEF Mint
<1>. HIDE DEF e
<1>6. calls' \in [Calls -> Call] /\ (Apart => OneCall')
  BY <1>1, <1>4, <1>5, MovedOn
<1>. HIDE DEF w, i
<1>7. chain' \in Chain /\ chain'.late = chain.late
  BY <1>1, <1>3, Typed, MintedFacts
<1>8. MintTyped'
  BY <1>1, <1>2, <1>6, <1>7, Typed DEF MintTyped
<1>9. Bounded'
  BY <1>1, <1>2, <1>3, <1>7, MintedBounded
<1>10. Stands'
  BY <1>1, <1>3, MintedStands
<1>11. ASSUME Apart
       PROVE  Counted'
  <2>1. i \in Ids /\ page.setupTxn = i
    BY <1>1, <1>11, MintingCall DEF i
  <2>. QED  BY <1>1, <1>3, <1>7, <1>11, <2>1, MintedCounted
<1>. QED  BY <1>1, <1>6, <1>8, <1>9, <1>10, <1>11 DEF MintInv, Apart

\* The caller is not told: the mint landed, will land later, or never does.  It
\* was sent with the set-up of the page.
LEMMA MintUntoldKeeps ==
  ASSUME MintInv, NEW c \in Calls, MintUntold(c)
  PROVE  MintInv'
<1>. DEFINE w == calls[c].wallet
            i == calls[c].setup
            m == [wallet |-> w, setup |-> i]
<1>1. /\ machine' = machine /\ loops' = loops /\ pass' = pass /\ Fault /\ Failed(c) /\ Frame
      /\ calls[c].at = "mint" /\ Mintable(w, i) /\ Active(c)
  BY DEF MintUntold, Accepted, Step, Frame, Active
<1>2. /\ luck' \in Luck /\ luck.faults <= luck'.faults /\ luck'.faults <= MaxFaults
      /\ luck'.faults = luck.faults + 1 /\ luck.faults \in Nat
  BY <1>1, Typed, LuckCounted
<1>3. w \in Wallets /\ i \in Ids \cup {None}
  BY Typed DEF Call
<1>4. CASE chain' = chain
  BY <1>1, <1>4, FailedKeeps
<1>5. CASE chain' = Minted(w, i)
  <2>. HIDE DEF w, i
  <2>1. chain' \in Chain /\ chain'.left <= chain.left /\ chain'.late = chain.late
    <3>1. Minted(w, i) \in Chain /\ Minted(w, i).left = chain.left - 1
          /\ Minted(w, i).late = chain.late
      BY <1>1, <1>3, Typed, MintedFacts
    <3>. QED  BY <1>5, <3>1, Typed
  <2>2. /\ page' \in Page /\ button' \in Button /\ calls' \in [Calls -> Call]
        /\ reads' \subseteq Reads /\ told' = told /\ page'.setupTxn = page.setupTxn
        /\ calls'[c].at = "idle" /\ \A x \in Calls \ {c} : calls'[x].at = calls[x].at
        /\ Apart => ~button'.listening /\ ~button'.verified
    BY <1>1, <2>1, FailedFacts
  <2>3. MintTyped'
    BY <1>1, <1>2, <2>1, <2>2, Typed DEF MintTyped
  <2>4. Bounded'
    BY <1>1, <1>2, <1>3, <1>5, <2>1, MintedBounded
  <2>5. Stands'
    BY <1>1, <1>3, <1>5, <2>2, MintedStands
  <2>6. ASSUME Apart
        PROVE  OneCall' /\ Counted'
    <3>1. i \in Ids /\ page.setupTxn = i /\ OneCall
      BY <1>1, <2>6, MintingCall DEF i
    <3>2. OneCall'
      BY <1>1, <2>2, <2>6, <3>1, CallEnds
    <3>3. Counted'
      BY <1>1, <1>3, <1>5, <2>1, <2>2, <2>6, <3>1, MintedCounted
    <3>. QED  BY <3>2, <3>3
  <2>. QED  BY <1>1, <2>3, <2>4, <2>5, <2>6 DEF MintInv, Apart
<1>6. CASE m \notin chain.late /\ chain' = [chain EXCEPT !.late = chain.late \cup {m}]
  <2>1. m \in LateMints /\ m.setup = i
    BY <1>3 DEF LateMints
  <2>. HIDE DEF w, i, m
  <2>2. chain.late \cup {m} \in SUBSET LateMints
    BY <2>1, Typed DEF Chain
  <2>3. /\ chain' \in Chain /\ chain'.left = chain.left /\ chain'.made = chain.made
        /\ chain'.setups = chain.setups /\ chain'.late = chain.late \cup {m}
    BY <1>6, <2>2, Typed DEF Chain
  <2>4. chain'.left <= chain.left
    BY <2>3, Typed
  <2>5. /\ page' \in Page /\ button' \in Button /\ calls' \in [Calls -> Call]
        /\ reads' \subseteq Reads /\ told' = told /\ page'.setupTxn = page.setupTxn
        /\ calls'[c].at = "idle" /\ \A x \in Calls \ {c} : calls'[x].at = calls[x].at
        /\ Apart => ~button'.listening /\ ~button'.verified
    BY <1>1, <2>3, <2>4, FailedFacts
  <2>6. MintTyped'
    BY <1>1, <1>2, <2>3, <2>5, Typed DEF MintTyped
  <2>7. Bounded'
    <3>1. \A v \in Wallets : chain'.left + chain'.made[v] <= machine'.items
      BY <1>1, <2>3, Typed DEF Bounded
    <3>2. IsFiniteSet(chain.late) /\ Cardinality(chain.late) <= luck.faults
      BY Typed DEF Bounded
    <3>3. IsFiniteSet(chain'.late) /\ Cardinality(chain'.late) = Cardinality(chain.late) + 1
      BY <1>6, <2>3, <3>2, FS_AddElement
    <3>4. Cardinality(chain.late) \in Nat
      BY <3>2, FS_CardinalityType
    <3>5. Cardinality(chain'.late) <= luck'.faults
      BY <1>2, <3>2, <3>3, <3>4
    <3>. QED  BY <1>2, <3>1, <3>3, <3>5 DEF Bounded
  <2>8. Stands'
    BY <2>3, <2>5 DEF Stands, MintInv
  <2>9. ASSUME Apart
        PROVE  OneCall' /\ Counted'
    <3>1. i \in Ids /\ page.setupTxn = i /\ OneCall /\ Counted
      BY <1>1, <2>9, MintingCall DEF i
    <3>2. OneCall'
      BY <1>1, <2>5, <2>9, <3>1, CallEnds
    <3>3. Spent' = Spent
      BY <2>3, <2>5 DEF Spent, StateOf
    <3>4. Made' = Made
      BY <2>3, MadeKept
    <3>5. \A n \in chain'.late :
            n.setup # None /\ (n.setup = page'.setupTxn \/ StateOf(n.setup)' = "minted")
      <4>1. \A n \in chain.late :
              n.setup # None /\ (n.setup = page.setupTxn \/ StateOf(n.setup) = "minted")
        BY <3>1 DEF Counted
      <4>2. m.setup # None /\ m.setup = page.setupTxn
        BY <2>1, <3>1, Sizes
      <4>. QED  BY <2>3, <2>5, <4>1, <4>2 DEF StateOf
    <3>6. Counted'
      BY <2>5, <3>1, <3>3, <3>4, <3>5 DEF Counted
    <3>. QED  BY <3>2, <3>6
  <2>. QED  BY <1>1, <2>6, <2>7, <2>8, <2>9 DEF MintInv, Apart
<1>. QED  BY <1>4, <1>5, <1>6 DEF MintUntold
\* A late mint lands only while its set-up is ready, so that it is the page's.
LEMMA LateMintKeeps ==
  ASSUME MintInv, NEW m \in chain.late, LateMint(m)
  PROVE  MintInv'
<1>. DEFINE w == m.wallet
            i == m.setup
            next == IF Mintable(w, i) THEN Minted(w, i) ELSE chain
            late == chain.late \ {m}
<1>1. /\ machine' = machine /\ page' = page /\ button' = button /\ calls' = calls
      /\ reads' = reads /\ loops' = loops /\ told' = told /\ pass' = pass /\ luck' = luck
      /\ chain' = [next EXCEPT !.late = late]
  BY Typed DEF LateMint, Frame, Minted, Chain
<1>2. luck' \in Luck /\ luck.faults <= luck'.faults /\ luck'.faults <= MaxFaults
  BY <1>1, Typed DEF Luck, Bounded
<1>3. w \in Wallets /\ i \in Ids \cup {None}
  BY Typed DEF Chain, LateMints
<1>. HIDE DEF w, i
<1>4. next \in Chain
  BY <1>3, Typed, MintedFacts
<1>. HIDE DEF next
<1>5. late \in SUBSET LateMints /\ late \subseteq chain.late
  BY Typed DEF Chain
<1>. HIDE DEF late
<1>6. /\ chain' \in Chain /\ chain'.left = next.left /\ chain'.made = next.made
      /\ chain'.setups = next.setups /\ chain'.late = late
  BY <1>1, <1>4, <1>5 DEF Chain
<1>7. MintTyped'
  BY <1>1, <1>2, <1>6, Typed DEF MintTyped
<1>8. ASSUME Apart
      PROVE  /\ OneCall /\ Counted
             /\ Mintable(w, i) => i \in Ids /\ page.setupTxn = i
  <2>1. OneCall /\ Counted
    BY <1>8, Typed
  <2>2. i # None /\ (i = page.setupTxn \/ StateOf(i) = "minted")
    BY <2>1 DEF Counted, i
  <2>3. Mintable(w, i) => StateOf(i) = "ready"
    BY <2>2 DEF Mintable, StateOf
  <2>. QED  BY <1>3, <2>1, <2>2, <2>3
<1>9. CASE Mintable(w, i)
  <2>1. next = Minted(w, i)
    BY <1>9 DEF next
  <2>2. chain'.left = Minted(w, i).left /\ chain'.made = Minted(w, i).made
        /\ chain'.setups = Minted(w, i).setups /\ chain'.late \subseteq chain.late
    BY <1>5, <1>6, <2>1
  <2>3. Bounded'
    BY <1>1, <1>2, <1>3, <1>9, <2>2, MintedBounded
  <2>4. Stands'
    BY <1>1, <1>3, <1>9, <2>2, MintedStands
  <2>5. ASSUME Apart
        PROVE  OneCall' /\ Counted'
    <3>1. Counted'
      BY <1>1, <1>3, <1>8, <1>9, <2>2, <2>5, MintedCounted
    <3>2. \A x \in Calls : calls[x].at = "setup" \/ calls[x].at = "confirm" => page.setupTxn = None
      BY <1>8, <2>5 DEF OneCall, Active, Holds
    <3>3. \A x \in Calls : calls[x].at # "confirm"
      BY <1>8, <1>9, <2>5, <3>2, Sizes
    <3>4. \A x \in Calls : Active(x) => Holds(x)'
      BY <1>1, <1>8, <2>5, <3>3 DEF OneCall, Active, Holds
    <3>5. OneCall'
      BY <1>1, <1>8, <2>5, <3>4 DEF OneCall, Active
    <3>. QED  BY <3>1, <3>5
  <2>. QED  BY <1>1, <1>7, <2>3, <2>4, <2>5 DEF MintInv, Apart
<1>10. CASE ~Mintable(w, i)
  <2>1. next = chain
    BY <1>10 DEF next
  <2>2. chain'.left = chain.left /\ chain'.made = chain.made
        /\ chain'.setups = chain.setups /\ chain'.late = late
    BY <1>6, <2>1
  <2>3. Bounded'
    <3>1. \A v \in Wallets : chain'.left + chain'.made[v] <= machine'.items
      BY <1>1, <2>2, Typed DEF Bounded
    <3>2. IsFiniteSet(chain.late) /\ Cardinality(chain.late) <= luck.faults
      BY Typed DEF Bounded
    <3>3. IsFiniteSet(late) /\ Cardinality(late) <= Cardinality(chain.late)
      BY <1>5, <3>2, FS_Subset
    <3>4. Cardinality(chain.late) \in Nat /\ Cardinality(late) \in Nat /\ luck.faults \in Nat
      BY <3>2, <3>3, FS_CardinalityType, Typed DEF Luck
    <3>5. Cardinality(chain'.late) <= luck'.faults
      BY <1>1, <2>2, <3>2, <3>3, <3>4
    <3>. QED  BY <1>2, <2>2, <3>1, <3>3, <3>5 DEF Bounded
  <2>4. Stands'
    BY <1>1, <2>2 DEF Stands, MintInv
  <2>5. ASSUME Apart
        PROVE  OneCall' /\ Counted'
    <3>1. OneCall'
      BY <1>1, <1>8, <2>2, <2>5 DEF OneCall, Active, Holds, StateOf
    <3>2. Spent' = Spent
      BY <1>1, <2>2 DEF Spent, StateOf
    <3>3. Made' = Made
      BY <2>2, MadeKept
    <3>4. \A n \in chain'.late :
            n.setup # None /\ (n.setup = page'.setupTxn \/ StateOf(n.setup)' = "minted")
      <4>1. \A n \in chain.late :
              n.setup # None /\ (n.setup = page.setupTxn \/ StateOf(n.setup) = "minted")
        BY <1>8, <2>5 DEF Counted
      <4>. QED  BY <1>1, <1>5, <2>2, <4>1 DEF StateOf
    <3>5. Counted'
      BY <1>1, <1>8, <2>5, <3>2, <3>3, <3>4 DEF Counted
    <3>. QED  BY <3>1, <3>5
  <2>. QED  BY <1>1, <1>7, <2>3, <2>4, <2>5 DEF MintInv, Apart
<1>. QED  BY <1>9, <1>10

\* The page says that the mint succeeded, and forgets the set-up that is used up.
LEMMA SuccessKeeps ==
  ASSUME MintInv, NEW c \in Calls, Success(c)
  PROVE  MintInv'
<1>. DEFINE n == calls[c].remaining - 1
            p0 == [page EXCEPT !.minting = FALSE, !.itemsRemaining = n,
                               !.isActive = n > 0, !.setupTxn = None]
            p1 == [p0 EXCEPT !.candyMachine.active = n > 0,
                             !.candyMachine.soldOut = n = 0]
            p == IF calls[c].current THEN p1 ELSE p0
            i == calls[c].setup
<1>1. /\ machine' = machine /\ chain' = chain /\ loops' = loops /\ pass' = pass
      /\ luck' = luck /\ told' = told + 1 /\ RefreshFor(c) /\ calls[c].at = "look"
      /\ Metadata(c)
  BY DEF Success, Step, NoFault, Frame
<1>2. Ended(c, p)
  BY DEF Success
<1>3. n \in Int /\ i \in Ids \cup {None}
  BY Typed DEF Call
<1>. HIDE DEF n, i
<1>4. p \in Page /\ p.setupTxn = None
  <2>. DEFINE a == n > 0
              z == n = 0
              m == [page.candyMachine EXCEPT !.active = a, !.soldOut = z]
  <2>1. a \in BOOLEAN /\ z \in BOOLEAN
    OBVIOUS
  <2>. HIDE DEF a, z
  <2>2. page.candyMachine \in MachineObject
    BY Typed DEF Page
  <2>3. m \in MachineObject
    BY <2>1, <2>2 DEF MachineObject
  <2>4. p0 = [page EXCEPT !.minting = FALSE, !.itemsRemaining = n,
                          !.isActive = a, !.setupTxn = None]
    BY DEF a
  <2>5. p1 = [p0 EXCEPT !.candyMachine.active = a, !.candyMachine.soldOut = z]
    BY DEF a, z
  <2>. HIDE DEF p0
  <2>6. p0 \in Page /\ p0.setupTxn = None /\ p0.candyMachine = page.candyMachine
    BY <1>3, <2>1, <2>4, Typed DEF Page
  <2>. HIDE DEF p1
  <2>7. p1 = [p0 EXCEPT !.candyMachine = m]
    BY <2>5, <2>6 DEF Page
  <2>. HIDE DEF m
  <2>8. p1 \in Page /\ p1.setupTxn = None
    BY <2>3, <2>6, <2>7 DEF Page
  <2>. QED  BY <2>6, <2>8
<1>. HIDE DEF p
<1>5. /\ page' = p /\ button' \in Button /\ calls' \in [Calls -> Call]
      /\ calls'[c].at = "idle" /\ \A x \in Calls \ {c} : calls'[x].at = calls[x].at
      /\ Apart => ~button'.listening /\ ~button'.verified
  BY <1>2, <1>4, EndedFacts
<1>6. chain' \in Chain /\ chain'.left <= chain.left
  BY <1>1, Typed
<1>7. reads' \subseteq Reads
  BY <1>1, <1>6, RefreshForTyped
<1>8. luck' \in Luck /\ luck.faults <= luck'.faults /\ luck'.faults <= MaxFaults
  BY <1>1, Typed DEF Luck, Bounded
<1>9. told' \in Nat /\ told \in Nat
  BY <1>1, Typed
<1>10. MintTyped'
  BY <1>1, <1>4, <1>5, <1>6, <1>7, <1>8, <1>9, Typed DEF MintTyped
<1>11. Bounded'
  BY <1>1, <1>6, <1>8, Typed, BoundedKept
<1>12. Stands'
  BY <1>4, <1>5 DEF Stands
<1>13. ASSUME Apart
       PROVE  OneCall' /\ Counted'
  <2>1. OneCall /\ Counted /\ Active(c) /\ i \in Ids /\ page.setupTxn = i
    BY <1>1, <1>13, MintingCall DEF i
  <2>2. OneCall'
    BY <1>5, <1>13, <2>1, CallEnds
  <2>3. StateOf(i) = "minted" /\ i # None
    BY <1>1, <2>1, Sizes DEF Metadata, StateOf, i
  <2>4. Spent /\ ~Spent'
    <3>1. Spent
      BY <2>1, <2>3 DEF Spent
    <3>2. page'.setupTxn = None
      BY <1>4, <1>5
    <3>. QED  BY <3>1, <3>2 DEF Spent
  <2>5. Made' = told' + 0
    <3>1. Made = told + 1
      BY <2>1, <2>4 DEF Counted
    <3>2. Made' = Made
      BY <1>1, MadeKept
    <3>. QED  BY <1>1, <1>9, <3>1, <3>2
  <2>6. \A m \in chain'.late : m.setup # None /\ StateOf(m.setup)' = "minted"
    <3>1. \A m \in chain.late : m.setup # None /\ StateOf(m.setup) = "minted"
      BY <2>1, <2>3 DEF Counted
    <3>. QED  BY <1>1, <3>1 DEF StateOf
  <2>7. Counted'
    BY <2>4, <2>5, <2>6 DEF Counted
  <2>. QED  BY <2>2, <2>7
<1>. QED  BY <1>1, <1>10, <1>11, <1>12, <1>13 DEF MintInv, Apart
-----------------------------------------------------------------------------
(* The theorems.                                                            *)

\* The page is loaded.
LEMMA InitEstablishes == MintInit => MintInv
<1>. SUFFICES ASSUME MintInit
              PROVE  MintInv
  OBVIOUS
<1>1. /\ machine \in Machines /\ machine.items \in 0 .. Supply /\ machine.items \in Nat
      /\ page = HomeState /\ button = NewButton /\ calls = [c \in Calls |-> Idle]
      /\ reads = {ReadNow(First)} /\ loops = {First} /\ told = 0 /\ pass = FALSE
      /\ luck = [faults |-> 0, switches |-> 0] /\ MaxFaults \in Nat /\ First \in Wallets
  BY Sizes DEF MintInit
<1>. DEFINE made == [w \in Wallets |-> 0]
            setups == [i \in Ids |-> [state |-> "none", owner |-> First]]
<1>2. chain = [left |-> machine.items, live |-> FALSE, late |-> {},
               made |-> made, setups |-> setups]
  BY DEF MintInit
<1>3. made \in [Wallets -> Nat] /\ (\A w \in Wallets : made[w] = 0) /\ setups \in [Ids -> Setups]
  BY <1>1 DEF Setups
<1>. HIDE DEF made, setups
<1>4. /\ chain \in Chain /\ chain.left = machine.items /\ chain.live = FALSE
      /\ chain.late = {} /\ chain.made = made
  BY <1>1, <1>2, <1>3 DEF Chain
<1>5. page \in Page /\ page.setupTxn = None
  <2>1. NoMachine \in MachineObject
    BY <1>1 DEF NoMachine, MachineObject
  <2>. QED  BY <1>1, <2>1 DEF HomeState, Page
<1>6. button \in Button /\ ~button.listening /\ ~button.verified
  BY <1>1 DEF NewButton, Button
<1>7. Idle \in Call /\ Idle.at = "idle"
  BY <1>1 DEF Idle, Call, Places
<1>8. calls \in [Calls -> Call] /\ \A c \in Calls : calls[c].at = "idle"
  BY <1>1, <1>7
<1>9. reads \subseteq Reads
  <2>1. chain.left \in 0 .. Supply /\ chain.live \in BOOLEAN
    BY <1>1, <1>4
  <2>2. ReadNow(First) \in Reads
    BY <1>1, <2>1 DEF ReadNow, Reads
  <2>. QED  BY <1>1, <2>2
<1>10. luck \in Luck /\ luck.faults = 0
  BY <1>1 DEF Luck
<1>11. MintTyped
  BY <1>1, <1>4, <1>5, <1>6, <1>8, <1>9, <1>10 DEF MintTyped
<1>12. Bounded
  BY <1>1, <1>3, <1>4, <1>10, FS_EmptySet DEF Bounded
<1>13. Stands /\ ~Spent
  BY <1>5 DEF Stands, Spent
<1>14. OneCall
  BY <1>6, <1>8 DEF OneCall, Active
<1>15. Counted
  <2>1. Made = 0
    BY <1>3, <1>4, MintAssumption, TotalOf, MadeIs
  <2>. QED  BY <1>1, <1>4, <1>13, <2>1 DEF Counted
<1>. QED  BY <1>11, <1>12, <1>13, <1>14, <1>15 DEF MintInv

\* Nothing happens.
LEMMA StutterKeeps == MintInv /\ UNCHANGED mintVars => MintInv'
<1>. SUFFICES ASSUME MintInv, UNCHANGED mintVars
              PROVE  MintInv'
  OBVIOUS
<1>1. /\ machine' = machine /\ chain' = chain /\ page' = page /\ button' = button
      /\ calls' = calls /\ reads' = reads /\ loops' = loops /\ told' = told
      /\ pass' = pass /\ luck' = luck
  BY DEF mintVars
<1>. QED  BY <1>1, Typed, QuietStep

\* A call goes on.
LEMMA ProceedKeeps ==
  ASSUME MintInv, NEW c \in Calls, Proceed(c)
  PROVE  MintInv'
<1>1. CASE PassFound(c)
  BY <1>1, PassFoundKeeps
<1>2. CASE Unlistened(c)
  BY <1>2, UnlistenedKeeps
<1>3. CASE Setup(c)
  BY <1>3, SetupKeeps
<1>4. CASE \/ SetupFails(c) \/ ConfirmFails(c) \/ MintRefused(c) \/ AwaitFails(c)
           \/ LikelyFailed(c)
  BY <1>4, FailuresKeep
<1>5. CASE Confirm(c)
  BY <1>5, ConfirmKeeps
<1>6. CASE Mint(c)
  BY <1>6, MintKeeps
<1>7. CASE Taxed(c) \/ Await(c)
  BY <1>7, AwaitKeeps
<1>8. CASE MintUntold(c)
  BY <1>8, MintUntoldKeeps
<1>9. CASE Success(c)
  BY <1>9, SuccessKeeps
<1>. QED  BY <1>1, <1>2, <1>3, <1>4, <1>5, <1>6, <1>7, <1>8, <1>9 DEF Proceed

\* Any step.
LEMMA StepKeeps == MintInv /\ [MintNext]_mintVars => MintInv'
<1>. SUFFICES ASSUME MintInv, MintNext
              PROVE  MintInv'
  BY StutterKeeps
<1>1. CASE \E w \in Wallets : Loop(w) \/ Switch(w)
  BY <1>1, LoopKeeps, SwitchKeeps
<1>2. CASE \E r \in reads : Refresh(r)
  BY <1>2, RefreshKeeps
<1>3. CASE Countdown \/ PassGranted \/ PassNoticed \/ OthersMint \/ GoesLive
  BY <1>3, CountdownKeeps, PassKeeps, SaleKeeps
<1>4. CASE \E c \in Calls : Click(c) \/ Effect(c) \/ Proceed(c)
  BY <1>4, ClickKeeps, EffectKeeps, ProceedKeeps
<1>5. CASE \E m \in chain.late : LateMint(m)
  BY <1>5, LateMintKeeps
<1>. QED  BY <1>1, <1>2, <1>3, <1>4, <1>5 DEF MintNext

\* Whatever the page, the visitor, the timers of Home.tsx and the chain do, the
\* invariant holds: with the set-up apart one call of onMint is under way at a
\* time, and each token but the one still waited for has been announced.
THEOREM MintInvariance == MintSpec => []MintInv
<1>1. MintInit => MintInv
  BY InitEstablishes
<1>2. MintInv /\ [MintNext]_mintVars => MintInv'
  BY StepKeeps
<1>. QED  BY <1>1, <1>2, PTL DEF MintSpec

\* The set-up Home keeps in setupTxn (Home.tsx, onMint) is always on the chain,
\* and the state has its types.
THEOREM SetupAlwaysStands == MintSpec => []SetupStands
<1>1. MintInv => SetupStands
  <2>. SUFFICES ASSUME MintInv
                PROVE  SetupStands
    OBVIOUS
  <2>1. Stands
    BY DEF MintInv
  <2>2. chain.left \in 0 .. Supply
    BY Typed, ReadTyped, Sizes
  <2>3. chain.made \in [Wallets -> 0 .. Supply]
    <3>1. chain.made \in [Wallets -> Nat]
      BY Typed DEF Chain
    <3>2. \A w \in Wallets : chain.made[w] \in 0 .. Supply
      <4>1. TAKE w \in Wallets
      <4>2. chain.left + chain.made[w] <= machine.items
        BY Typed DEF Bounded
      <4>3. machine.items \in 0 .. Supply /\ Supply \in Nat
        BY Typed, Sizes
      <4>. QED  BY <3>1, <4>2, <4>3, Typed
    <3>. QED  BY <3>1, <3>2
  <2>4. chain.setups \in [Ids -> [state : {"none", "ready", "minted"}, owner : Wallets]]
    BY Typed DEF Chain, Setups
  <2>5. page.setupTxn \in Ids \cup {None} /\ page.wallet \in Wallets
    BY Typed DEF Page
  <2>6. \A c \in Calls : calls[c].at \in Places
    BY Typed DEF Call
  <2>7. MintTypeOK
    BY <2>2, <2>3, <2>4, <2>5, <2>6, Typed DEF MintTypeOK, Places
  <2>. QED  BY <2>1, <2>7 DEF SetupStands, Stands
<1>. QED  BY <1>1, MintInvariance, PTL

\* With the set-up apart and no gateway a visitor never pays for a second token
\* before the page has told of the first, however often the mint of
\* candy-machine.ts is lost, late or unanswered and the button is clicked again.
THEOREM NeverPaidTwiceAlways == MintSpec => []NeverPaidTwice
<1>1. MintInv => NeverPaidTwice
  <2>. SUFFICES ASSUME MintInv, Apart
                PROVE  Made \in {told, told + 1}
    BY DEF NeverPaidTwice, Apart
  <2>1. Counted /\ told \in Nat
    BY Typed
  <2>2. CASE Spent
    BY <2>1, <2>2 DEF Counted
  <2>3. CASE ~Spent
    BY <2>1, <2>3 DEF Counted
  <2>. QED  BY <2>2, <2>3
<1>. QED  BY <1>1, MintInvariance, PTL
=============================================================================
