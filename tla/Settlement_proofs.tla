-------------------------- MODULE Settlement_proofs --------------------------
(***************************************************************************)
(* What is proved of the settlement, for any winners and payments, every   *)
(* size of transactions and batches and every number of faults:            *)
(* SettledInFull.                                                          *)
(*                                                                         *)
(* The instructions are laid out in the order of the winners and of the    *)
(* payments (Rank), and the loops that cut them into transactions and      *)
(* batches keep that order; so no instruction is laid out twice, and a     *)
(* payment finds its account on the chain or earlier in the list.  What an *)
(* undisturbed page has left to send is what is still to be done.          *)
(***************************************************************************)
EXTENDS Settlement, WellFoundedInduction, FiniteSetTheorems, SequenceTheorems, TLAPS

-----------------------------------------------------------------------------
(* The inductive invariant.                                                 *)

\* Where x stands first in s.
At(s, x) == CHOOSE i \in DOMAIN s : s[i] = x /\ \A j \in DOMAIN s : s[j] = x => i <= j

\* The order in which the instructions of one kind are laid out: by winner, and
\* by payment, an account before the first payment into it.
Rank(x) ==
  IF x.op = "end" THEN 0
  ELSE IF x.op = "claim" THEN At(Winners, x.of)
  ELSE IF x.op = "ata" THEN 2 * At(Payouts, x.of) - 1
  ELSE 2 * x.of

Below(A, B) == \A x \in A : \A y \in B : Rank(x) < Rank(y)
Sorted(tx) == \A i, j \in DOMAIN tx : i < j => Rank(tx[i]) < Rank(tx[j])

\* Transactions that are laid out: none is too long, and the instructions are in
\* order, within each and from one to the next.
Instructions(txs) == UNION {ToSet(txs[j]) : j \in DOMAIN txs}
Laid(txs) ==
  /\ txs \in Seq(Seq(Instrs))
  /\ \A j \in DOMAIN txs : Len(txs[j]) <= TxSize + 1 /\ Sorted(txs[j])
  /\ \A i, j \in DOMAIN txs : i < j => Below(ToSet(txs[i]), ToSet(txs[j]))

\* Batches that are laid out, and what is left in them.
Batches == Seq([single : BOOLEAN, txs : Seq(Seq(Instrs))])
Left(queue) == UNION {Instructions(queue[i].txs) : i \in DOMAIN queue}
LaidOut(queue) ==
  /\ queue \in Batches
  /\ \A i \in DOMAIN queue : /\ Laid(queue[i].txs) /\ queue[i].txs # << >>
                             /\ Len(queue[i].txs) <= BatchSize
  /\ \A i, j \in DOMAIN queue : i < j => Below(Instructions(queue[i].txs), Instructions(queue[j].txs))

\* The types, but for what is left to be sent.
Typed ==
  /\ over \in BOOLEAN /\ claimed \subseteq Bidders /\ atas \subseteq Recipients
  /\ funds \subseteq atas /\ paid \subseteq Payments
  /\ pots \subseteq Bidders /\ bids \subseteq Bidders
  /\ found \in {"money", "empty", "dropped"} /\ ended \in BOOLEAN
  /\ stage \in Stages
  /\ from \in {"notification", "billing"} /\ shown \in {"none", "success", "failed"}
  /\ rejected \in 0..1 /\ disturbed \in BOOLEAN /\ faults \in 0..MaxFaults

\* The store of the page may be late, but it forgets no pot that is to be claimed,
\* and a settle that has not come to them forgets none either.
PotsKnown ==
  /\ Bidders \ claimed \subseteq pots
  /\ stage \in {"pulling", "ending"} => Bidders \ claimed \subseteq bids

\* What the undisturbed page has left to send is what is still to be done.
Ops(queue) == {x.op : x \in Left(queue)}
ToPull == ended = over /\ bids \cap claimed = {}
ToEnd ==
  /\ bids \cap claimed = {} /\ Ops(todo) \subseteq {"end"}
  /\ over <=> Left(todo) = {}
ToClaim ==
  /\ over /\ Ops(todo) \subseteq {"claim"}
  /\ \A w \in Bidders : Instr("claim", w) \in Left(todo) <=> w \notin claimed
ToPay ==
  /\ claimed = Bidders /\ Ops(todo) \subseteq {"ata", "pay"}
  /\ \A r \in atas : Instr("ata", r) \notin Left(todo)
  /\ \A k \in Payments : /\ Instr("pay", k) \in Left(todo) \/ k \in paid
                         /\ Instr("pay", k) \in Left(todo) =>
                              Payouts[k] \in atas \/ Instr("ata", Payouts[k]) \in Left(todo)
OnItsWay ==
  /\ stage = "pulling" => ToPull
  /\ stage = "ending" => ToEnd
  /\ stage = "claiming" => ToClaim
  /\ stage = "paying" => ToPay

\* The inductive invariant.
SettleInv ==
  /\ Typed /\ LaidOut(todo) /\ PotsKnown
  /\ stage \in {"idle", "pulling", "closing"} => todo = << >>
  /\ disturbed \/ OnItsWay

-----------------------------------------------------------------------------
(* Sequences.                                                               *)

\* A set of natural numbers that is not empty has a least element.
LEMMA LeastElement ==
  ASSUME NEW T, T \subseteq Nat, T # {}
  PROVE  \E x \in T : \A y \in T : x <= y
<1> DEFINE R == {ss \in Nat \X Nat : ss[1] < ss[2]}
<1>1. IsWellFoundedOn(R, Nat)
  BY NatLessThanWellFounded DEF OpToRel
<1>2. PICK x \in T : \A y \in T : ~(<<y, x>> \in R)
  <2> HIDE DEF R
  <2> QED BY <1>1, WFMin
<1>3. \A y \in T : ~(y < x)
  BY <1>2
<1> QED BY <1>3

\* A set that holds one and the successor of whatever it holds, up to n, has all up to n.
LEMMA UpTo ==
  ASSUME NEW n \in Nat, NEW S, 1 \in S, \A i \in 1 .. (n - 1) : i \in S => i + 1 \in S
  PROVE  1 .. n \subseteq S
<1>. SUFFICES ASSUME (1 .. n) \ S # {} PROVE FALSE
  OBVIOUS
<1>1. PICK x \in (1 .. n) \ S : \A y \in (1 .. n) \ S : x <= y
  <2>1. (1 .. n) \ S \subseteq Nat
    OBVIOUS
  <2>. QED  BY <2>1, LeastElement
<1>2. x # 1 /\ x - 1 \in 1 .. (n - 1) /\ x - 1 \notin (1 .. n) \ S
  BY <1>1
<1>. QED  BY <1>1, <1>2

\* A set that holds zero and the successor of whatever it holds, up to n, has all up to n.
LEMMA UpToFrom ==
  ASSUME NEW n \in Nat, NEW S, 0 \in S, \A i \in 0 .. (n - 1) : i \in S => i + 1 \in S
  PROVE  0 .. n \subseteq S
<1>. SUFFICES ASSUME (0 .. n) \ S # {} PROVE FALSE
  OBVIOUS
<1>1. PICK x \in (0 .. n) \ S : \A y \in (0 .. n) \ S : x <= y
  <2>1. (0 .. n) \ S \subseteq Nat
    OBVIOUS
  <2>. QED  BY <2>1, LeastElement
<1>2. x # 0 /\ x - 1 \in 0 .. (n - 1) /\ x - 1 \notin (0 .. n) \ S
  BY <1>1
<1>. QED  BY <1>1, <1>2

\* How FlattenSeq goes through a list of lists.
FlatStep(seqs, before, i) == IF i = 1 THEN seqs[i] ELSE before \o seqs[i]
Flats(seqs) == CHOOSE f : f = [i \in 1 .. Len(seqs) |-> FlatStep(seqs, f[i - 1], i)]

\* The operator of the library is the function defined here.
LEMMA FlattenIsFlats ==
  ASSUME NEW seqs
  PROVE  FlattenSeq(seqs) = IF Len(seqs) = 0 THEN seqs ELSE Flats(seqs)[Len(seqs)]
BY DEF FlattenSeq, Flats, FlatStep

\* It comes to an end.
LEMMA FlatsDefined ==
  ASSUME NEW seqs, NEW n \in Nat \ {0}, Len(seqs) = n
  PROVE  \A i \in 1 .. n : Flats(seqs)[i] = FlatStep(seqs, Flats(seqs)[i - 1], i)
<1>. DEFINE IsFlat(f, m) == f = [i \in 1 .. m |-> FlatStep(seqs, f[i - 1], i)]
            S == {m \in 1 .. n : \E f : IsFlat(f, m)}
<1>1. 1 \in S
  <2>. DEFINE f == [i \in 1 .. 1 |-> seqs[1]]
  <2>1. f = [i \in 1 .. 1 |-> FlatStep(seqs, f[i - 1], i)]
    BY DEF FlatStep
  <2>2. IsFlat(f, 1)
    BY <2>1
  <2>. HIDE DEF f, IsFlat
  <2>. QED  BY <2>2
<1>2. ASSUME NEW m \in 1 .. (n - 1), m \in S PROVE m + 1 \in S
  <2>. PICK f : IsFlat(f, m)
    BY <1>2
  <2>. DEFINE g == [i \in 1 .. (m + 1) |-> IF i = m + 1 THEN FlatStep(seqs, f[m], i) ELSE f[i]]
  <2>1. ASSUME NEW i \in 1 .. (m + 1) PROVE g[i] = FlatStep(seqs, g[i - 1], i)
    <3>1. CASE i = m + 1
      BY <3>1
    <3>2. CASE i # m + 1 /\ i # 1
      <4>1. g[i] = f[i] /\ g[i - 1] = f[i - 1]
        BY <3>2
      <4>2. f[i] = FlatStep(seqs, f[i - 1], i)
        BY <3>2
      <4>. HIDE DEF g, IsFlat
      <4>. QED  BY <4>1, <4>2
    <3>3. CASE i = 1 /\ i # m + 1
      <4>1. g[i] = f[i]
        BY <3>3
      <4>2. f[i] = FlatStep(seqs, f[i - 1], i)
        BY <3>3
      <4>. HIDE DEF g, IsFlat
      <4>. QED  BY <3>3, <4>1, <4>2 DEF FlatStep
    <3>. QED  BY <3>1, <3>2, <3>3
  <2>2. IsFlat(g, m + 1)
    BY <2>1
  <2>3. m + 1 \in 1 .. n
    OBVIOUS
  <2>. HIDE DEF g, IsFlat
  <2>. QED  BY <2>2, <2>3
<1>3. 1 .. n \subseteq S
  <2>. HIDE DEF S
  <2>. QED  BY <1>1, <1>2, UpTo
<1>4. \E f : IsFlat(f, n)
  BY <1>3
<1>5. IsFlat(Flats(seqs), n)
  BY <1>4 DEF Flats
<1>. QED  BY <1>5

\* Two lists, one behind the other.
IsJoined(u, s, t) ==
  /\ Len(u) = Len(s) + Len(t) /\ Len(s) \in Nat /\ Len(t) \in Nat
  /\ DOMAIN s = 1 .. Len(s) /\ DOMAIN t = 1 .. Len(t) /\ DOMAIN u = 1 .. (Len(s) + Len(t))
  /\ \A i \in DOMAIN s : i \in DOMAIN u /\ u[i] = s[i]
  /\ \A j \in DOMAIN t : Len(s) + j \in DOMAIN u /\ u[Len(s) + j] = t[j]
  /\ \A k \in DOMAIN u : \/ k \in DOMAIN s /\ u[k] = s[k]
                         \/ k - Len(s) \in DOMAIN t /\ u[k] = t[k - Len(s)]

\* Two sequences, one behind the other.
LEMMA Joined ==
  ASSUME NEW T, NEW s \in Seq(T), NEW t \in Seq(T)
  PROVE  s \o t \in Seq(T) /\ IsJoined(s \o t, s, t)
<1>1. /\ s \o t \in Seq(T) /\ Len(s \o t) = Len(s) + Len(t)
      /\ \A i \in 1 .. Len(s) + Len(t) : (s \o t)[i] = IF i <= Len(s) THEN s[i] ELSE t[i - Len(s)]
  BY ConcatProperties
<1>. DEFINE u == s \o t
<1>2. u \in Seq(T) /\ Len(u) = Len(s) + Len(t)
      /\ \A i \in 1 .. Len(s) + Len(t) : u[i] = IF i <= Len(s) THEN s[i] ELSE t[i - Len(s)]
  BY <1>1
<1>. HIDE DEF u
<1>3. DOMAIN s = 1 .. Len(s) /\ DOMAIN t = 1 .. Len(t) /\ DOMAIN u = 1 .. (Len(s) + Len(t))
      /\ Len(s) \in Nat /\ Len(t) \in Nat
  BY <1>2
<1>4. \A i \in DOMAIN s : i \in DOMAIN u /\ u[i] = s[i]
  BY <1>2, <1>3
<1>5. \A j \in DOMAIN t : Len(s) + j \in DOMAIN u /\ u[Len(s) + j] = t[j]
  BY <1>2, <1>3
<1>6. \A k \in DOMAIN u : \/ k \in DOMAIN s /\ u[k] = s[k]
                          \/ k - Len(s) \in DOMAIN t /\ u[k] = t[k - Len(s)]
  BY <1>2, <1>3
<1>7. IsJoined(u, s, t)
  BY <1>2, <1>3, <1>4, <1>5, <1>6 DEF IsJoined
<1>. QED  BY <1>2, <1>7 DEF u

\* No element of s stands in a wrong order to a later one.
Ordered(s, R) == \A i, j \in DOMAIN s : i < j => <<s[i], s[j]>> \in R

\* What two sequences hold that stand one behind the other.
LEMMA JoinedHolds ==
  ASSUME NEW T, NEW s \in Seq(T), NEW t \in Seq(T), NEW u, IsJoined(u, s, t)
  PROVE  ToSet(u) = ToSet(s) \cup ToSet(t)
<1>1. ToSet(u) \subseteq ToSet(s) \cup ToSet(t)
  BY DEF IsJoined, ToSet
<1>2. ToSet(s) \subseteq ToSet(u)
  BY DEF IsJoined, ToSet
<1>3. ToSet(t) \subseteq ToSet(u)
  <2>1. ASSUME NEW j \in DOMAIN t PROVE \E k \in DOMAIN u : u[k] = t[j]
    BY DEF IsJoined
  <2>. QED  BY <2>1 DEF ToSet
<1>. QED  BY <1>1, <1>2, <1>3

\* Two sequences in order make one if the second follows the first.
LEMMA JoinedOrdered ==
  ASSUME NEW T, NEW R, NEW s \in Seq(T), NEW t \in Seq(T), NEW u, IsJoined(u, s, t),
         Ordered(s, R), Ordered(t, R), \A x \in ToSet(s) : \A y \in ToSet(t) : <<x, y>> \in R
  PROVE  Ordered(u, R)
<1>. DEFINE l == Len(s)
<1>1. /\ l \in Nat /\ DOMAIN s = 1 .. l /\ DOMAIN t = 1 .. Len(t) /\ Len(t) \in Nat
      /\ DOMAIN u = 1 .. (l + Len(t))
      /\ \A k \in DOMAIN u : \/ k \in DOMAIN s /\ u[k] = s[k]
                             \/ k - l \in DOMAIN t /\ u[k] = t[k - l]
  BY DEF IsJoined
<1>. HIDE DEF l
<1>2. ASSUME NEW i \in DOMAIN u, NEW j \in DOMAIN u, i < j PROVE <<u[i], u[j]>> \in R
  <2>1. CASE i \in DOMAIN s /\ u[i] = s[i] /\ j \in DOMAIN s /\ u[j] = s[j]
    BY <1>2, <2>1 DEF Ordered
  <2>2. CASE i - l \in DOMAIN t /\ u[i] = t[i - l] /\ j - l \in DOMAIN t /\ u[j] = t[j - l]
    <3>1. i - l < j - l
      BY <1>1, <1>2
    <3>. QED  BY <2>2, <3>1 DEF Ordered
  <2>3. CASE i \in DOMAIN s /\ u[i] = s[i] /\ j - l \in DOMAIN t /\ u[j] = t[j - l]
    <3>1. s[i] \in ToSet(s) /\ t[j - l] \in ToSet(t)
      BY <2>3 DEF ToSet
    <3>. QED  BY <2>3, <3>1
  <2>4. ~(i - l \in DOMAIN t /\ j \in DOMAIN s)
    BY <1>1, <1>2
  <2>. QED  BY <1>1, <2>1, <2>2, <2>3, <2>4
<1>. QED  BY <1>2 DEF Ordered

\* A list of lists in order, flattened, is in order and holds what they hold.
LEMMA FlatOrdered ==
  ASSUME NEW T, NEW R, NEW n \in Nat, NEW seqs \in Seq(Seq(T)), Len(seqs) = n,
         \A k \in DOMAIN seqs : Ordered(seqs[k], R),
         \A j, k \in DOMAIN seqs : j < k =>
           \A x \in ToSet(seqs[j]) : \A y \in ToSet(seqs[k]) : <<x, y>> \in R
  PROVE  /\ FlattenSeq(seqs) \in Seq(T) /\ Ordered(FlattenSeq(seqs), R)
         /\ ToSet(FlattenSeq(seqs)) = UNION {ToSet(seqs[k]) : k \in DOMAIN seqs}
<1>0. DOMAIN seqs = 1 .. n
  OBVIOUS
<1>1. CASE n = 0
  <2>1. FlattenSeq(seqs) = seqs
    BY <1>1, FlattenIsFlats
  <2>2. seqs = << >>
    BY <1>0, <1>1
  <2>3. << >> \in Seq(T) /\ Ordered(<< >>, R) /\ ToSet(<< >>) = {} /\ DOMAIN << >> = {}
    BY DEF Ordered, ToSet
  <2>. QED  BY <2>1, <2>2, <2>3
<1>2. CASE n # 0
  <2>. DEFINE F == Flats(seqs)
              Held(m) == UNION {ToSet(seqs[k]) : k \in 1 .. m}
              S == {m \in 1 .. n : F[m] \in Seq(T) /\ Ordered(F[m], R) /\ ToSet(F[m]) = Held(m)}
  <2>1. \A i \in 1 .. n : F[i] = FlatStep(seqs, F[i - 1], i)
    BY <1>2, FlatsDefined
  <2>2. FlattenSeq(seqs) = F[n]
    BY <1>2, FlattenIsFlats
  <2>. HIDE DEF F
  <2>3. 1 \in S
    <3>1. F[1] = seqs[1] /\ 1 \in 1 .. n
      BY <1>2, <2>1 DEF FlatStep
    <3>2. Held(1) = ToSet(seqs[1])
      OBVIOUS
    <3>. QED  BY <1>0, <3>1, <3>2
  <2>4. ASSUME NEW m \in 1 .. (n - 1), m \in S PROVE m + 1 \in S
    <3>1. m + 1 \in 1 .. n /\ m + 1 - 1 = m /\ m + 1 # 1
      OBVIOUS
    <3>2. F[m + 1] = F[m] \o seqs[m + 1]
      <4>1. F[m + 1] = FlatStep(seqs, F[m + 1 - 1], m + 1)
        BY <2>1, <3>1
      <4>. QED  BY <3>1, <4>1 DEF FlatStep
    <3>3. PICK s \in Seq(T) : s = F[m] /\ Ordered(s, R) /\ ToSet(s) = Held(m)
      BY <2>4
    <3>4. PICK t \in Seq(T) : t = seqs[m + 1] /\ Ordered(t, R)
      <4>1. m + 1 \in DOMAIN seqs
        BY <1>0, <3>1
      <4>. QED  BY <4>1
    <3>5. PICK u : u = s \o t
      OBVIOUS
    <3>6. u \in Seq(T) /\ IsJoined(u, s, t)
      BY <3>5, Joined
    <3>7. Held(m + 1) = Held(m) \cup ToSet(t)
      <4>1. 1 .. (m + 1) = (1 .. m) \cup {m + 1}
        OBVIOUS
      <4>. QED  BY <3>4, <4>1
    <3>8. \A x \in ToSet(s) : \A y \in ToSet(t) : <<x, y>> \in R
      <4>1. \A k \in 1 .. m : k \in DOMAIN seqs /\ m + 1 \in DOMAIN seqs /\ k < m + 1
        BY <1>0, <3>1
      <4>. QED  BY <3>3, <3>4, <4>1
    <3>. HIDE DEF Held
    <3>9. ToSet(u) = Held(m + 1)
      <4>1. ToSet(u) = ToSet(s) \cup ToSet(t)
        BY <3>6, JoinedHolds
      <4>. QED  BY <3>3, <3>7, <4>1
    <3>10. Ordered(u, R)
      BY <3>3, <3>4, <3>6, <3>8, JoinedOrdered
    <3>. QED  BY <3>1, <3>2, <3>3, <3>4, <3>5, <3>6, <3>9, <3>10
  <2>5. n \in S
    <3>1. 1 .. n \subseteq S
      <4>. HIDE DEF S
      <4>. QED  BY <2>3, <2>4, UpTo
    <3>. QED  BY <1>2, <3>1
  <2>. QED  BY <1>0, <2>2, <2>5
<1>. QED  BY <1>1, <1>2

\* A function on the numbers up to n is a sequence.
LEMMA FunctionIsSeq ==
  ASSUME NEW n \in Nat, NEW T, NEW f \in [1 .. n -> T]
  PROVE  f \in Seq(T)
BY IsASeq

\* How many pieces of size r a list of n makes: the last one is not empty.
Pieces(n, r) == (n + r - 1) \div r

\* Products of natural numbers, one factor more or less.
LEMMA Multiples ==
  ASSUME NEW r \in Nat \ {0}
  PROVE  /\ \A k \in Int : k * r \in Int /\ (k + 1) * r = k * r + r /\ (k - 1) * r = k * r - r
         /\ 0 * r = 0 /\ 1 * r = r
         /\ \A j, k \in Int : j < k => j * r + r <= k * r
<1>1. \A k \in Int : k * r \in Int /\ (k + 1) * r = k * r + r /\ (k - 1) * r = k * r - r
  OBVIOUS
<1>2. 0 * r = 0 /\ 1 * r = r
  OBVIOUS
<1>3. ASSUME NEW j \in Int, NEW k \in Int, j < k PROVE j * r + r <= k * r
  <2>. DEFINE d == k - j - 1
  <2>1. d \in Nat /\ k = (j + 1) + d
    BY <1>3
  <2>. HIDE DEF d
  <2>2. k * r = (j + 1) * r + d * r
    BY <2>1
  <2>3. d * r \in Nat
    BY <2>1
  <2>4. (j + 1) * r = j * r + r /\ j * r \in Int
    BY <1>1
  <2>. QED  BY <2>2, <2>3, <2>4
<1>. QED  BY <1>1, <1>2, <1>3

\* A number, divided with remainder.
LEMMA Quotient ==
  ASSUME NEW a \in Int, NEW r \in Nat \ {0}
  PROVE  /\ a \div r \in Int
         /\ (a \div r) * r <= a /\ a < (a \div r) * r + r
OBVIOUS

\* What the pieces cover: all of the list, and no piece behind it.
LEMMA PiecesAre ==
  ASSUME NEW n \in Nat, NEW r \in Nat \ {0}
  PROVE  /\ Pieces(n, r) \in Nat /\ n <= Pieces(n, r) * r
         /\ \A k \in 1 .. Pieces(n, r) : (k - 1) * r < n
         /\ \A k \in Nat : n <= k * r => Pieces(n, r) <= k
<1>. DEFINE q == Pieces(n, r)
<1>1. n + r - 1 \in Int
  OBVIOUS
<1>2. q \in Int /\ q * r <= n + r - 1 /\ n + r - 1 < q * r + r
  BY <1>1, Quotient DEF Pieces
<1>. HIDE DEF q
<1>3. q * r \in Int /\ 0 * r = 0 /\ (-1) * r = 0 - r
  BY <1>2, Multiples
<1>4. n <= q * r
  BY <1>2, <1>3
<1>5. q \in Nat
  <2>1. CASE q < 0
    <3>1. q * r + r <= 0
      BY <1>2, <1>3, <2>1, Multiples
    <3>. QED  BY <1>2, <1>3, <3>1
  <2>. QED  BY <1>2, <2>1
<1>6. ASSUME NEW k \in 1 .. q PROVE (k - 1) * r < n
  <2>1. (k - 1) * r + r <= q * r /\ (k - 1) * r \in Int
    BY <1>2, Multiples
  <2>. QED  BY <1>2, <1>3, <2>1
<1>7. ASSUME NEW k \in Nat, n <= k * r PROVE q <= k
  <2>1. CASE k < q
    <3>1. k * r + r <= q * r /\ k * r \in Int
      BY <1>2, <2>1, Multiples
    <3>. QED  BY <1>2, <1>3, <1>7, <3>1
  <2>. QED  BY <1>2, <2>1
<1>. QED  BY <1>4, <1>5, <1>6, <1>7 DEF q

-----------------------------------------------------------------------------
(* Instructions and their order.                                            *)

\* The assumption, one constant at a time.
LEMMA Constants ==
  /\ Winners \in Seq(Bidders) /\ Payouts \in Seq(Recipients)
  /\ Len(Winners) \in Nat /\ DOMAIN Winners = 1 .. Len(Winners)
  /\ Len(Payouts) \in Nat /\ Payments = 1 .. Len(Payouts) /\ DOMAIN Payouts = 1 .. Len(Payouts)
  /\ \A i \in DOMAIN Winners : Winners[i] \in Bidders
  /\ \A w \in Bidders : \E i \in DOMAIN Winners : Winners[i] = w
  /\ \A i, j \in DOMAIN Winners : Winners[i] = Winners[j] => i = j
  /\ \A k \in Payments : Payouts[k] \in Recipients
  /\ \A r \in Recipients : \E k \in Payments : Payouts[k] = r
  /\ Seller \in Recipients
  /\ TxSize \in Nat \ {0} /\ BatchSize \in Nat \ {0} /\ MaxFaults \in Nat
<1>1. /\ Winners \in Seq(Bidders) /\ Payouts \in Seq(Recipients) /\ Seller \in Recipients
      /\ TxSize \in Nat \ {0} /\ BatchSize \in Nat \ {0} /\ MaxFaults \in Nat
      /\ IsInjective(Winners)
  BY SettlementAssumption DEF Bidders, Recipients
<1>2. \A i, j \in DOMAIN Winners : Winners[i] = Winners[j] => i = j
  BY <1>1 DEF IsInjective
<1>3. \A w \in Bidders : \E i \in DOMAIN Winners : Winners[i] = w
  BY DEF Bidders, ToSet
<1>4. \A r \in Recipients : \E k \in Payments : Payouts[k] = r
  BY DEF Recipients, ToSet, Payments
<1>5. /\ Len(Winners) \in Nat /\ DOMAIN Winners = 1 .. Len(Winners)
      /\ Len(Payouts) \in Nat /\ DOMAIN Payouts = 1 .. Len(Payouts)
  BY <1>1
<1>6. \A i \in DOMAIN Winners : Winners[i] \in Bidders
  BY DEF Bidders, ToSet
<1>7. \A k \in DOMAIN Payouts : Payouts[k] \in Recipients
  BY DEF Recipients, ToSet
<1>. QED  BY <1>1, <1>2, <1>3, <1>4, <1>5, <1>6, <1>7 DEF Payments

\* What an instruction says.
LEMMA InstrIs ==
  /\ \A op, of : Instr(op, of).op = op /\ Instr(op, of).of = of
  /\ Instr("end", Seller) \in Instrs
  /\ \A w \in Bidders : Instr("claim", w) \in Instrs
  /\ \A r \in Recipients : Instr("ata", r) \in Instrs
  /\ \A k \in Payments : Instr("pay", k) \in Instrs
  /\ \A x \in Instrs : /\ x = Instr(x.op, x.of) /\ x.op \in {"end", "claim", "ata", "pay"}
                       /\ x.op = "end" => x.of = Seller
                       /\ x.op = "claim" => x.of \in Bidders
                       /\ x.op = "ata" => x.of \in Recipients
                       /\ x.op = "pay" => x.of \in Payments
BY DEF Instr, Instrs

\* What is in s stands first at one place.
LEMMA FirstAt ==
  ASSUME NEW T, NEW s \in Seq(T), NEW j \in DOMAIN s
  PROVE  /\ At(s, s[j]) \in DOMAIN s /\ s[At(s, s[j])] = s[j] /\ At(s, s[j]) <= j
         /\ \A h \in DOMAIN s : s[h] = s[j] => At(s, s[j]) <= h
<1>. DEFINE S == {i \in DOMAIN s : s[i] = s[j]}
<1>1. S \subseteq Nat /\ S # {}
  OBVIOUS
<1>2. PICK i \in S : \A h \in S : i <= h
  <2>. HIDE DEF S
  <2>. QED  BY <1>1, LeastElement
<1>3. i \in DOMAIN s /\ s[i] = s[j] /\ \A h \in DOMAIN s : s[h] = s[j] => i <= h
  BY <1>2
<1>4. /\ At(s, s[j]) \in DOMAIN s /\ s[At(s, s[j])] = s[j]
      /\ \A h \in DOMAIN s : s[h] = s[j] => At(s, s[j]) <= h
  BY <1>3 DEF At
<1>. QED  BY <1>4

\* Places in the order are natural numbers.
LEMMA RankIs ==
  /\ \A x \in Instrs : Rank(x) \in Nat
  /\ \A i \in DOMAIN Winners : Rank(Instr("claim", Winners[i])) = i
  /\ \A k \in Payments : /\ Rank(Instr("pay", k)) = 2 * k
                         /\ Rank(Instr("ata", Payouts[k])) < 2 * k
                         /\ (\A j \in 1 .. (k - 1) : Payouts[j] # Payouts[k]) =>
                              Rank(Instr("ata", Payouts[k])) = 2 * k - 1
<1>1. \A i \in DOMAIN Winners : At(Winners, Winners[i]) = i
  <2>. SUFFICES ASSUME NEW i \in DOMAIN Winners PROVE At(Winners, Winners[i]) = i
    OBVIOUS
  <2>1. At(Winners, Winners[i]) \in DOMAIN Winners /\ Winners[At(Winners, Winners[i])] = Winners[i]
    BY Constants, FirstAt
  <2>. QED  BY <2>1, Constants
<1>2. ASSUME NEW k \in Payments
      PROVE  /\ At(Payouts, Payouts[k]) \in 1 .. k
             /\ (\A j \in 1 .. (k - 1) : Payouts[j] # Payouts[k]) => At(Payouts, Payouts[k]) = k
  <2>1. PICK i : i = At(Payouts, Payouts[k])
    OBVIOUS
  <2>2. i \in DOMAIN Payouts /\ Payouts[i] = Payouts[k] /\ i <= k
    BY <2>1, Constants, FirstAt
  <2>3. i \in 1 .. k /\ k \in Nat
    BY <2>2, Constants
  <2>4. (\A j \in 1 .. (k - 1) : Payouts[j] # Payouts[k]) => i = k
    BY <2>2, <2>3
  <2>. QED  BY <2>1, <2>3, <2>4
<1>3. \A i \in DOMAIN Winners : Rank(Instr("claim", Winners[i])) = i
  BY <1>1, InstrIs DEF Rank
<1>4. ASSUME NEW k \in Payments
      PROVE  /\ Rank(Instr("pay", k)) = 2 * k
             /\ Rank(Instr("ata", Payouts[k])) = 2 * At(Payouts, Payouts[k]) - 1
  BY InstrIs DEF Rank
<1>5. ASSUME NEW x \in Instrs PROVE Rank(x) \in Nat
  <2>1. CASE x.op = "end"
    BY <2>1 DEF Rank
  <2>2. CASE x.op = "claim"
    <3>1. PICK i \in DOMAIN Winners : x.of = Winners[i]
      BY <2>2, Constants, InstrIs
    <3>2. Rank(x) = i /\ i \in Nat
      BY <1>3, <2>2, <3>1, Constants, InstrIs
    <3>. QED  BY <3>2
  <2>3. CASE x.op = "ata"
    <3>1. PICK k \in Payments : x.of = Payouts[k]
      BY <2>3, Constants, InstrIs
    <3>2. PICK a : a = At(Payouts, Payouts[k])
      OBVIOUS
    <3>3. a \in 1 .. k /\ k \in Nat
      BY <1>2, <3>2, Constants
    <3>4. Rank(x) = 2 * a - 1
      BY <1>4, <2>3, <3>1, <3>2, InstrIs
    <3>. QED  BY <3>3, <3>4
  <2>4. CASE x.op = "pay"
    <3>1. PICK k \in Payments : x.of = k
      BY <2>4, InstrIs
    <3>2. Rank(x) = 2 * k /\ k \in Nat
      BY <1>4, <2>4, <3>1, Constants, InstrIs
    <3>. QED  BY <3>2
  <2>. QED  BY <2>1, <2>2, <2>3, <2>4, InstrIs
<1>6. ASSUME NEW k \in Payments
      PROVE  /\ Rank(Instr("ata", Payouts[k])) < 2 * k
             /\ (\A j \in 1 .. (k - 1) : Payouts[j] # Payouts[k]) =>
                  Rank(Instr("ata", Payouts[k])) = 2 * k - 1
  <2>1. PICK a : a = At(Payouts, Payouts[k])
    OBVIOUS
  <2>2. /\ a \in 1 .. k /\ k \in Nat
        /\ (\A j \in 1 .. (k - 1) : Payouts[j] # Payouts[k]) => a = k
    BY <1>2, <2>1, Constants
  <2>3. Rank(Instr("ata", Payouts[k])) = 2 * a - 1
    BY <1>4, <2>1
  <2>4. 2 * a - 1 < 2 * k
    BY <2>2
  <2>. QED  BY <2>2, <2>3, <2>4
<1>. QED  BY <1>3, <1>4, <1>5, <1>6

\* The order of instructions, as a relation.
RankOrder == {p \in Instrs \X Instrs : Rank(p[1]) < Rank(p[2])}

\* A transaction is sorted if it is ordered in that sense.
LEMMA SortedIsOrdered ==
  ASSUME NEW s \in Seq(Instrs)
  PROVE  Sorted(s) <=> Ordered(s, RankOrder)
<1>1. \A i \in DOMAIN s : s[i] \in Instrs
  OBVIOUS
<1>. QED  BY <1>1 DEF Sorted, Ordered, RankOrder

\* Two transactions in order make one if the second follows the first.
LEMMA JoinedSorted ==
  ASSUME NEW s \in Seq(Instrs), NEW t \in Seq(Instrs), Sorted(s), Sorted(t), Below(ToSet(s), ToSet(t))
  PROVE  /\ s \o t \in Seq(Instrs) /\ Len(s \o t) = Len(s) + Len(t)
         /\ Sorted(s \o t) /\ ToSet(s \o t) = ToSet(s) \cup ToSet(t)
<1>1. PICK u : u = s \o t
  OBVIOUS
<1>2. u \in Seq(Instrs) /\ IsJoined(u, s, t)
  BY <1>1, Joined
<1>3. ToSet(u) = ToSet(s) \cup ToSet(t)
  BY <1>2, JoinedHolds
<1>4. Ordered(s, RankOrder) /\ Ordered(t, RankOrder)
  BY SortedIsOrdered
<1>5. \A x \in ToSet(s) : \A y \in ToSet(t) : <<x, y>> \in RankOrder
  <2>1. ToSet(s) \subseteq Instrs /\ ToSet(t) \subseteq Instrs
    BY DEF ToSet
  <2>. QED  BY <2>1 DEF Below, RankOrder
<1>6. Ordered(u, RankOrder)
  BY <1>2, <1>4, <1>5, JoinedOrdered
<1>7. Len(u) = Len(s) + Len(t)
  BY <1>2 DEF IsJoined
<1>. QED  BY <1>1, <1>2, <1>3, <1>6, <1>7, SortedIsOrdered

\* A transaction is added to those that are laid out.
LEMMA AppendedLaid ==
  ASSUME NEW txs, Laid(txs), NEW tx \in Seq(Instrs), Len(tx) <= TxSize + 1, Sorted(tx),
         Below(Instructions(txs), ToSet(tx))
  PROVE  /\ Laid(Append(txs, tx))
         /\ Instructions(Append(txs, tx)) = Instructions(txs) \cup ToSet(tx)
<1>1. txs \in Seq(Seq(Instrs))
  BY DEF Laid
<1>2. PICK u : u = Append(txs, tx)
  OBVIOUS
<1>3. PICK l \in Nat : l = Len(txs)
  BY <1>1
<1>4. /\ u \in Seq(Seq(Instrs)) /\ DOMAIN txs = 1 .. l /\ DOMAIN u = 1 .. (l + 1)
      /\ u[l + 1] = tx /\ \A i \in 1 .. l : u[i] = txs[i]
  BY <1>1, <1>2, <1>3, AppendProperties
<1>5. \A i \in 1 .. l : ToSet(u[i]) \subseteq Instructions(txs)
  BY <1>4 DEF Instructions
<1>6. Instructions(u) = Instructions(txs) \cup ToSet(tx)
  <2>1. Instructions(u) = UNION {ToSet(u[j]) : j \in 1 .. (l + 1)}
    BY <1>4 DEF Instructions
  <2>2. Instructions(txs) = UNION {ToSet(u[j]) : j \in 1 .. l}
    BY <1>4 DEF Instructions
  <2>3. 1 .. (l + 1) = (1 .. l) \cup {l + 1}
    OBVIOUS
  <2>. QED  BY <1>4, <2>1, <2>2, <2>3
<1>7. \A j \in DOMAIN u : Len(u[j]) <= TxSize + 1 /\ Sorted(u[j])
  <2>. SUFFICES ASSUME NEW j \in DOMAIN u PROVE Len(u[j]) <= TxSize + 1 /\ Sorted(u[j])
    OBVIOUS
  <2>1. CASE j = l + 1
    BY <1>4, <2>1
  <2>2. CASE j \in 1 .. l
    BY <1>4, <2>2 DEF Laid
  <2>. QED  BY <1>4, <2>1, <2>2
<1>8. \A i, j \in DOMAIN u : i < j => Below(ToSet(u[i]), ToSet(u[j]))
  <2>. SUFFICES ASSUME NEW i \in DOMAIN u, NEW j \in DOMAIN u, i < j
                PROVE  Below(ToSet(u[i]), ToSet(u[j]))
    OBVIOUS
  <2>1. i \in 1 .. l
    BY <1>4
  <2>2. CASE j = l + 1
    BY <1>4, <1>5, <2>1, <2>2 DEF Below
  <2>3. CASE j \in 1 .. l
    BY <1>4, <2>1, <2>3 DEF Laid
  <2>. QED  BY <1>4, <2>2, <2>3
<1>9. Laid(u)
  BY <1>4, <1>7, <1>8 DEF Laid
<1>. QED  BY <1>2, <1>6, <1>9

-----------------------------------------------------------------------------
(* Groups of instructions in transactions.                                  *)

\* How Filled goes through the groups.
FillStep(groups, before, i) ==
  IF i = 0 THEN [txs |-> << >>, tx |-> << >>]
  ELSE LET tx == before.tx \o groups[i]
       IN  IF Full(tx) THEN [txs |-> Append(before.txs, tx), tx |-> << >>]
           ELSE [before EXCEPT !.tx = tx]
Fills(groups) == CHOOSE f : f = [i \in 0 .. Len(groups) |-> FillStep(groups, f[i - 1], i)]

\* Filled is what it has in the end.
LEMMA FilledIsFills ==
  ASSUME NEW groups
  PROVE  Filled(groups) = IF Fills(groups)[Len(groups)].tx = << >> THEN Fills(groups)[Len(groups)].txs
                          ELSE Append(Fills(groups)[Len(groups)].txs, Fills(groups)[Len(groups)].tx)
BY DEF Filled, Fills, FillStep

\* It comes to an end.
LEMMA FillsDefined ==
  ASSUME NEW groups, NEW n \in Nat, Len(groups) = n
  PROVE  \A i \in 0 .. n : Fills(groups)[i] = FillStep(groups, Fills(groups)[i - 1], i)
<1>. DEFINE IsFill(f, m) == f = [i \in 0 .. m |-> FillStep(groups, f[i - 1], i)]
            S == {m \in 0 .. n : \E f : IsFill(f, m)}
<1>1. 0 \in S
  <2>. DEFINE f == [i \in 0 .. 0 |-> [txs |-> << >>, tx |-> << >>]]
  <2>1. f = [i \in 0 .. 0 |-> FillStep(groups, f[i - 1], i)]
    BY DEF FillStep
  <2>2. IsFill(f, 0)
    BY <2>1
  <2>. HIDE DEF f, IsFill
  <2>. QED  BY <2>2
<1>2. ASSUME NEW m \in 0 .. (n - 1), m \in S PROVE m + 1 \in S
  <2>. PICK f : IsFill(f, m)
    BY <1>2
  <2>. DEFINE g == [i \in 0 .. (m + 1) |-> IF i = m + 1 THEN FillStep(groups, f[m], i) ELSE f[i]]
  <2>1. ASSUME NEW i \in 0 .. (m + 1) PROVE g[i] = FillStep(groups, g[i - 1], i)
    <3>1. CASE i = m + 1
      BY <3>1
    <3>2. CASE i # m + 1 /\ i # 0
      <4>1. g[i] = f[i] /\ g[i - 1] = f[i - 1]
        BY <3>2
      <4>2. f[i] = FillStep(groups, f[i - 1], i)
        BY <3>2
      <4>. HIDE DEF g, IsFill
      <4>. QED  BY <4>1, <4>2
    <3>3. CASE i = 0
      <4>1. g[i] = f[i]
        BY <3>3
      <4>2. f[i] = FillStep(groups, f[i - 1], i)
        BY <3>3
      <4>. HIDE DEF g, IsFill
      <4>. QED  BY <3>3, <4>1, <4>2 DEF FillStep
    <3>. QED  BY <3>1, <3>2, <3>3
  <2>2. IsFill(g, m + 1)
    BY <2>1
  <2>3. m + 1 \in 0 .. n
    OBVIOUS
  <2>. HIDE DEF g, IsFill
  <2>. QED  BY <2>2, <2>3
<1>3. 0 .. n \subseteq S
  <2>. HIDE DEF S
  <2>. QED  BY <1>1, <1>2, UpToFrom
<1>4. \E f : IsFill(f, n)
  BY <1>3
<1>5. IsFill(Fills(groups), n)
  BY <1>4 DEF Fills
<1>. QED  BY <1>5

\* Groups as settle makes them: of two instructions at most, and in order.
Grouped(groups) ==
  /\ groups \in Seq(Seq(Instrs))
  /\ \A k \in DOMAIN groups : Len(groups[k]) <= 2 /\ Sorted(groups[k])
  /\ \A j, k \in DOMAIN groups : j < k => Below(ToSet(groups[j]), ToSet(groups[k]))

\* The first m groups are laid out in b: transactions, and one that is not full.
UpToGroup(groups, m) == UNION {ToSet(groups[k]) : k \in 1 .. m}
FilledUpTo(b, groups, m) ==
  /\ Laid(b.txs) /\ b.tx \in Seq(Instrs) /\ Len(b.tx) < TxSize /\ Sorted(b.tx)
  /\ Below(Instructions(b.txs), ToSet(b.tx))
  /\ Instructions(b.txs) \cup ToSet(b.tx) = UpToGroup(groups, m)

\* One more group.
LEMMA FillsOne ==
  ASSUME NEW groups, Grouped(groups), NEW m \in Nat, m + 1 \in DOMAIN groups,
         NEW b \in [txs : Seq(Seq(Instrs)), tx : Seq(Instrs)], FilledUpTo(b, groups, m)
  PROVE  /\ FillStep(groups, b, m + 1) \in [txs : Seq(Seq(Instrs)), tx : Seq(Instrs)]
         /\ FilledUpTo(FillStep(groups, b, m + 1), groups, m + 1)
<1>. DEFINE g == groups[m + 1]
            tx == b.tx \o g
<1>1. /\ groups \in Seq(Seq(Instrs)) /\ g \in Seq(Instrs) /\ Len(g) <= 2 /\ Len(g) \in Nat /\ Sorted(g)
      /\ \A k \in 1 .. m : k \in DOMAIN groups /\ k < m + 1
  BY DEF Grouped
<1>2. UpToGroup(groups, m + 1) = UpToGroup(groups, m) \cup ToSet(g)
  <2>1. 1 .. (m + 1) = (1 .. m) \cup {m + 1}
    OBVIOUS
  <2>. QED  BY <2>1 DEF UpToGroup
<1>3. Below(UpToGroup(groups, m), ToSet(g))
  <2>1. \A k \in 1 .. m : Below(ToSet(groups[k]), ToSet(groups[m + 1]))
    BY <1>1 DEF Grouped
  <2>. QED  BY <2>1 DEF Below, UpToGroup
<1>. HIDE DEF g
<1>4. Below(ToSet(b.tx), ToSet(g)) /\ Below(Instructions(b.txs), ToSet(g))
  BY <1>3 DEF Below, FilledUpTo
<1>5. /\ tx \in Seq(Instrs) /\ Len(tx) = Len(b.tx) + Len(g) /\ Sorted(tx)
      /\ ToSet(tx) = ToSet(b.tx) \cup ToSet(g)
  BY <1>1, <1>4, JoinedSorted DEF FilledUpTo
<1>6. Below(Instructions(b.txs), ToSet(tx))
  BY <1>4, <1>5 DEF Below, FilledUpTo
<1>7. Instructions(b.txs) \cup ToSet(tx) = UpToGroup(groups, m + 1)
  BY <1>2, <1>5 DEF FilledUpTo
<1>8. Len(b.tx) \in Nat /\ Len(b.tx) < TxSize /\ TxSize \in Nat \ {0}
  BY Constants DEF FilledUpTo
<1>9. FillStep(groups, b, m + 1) = IF Full(tx) THEN [txs |-> Append(b.txs, tx), tx |-> << >>]
                                   ELSE [b EXCEPT !.tx = tx]
  BY DEF FillStep, g
<1>. HIDE DEF tx
<1>10. CASE Full(tx)
  <2>1. Len(tx) <= TxSize + 1
    BY <1>1, <1>5, <1>8
  <2>2. Laid(Append(b.txs, tx)) /\ Instructions(Append(b.txs, tx)) = Instructions(b.txs) \cup ToSet(tx)
    BY <1>5, <1>6, <2>1, AppendedLaid DEF FilledUpTo
  <2>3. ToSet(<< >>) = {} /\ << >> \in Seq(Instrs) /\ Len(<< >>) = 0 /\ Sorted(<< >>)
    BY DEF ToSet, Sorted
  <2>4. Append(b.txs, tx) \in Seq(Seq(Instrs))
    BY <2>2 DEF Laid
  <2>5. PICK c : c = [txs |-> Append(b.txs, tx), tx |-> << >>]
    OBVIOUS
  <2>6. c \in [txs : Seq(Seq(Instrs)), tx : Seq(Instrs)] /\ c.txs = Append(b.txs, tx) /\ c.tx = << >>
    BY <2>3, <2>4, <2>5
  <2>7. FilledUpTo(c, groups, m + 1)
    BY <1>7, <1>8, <2>2, <2>3, <2>6 DEF FilledUpTo, Below
  <2>. QED  BY <1>9, <1>10, <2>5, <2>6, <2>7
<1>11. CASE ~Full(tx)
  <2>1. Len(tx) < TxSize
    BY <1>5, <1>8, <1>11 DEF Full
  <2>2. PICK c : c = [b EXCEPT !.tx = tx]
    OBVIOUS
  <2>3. c \in [txs : Seq(Seq(Instrs)), tx : Seq(Instrs)] /\ c.txs = b.txs /\ c.tx = tx
    BY <1>5, <2>2
  <2>4. FilledUpTo(c, groups, m + 1)
    BY <1>5, <1>6, <1>7, <2>1, <2>3 DEF FilledUpTo
  <2>. QED  BY <1>9, <1>11, <2>2, <2>3, <2>4
<1>. QED  BY <1>10, <1>11

\* The transactions hold the instructions of the groups, in their order.
LEMMA FilledLaid ==
  ASSUME NEW groups, Grouped(groups)
  PROVE  Laid(Filled(groups)) /\ Instructions(Filled(groups)) = Instructions(groups)
<1>. DEFINE F == Fills(groups)
            Good(m) == /\ F[m] \in [txs : Seq(Seq(Instrs)), tx : Seq(Instrs)]
                       /\ FilledUpTo(F[m], groups, m)
            S == {m \in Nat : Good(m)}
<1>1. PICK n \in Nat : n = Len(groups) /\ DOMAIN groups = 1 .. n
  BY DEF Grouped
<1>2. \A i \in 0 .. n : F[i] = FillStep(groups, F[i - 1], i)
  BY <1>1, FillsDefined
<1>3. Filled(groups) = IF F[n].tx = << >> THEN F[n].txs ELSE Append(F[n].txs, F[n].tx)
  BY <1>1, FilledIsFills
<1>. HIDE DEF F
<1>4. Good(0)
  <2>1. F[0] = [txs |-> << >>, tx |-> << >>]
    <3>1. F[0] = FillStep(groups, F[0 - 1], 0)
      BY <1>2
    <3>. QED  BY <3>1 DEF FillStep
  <2>2. F[0].txs = << >> /\ F[0].tx = << >> /\ << >> \in Seq(Seq(Instrs)) /\ << >> \in Seq(Instrs)
    BY <2>1
  <2>3. DOMAIN << >> = {} /\ Len(<< >>) = 0 /\ 1 .. 0 = {}
    OBVIOUS
  <2>4. Laid(<< >>) /\ Sorted(<< >>) /\ ToSet(<< >>) = {} /\ Instructions(<< >>) = {}
    BY <2>2, <2>3 DEF Laid, Sorted, ToSet, Instructions
  <2>5. UpToGroup(groups, 0) = {}
    BY <2>3 DEF UpToGroup
  <2>6. FilledUpTo(F[0], groups, 0)
    BY <2>2, <2>3, <2>4, <2>5, Constants DEF FilledUpTo, Below
  <2>. QED  BY <2>1, <2>2, <2>6
<1>5. ASSUME NEW m \in 0 .. (n - 1), m \in S PROVE m + 1 \in S
  <2>1. m + 1 - 1 = m /\ m + 1 \in 0 .. n /\ m + 1 \in DOMAIN groups /\ m + 1 \in Nat
    BY <1>1
  <2>2. F[m + 1] = FillStep(groups, F[m], m + 1)
    <3>1. F[m + 1] = FillStep(groups, F[m + 1 - 1], m + 1)
      BY <1>2, <2>1
    <3>. QED  BY <2>1, <3>1
  <2>3. Good(m)
    BY <1>5
  <2>4. Good(m + 1)
    BY <2>1, <2>2, <2>3, FillsOne
  <2>. HIDE DEF Good
  <2>. QED  BY <2>1, <2>4
<1>6. Good(n)
  <2>1. 0 \in S
    BY <1>4
  <2>2. 0 .. n \subseteq S
    <3>. HIDE DEF S
    <3>. QED  BY <1>5, <2>1, UpToFrom
  <2>. QED  BY <2>2
<1>7. PICK b \in [txs : Seq(Seq(Instrs)), tx : Seq(Instrs)] : b = F[n]
  BY <1>6
<1>8. FilledUpTo(b, groups, n)
  BY <1>6, <1>7
<1>9. UpToGroup(groups, n) = Instructions(groups)
  BY <1>1 DEF UpToGroup, Instructions
<1>10. CASE b.tx = << >>
  <2>1. ToSet(b.tx) = {}
    BY <1>10 DEF ToSet
  <2>. QED  BY <1>3, <1>7, <1>8, <1>9, <1>10, <2>1 DEF FilledUpTo
<1>11. CASE b.tx # << >>
  <2>1. Len(b.tx) <= TxSize + 1
    BY <1>8, Constants DEF FilledUpTo
  <2>2. Filled(groups) = Append(b.txs, b.tx)
    BY <1>3, <1>7, <1>11
  <2>3. /\ Laid(Append(b.txs, b.tx))
        /\ Instructions(Append(b.txs, b.tx)) = Instructions(b.txs) \cup ToSet(b.tx)
    BY <1>8, <2>1, AppendedLaid DEF FilledUpTo
  <2>. QED  BY <1>8, <1>9, <2>2, <2>3 DEF FilledUpTo
<1>. QED  BY <1>10, <1>11

-----------------------------------------------------------------------------
(* Transactions in batches.                                                 *)

\* The transactions from a to b.
LEMMA CutLaid ==
  ASSUME NEW txs, Laid(txs), NEW a \in 1 .. Len(txs), NEW b \in a .. Len(txs)
  PROVE  /\ Laid(SubSeq(txs, a, b)) /\ Len(SubSeq(txs, a, b)) = b - a + 1
         /\ Instructions(SubSeq(txs, a, b)) = UNION {ToSet(txs[j]) : j \in a .. b}
<1>1. txs \in Seq(Seq(Instrs))
  BY DEF Laid
<1>2. PICK n \in Nat : n = Len(txs) /\ DOMAIN txs = 1 .. n
  BY <1>1
<1>3. PICK u : u = SubSeq(txs, a, b)
  OBVIOUS
<1>4. /\ u \in Seq(Seq(Instrs)) /\ Len(u) = b - a + 1
      /\ \A i \in 1 .. (b - a + 1) : u[i] = txs[a + i - 1]
  <2>. DEFINE T == Seq(Instrs)
  <2>1. a \in 1 .. (n + 1) /\ b \in (a - 1) .. n /\ a <= b /\ a \in Int /\ b \in Int
    BY <1>2
  <2>2. txs \in Seq(T)
    BY <1>1
  <2>. HIDE DEF T
  <2>3. /\ SubSeq(txs, a, b) \in Seq(T)
        /\ Len(SubSeq(txs, a, b)) = IF a <= b THEN b - a + 1 ELSE 0
        /\ \A i \in 1 .. (b - a + 1) : SubSeq(txs, a, b)[i] = txs[a + i - 1]
    BY <1>2, <2>1, <2>2, SubSeqProperties
  <2>. QED  BY <1>3, <2>1, <2>3 DEF T
<1>5. DOMAIN u = 1 .. (b - a + 1)
  BY <1>4
<1>6. \A i \in DOMAIN u : a + i - 1 \in a .. b /\ a + i - 1 \in DOMAIN txs /\ u[i] = txs[a + i - 1]
  BY <1>2, <1>4, <1>5
<1>7. \A j \in a .. b : j - a + 1 \in DOMAIN u /\ a + (j - a + 1) - 1 = j
  BY <1>2, <1>5
<1>8. Instructions(u) = UNION {ToSet(txs[j]) : j \in a .. b}
  <2>1. Instructions(u) \subseteq UNION {ToSet(txs[j]) : j \in a .. b}
    BY <1>6 DEF Instructions
  <2>2. ASSUME NEW j \in a .. b PROVE ToSet(txs[j]) \subseteq Instructions(u)
    <3>1. PICK i \in DOMAIN u : a + i - 1 = j
      BY <1>7
    <3>2. u[i] = txs[j]
      BY <1>6, <3>1
    <3>. QED  BY <3>2 DEF Instructions
  <2>. QED  BY <2>1, <2>2
<1>9. \A j \in DOMAIN u : Len(u[j]) <= TxSize + 1 /\ Sorted(u[j])
  BY <1>6 DEF Laid
<1>10. \A i, j \in DOMAIN u : i < j => Below(ToSet(u[i]), ToSet(u[j]))
  <2>. SUFFICES ASSUME NEW i \in DOMAIN u, NEW j \in DOMAIN u, i < j
                PROVE  Below(ToSet(u[i]), ToSet(u[j]))
    OBVIOUS
  <2>1. PICK g \in DOMAIN txs, h \in DOMAIN txs : g = a + i - 1 /\ h = a + j - 1 /\ u[i] = txs[g] /\ u[j] = txs[h]
    BY <1>6
  <2>2. g < h
    BY <1>2, <1>5, <2>1
  <2>. QED  BY <2>1, <2>2 DEF Laid
<1>. QED  BY <1>3, <1>4, <1>8, <1>9, <1>10 DEF Laid

\* Where batch i begins and ends among n transactions.
Begins(i) == (i - 1) * BatchSize + 1
Ends(i, n) == Min({i * BatchSize, n})

\* Every batch has some transactions and not too many, a batch begins behind the
\* one before it, and together they have them all.
LEMMA BatchesMeet ==
  ASSUME NEW n \in Nat, NEW q, q = Pieces(n, BatchSize)
  PROVE  /\ q \in Nat
         /\ \A i \in 1 .. q : /\ Begins(i) \in 1 .. n /\ Ends(i, n) \in Begins(i) .. n
                              /\ Ends(i, n) - Begins(i) + 1 <= BatchSize
         /\ \A i, j \in 1 .. q : i < j => Ends(i, n) < Begins(j)
         /\ \A h \in 1 .. n : \E i \in 1 .. q : h \in Begins(i) .. Ends(i, n)
<1>. DEFINE B == BatchSize
<1>1. B \in Nat \ {0}
  BY Constants
<1>. HIDE DEF B
<1>2. /\ q \in Nat /\ n <= q * B /\ \A i \in 1 .. q : (i - 1) * B < n
  BY <1>1, PiecesAre DEF B
<1>3. ASSUME NEW i \in Nat
      PROVE  /\ Ends(i, n) = IF i * B <= n THEN i * B ELSE n
             /\ i * B \in Int
  <2>1. PICK m \in Int : m = i * B
    BY <1>1
  <2>2. Min({m, n}) = IF m <= n THEN m ELSE n
    BY DEF Min
  <2>. QED  BY <2>1, <2>2 DEF Ends, B
<1>4. ASSUME NEW i \in Nat \ {0}
      PROVE  /\ Begins(i) = (i - 1) * B + 1 /\ (i - 1) * B = i * B - B /\ (i - 1) * B \in Nat
  <2>1. (i - 1) * B = i * B - B /\ (i - 1) * B \in Int
    BY <1>1, Multiples
  <2>2. (i - 1) * B >= 0
    <3>1. i - 1 \in Nat
      OBVIOUS
    <3>2. \A k \in Nat : k * B >= 0
      BY <1>1
    <3>. QED  BY <3>1, <3>2
  <2>. QED  BY <2>1, <2>2 DEF Begins, B
<1>5. ASSUME NEW i \in 1 .. q
      PROVE  /\ Begins(i) \in 1 .. n /\ Ends(i, n) \in Begins(i) .. n
             /\ Ends(i, n) - Begins(i) + 1 <= B
  <2>1. PICK m \in Int, l \in Nat : m = i * B /\ l = (i - 1) * B /\ l = m - B
    BY <1>2, <1>3, <1>4
  <2>2. l < n /\ Begins(i) = l + 1 /\ Ends(i, n) = IF m <= n THEN m ELSE n
    BY <1>2, <1>3, <1>4, <2>1
  <2>. QED  BY <1>1, <2>1, <2>2
<1>6. ASSUME NEW i \in 1 .. q, NEW j \in 1 .. q, i < j PROVE Ends(i, n) < Begins(j)
  <2>1. PICK m \in Int, l \in Nat : m = i * B /\ l = (j - 1) * B
    BY <1>2, <1>3, <1>4
  <2>2. m <= l
    <3>1. CASE i = j - 1
      BY <2>1, <3>1
    <3>2. CASE i < j - 1
      <4>1. i * B + B <= (j - 1) * B
        BY <1>1, <1>2, <3>2, Multiples
      <4>. QED  BY <1>1, <2>1, <4>1
    <3>. QED  BY <1>2, <1>6, <3>1, <3>2
  <2>3. Begins(j) = l + 1 /\ Ends(i, n) = IF m <= n THEN m ELSE n
    BY <1>2, <1>3, <1>4, <2>1
  <2>. QED  BY <2>1, <2>2, <2>3
<1>7. ASSUME NEW h \in 1 .. n PROVE \E i \in 1 .. q : h \in Begins(i) .. Ends(i, n)
  <2>1. PICK i : i = Pieces(h, B)
    OBVIOUS
  <2>2. /\ i \in Nat /\ h <= i * B /\ \A k \in 1 .. i : (k - 1) * B < h
        /\ \A k \in Nat : h <= k * B => i <= k
    <3>1. h \in Nat
      OBVIOUS
    <3>. QED  BY <1>1, <2>1, <3>1, PiecesAre
  <2>3. i # 0
    BY <1>1, <2>2
  <2>4. i <= q
    <3>1. PICK m \in Int : m = q * B
      BY <1>2, <1>3
    <3>2. h <= m
      BY <1>2, <3>1
    <3>. QED  BY <1>2, <2>2, <3>1, <3>2
  <2>5. (i - 1) * B < h
    BY <2>2, <2>3
  <2>6. PICK m \in Int, l \in Nat : m = i * B /\ l = (i - 1) * B
    BY <1>3, <1>4, <2>2, <2>3
  <2>7. Begins(i) = l + 1 /\ Ends(i, n) = IF m <= n THEN m ELSE n
    BY <1>3, <1>4, <2>2, <2>3, <2>6
  <2>8. h \in Begins(i) .. Ends(i, n)
    BY <2>2, <2>5, <2>6, <2>7
  <2>. QED  BY <1>2, <2>2, <2>3, <2>4, <2>8
<1>. QED  BY <1>2, <1>5, <1>6, <1>7 DEF B

\* What settle makes of its groups is laid out, and holds them all.
LEMMA BatchedLaid ==
  ASSUME NEW groups, Grouped(groups)
  PROVE  /\ LaidOut(Queue(Batched(groups)))
         /\ Left(Queue(Batched(groups))) = Instructions(groups)
<1>1. PICK txs : txs = Filled(groups)
  OBVIOUS
<1>2. Laid(txs) /\ Instructions(txs) = Instructions(groups)
  BY <1>1, FilledLaid
<1>3. PICK n \in Nat : n = Len(txs) /\ DOMAIN txs = 1 .. n
  BY <1>2 DEF Laid
<1>4. PICK q : q = Pieces(n, BatchSize)
  OBVIOUS
<1>5. /\ q \in Nat
      /\ \A i \in 1 .. q : /\ Begins(i) \in 1 .. n /\ Ends(i, n) \in Begins(i) .. n
                           /\ Ends(i, n) - Begins(i) + 1 <= BatchSize
      /\ \A i, j \in 1 .. q : i < j => Ends(i, n) < Begins(j)
      /\ \A h \in 1 .. n : \E i \in 1 .. q : h \in Begins(i) .. Ends(i, n)
  BY <1>4, BatchesMeet
<1>6. Batched(groups) = [i \in 1 .. q |-> SubSeq(txs, Begins(i), Ends(i, n))]
  BY <1>1, <1>3, <1>4 DEF Batched, Pieces, Begins, Ends
<1>7. PICK queue : queue = Queue(Batched(groups))
  OBVIOUS
<1>. DEFINE Part(i) == SubSeq(txs, Begins(i), Ends(i, n))
<1>8. queue = [i \in 1 .. q |-> [single |-> Len(Part(i)) = 1, txs |-> Part(i)]]
  BY <1>6, <1>7 DEF Queue
<1>9. \A i \in 1 .. q : /\ Laid(Part(i)) /\ Len(Part(i)) = Ends(i, n) - Begins(i) + 1
                        /\ Instructions(Part(i)) = UNION {ToSet(txs[j]) : j \in Begins(i) .. Ends(i, n)}
  BY <1>2, <1>3, <1>5, CutLaid
<1>. HIDE DEF Part
<1>10. DOMAIN queue = 1 .. q /\ \A i \in 1 .. q : queue[i].txs = Part(i)
  BY <1>8
<1>11. queue \in Batches
  <2>1. \A i \in 1 .. q : Part(i) \in Seq(Seq(Instrs))
    BY <1>9 DEF Laid
  <2>2. queue \in [1 .. q -> [single : BOOLEAN, txs : Seq(Seq(Instrs))]]
    BY <1>8, <2>1
  <2>. QED  BY <1>5, <2>2, FunctionIsSeq DEF Batches
<1>12. ASSUME NEW i \in 1 .. q PROVE Part(i) # << >> /\ Len(Part(i)) <= BatchSize
  <2>1. Len(Part(i)) = Ends(i, n) - Begins(i) + 1
    BY <1>9
  <2>2. Ends(i, n) - Begins(i) + 1 > 0 /\ Ends(i, n) - Begins(i) + 1 <= BatchSize
    BY <1>5
  <2>3. Len(<< >>) = 0
    OBVIOUS
  <2>. QED  BY <2>1, <2>2, <2>3
<1>13. ASSUME NEW i \in 1 .. q, NEW j \in 1 .. q, i < j
       PROVE  Below(Instructions(Part(i)), Instructions(Part(j)))
  <2>1. \A g \in Begins(i) .. Ends(i, n) : \A h \in Begins(j) .. Ends(j, n) :
          g \in DOMAIN txs /\ h \in DOMAIN txs /\ g < h
    <3>0. \A k \in 1 .. q : Begins(k) \in 1 .. n /\ Ends(k, n) \in 1 .. n
      BY <1>5
    <3>1. PICK a \in 1 .. n, b \in 1 .. n, c \in 1 .. n, d \in 1 .. n :
            a = Begins(i) /\ b = Ends(i, n) /\ c = Begins(j) /\ d = Ends(j, n)
      BY <3>0
    <3>2. b < c
      BY <1>5, <1>13, <3>1
    <3>3. \A g \in a .. b : \A h \in c .. d : g \in 1 .. n /\ h \in 1 .. n /\ g < h
      BY <3>2
    <3>. QED  BY <1>3, <3>1, <3>3
  <2>2. \A g \in Begins(i) .. Ends(i, n) : \A h \in Begins(j) .. Ends(j, n) :
          Below(ToSet(txs[g]), ToSet(txs[h]))
    BY <1>2, <2>1 DEF Laid
  <2>. QED  BY <1>9, <2>2 DEF Below
<1>14. LaidOut(queue)
  BY <1>9, <1>10, <1>11, <1>12, <1>13 DEF LaidOut
<1>15. Left(queue) = Instructions(txs)
  <2>1. Left(queue) = UNION {Instructions(Part(i)) : i \in 1 .. q}
    BY <1>10 DEF Left
  <2>2. ASSUME NEW i \in 1 .. q PROVE Instructions(Part(i)) \subseteq Instructions(txs)
    <3>1. \A j \in Begins(i) .. Ends(i, n) : j \in DOMAIN txs
      BY <1>3, <1>5
    <3>. QED  BY <1>9, <3>1 DEF Instructions
  <2>3. ASSUME NEW h \in DOMAIN txs PROVE \E i \in 1 .. q : ToSet(txs[h]) \subseteq Instructions(Part(i))
    <3>1. PICK i \in 1 .. q : h \in Begins(i) .. Ends(i, n)
      BY <1>3, <1>5
    <3>. QED  BY <1>9, <3>1
  <2>4. Instructions(txs) = UNION {ToSet(txs[h]) : h \in DOMAIN txs}
    BY DEF Instructions
  <2>. QED  BY <2>1, <2>2, <2>3, <2>4
<1>. QED  BY <1>2, <1>7, <1>14, <1>15

-----------------------------------------------------------------------------
(* What settle sends.                                                       *)

\* Groups that are made one for each number up to n.
LEMMA GroupsAre ==
  ASSUME NEW n \in Nat, NEW groups \in [1 .. n -> Seq(Instrs)],
         \A i \in 1 .. n : Len(groups[i]) <= 2 /\ Sorted(groups[i]),
         \A i, j \in 1 .. n : i < j => Below(ToSet(groups[i]), ToSet(groups[j]))
  PROVE  Grouped(groups) /\ DOMAIN groups = 1 .. n
<1>1. DOMAIN groups = 1 .. n /\ groups \in Seq(Seq(Instrs))
  OBVIOUS
<1>. QED  BY <1>1 DEF Grouped

\* One instruction, two, or none.
LEMMA ShortSorted ==
  /\ Sorted(<< >>) /\ ToSet(<< >>) = {} /\ << >> \in Seq(Instrs) /\ Len(<< >>) = 0
  /\ \A x \in Instrs : Sorted(<<x>>) /\ ToSet(<<x>>) = {x} /\ <<x>> \in Seq(Instrs) /\ Len(<<x>>) = 1
  /\ \A x, y \in Instrs : Rank(x) < Rank(y) => Sorted(<<x, y>>)
  /\ \A x, y \in Instrs : ToSet(<<x, y>>) = {x, y} /\ <<x, y>> \in Seq(Instrs) /\ Len(<<x, y>>) = 2
<1>1. Sorted(<< >>) /\ ToSet(<< >>) = {} /\ << >> \in Seq(Instrs) /\ Len(<< >>) = 0
  BY DEF Sorted, ToSet
<1>2. ASSUME NEW x \in Instrs
      PROVE  Sorted(<<x>>) /\ ToSet(<<x>>) = {x} /\ <<x>> \in Seq(Instrs) /\ Len(<<x>>) = 1
  <2>1. DOMAIN <<x>> = {1} /\ <<x>>[1] = x
    OBVIOUS
  <2>2. Sorted(<<x>>)
    BY <2>1 DEF Sorted
  <2>3. ToSet(<<x>>) = {x}
    BY <2>1 DEF ToSet
  <2>. QED  BY <2>2, <2>3
<1>3. ASSUME NEW x \in Instrs, NEW y \in Instrs
      PROVE  /\ Rank(x) < Rank(y) => Sorted(<<x, y>>)
             /\ ToSet(<<x, y>>) = {x, y} /\ <<x, y>> \in Seq(Instrs) /\ Len(<<x, y>>) = 2
  <2>1. DOMAIN <<x, y>> = {1, 2} /\ <<x, y>>[1] = x /\ <<x, y>>[2] = y
    OBVIOUS
  <2>2. Rank(x) < Rank(y) => Sorted(<<x, y>>)
    BY <2>1 DEF Sorted
  <2>3. ToSet(<<x, y>>) = {x, y}
    BY <2>1 DEF ToSet
  <2>. QED  BY <2>2, <2>3
<1>. QED  BY <1>1, <1>2, <1>3

\* The end of the auction.
LEMMA EndLaid ==
  /\ LaidOut(Queue(<< << <<Instr("end", Seller)>> >> >>))
  /\ Left(Queue(<< << <<Instr("end", Seller)>> >> >>)) = {Instr("end", Seller)}
<1>1. PICK x \in Instrs : x = Instr("end", Seller)
  BY InstrIs
<1>2. Sorted(<<x>>) /\ ToSet(<<x>>) = {x} /\ <<x>> \in Seq(Instrs) /\ Len(<<x>>) = 1
  BY ShortSorted
<1>3. PICK tx : tx = <<x>>
  OBVIOUS
<1>4. PICK txs : txs = <<tx>>
  OBVIOUS
<1>5. /\ txs \in Seq(Seq(Instrs)) /\ DOMAIN txs = {1} /\ txs[1] = tx /\ Len(txs) = 1 /\ txs # << >>
  BY <1>2, <1>3, <1>4
<1>6. Laid(txs)
  <2>1. Len(tx) <= TxSize + 1 /\ Sorted(tx)
    BY <1>2, <1>3, Constants
  <2>. QED  BY <1>5, <2>1 DEF Laid
<1>7. Instructions(txs) = {x}
  BY <1>2, <1>3, <1>5 DEF Instructions
<1>8. PICK queue : queue = Queue(<<txs>>)
  OBVIOUS
<1>9. DOMAIN <<txs>> = {1} /\ <<txs>>[1] = txs
  OBVIOUS
<1>10. queue = [i \in {1} |-> [single |-> TRUE, txs |-> txs]]
  BY <1>5, <1>8, <1>9 DEF Queue
<1>11. DOMAIN queue = {1} /\ queue[1].txs = txs
  BY <1>10
<1>12. queue \in Batches
  <2>1. PICK b : b = [single |-> TRUE, txs |-> txs]
    OBVIOUS
  <2>2. b \in [single : BOOLEAN, txs : Seq(Seq(Instrs))]
    BY <1>5, <2>1
  <2>3. {1} = 1 .. 1
    OBVIOUS
  <2>4. queue \in [1 .. 1 -> [single : BOOLEAN, txs : Seq(Seq(Instrs))]]
    BY <1>10, <2>1, <2>2, <2>3
  <2>. QED  BY <2>4, FunctionIsSeq DEF Batches
<1>13. LaidOut(queue)
  <2>1. Len(txs) <= BatchSize
    BY <1>5, Constants
  <2>2. \A i, j \in DOMAIN queue : ~(i < j)
    BY <1>11
  <2>. QED  BY <1>5, <1>6, <1>11, <1>12, <2>1, <2>2 DEF LaidOut
<1>14. Left(queue) = {x}
  BY <1>7, <1>11 DEF Left
<1>. QED  BY <1>1, <1>3, <1>4, <1>8, <1>13, <1>14

\* The claims of the pots of these bidders.
LEMMA ClaimsLaid ==
  ASSUME NEW won \in SUBSET Bidders
  PROVE  LaidOut(ClaimBids[won]) /\ Left(ClaimBids[won]) = {Instr("claim", w) : w \in won}
<1>. DEFINE G(i) == IF Winners[i] \in won THEN <<Instr("claim", Winners[i])>> ELSE << >>
<1>1. PICK n \in Nat : n = Len(Winners) /\ DOMAIN Winners = 1 .. n
  BY Constants
<1>2. PICK groups : groups = [i \in 1 .. n |-> G(i)]
  OBVIOUS
<1>3. ClaimBids[won] = Queue(Batched(groups))
  BY <1>1, <1>2 DEF ClaimBids
<1>4. ASSUME NEW i \in 1 .. n
      PROVE  /\ G(i) \in Seq(Instrs) /\ Len(G(i)) <= 2 /\ Sorted(G(i))
             /\ ToSet(G(i)) = IF Winners[i] \in won THEN {Instr("claim", Winners[i])} ELSE {}
             /\ \A x \in ToSet(G(i)) : Rank(x) = i
  <2>1. Instr("claim", Winners[i]) \in Instrs /\ Rank(Instr("claim", Winners[i])) = i
    BY <1>1, Constants, InstrIs, RankIs
  <2>2. CASE Winners[i] \in won
    BY <2>1, <2>2, ShortSorted
  <2>3. CASE Winners[i] \notin won
    BY <2>3, ShortSorted
  <2>. QED  BY <2>2, <2>3
<1>. HIDE DEF G
<1>5. groups \in [1 .. n -> Seq(Instrs)] /\ \A i \in 1 .. n : groups[i] = G(i)
  BY <1>2, <1>4
<1>6. \A i \in 1 .. n : Len(groups[i]) <= 2 /\ Sorted(groups[i])
  BY <1>4, <1>5
<1>7. \A i, j \in 1 .. n : i < j => Below(ToSet(groups[i]), ToSet(groups[j]))
  BY <1>4, <1>5 DEF Below
<1>8. Grouped(groups) /\ DOMAIN groups = 1 .. n
  BY <1>5, <1>6, <1>7, GroupsAre
<1>9. Instructions(groups) = {Instr("claim", w) : w \in won}
  <2>1. ASSUME NEW x \in Instructions(groups) PROVE x \in {Instr("claim", w) : w \in won}
    <3>1. PICK i \in 1 .. n : x \in ToSet(groups[i])
      BY <1>8, <2>1 DEF Instructions
    <3>. QED  BY <1>4, <1>5, <3>1
  <2>2. ASSUME NEW w \in won PROVE Instr("claim", w) \in Instructions(groups)
    <3>1. PICK i \in 1 .. n : Winners[i] = w
      BY <1>1, Constants
    <3>2. Instr("claim", w) \in ToSet(groups[i])
      BY <1>4, <1>5, <3>1
    <3>. QED  BY <1>8, <3>2 DEF Instructions
  <2>. QED  BY <2>1, <2>2
<1>. QED  BY <1>3, <1>8, <1>9, BatchedLaid

\* The payments, and the accounts that are missing.
LEMMA PaymentsLaid ==
  ASSUME NEW existing \in SUBSET Recipients
  PROVE  /\ LaidOut(EmptyPaymentAccount[existing])
         /\ Left(EmptyPaymentAccount[existing]) =
              {Instr("pay", k) : k \in Payments} \cup {Instr("ata", r) : r \in Recipients \ existing}
<1>. DEFINE Missing(k) == Payouts[k] \notin existing /\ \A j \in 1 .. (k - 1) : Payouts[j] # Payouts[k]
            G(k) == IF Missing(k) THEN <<Instr("ata", Payouts[k]), Instr("pay", k)>> ELSE <<Instr("pay", k)>>
<1>1. PICK n \in Nat : n = Len(Payouts) /\ Payments = 1 .. n
  BY Constants
<1>2. PICK groups : groups = [k \in 1 .. n |-> G(k)]
  OBVIOUS
<1>3. EmptyPaymentAccount[existing] = Queue(Batched(groups))
  BY <1>1, <1>2 DEF EmptyPaymentAccount
<1>4. ASSUME NEW k \in 1 .. n
      PROVE  /\ G(k) \in Seq(Instrs) /\ Len(G(k)) <= 2 /\ Sorted(G(k))
             /\ ToSet(G(k)) = {Instr("pay", k)} \cup (IF Missing(k) THEN {Instr("ata", Payouts[k])} ELSE {})
             /\ \A x \in ToSet(G(k)) : Rank(x) \in {2 * k - 1, 2 * k}
  <2>1. PICK a \in Instrs, b \in Instrs : a = Instr("ata", Payouts[k]) /\ b = Instr("pay", k)
    BY <1>1, Constants, InstrIs
  <2>2. Rank(b) = 2 * k /\ (Missing(k) => Rank(a) = 2 * k - 1)
    BY <1>1, <2>1, RankIs
  <2>3. CASE Missing(k)
    <3>1. G(k) = <<a, b>>
      BY <2>1, <2>3
    <3>2. Rank(a) < Rank(b)
      BY <2>2, <2>3
    <3>3. Sorted(<<a, b>>) /\ ToSet(<<a, b>>) = {a, b} /\ <<a, b>> \in Seq(Instrs) /\ Len(<<a, b>>) = 2
      BY <3>2, ShortSorted
    <3>. HIDE DEF G, Missing
    <3>. QED  BY <2>1, <2>2, <2>3, <3>1, <3>3
  <2>4. CASE ~Missing(k)
    <3>1. G(k) = <<b>>
      BY <2>1, <2>4
    <3>2. Sorted(<<b>>) /\ ToSet(<<b>>) = {b} /\ <<b>> \in Seq(Instrs) /\ Len(<<b>>) = 1
      BY ShortSorted
    <3>. HIDE DEF G, Missing
    <3>. QED  BY <2>1, <2>2, <2>4, <3>1, <3>2
  <2>. QED  BY <2>3, <2>4
<1>. HIDE DEF G
<1>5. groups \in [1 .. n -> Seq(Instrs)] /\ \A i \in 1 .. n : groups[i] = G(i)
  BY <1>2, <1>4
<1>6. \A i \in 1 .. n : Len(groups[i]) <= 2 /\ Sorted(groups[i])
  BY <1>4, <1>5
<1>7. ASSUME NEW i \in 1 .. n, NEW j \in 1 .. n, i < j PROVE Below(ToSet(groups[i]), ToSet(groups[j]))
  <2>1. \A r \in {2 * i - 1, 2 * i} : \A s \in {2 * j - 1, 2 * j} : r < s
    BY <1>7
  <2>2. \A x \in ToSet(groups[i]) : Rank(x) \in {2 * i - 1, 2 * i}
    BY <1>4, <1>5
  <2>3. \A x \in ToSet(groups[j]) : Rank(x) \in {2 * j - 1, 2 * j}
    BY <1>4, <1>5
  <2>. QED  BY <2>1, <2>2, <2>3 DEF Below
<1>8. Grouped(groups) /\ DOMAIN groups = 1 .. n
  BY <1>5, <1>6, <1>7, GroupsAre
<1>9. Instructions(groups) = {Instr("pay", k) : k \in Payments} \cup {Instr("ata", r) : r \in Recipients \ existing}
  <2>1. ASSUME NEW x \in Instructions(groups)
        PROVE  x \in {Instr("pay", k) : k \in Payments} \cup {Instr("ata", r) : r \in Recipients \ existing}
    <3>1. PICK k \in 1 .. n : x \in ToSet(groups[k])
      BY <1>8, <2>1 DEF Instructions
    <3>2. x = Instr("pay", k) \/ (Missing(k) /\ x = Instr("ata", Payouts[k]))
      BY <1>4, <1>5, <3>1
    <3>3. Missing(k) => Payouts[k] \in Recipients \ existing
      BY <1>1, Constants
    <3>. QED  BY <1>1, <3>2, <3>3
  <2>2. ASSUME NEW k \in Payments PROVE Instr("pay", k) \in Instructions(groups)
    BY <1>1, <1>4, <1>5, <1>8 DEF Instructions
  <2>3. ASSUME NEW r \in Recipients \ existing PROVE Instr("ata", r) \in Instructions(groups)
    <3>1. PICK j \in Payments : Payouts[j] = r
      BY Constants
    <3>2. PICK k : k = At(Payouts, r)
      OBVIOUS
    <3>3. k \in Payments /\ Payouts[k] = r /\ \A h \in Payments : Payouts[h] = r => k <= h
      BY <3>1, <3>2, Constants, FirstAt
    <3>4. Missing(k)
      <4>1. \A h \in 1 .. (k - 1) : h \in Payments /\ ~(k <= h)
        BY <1>1, <3>3
      <4>. QED  BY <3>3, <4>1
    <3>5. Instr("ata", r) \in ToSet(groups[k])
      BY <1>1, <1>4, <1>5, <3>3, <3>4
    <3>. QED  BY <1>1, <1>8, <3>3, <3>5 DEF Instructions
  <2>. QED  BY <2>1, <2>2, <2>3
<1>. QED  BY <1>3, <1>8, <1>9, BatchedLaid

-----------------------------------------------------------------------------
(* What is laid out fits.                                                   *)

TxsOrder == {p \in Seq(Instrs) \X Seq(Instrs) : Below(ToSet(p[1]), ToSet(p[2]))}

\* Instructions in their order are different ones.
LEMMA OrderedInjective ==
  ASSUME NEW s \in Seq(Instrs), Ordered(s, RankOrder)
  PROVE  IsInjective(s)
<1>1. DOMAIN s \subseteq Nat /\ \A i \in DOMAIN s : s[i] \in Instrs
  OBVIOUS
<1>2. ASSUME NEW i \in DOMAIN s, NEW j \in DOMAIN s, i < j PROVE s[i] # s[j]
  <2>1. Rank(s[i]) < Rank(s[j])
    BY <1>2 DEF Ordered, RankOrder
  <2>2. Rank(s[i]) \in Nat /\ Rank(s[j]) \in Nat
    BY <1>1, RankIs
  <2>. QED  BY <2>1, <2>2
<1>3. ASSUME NEW i \in DOMAIN s, NEW j \in DOMAIN s, s[i] = s[j] PROVE i = j
  <2>1. i < j \/ j < i \/ i = j
    BY <1>1
  <2>. QED  BY <1>2, <1>3, <2>1
<1>. QED  BY <1>3 DEF IsInjective

\* The transactions of all batches, and the instructions of all transactions.
LEMMA LaidFits ==
  ASSUME NEW queue, LaidOut(queue), NEW txs, txs = FlattenSeq([i \in DOMAIN queue |-> queue[i].txs])
  PROVE  /\ \A i \in DOMAIN txs : Len(txs[i]) <= TxSize + 1
         /\ IsInjective(FlattenSeq(txs))
<1>1. queue \in Batches
  BY DEF LaidOut
<1>2. PICK n \in Nat : n = Len(queue) /\ DOMAIN queue = 1 .. n
  BY <1>1 DEF Batches
<1>3. PICK seqs : seqs = [i \in 1 .. n |-> queue[i].txs]
  OBVIOUS
<1>4. \A i \in 1 .. n : queue[i].txs \in Seq(Seq(Instrs)) /\ Laid(queue[i].txs)
  BY <1>2 DEF LaidOut, Laid
<1>5. seqs \in Seq(Seq(Seq(Instrs))) /\ Len(seqs) = n /\ DOMAIN seqs = 1 .. n
      /\ \A i \in 1 .. n : seqs[i] = queue[i].txs
  <2>1. seqs \in [1 .. n -> Seq(Seq(Instrs))] /\ \A i \in 1 .. n : seqs[i] = queue[i].txs
    BY <1>3, <1>4
  <2>. QED  BY <2>1
<1>6. txs = FlattenSeq(seqs)
  BY <1>2, <1>3
<1>7. \A k \in DOMAIN seqs : Ordered(seqs[k], TxsOrder)
  <2>. SUFFICES ASSUME NEW k \in 1 .. n, NEW i \in DOMAIN seqs[k], NEW j \in DOMAIN seqs[k], i < j
                PROVE  <<seqs[k][i], seqs[k][j]>> \in TxsOrder
    BY <1>5 DEF Ordered
  <2>1. seqs[k] \in Seq(Seq(Instrs)) /\ Laid(seqs[k])
    BY <1>4, <1>5
  <2>2. Below(ToSet(seqs[k][i]), ToSet(seqs[k][j]))
    BY <2>1 DEF Laid
  <2>3. seqs[k][i] \in Seq(Instrs) /\ seqs[k][j] \in Seq(Instrs)
    BY <2>1
  <2>. QED  BY <2>2, <2>3 DEF TxsOrder
<1>8. \A j, k \in DOMAIN seqs : j < k =>
        \A x \in ToSet(seqs[j]) : \A y \in ToSet(seqs[k]) : <<x, y>> \in TxsOrder
  <2>. SUFFICES ASSUME NEW j \in 1 .. n, NEW k \in 1 .. n, j < k,
                       NEW x \in ToSet(seqs[j]), NEW y \in ToSet(seqs[k])
                PROVE  <<x, y>> \in TxsOrder
    BY <1>5
  <2>1. Below(Instructions(seqs[j]), Instructions(seqs[k]))
    BY <1>2, <1>5 DEF LaidOut
  <2>2. ToSet(x) \subseteq Instructions(seqs[j]) /\ ToSet(y) \subseteq Instructions(seqs[k])
    <3>1. \A s : \A z \in ToSet(s) : ToSet(z) \subseteq Instructions(s)
      BY DEF ToSet, Instructions
    <3>. QED  BY <3>1
  <2>3. x \in Seq(Instrs) /\ y \in Seq(Instrs)
    BY <1>4, <1>5 DEF ToSet
  <2>4. Below(ToSet(x), ToSet(y))
    BY <2>1, <2>2 DEF Below
  <2>. QED  BY <2>3, <2>4 DEF TxsOrder
<1>9. /\ txs \in Seq(Seq(Instrs)) /\ Ordered(txs, TxsOrder)
      /\ ToSet(txs) = UNION {ToSet(seqs[k]) : k \in DOMAIN seqs}
  <2>1. PICK T : T = Seq(Instrs)
    OBVIOUS
  <2>2. seqs \in Seq(Seq(T))
    BY <1>5, <2>1
  <2>3. Len(seqs) = n
    BY <1>5
  <2>4. /\ FlattenSeq(seqs) \in Seq(T) /\ Ordered(FlattenSeq(seqs), TxsOrder)
        /\ ToSet(FlattenSeq(seqs)) = UNION {ToSet(seqs[k]) : k \in DOMAIN seqs}
    BY <1>7, <1>8, <2>2, <2>3, FlatOrdered
  <2>. QED  BY <1>6, <2>1, <2>4
<1>10. \A i \in DOMAIN txs : Len(txs[i]) <= TxSize + 1 /\ Sorted(txs[i])
  <2>. SUFFICES ASSUME NEW i \in DOMAIN txs PROVE Len(txs[i]) <= TxSize + 1 /\ Sorted(txs[i])
    OBVIOUS
  <2>1. txs[i] \in ToSet(txs)
    BY DEF ToSet
  <2>2. PICK k \in 1 .. n : txs[i] \in ToSet(queue[k].txs)
    BY <1>5, <1>9, <2>1
  <2>3. PICK j \in DOMAIN queue[k].txs : txs[i] = queue[k].txs[j]
    BY <2>2 DEF ToSet
  <2>. QED  BY <1>4, <2>3 DEF Laid
<1>11. PICK m \in Nat : m = Len(txs) /\ DOMAIN txs = 1 .. m
  <2>1. txs \in Seq(Seq(Instrs))
    BY <1>9
  <2>. QED  BY <2>1
<1>12. \A k \in DOMAIN txs : Ordered(txs[k], RankOrder)
  BY <1>9, <1>10, SortedIsOrdered
<1>13. \A j, k \in DOMAIN txs : j < k =>
         \A x \in ToSet(txs[j]) : \A y \in ToSet(txs[k]) : <<x, y>> \in RankOrder
  <2>. SUFFICES ASSUME NEW j \in DOMAIN txs, NEW k \in DOMAIN txs, j < k,
                       NEW x \in ToSet(txs[j]), NEW y \in ToSet(txs[k])
                PROVE  <<x, y>> \in RankOrder
    OBVIOUS
  <2>1. Below(ToSet(txs[j]), ToSet(txs[k]))
    BY <1>9 DEF Ordered, TxsOrder
  <2>2. ToSet(txs[j]) \subseteq Instrs /\ ToSet(txs[k]) \subseteq Instrs
    BY <1>9 DEF ToSet
  <2>. QED  BY <2>1, <2>2 DEF Below, RankOrder
<1>14. FlattenSeq(txs) \in Seq(Instrs) /\ Ordered(FlattenSeq(txs), RankOrder)
  BY <1>9, <1>11, <1>12, <1>13, FlatOrdered
<1>. QED  BY <1>10, <1>14, OrderedInjective

-----------------------------------------------------------------------------
(* What is left behind the first transaction.                               *)

\* The items of a list without its first one.
LEMMA TailIs ==
  ASSUME NEW T, NEW s \in Seq(T), s # << >>
  PROVE  /\ Tail(s) \in Seq(T) /\ Len(s) \in Nat \ {0} /\ Len(Tail(s)) = Len(s) - 1
         /\ Head(s) = s[1] /\ 1 \in DOMAIN s /\ s[1] \in T
         /\ DOMAIN s = 1 .. Len(s) /\ DOMAIN Tail(s) = 1 .. (Len(s) - 1)
         /\ \A i \in DOMAIN Tail(s) : Tail(s)[i] = s[i + 1] /\ i + 1 \in DOMAIN s
         /\ \A i \in DOMAIN s : i # 1 => i - 1 \in DOMAIN Tail(s) /\ s[i] = Tail(s)[i - 1]
<1>1. /\ Head(s) \in T /\ Tail(s) \in Seq(T) /\ Len(Tail(s)) = Len(s) - 1
      /\ \A i \in 1 .. Len(Tail(s)) : Tail(s)[i] = s[i + 1]
  BY HeadTailProperties
<1>2. Len(s) \in Nat /\ DOMAIN s = 1 .. Len(s) /\ Len(s) # 0 /\ Head(s) = s[1]
  OBVIOUS
<1>3. DOMAIN Tail(s) = 1 .. (Len(s) - 1)
  BY <1>1
<1>. QED  BY <1>1, <1>2, <1>3

\* The transactions behind the first one.
LEMMA TailLaid ==
  ASSUME NEW txs, Laid(txs), txs # << >>
  PROVE  /\ Laid(Tail(txs)) /\ Instructions(txs) = ToSet(txs[1]) \cup Instructions(Tail(txs))
         /\ Below(ToSet(txs[1]), Instructions(Tail(txs)))
<1>1. txs \in Seq(Seq(Instrs))
  BY DEF Laid
<1>2. PICK t : t = Tail(txs)
  OBVIOUS
<1>3. /\ t \in Seq(Seq(Instrs)) /\ 1 \in DOMAIN txs /\ DOMAIN t \subseteq Nat \ {0}
      /\ \A i \in DOMAIN t : t[i] = txs[i + 1] /\ i + 1 \in DOMAIN txs
      /\ \A i \in DOMAIN txs : i # 1 => i - 1 \in DOMAIN t /\ txs[i] = t[i - 1]
  BY <1>1, <1>2, TailIs
<1>4. Laid(t)
  <2>1. \A j \in DOMAIN t : Len(t[j]) <= TxSize + 1 /\ Sorted(t[j])
    BY <1>3 DEF Laid
  <2>2. ASSUME NEW i \in DOMAIN t, NEW j \in DOMAIN t, i < j PROVE Below(ToSet(t[i]), ToSet(t[j]))
    <3>1. i + 1 < j + 1
      BY <1>3, <2>2
    <3>2. Below(ToSet(txs[i + 1]), ToSet(txs[j + 1]))
      BY <1>3, <3>1 DEF Laid
    <3>. QED  BY <1>3, <3>2
  <2>. QED  BY <1>3, <2>1, <2>2 DEF Laid
<1>5. Instructions(txs) = ToSet(txs[1]) \cup Instructions(t)
  <2>1. ASSUME NEW x \in Instructions(txs) PROVE x \in ToSet(txs[1]) \cup Instructions(t)
    <3>1. PICK i \in DOMAIN txs : x \in ToSet(txs[i])
      BY <2>1 DEF Instructions
    <3>2. CASE i # 1
      BY <1>3, <3>1, <3>2 DEF Instructions
    <3>. QED  BY <3>1, <3>2
  <2>2. Instructions(t) \subseteq Instructions(txs) /\ ToSet(txs[1]) \subseteq Instructions(txs)
    BY <1>3 DEF Instructions
  <2>. QED  BY <2>1, <2>2
<1>6. Below(ToSet(txs[1]), Instructions(t))
  <2>1. \A i \in DOMAIN t : Below(ToSet(txs[1]), ToSet(t[i]))
    <3>. SUFFICES ASSUME NEW i \in DOMAIN t PROVE Below(ToSet(txs[1]), ToSet(t[i]))
      OBVIOUS
    <3>1. 1 < i + 1
      BY <1>3
    <3>. QED  BY <1>3, <3>1 DEF Laid
  <2>. QED  BY <2>1 DEF Below, Instructions
<1>. QED  BY <1>2, <1>4, <1>5, <1>6

\* The batches behind the first one.
LEMMA TailLaidOut ==
  ASSUME NEW queue, LaidOut(queue), queue # << >>
  PROVE  /\ LaidOut(Tail(queue)) /\ Left(queue) = Instructions(queue[1].txs) \cup Left(Tail(queue))
         /\ Below(Instructions(queue[1].txs), Left(Tail(queue)))
<1>1. queue \in Batches
  BY DEF LaidOut
<1>2. PICK t : t = Tail(queue)
  OBVIOUS
<1>3. /\ t \in Batches /\ 1 \in DOMAIN queue /\ DOMAIN t \subseteq Nat \ {0}
      /\ \A i \in DOMAIN t : t[i] = queue[i + 1] /\ i + 1 \in DOMAIN queue
      /\ \A i \in DOMAIN queue : i # 1 => i - 1 \in DOMAIN t /\ queue[i] = t[i - 1]
  BY <1>1, <1>2, TailIs DEF Batches
<1>4. LaidOut(t)
  <2>1. \A i \in DOMAIN t : Laid(t[i].txs) /\ t[i].txs # << >> /\ Len(t[i].txs) <= BatchSize
    BY <1>3 DEF LaidOut
  <2>2. ASSUME NEW i \in DOMAIN t, NEW j \in DOMAIN t, i < j
        PROVE  Below(Instructions(t[i].txs), Instructions(t[j].txs))
    <3>1. i + 1 < j + 1
      BY <1>3, <2>2
    <3>2. Below(Instructions(queue[i + 1].txs), Instructions(queue[j + 1].txs))
      BY <1>3, <3>1 DEF LaidOut
    <3>. QED  BY <1>3, <3>2
  <2>. QED  BY <1>3, <2>1, <2>2 DEF LaidOut
<1>5. Left(queue) = Instructions(queue[1].txs) \cup Left(t)
  <2>1. ASSUME NEW x \in Left(queue) PROVE x \in Instructions(queue[1].txs) \cup Left(t)
    <3>1. PICK i \in DOMAIN queue : x \in Instructions(queue[i].txs)
      BY <2>1 DEF Left
    <3>2. CASE i # 1
      BY <1>3, <3>1, <3>2 DEF Left
    <3>. QED  BY <3>1, <3>2
  <2>2. Left(t) \subseteq Left(queue) /\ Instructions(queue[1].txs) \subseteq Left(queue)
    BY <1>3 DEF Left
  <2>. QED  BY <2>1, <2>2
<1>6. Below(Instructions(queue[1].txs), Left(t))
  <2>1. \A i \in DOMAIN t : Below(Instructions(queue[1].txs), Instructions(t[i].txs))
    <3>. SUFFICES ASSUME NEW i \in DOMAIN t PROVE Below(Instructions(queue[1].txs), Instructions(t[i].txs))
      OBVIOUS
    <3>1. 1 < i + 1
      BY <1>3
    <3>. QED  BY <1>3, <3>1 DEF LaidOut
  <2>. QED  BY <2>1 DEF Below, Left
<1>. QED  BY <1>2, <1>4, <1>5, <1>6

\* A batch before others that its instructions precede.
LEMMA ConsLaidOut ==
  ASSUME NEW queue, LaidOut(queue), NEW b \in [single : BOOLEAN, txs : Seq(Seq(Instrs))],
         Laid(b.txs), b.txs # << >>, Len(b.txs) <= BatchSize, Below(Instructions(b.txs), Left(queue))
  PROVE  /\ LaidOut(<<b>> \o queue)
         /\ Left(<<b>> \o queue) = Instructions(b.txs) \cup Left(queue)
<1>1. queue \in Batches /\ <<b>> \in Batches
  BY DEF LaidOut, Batches
<1>2. PICK u : u = <<b>> \o queue
  OBVIOUS
<1>3. PICK s : s = <<b>>
  OBVIOUS
<1>4. u \in Batches /\ IsJoined(u, s, queue)
  BY <1>1, <1>2, <1>3, Joined DEF Batches
<1>5. Len(s) = 1 /\ DOMAIN s = {1} /\ s[1] = b
  BY <1>3
<1>6. /\ 1 \in DOMAIN u /\ u[1] = b /\ DOMAIN u \subseteq Nat /\ DOMAIN queue \subseteq Nat
      /\ \A j \in DOMAIN queue : 1 + j \in DOMAIN u /\ u[1 + j] = queue[j]
      /\ \A k \in DOMAIN u : k # 1 => k - 1 \in DOMAIN queue /\ u[k] = queue[k - 1]
  BY <1>4, <1>5 DEF IsJoined
<1>7. \A i \in DOMAIN u : Laid(u[i].txs) /\ u[i].txs # << >> /\ Len(u[i].txs) <= BatchSize
  <2>. SUFFICES ASSUME NEW i \in DOMAIN u
                PROVE  Laid(u[i].txs) /\ u[i].txs # << >> /\ Len(u[i].txs) <= BatchSize
    OBVIOUS
  <2>1. CASE i = 1
    BY <1>6, <2>1
  <2>2. CASE i # 1
    BY <1>6, <2>2 DEF LaidOut
  <2>. QED  BY <2>1, <2>2
<1>8. ASSUME NEW i \in DOMAIN u, NEW j \in DOMAIN u, i < j
      PROVE  Below(Instructions(u[i].txs), Instructions(u[j].txs))
  <2>1. CASE i = 1
    <3>1. j - 1 \in DOMAIN queue /\ u[j] = queue[j - 1]
      BY <1>6, <1>8, <2>1
    <3>2. Instructions(u[j].txs) \subseteq Left(queue)
      BY <3>1 DEF Left
    <3>. QED  BY <1>6, <2>1, <3>2 DEF Below
  <2>2. CASE j = 1
    <3>1. i = 0
      BY <1>6, <1>8, <2>2
    <3>2. i - 1 \in DOMAIN queue
      BY <1>6, <3>1
    <3>. QED  BY <1>6, <3>1, <3>2
  <2>3. CASE i # 1 /\ j # 1
    <3>1. i - 1 < j - 1
      BY <1>6, <1>8
    <3>. QED  BY <1>6, <2>3, <3>1 DEF LaidOut
  <2>. QED  BY <2>1, <2>2, <2>3
<1>9. LaidOut(u)
  BY <1>4, <1>7, <1>8 DEF LaidOut
<1>10. Left(u) = Instructions(b.txs) \cup Left(queue)
  <2>1. ASSUME NEW x \in Left(u) PROVE x \in Instructions(b.txs) \cup Left(queue)
    <3>1. PICK i \in DOMAIN u : x \in Instructions(u[i].txs)
      BY <2>1 DEF Left
    <3>2. CASE i # 1
      BY <1>6, <3>1, <3>2 DEF Left
    <3>3. CASE i = 1
      BY <1>6, <3>1, <3>3
    <3>. QED  BY <3>2, <3>3
  <2>2. ASSUME NEW j \in DOMAIN queue PROVE Instructions(queue[j].txs) \subseteq Left(u)
    BY <1>6 DEF Left
  <2>3. Left(queue) \subseteq Left(u)
    BY <2>2 DEF Left
  <2>4. Instructions(b.txs) \subseteq Left(u)
    BY <1>6 DEF Left
  <2>. QED  BY <2>1, <2>3, <2>4
<1>. QED  BY <1>2, <1>9, <1>10

\* The next transaction comes before what is left behind it.
LEMMA RestLaid ==
  ASSUME LaidOut(todo), todo # << >>
  PROVE  /\ LaidOut(Rest) /\ LaidOut(Tail(todo))
         /\ NextTx \in Seq(Instrs) /\ Sorted(NextTx) /\ ToSet(NextTx) \subseteq Left(todo)
         /\ Left(Rest) = Left(todo) \ ToSet(NextTx)
         /\ Below(ToSet(NextTx), Left(Rest))
<1>1. PICK q : q = Tail(todo)
  OBVIOUS
<1>2. PICK b : b = todo[1]
  OBVIOUS
<1>3. /\ Head(todo) = b /\ b \in [single : BOOLEAN, txs : Seq(Seq(Instrs))] /\ 1 \in DOMAIN todo
  BY <1>2, TailIs DEF LaidOut, Batches
<1>4. /\ LaidOut(q) /\ Left(todo) = Instructions(b.txs) \cup Left(q)
      /\ Below(Instructions(b.txs), Left(q))
  BY <1>1, <1>2, TailLaidOut
<1>5. Laid(b.txs) /\ b.txs # << >> /\ Len(b.txs) <= BatchSize /\ b.txs \in Seq(Seq(Instrs))
  BY <1>2, <1>3 DEF LaidOut
<1>6. PICK tx : tx = b.txs[1]
  OBVIOUS
<1>7. PICK t : t = Tail(b.txs)
  OBVIOUS
<1>8. /\ Head(b.txs) = tx /\ tx \in Seq(Instrs) /\ 1 \in DOMAIN b.txs /\ t \in Seq(Seq(Instrs))
      /\ Len(b.txs) \in Nat \ {0} /\ Len(t) = Len(b.txs) - 1
  BY <1>5, <1>6, <1>7, TailIs
<1>9. NextTx = tx /\ Sorted(tx)
  BY <1>3, <1>5, <1>6, <1>8 DEF NextTx, Laid
<1>10. /\ Laid(t) /\ Instructions(b.txs) = ToSet(tx) \cup Instructions(t)
       /\ Below(ToSet(tx), Instructions(t))
  BY <1>5, <1>6, <1>7, TailLaid
<1>11. /\ LaidOut(Rest) /\ Left(Rest) = Instructions(t) \cup Left(q)
  <2>1. CASE Len(b.txs) = 1
    <3>1. Rest = q
      BY <1>1, <1>3, <2>1 DEF Rest
    <3>2. t = << >>
      BY <1>8, <2>1
    <3>3. Instructions(t) = {}
      BY <3>2 DEF Instructions
    <3>. QED  BY <1>4, <3>1, <3>3
  <2>2. CASE Len(b.txs) # 1
    <3>1. PICK c : c = [b EXCEPT !.txs = t]
      OBVIOUS
    <3>2. Rest = <<c>> \o q
      BY <1>1, <1>3, <1>7, <2>2, <3>1 DEF Rest
    <3>3. c \in [single : BOOLEAN, txs : Seq(Seq(Instrs))] /\ c.txs = t
      BY <1>3, <1>8, <3>1
    <3>4. t # << >> /\ Len(t) <= BatchSize
      <4>1. Len(b.txs) <= BatchSize
        BY <1>5
      <4>2. Len(t) # 0 /\ Len(t) <= BatchSize
        BY <1>8, <2>2, <4>1, Constants
      <4>3. Len(<< >>) = 0
        OBVIOUS
      <4>. QED  BY <4>2, <4>3
    <3>5. Below(Instructions(t), Left(q))
      BY <1>4, <1>10 DEF Below
    <3>. QED  BY <1>4, <1>10, <3>2, <3>3, <3>4, <3>5, ConsLaidOut
  <2>. QED  BY <2>1, <2>2
<1>12. Below(ToSet(tx), Left(Rest))
  BY <1>4, <1>10, <1>11 DEF Below
<1>13. Left(todo) = ToSet(tx) \cup Left(Rest)
  BY <1>4, <1>10, <1>11
<1>14. ToSet(tx) \cap Left(Rest) = {}
  <2>1. \A x \in ToSet(tx) : Rank(x) \in Nat
    BY <1>8, RankIs DEF ToSet
  <2>. QED  BY <1>12, <2>1 DEF Below
<1>. QED  BY <1>1, <1>4, <1>8, <1>9, <1>11, <1>12, <1>13, <1>14

-----------------------------------------------------------------------------
(* What the chain says to the next transaction.                             *)

\* Nothing is left, and whatever is left is an instruction.
LEMMA LeftIs ==
  /\ LaidOut(<< >>) /\ Left(<< >>) = {}
  /\ \A queue : LaidOut(queue) => Left(queue) \subseteq Instrs
<1>1. << >> \in Batches /\ DOMAIN << >> = {}
  BY DEF Batches
<1>2. LaidOut(<< >>)
  BY <1>1 DEF LaidOut
<1>3. Left(<< >>) = {}
  BY <1>1 DEF Left
<1>4. ASSUME NEW queue, LaidOut(queue) PROVE Left(queue) \subseteq Instrs
  <2>1. \A i \in DOMAIN queue : queue[i].txs \in Seq(Seq(Instrs))
    BY <1>4 DEF LaidOut, Laid
  <2>2. \A i \in DOMAIN queue : \A j \in DOMAIN queue[i].txs : queue[i].txs[j] \in Seq(Instrs)
    BY <2>1
  <2>3. \A tx \in Seq(Instrs) : ToSet(tx) \subseteq Instrs
    BY DEF ToSet
  <2>. QED  BY <2>2, <2>3 DEF Left, Instructions
<1>. QED  BY <1>2, <1>3, <1>4

\* Whom a transaction says what to.
LEMMA OfIs ==
  ASSUME NEW tx \in Seq(Instrs)
  PROVE  /\ \A op, z : z \in Of(tx, op) <=> Instr(op, z) \in ToSet(tx)
         /\ Of(tx, "claim") \subseteq Bidders /\ Of(tx, "ata") \subseteq Recipients
         /\ Of(tx, "pay") \subseteq Payments
<1>1. \A j \in DOMAIN tx : tx[j] \in Instrs /\ tx[j] = Instr(tx[j].op, tx[j].of)
  BY InstrIs
<1>2. ASSUME NEW op, NEW z, z \in Of(tx, op) PROVE Instr(op, z) \in ToSet(tx)
  <2>1. PICK j \in DOMAIN tx : tx[j].op = op /\ z = tx[j].of
    BY <1>2 DEF Of
  <2>2. tx[j] = Instr(op, z)
    BY <1>1, <2>1
  <2>. QED  BY <2>2 DEF ToSet
<1>3. ASSUME NEW op, NEW z, Instr(op, z) \in ToSet(tx) PROVE z \in Of(tx, op)
  <2>1. PICK j \in DOMAIN tx : tx[j] = Instr(op, z)
    BY <1>3 DEF ToSet
  <2>2. tx[j].op = op /\ tx[j].of = z
    BY <2>1, InstrIs
  <2>. QED  BY <2>2 DEF Of
<1>4. \A j \in DOMAIN tx : /\ tx[j].op = "claim" => tx[j].of \in Bidders
                           /\ tx[j].op = "ata" => tx[j].of \in Recipients
                           /\ tx[j].op = "pay" => tx[j].of \in Payments
  BY <1>1, InstrIs
<1>5. /\ Of(tx, "claim") \subseteq Bidders /\ Of(tx, "ata") \subseteq Recipients
      /\ Of(tx, "pay") \subseteq Payments
  BY <1>4 DEF Of
<1>. QED  BY <1>2, <1>3, <1>5

\* In a transaction in order no one is told the same twice.
LEMMA CountIs ==
  ASSUME NEW tx \in Seq(Instrs), Sorted(tx), NEW op
  PROVE  Count(tx, op) = Cardinality(Of(tx, op))
<1>. DEFINE S == {j \in DOMAIN tx : tx[j].op = op}
            f == [j \in S |-> tx[j].of]
<1>1. DOMAIN tx = 1 .. Len(tx) /\ Len(tx) \in Nat /\ \A j \in DOMAIN tx : tx[j] \in Instrs
  OBVIOUS
<1>2. IsFiniteSet(S)
  <2>1. IsFiniteSet(1 .. Len(tx))
    BY <1>1, FS_Interval
  <2>2. S \in SUBSET (1 .. Len(tx))
    BY <1>1
  <2>. HIDE DEF S
  <2>. QED  BY <2>1, <2>2, FS_Subset
<1>3. ASSUME NEW i \in S, NEW j \in S, f[i] = f[j] PROVE i = j
  <2>1. tx[i] = tx[j]
    <3>1. tx[i] = Instr(op, tx[i].of) /\ tx[j] = Instr(op, tx[j].of)
      BY <1>1, InstrIs
    <3>. QED  BY <1>3, <3>1
  <2>2. Rank(tx[i]) \in Nat
    BY <1>1, RankIs
  <2>3. ~(i < j) /\ ~(j < i)
    BY <2>1, <2>2 DEF Sorted
  <2>. QED  BY <1>1, <2>3
<1>4. f \in [S -> Of(tx, op)] /\ \A z \in Of(tx, op) : \E j \in S : f[j] = z
  BY DEF Of
<1>5. f \in Bijection(S, Of(tx, op))
  <2>. HIDE DEF f, S
  <2>1. DOMAIN f = S
    BY <1>4
  <2>2. f \in Injection(S, Of(tx, op))
    BY <1>3, <1>4, <2>1 DEF Injection, IsInjective
  <2>3. f \in Surjection(S, Of(tx, op))
    BY <1>4 DEF Surjection
  <2>. QED  BY <2>2, <2>3 DEF Bijection
<1>6. Cardinality(Of(tx, op)) = Cardinality(S)
  <2>. HIDE DEF f, S
  <2>1. ExistsBijection(S, Of(tx, op))
    BY <1>5 DEF ExistsBijection
  <2>. QED  BY <1>2, <2>1, FS_Bijection
<1>. QED  BY <1>6 DEF Count

\* What an undisturbed page sends is accepted, and no pot in it is empty.
LEMMA NextAccepted ==
  ASSUME SettleInv, ~disturbed, Sending
  PROVE  Accepted(NextTx) /\ ~MayBeRefused(NextTx)
<1>1. LaidOut(todo) /\ todo # << >> /\ OnItsWay /\ Typed
  BY DEF SettleInv, Sending
<1>2. PICK tx : tx = NextTx
  OBVIOUS
<1>3. PICK rest : rest = Left(Rest)
  OBVIOUS
<1>4. /\ tx \in Seq(Instrs) /\ Sorted(tx) /\ ToSet(tx) \subseteq Left(todo)
      /\ rest = Left(todo) \ ToSet(tx) /\ Below(ToSet(tx), rest)
  BY <1>1, <1>2, <1>3, RestLaid
<1>5. \A op, z : z \in Of(tx, op) => Instr(op, z) \in Left(todo) /\ op \in Ops(todo)
  <2>1. \A op, z : z \in Of(tx, op) => Instr(op, z) \in Left(todo)
    BY <1>4, OfIs
  <2>2. \A op, z : Instr(op, z).op = op
    BY InstrIs
  <2>. QED  BY <2>1, <2>2 DEF Ops
<1>6. Count(tx, "ata") = Cardinality(Of(tx, "ata"))
  BY <1>4, CountIs
<1>7. CASE stage = "ending"
  <2>1. Ops(todo) \subseteq {"end"} /\ (over <=> Left(todo) = {})
    BY <1>1, <1>7 DEF OnItsWay, ToEnd
  <2>2. Of(tx, "claim") = {} /\ Of(tx, "ata") = {} /\ Of(tx, "pay") = {}
    BY <1>5, <2>1
  <2>3. Of(tx, "end") # {} => ~over
    BY <1>5, <2>1
  <2>. QED  BY <1>2, <1>6, <2>2, <2>3 DEF Accepted, MayBeRefused
<1>8. CASE stage = "claiming"
  <2>1. /\ over /\ Ops(todo) \subseteq {"claim"}
        /\ \A w \in Bidders : Instr("claim", w) \in Left(todo) <=> w \notin claimed
    BY <1>1, <1>8 DEF OnItsWay, ToClaim
  <2>2. Of(tx, "end") = {} /\ Of(tx, "ata") = {} /\ Of(tx, "pay") = {}
    BY <1>5, <2>1
  <2>3. Of(tx, "claim") \cap claimed = {}
    BY <1>4, <1>5, <2>1, OfIs
  <2>. QED  BY <1>2, <1>6, <2>1, <2>2, <2>3 DEF Accepted, MayBeRefused
<1>9. CASE stage = "paying"
  <2>1. /\ claimed = Bidders /\ Ops(todo) \subseteq {"ata", "pay"}
        /\ \A r \in atas : Instr("ata", r) \notin Left(todo)
        /\ \A k \in Payments : Instr("pay", k) \in Left(todo) =>
             Payouts[k] \in atas \/ Instr("ata", Payouts[k]) \in Left(todo)
    BY <1>1, <1>9 DEF OnItsWay, ToPay
  <2>2. Of(tx, "end") = {} /\ Of(tx, "claim") = {}
    BY <1>5, <2>1
  <2>3. Of(tx, "ata") \cap atas = {}
    BY <1>5, <2>1
  <2>4. ASSUME NEW k \in Of(tx, "pay"), Payouts[k] \notin atas PROVE Payouts[k] \in Of(tx, "ata")
    <3>1. k \in Payments /\ Instr("pay", k) \in ToSet(tx) /\ Instr("pay", k) \in Left(todo)
      BY <1>4, <1>5, OfIs
    <3>2. Instr("ata", Payouts[k]) \in Left(todo)
      BY <2>1, <2>4, <3>1
    <3>3. Instr("ata", Payouts[k]) \notin rest
      <4>1. SUFFICES ASSUME Instr("ata", Payouts[k]) \in rest PROVE FALSE
        OBVIOUS
      <4>2. Rank(Instr("pay", k)) < Rank(Instr("ata", Payouts[k]))
        BY <1>4, <3>1, <4>1 DEF Below
      <4>3. PICK a \in Nat, b \in Nat : a = Rank(Instr("pay", k)) /\ b = Rank(Instr("ata", Payouts[k]))
        BY <3>1, Constants, InstrIs, RankIs
      <4>4. a = 2 * k /\ b < 2 * k
        BY <3>1, <4>3, RankIs
      <4>. QED  BY <4>2, <4>3, <4>4
    <3>. QED  BY <1>4, <3>2, <3>3, OfIs
  <2>. QED  BY <1>2, <1>6, <2>1, <2>2, <2>3, <2>4 DEF Accepted, MayBeRefused
<1>10. stage \in {"ending", "claiming", "paying"}
  BY <1>1 DEF SettleInv, Typed, Stages
<1>. QED  BY <1>7, <1>8, <1>9, <1>10

-----------------------------------------------------------------------------
(* The steps.                                                               *)

\* A transaction takes effect.
LEMMA LandKeeps ==
  ASSUME Typed, NEW tx \in Seq(Instrs), Land(tx),
         \A k \in Of(tx, "pay") : Payouts[k] \in atas \cup Of(tx, "ata")
  PROVE  /\ over' \in BOOLEAN /\ claimed' \subseteq Bidders /\ atas' \subseteq Recipients
         /\ funds' \subseteq atas' /\ paid' \subseteq Payments
         /\ claimed \subseteq claimed'
<1>1. /\ Of(tx, "claim") \subseteq Bidders /\ Of(tx, "ata") \subseteq Recipients
      /\ Of(tx, "pay") \subseteq Payments
  BY OfIs
<1>2. over' \in BOOLEAN
  BY DEF Land, Typed
<1>3. claimed' \subseteq Bidders /\ atas' \subseteq Recipients /\ paid' \subseteq Payments
  BY <1>1 DEF Land, Typed
<1>4. funds' \subseteq atas'
  BY DEF Land, Typed
<1>5. claimed \subseteq claimed'
  BY DEF Land
<1>. QED  BY <1>2, <1>3, <1>4, <1>5

\* What is sent next, and what follows it.
LEMMA ToldKeeps ==
  ASSUME SettleInv, Sending
  PROVE  /\ Told => LaidOut(todo') /\ rejected' \in 0..1 /\ stage' = stage /\ shown' = shown
                    /\ todo' = Rest /\ bids' = bids
         /\ ToldRejected => /\ LaidOut(todo') /\ rejected' \in 0..1
                            /\ stage' \in {stage, "idle"} /\ shown' \in {shown, "failed"}
                            /\ stage' = "idle" => todo' = << >>
                            /\ bids' \in {{}, bids} /\ (stage' # "idle" => bids' = bids)
<1>1. LaidOut(todo) /\ todo # << >> /\ rejected \in 0..1
  BY DEF SettleInv, Sending, Typed
<1>2. stage \notin {"idle", "pulling", "closing"}
  BY <1>1 DEF SettleInv
<1>3. LaidOut(Rest) /\ LaidOut(Tail(todo))
  BY <1>1, RestLaid
<1>4. Told => /\ LaidOut(todo') /\ rejected' \in 0..1 /\ stage' = stage /\ shown' = shown
              /\ todo' = Rest /\ bids' = bids
  BY <1>1, <1>3 DEF Told
<1>5. ASSUME ToldRejected
      PROVE  /\ LaidOut(todo') /\ rejected' \in 0..1
             /\ stage' \in {stage, "idle"} /\ shown' \in {shown, "failed"}
             /\ stage' = "idle" => todo' = << >>
             /\ bids' \in {{}, bids} /\ (stage' # "idle" => bids' = bids)
  <2>1. CASE Head(todo).single
    <3>1. End("failed")
      BY <1>5, <2>1 DEF ToldRejected
    <3>2. /\ stage' = "idle" /\ bids' = {} /\ todo' = << >> /\ rejected' = 0
          /\ shown' \in {shown, "failed"}
      BY <3>1 DEF End
    <3>. QED  BY <3>2, LeftIs
  <2>2. CASE ~Head(todo).single
    <3>1. /\ todo' \in {Tail(todo), Rest} /\ rejected' \in {0, 1}
          /\ stage' = stage /\ shown' = shown /\ bids' = bids
      BY <1>5, <2>2 DEF ToldRejected
    <3>2. LaidOut(todo')
      <4>1. CASE todo' = Rest
        BY <1>3, <4>1
      <4>2. CASE todo' = Tail(todo)
        BY <1>3, <4>2
      <4>. QED  BY <3>1, <4>1, <4>2
    <3>. QED  BY <1>2, <3>1, <3>2
  <2>. QED  BY <2>1, <2>2
<1>. QED  BY <1>4, <1>5

\* The invariant, from its parts in the next state.
LEMMA InvIs ==
  ASSUME Typed', LaidOut(todo'), PotsKnown', stage' \in {"idle", "pulling", "closing"} => todo' = << >>,
         disturbed' \/ OnItsWay'
  PROVE  SettleInv'
BY DEF SettleInv

\* A transaction that lands and is told of.
LEMMA LandsKeeps == SettleInv /\ Lands => SettleInv'
<1>. SUFFICES ASSUME SettleInv, Lands PROVE SettleInv'
  OBVIOUS
<1>1. /\ Sending /\ Accepted(NextTx) /\ Land(NextTx) /\ Told
      /\ UNCHANGED <<page, from, faults, disturbed>>
  BY DEF Lands, NoFault
<1>2. Typed /\ PotsKnown /\ LaidOut(todo) /\ todo # << >>
  BY <1>1 DEF SettleInv, Sending
<1>3. PICK tx : tx = NextTx
  OBVIOUS
<1>4. /\ tx \in Seq(Instrs) /\ ToSet(tx) \subseteq Left(todo) /\ Left(Rest) = Left(todo) \ ToSet(tx)
  BY <1>2, <1>3, RestLaid
<1>5. /\ LaidOut(todo') /\ rejected' \in 0..1 /\ stage' = stage /\ shown' = shown
      /\ todo' = Rest /\ bids' = bids
  BY <1>1, ToldKeeps
<1>6. /\ over' \in BOOLEAN /\ claimed' \subseteq Bidders /\ atas' \subseteq Recipients
      /\ funds' \subseteq atas' /\ paid' \subseteq Payments /\ claimed \subseteq claimed'
  BY <1>1, <1>2, <1>3, <1>4, LandKeeps DEF Accepted
<1>7. Typed'
  BY <1>1, <1>2, <1>5, <1>6 DEF Typed, page
<1>8. PotsKnown'
  BY <1>1, <1>2, <1>5, <1>6 DEF PotsKnown, page
<1>9. stage' \in {"idle", "pulling", "closing"} => todo' = << >>
  BY <1>1, <1>5 DEF SettleInv, Sending
<1>10. ASSUME ~disturbed' PROVE OnItsWay'
  <2>1. PICK L : L = Left(todo)
    OBVIOUS
  <2>2. /\ Left(todo') = L \ ToSet(tx) /\ ToSet(tx) \subseteq L /\ L \subseteq Instrs
        /\ Ops(todo') \subseteq Ops(todo) /\ OnItsWay
    BY <1>1, <1>2, <1>4, <1>5, <1>10, <2>1, LeftIs DEF SettleInv, Ops
  <2>3. /\ over' = (over \/ Of(tx, "end") # {}) /\ claimed' = claimed \cup Of(tx, "claim")
        /\ atas' = atas \cup Of(tx, "ata") /\ paid' = paid \cup Of(tx, "pay")
    BY <1>1, <1>3 DEF Land
  <2>4. \A op, z : z \in Of(tx, op) <=> Instr(op, z) \in ToSet(tx)
    BY <1>4, OfIs
  <2>5. CASE stage = "ending"
    <3>1. bids \cap claimed = {} /\ Ops(todo) \subseteq {"end"} /\ (over <=> L = {})
      BY <2>1, <2>2, <2>5 DEF OnItsWay, ToEnd
    <3>2. \A x \in L : x = Instr("end", Seller)
      <4>1. \A x \in L : x.op = "end"
        BY <2>1, <3>1 DEF Ops
      <4>. QED  BY <2>2, <4>1, InstrIs
    <3>3. Of(tx, "claim") = {}
      <4>1. \A z : Instr("claim", z).op # "end"
        BY InstrIs
      <4>2. \A x \in L : x.op = "end"
        BY <2>1, <3>1 DEF Ops
      <4>. QED  BY <2>2, <2>4, <4>1, <4>2
    <3>4. over' <=> Left(todo') = {}
      <4>1. CASE ToSet(tx) = {}
        BY <2>2, <2>3, <2>4, <3>1, <4>1
      <4>2. CASE ToSet(tx) # {}
        <5>1. Instr("end", Seller) \in ToSet(tx)
          BY <2>2, <3>2, <4>2
        <5>2. Of(tx, "end") # {} /\ Left(todo') = {}
          BY <2>2, <2>4, <3>2, <5>1
        <5>. QED  BY <2>3, <5>2
      <4>. QED  BY <4>1, <4>2
    <3>5. ToEnd'
      BY <1>5, <2>2, <2>3, <3>1, <3>3, <3>4 DEF ToEnd
    <3>. QED  BY <1>5, <2>5, <3>5 DEF OnItsWay
  <2>6. CASE stage = "claiming"
    <3>1. /\ over /\ Ops(todo) \subseteq {"claim"}
          /\ \A w \in Bidders : Instr("claim", w) \in L <=> w \notin claimed
      BY <2>1, <2>2, <2>6 DEF OnItsWay, ToClaim
    <3>2. \A w \in Bidders : Instr("claim", w) \in Left(todo') <=> w \notin claimed'
      BY <2>2, <2>3, <2>4, <3>1
    <3>3. ToClaim'
      BY <2>2, <2>3, <3>1, <3>2 DEF ToClaim
    <3>. QED  BY <1>5, <2>6, <3>3 DEF OnItsWay
  <2>7. CASE stage = "paying"
    <3>1. /\ claimed = Bidders /\ Ops(todo) \subseteq {"ata", "pay"}
          /\ \A r \in atas : Instr("ata", r) \notin L
          /\ \A k \in Payments : /\ Instr("pay", k) \in L \/ k \in paid
                                 /\ Instr("pay", k) \in L =>
                                      Payouts[k] \in atas \/ Instr("ata", Payouts[k]) \in L
      BY <2>1, <2>2, <2>7 DEF OnItsWay, ToPay
    <3>2. claimed' = Bidders
      BY <1>6, <2>3, <3>1
    <3>3. \A r \in atas' : Instr("ata", r) \notin Left(todo')
      BY <2>2, <2>3, <2>4, <3>1
    <3>4. \A k \in Payments : Instr("pay", k) \in Left(todo') \/ k \in paid'
      BY <2>2, <2>3, <2>4, <3>1
    <3>5. \A k \in Payments : Instr("pay", k) \in Left(todo') =>
            Payouts[k] \in atas' \/ Instr("ata", Payouts[k]) \in Left(todo')
      BY <2>2, <2>3, <2>4, <3>1
    <3>6. ToPay'
      BY <2>2, <3>1, <3>2, <3>3, <3>4, <3>5 DEF ToPay
    <3>. QED  BY <1>5, <2>7, <3>6 DEF OnItsWay
  <2>8. stage # "pulling"
    BY <1>1 DEF SettleInv, Sending
  <2>9. CASE stage \notin {"ending", "claiming", "paying"}
    BY <1>5, <2>8, <2>9 DEF OnItsWay
  <2>. QED  BY <2>5, <2>6, <2>7, <2>9
<1>. QED  BY <1>5, <1>7, <1>8, <1>9, <1>10, InvIs

\* A transaction the page is told was rejected.
LEMMA RejectedKeeps == SettleInv /\ (Refused \/ Lost \/ LandsUntold) => SettleInv'
<1>. SUFFICES ASSUME SettleInv, Refused \/ Lost \/ LandsUntold PROVE SettleInv'
  OBVIOUS
<1>1. /\ Sending /\ ToldRejected /\ UNCHANGED <<pots, found, ended, from>>
  BY DEF Refused, Lost, LandsUntold, page
<1>2. Typed /\ PotsKnown /\ LaidOut(todo) /\ todo # << >>
  BY <1>1 DEF SettleInv, Sending
<1>3. faults' \in 0..MaxFaults /\ disturbed' = TRUE
  <2>1. CASE Refused
    <3>1. disturbed
      BY <2>1, NextAccepted DEF Refused
    <3>. QED  BY <1>2, <2>1, <3>1 DEF Refused, NoFault, Typed
  <2>2. CASE Lost \/ LandsUntold
    BY <1>2, <2>2, Constants DEF Lost, LandsUntold, Fault, Typed
  <2>. QED  BY <2>1, <2>2
<1>4. /\ LaidOut(todo') /\ rejected' \in 0..1 /\ stage' \in {stage, "idle"} /\ shown' \in {shown, "failed"}
      /\ stage' = "idle" => todo' = << >>
      /\ bids' \in {{}, bids} /\ (stage' # "idle" => bids' = bids)
  BY <1>1, ToldKeeps
<1>5. /\ over' \in BOOLEAN /\ claimed' \subseteq Bidders /\ atas' \subseteq Recipients
      /\ funds' \subseteq atas' /\ paid' \subseteq Payments /\ claimed \subseteq claimed'
  <2>1. CASE Refused \/ Lost
    <3>1. UNCHANGED <<over, claimed, atas, funds, paid>>
      BY <2>1 DEF Refused, Lost, chain
    <3>. QED  BY <1>2, <3>1 DEF Typed
  <2>2. CASE LandsUntold
    <3>1. PICK tx \in Seq(Instrs) : tx = NextTx
      BY <1>2, RestLaid
    <3>. QED  BY <1>2, <2>2, <3>1, LandKeeps DEF LandsUntold, Accepted
  <2>. QED  BY <1>1, <2>1, <2>2
<1>6. Typed'
  BY <1>1, <1>2, <1>3, <1>4, <1>5 DEF Typed, Stages
<1>7. PotsKnown'
  BY <1>1, <1>2, <1>4, <1>5 DEF PotsKnown
<1>8. stage' \in {"idle", "pulling", "closing"} => todo' = << >>
  BY <1>1, <1>4 DEF SettleInv, Sending
<1>. QED  BY <1>3, <1>4, <1>6, <1>7, <1>8, InvIs

\* The page is loaded, in the middle of a settle or not.
LEMMA LoadKeeps == SettleInv /\ (Load \/ Reload) => SettleInv'
<1>. SUFFICES ASSUME SettleInv, Load \/ Reload PROVE SettleInv'
  OBVIOUS
<1>1. Typed /\ PotsKnown /\ UNCHANGED <<over, claimed, atas, funds, paid, from>> /\ Fresh
  BY DEF SettleInv, Load, Reload, chain
<1>2. /\ todo' = << >> /\ stage' = "idle" /\ bids' \subseteq Bidders /\ rejected' \in 0..1
      /\ faults' \in 0..MaxFaults /\ disturbed' \in BOOLEAN
  <2>1. CASE Load
    BY <2>1 DEF SettleInv, Typed, Load
  <2>2. CASE Reload
    BY <2>2, Constants DEF SettleInv, Typed, Reload, Fault
  <2>. QED  BY <2>1, <2>2
<1>3. /\ found' \in {"money", "empty", "dropped"} /\ pots' = Bidders \ claimed
      /\ ended' = over /\ shown' = "none"
  BY <1>1 DEF Fresh
<1>4. Typed'
  BY <1>1, <1>2, <1>3 DEF Typed, Stages
<1>5. PotsKnown'
  BY <1>1, <1>2, <1>3 DEF PotsKnown
<1>6. LaidOut(todo')
  BY <1>2, LeftIs
<1>7. OnItsWay'
  BY <1>2 DEF OnItsWay
<1>. QED  BY <1>2, <1>4, <1>5, <1>6, <1>7, InvIs

\* A step that leaves settle where it is, while nothing is changed elsewhere.
LEMMA StaysOnItsWay ==
  ASSUME OnItsWay, UNCHANGED <<over, claimed, atas, funds, paid, ended, bids, stage, todo>>
  PROVE  OnItsWay'
<1>1. Left(todo') = Left(todo) /\ Ops(todo') = Ops(todo)
  BY DEF Ops
<1>2. ToEnd => ToEnd'
  BY <1>1 DEF ToEnd
<1>3. ToClaim => ToClaim'
  BY <1>1 DEF ToClaim
<1>4. ToPay => ToPay'
  BY <1>1 DEF ToPay
<1>5. ToPull => ToPull'
  BY DEF ToPull
<1>. QED  BY <1>2, <1>3, <1>4, <1>5 DEF OnItsWay

\* The page of the auction is visited.
LEMMA VisitKeeps == SettleInv /\ Visit => SettleInv'
<1>. SUFFICES ASSUME SettleInv, Visit PROVE SettleInv'
  OBVIOUS
<1>1. /\ Typed /\ PotsKnown /\ LaidOut(todo) /\ pots' = Bidders \ claimed
      /\ UNCHANGED <<over, claimed, atas, funds, paid, ended, bids, stage, todo>>
      /\ UNCHANGED <<found, from, shown, rejected, disturbed, faults>>
  BY DEF SettleInv, Visit, chain
<1>2. Typed'
  BY <1>1 DEF Typed
<1>3. PotsKnown'
  BY <1>1 DEF PotsKnown
<1>4. disturbed' \/ OnItsWay'
  BY <1>1, StaysOnItsWay DEF SettleInv
<1>5. LaidOut(todo') /\ (stage' \in {"idle", "pulling", "closing"} => todo' = << >>)
  BY <1>1 DEF SettleInv
<1>. QED  BY <1>2, <1>3, <1>4, <1>5, InvIs

\* What the stages start with.
LEMMA StagesStart ==
  ASSUME Typed, NEW of \in SUBSET Bidders
  PROVE  /\ LaidOut(ClaimBids[of]) /\ LaidOut(EmptyPaymentAccount[atas])
         /\ over /\ of = Bidders \ claimed /\ claimed' = claimed /\ over' = over
              /\ todo' = ClaimBids[of] => ToClaim'
         /\ claimed = Bidders /\ claimed' = claimed /\ atas' = atas
              /\ todo' = EmptyPaymentAccount[atas] => ToPay'
<1>1. of \in SUBSET Bidders /\ atas \in SUBSET Recipients
  BY DEF Typed
<1>2. /\ LaidOut(ClaimBids[of]) /\ LaidOut(EmptyPaymentAccount[atas])
      /\ Left(ClaimBids[of]) = {Instr("claim", w) : w \in of}
      /\ Left(EmptyPaymentAccount[atas]) =
           {Instr("pay", k) : k \in Payments} \cup {Instr("ata", r) : r \in Recipients \ atas}
  BY <1>1, ClaimsLaid, PaymentsLaid
<1>3. ASSUME over, of = Bidders \ claimed, claimed' = claimed, over' = over, todo' = ClaimBids[of]
      PROVE  ToClaim'
  <2>1. Left(todo') = {Instr("claim", w) : w \in of}
    BY <1>2, <1>3
  <2>2. Ops(todo') \subseteq {"claim"}
    BY <2>1, InstrIs DEF Ops
  <2>3. \A w \in Bidders : Instr("claim", w) \in Left(todo') <=> w \in of
    <3>1. \A w, v : Instr("claim", w) = Instr("claim", v) => w = v
      BY InstrIs
    <3>. QED  BY <2>1, <3>1
  <2>4. \A w \in Bidders : w \in of <=> w \notin claimed
    BY <1>3
  <2>. QED  BY <1>3, <2>2, <2>3, <2>4 DEF ToClaim
<1>4. ASSUME claimed = Bidders, claimed' = claimed, atas' = atas, todo' = EmptyPaymentAccount[atas]
      PROVE  ToPay'
  <2>1. Left(todo') = {Instr("pay", k) : k \in Payments} \cup {Instr("ata", r) : r \in Recipients \ atas}
    BY <1>2, <1>4
  <2>2. Ops(todo') \subseteq {"ata", "pay"}
    BY <2>1, InstrIs DEF Ops
  <2>3. \A r \in atas : Instr("ata", r) \notin Left(todo')
    <3>1. ASSUME NEW r, NEW k PROVE Instr("ata", r) # Instr("pay", k)
      <4>1. Instr("ata", r).op = "ata" /\ Instr("pay", k).op = "pay"
        BY InstrIs
      <4>. QED  BY <4>1
    <3>2. \A r, s : Instr("ata", r) = Instr("ata", s) => r = s
      BY InstrIs
    <3>. QED  BY <2>1, <3>1, <3>2
  <2>4. \A k \in Payments : Instr("pay", k) \in Left(todo')
    BY <2>1
  <2>5. \A k \in Payments : Payouts[k] \in atas \/ Instr("ata", Payouts[k]) \in Left(todo')
    BY <2>1, Constants
  <2>. QED  BY <1>4, <2>2, <2>3, <2>4, <2>5 DEF ToPay
<1>. QED  BY <1>2, <1>3, <1>4

\* How settle begins, with pots that none of those to be claimed is missing from.
LEMMA BeginKeeps ==
  ASSUME Typed, NEW of \in SUBSET Bidders, Bidders \ claimed \subseteq of, Begin(of),
         claimed' = claimed, over' = over
  PROVE  /\ LaidOut(todo') /\ bids' \subseteq Bidders /\ stage' \in {"claiming", "ending"}
         /\ stage' = "ending" => Bidders \ claimed' \subseteq bids'
         /\ ~Stale(of) => OnItsWay'
<1>1. CASE ended
  <2>1. stage' = "claiming" /\ todo' = ClaimBids[of] /\ bids' = {}
    BY <1>1 DEF Begin
  <2>2. LaidOut(todo')
    BY <2>1, StagesStart
  <2>3. ASSUME ~Stale(of) PROVE OnItsWay'
    <3>1. over /\ of = Bidders \ claimed
      BY <1>1, <2>3 DEF Stale
    <3>2. ToClaim'
      BY <2>1, <3>1, StagesStart
    <3>. QED  BY <2>1, <3>2 DEF OnItsWay
  <2>. QED  BY <2>1, <2>2, <2>3
<1>2. CASE ~ended
  <2>1. stage' = "ending" /\ todo' = Queue(<< << <<Instr("end", Seller)>> >> >>) /\ bids' = of
    BY <1>2 DEF Begin
  <2>2. LaidOut(todo') /\ Left(todo') = {Instr("end", Seller)}
    BY <2>1, EndLaid
  <2>3. Ops(todo') \subseteq {"end"}
    BY <2>2, InstrIs DEF Ops
  <2>4. ~Stale(of) => ToEnd'
    BY <1>2, <2>1, <2>2, <2>3 DEF ToEnd, Stale, Typed
  <2>. QED  BY <2>1, <2>2, <2>4 DEF OnItsWay
<1>. QED  BY <1>1, <1>2

\* The seller clicks the notification.
LEMMA NotificationKeeps == SettleInv /\ ClickNotification => SettleInv'
<1>. SUFFICES ASSUME SettleInv, ClickNotification PROVE SettleInv'
  OBVIOUS
<1>1. /\ Typed /\ PotsKnown /\ LaidOut(todo) /\ todo = << >>
      /\ UNCHANGED <<over, claimed, atas, funds, paid, pots, found, ended, todo, rejected, faults>>
      /\ stage' = "pulling" /\ from' = "notification" /\ shown' = "none"
      /\ bids' = pots /\ disturbed' = Stale(pots)
  BY DEF SettleInv, ClickNotification, chain, page
<1>2. Typed'
  BY <1>1 DEF Typed, Stages, Stale
<1>3. PotsKnown'
  BY <1>1 DEF PotsKnown
<1>4. disturbed' \/ OnItsWay'
  BY <1>1 DEF OnItsWay, ToPull, Stale
<1>. QED  BY <1>1, <1>2, <1>3, <1>4, InvIs

\* The seller settles from the billing page.
LEMMA BillingKeeps == SettleInv /\ ClickBilling => SettleInv'
<1>. SUFFICES ASSUME SettleInv, ClickBilling PROVE SettleInv'
  OBVIOUS
<1>1. PICK of \in SUBSET Bidders :
        /\ pots \subseteq of /\ from' = "billing" /\ Begin(of) /\ disturbed' = Stale(of)
        /\ UNCHANGED <<over, claimed, atas, funds, paid, pots, found, ended, shown, rejected, faults>>
  BY DEF ClickBilling, chain, page
<1>2. Typed /\ PotsKnown
  BY DEF SettleInv
<1>3. /\ LaidOut(todo') /\ bids' \subseteq Bidders /\ stage' \in {"claiming", "ending"}
      /\ stage' = "ending" => Bidders \ claimed' \subseteq bids'
      /\ ~Stale(of) => OnItsWay'
  <2>1. Bidders \ claimed \subseteq of
    BY <1>1, <1>2 DEF PotsKnown
  <2>. QED  BY <1>1, <1>2, <2>1, BeginKeeps
<1>4. Typed'
  BY <1>1, <1>2, <1>3 DEF Typed, Stages, Stale
<1>5. PotsKnown'
  BY <1>1, <1>2, <1>3 DEF PotsKnown
<1>. QED  BY <1>1, <1>3, <1>4, <1>5, InvIs

\* The data of the auction has been pulled.
LEMMA PulledKeeps == SettleInv /\ Pulled => SettleInv'
<1>. SUFFICES ASSUME SettleInv, Pulled PROVE SettleInv'
  OBVIOUS
<1>1. /\ Typed /\ PotsKnown /\ stage = "pulling"
      /\ UNCHANGED <<over, claimed, atas, funds, paid, found, ended, from>>
  BY DEF SettleInv, Pulled, chain
<1>2. CASE /\ pots' \in {pots, Bidders \ claimed} /\ Begin(bids) /\ NoFault
           /\ UNCHANGED <<rejected, shown>>
  <2>1. /\ LaidOut(todo') /\ bids' \subseteq Bidders /\ stage' \in {"claiming", "ending"}
        /\ stage' = "ending" => Bidders \ claimed' \subseteq bids'
        /\ ~Stale(bids) => OnItsWay'
    <3>1. PICK of \in SUBSET Bidders : of = bids
      BY <1>1 DEF Typed
    <3>2. Bidders \ claimed \subseteq of /\ Begin(of)
      BY <1>1, <1>2, <3>1 DEF PotsKnown
    <3>3. /\ LaidOut(todo') /\ bids' \subseteq Bidders /\ stage' \in {"claiming", "ending"}
          /\ stage' = "ending" => Bidders \ claimed' \subseteq bids'
          /\ ~Stale(of) => OnItsWay'
      BY <1>1, <3>2, BeginKeeps
    <3>. QED  BY <3>1, <3>3
  <2>2. Typed'
    BY <1>1, <1>2, <2>1 DEF Typed, Stages, NoFault
  <2>3. PotsKnown'
    BY <1>1, <1>2, <2>1 DEF PotsKnown
  <2>4. disturbed' \/ OnItsWay'
    <3>1. disturbed \/ ~Stale(bids)
      BY <1>1 DEF SettleInv, OnItsWay, ToPull, Stale
    <3>. QED  BY <1>2, <2>1, <3>1 DEF NoFault
  <2>. QED  BY <2>1, <2>2, <2>3, <2>4, InvIs
<1>3. CASE (End("failed") \/ End("success")) /\ Fault /\ UNCHANGED pots
  <2>1. /\ stage' = "idle" /\ bids' = {} /\ todo' = << >> /\ rejected' = 0
        /\ shown' \in {shown, "failed", "success"} /\ pots' = pots
        /\ faults' \in 0..MaxFaults /\ disturbed' = TRUE
    BY <1>1, <1>3, Constants DEF End, Fault, Typed
  <2>2. Typed'
    BY <1>1, <2>1 DEF Typed, Stages
  <2>3. PotsKnown'
    BY <1>1, <2>1 DEF PotsKnown
  <2>4. LaidOut(todo')
    BY <2>1, LeftIs
  <2>. QED  BY <2>1, <2>2, <2>3, <2>4, InvIs
<1>. QED  BY <1>2, <1>3 DEF Pulled

\* The next stage.
LEMMA StageKeeps == SettleInv /\ NextStage => SettleInv'
<1>. SUFFICES ASSUME SettleInv, NextStage PROVE SettleInv'
  OBVIOUS
<1>1. /\ Typed /\ PotsKnown /\ todo = << >> /\ UNCHANGED <<over, claimed, atas, funds, paid>>
      /\ UNCHANGED <<pots, found, ended, from, faults, disturbed>>
  BY DEF SettleInv, NextStage, Sending, chain, page
<1>2. stage' \notin {"pulling", "ending"} => PotsKnown'
  BY <1>1 DEF PotsKnown
<1>3. Left(todo) = {} /\ LaidOut(<< >>)
  BY <1>1, LeftIs
<1>4. CASE /\ stage = "ending" /\ stage' = "claiming" /\ todo' = ClaimBids[bids]
           /\ bids' = {} /\ UNCHANGED <<rejected, shown>>
  <2>1. PICK of \in SUBSET Bidders : of = bids
    BY <1>1 DEF Typed
  <2>2. LaidOut(todo')
    BY <1>1, <1>4, <2>1, StagesStart
  <2>3. disturbed' \/ OnItsWay'
    <3>1. SUFFICES ASSUME ~disturbed PROVE OnItsWay'
      BY <1>1
    <3>2. over /\ bids \cap claimed = {}
      BY <1>3, <1>4, <3>1 DEF SettleInv, OnItsWay, ToEnd
    <3>3. of = Bidders \ claimed
      BY <1>1, <1>4, <2>1, <3>2 DEF PotsKnown
    <3>4. ToClaim'
      BY <1>1, <1>4, <2>1, <3>2, <3>3, StagesStart
    <3>. QED  BY <1>4, <3>4 DEF OnItsWay
  <2>4. Typed'
    BY <1>1, <1>4 DEF Typed, Stages
  <2>. QED  BY <1>2, <1>4, <2>2, <2>3, <2>4, InvIs
<1>5. CASE /\ stage = "claiming" /\ stage' = "paying" /\ todo' = EmptyPaymentAccount[atas]
           /\ UNCHANGED <<bids, rejected, shown>>
  <2>1. LaidOut(todo')
    BY <1>1, <1>5, StagesStart
  <2>2. disturbed' \/ OnItsWay'
    <3>1. SUFFICES ASSUME ~disturbed PROVE OnItsWay'
      BY <1>1
    <3>2. claimed = Bidders
      BY <1>1, <1>3, <1>5, <3>1 DEF SettleInv, OnItsWay, ToClaim, Typed
    <3>3. ToPay'
      BY <1>1, <1>5, <3>2, StagesStart
    <3>. QED  BY <1>5, <3>3 DEF OnItsWay
  <2>3. Typed'
    BY <1>1, <1>5 DEF Typed, Stages
  <2>. QED  BY <1>2, <1>5, <2>1, <2>2, <2>3, InvIs
<1>6. CASE stage = "paying" /\ End("success")
  <2>1. stage' = "idle" /\ bids' = {} /\ todo' = << >> /\ rejected' = 0 /\ shown' \in {shown, "success"}
    BY <1>6 DEF End
  <2>2. Typed'
    BY <1>1, <2>1 DEF Typed, Stages
  <2>. QED  BY <1>2, <1>3, <2>1, <2>2, InvIs DEF OnItsWay
<1>7. CASE stage = "paying" /\ stage' = "closing" /\ UNCHANGED <<bids, todo, rejected, shown>>
  <2>1. Typed'
    BY <1>1, <1>7 DEF Typed, Stages
  <2>2. todo' = << >> /\ OnItsWay'
    BY <1>1, <1>7 DEF OnItsWay
  <2>3. LaidOut(todo')
    BY <1>3, <2>2
  <2>. QED  BY <1>2, <1>7, <2>1, <2>2, <2>3, InvIs
<1>. QED  BY <1>4, <1>5, <1>6, <1>7 DEF NextStage

\* The account of the seller is closed.
LEMMA CloseKeeps == SettleInv /\ CloseEscrow => SettleInv'
<1>. SUFFICES ASSUME SettleInv, CloseEscrow PROVE SettleInv'
  OBVIOUS
<1>1. /\ Typed /\ PotsKnown /\ UNCHANGED <<over, claimed, paid, pots, found, ended, from, faults, disturbed>>
      /\ stage' = "idle" /\ bids' = {} /\ todo' = << >> /\ rejected' = 0
      /\ shown' \in {shown, "success", "failed"}
      /\ atas' \subseteq Recipients /\ funds' \subseteq atas'
  <2>1. Typed /\ PotsKnown
    BY DEF SettleInv
  <2>2. CASE Seller \in atas /\ Close(Seller) /\ End("success")
    BY <2>1, <2>2 DEF CloseEscrow, Close, End, NoFault, page, Typed
  <2>3. CASE Seller \notin atas /\ End("failed") /\ UNCHANGED chain
    BY <2>1, <2>3 DEF CloseEscrow, End, NoFault, page, chain, Typed
  <2>. QED  BY <2>2, <2>3 DEF CloseEscrow
<1>2. Typed'
  BY <1>1 DEF Typed, Stages
<1>3. PotsKnown'
  BY <1>1 DEF PotsKnown
<1>4. OnItsWay' /\ LaidOut(todo')
  BY <1>1, LeftIs DEF OnItsWay
<1>. QED  BY <1>1, <1>2, <1>3, <1>4, InvIs

\* The others.
LEMMA OthersKeep == SettleInv /\ Others => SettleInv'
<1>. SUFFICES ASSUME SettleInv, Others PROVE SettleInv'
  OBVIOUS
<1>1. /\ Typed /\ PotsKnown /\ LaidOut(todo) /\ disturbed' = TRUE
      /\ UNCHANGED <<pots, found, ended, bids, stage, from, shown, todo, rejected, faults>>
  BY DEF SettleInv, Others, BidderEnds, BidderClaims, Collapse, Elsewhere, page
<1>2. /\ over' \in BOOLEAN /\ claimed' \subseteq Bidders /\ atas' \subseteq Recipients
      /\ funds' \subseteq atas' /\ paid' \subseteq Payments /\ claimed \subseteq claimed'
  <2>1. ASSUME NEW x \in Instrs, x.op # "pay", Land(<<x>>)
        PROVE  /\ over' \in BOOLEAN /\ claimed' \subseteq Bidders /\ atas' \subseteq Recipients
               /\ funds' \subseteq atas' /\ paid' \subseteq Payments /\ claimed \subseteq claimed'
    <3>1. PICK tx \in Seq(Instrs) : tx = <<x>> /\ ToSet(tx) = {x}
      BY ShortSorted
    <3>2. Of(tx, "pay") = {}
      <4>1. \A k : Instr("pay", k) # x
        BY <2>1, InstrIs
      <4>. QED  BY <3>1, <4>1, OfIs
    <3>. QED  BY <1>1, <2>1, <3>1, <3>2, LandKeeps
  <2>2. CASE BidderEnds
    <3>1. Instr("end", Seller) \in Instrs /\ Instr("end", Seller).op # "pay"
      BY InstrIs
    <3>. QED  BY <2>1, <2>2, <3>1 DEF BidderEnds
  <2>3. ASSUME NEW w \in Bidders, BidderClaims(w)
        PROVE  /\ over' \in BOOLEAN /\ claimed' \subseteq Bidders /\ atas' \subseteq Recipients
               /\ funds' \subseteq atas' /\ paid' \subseteq Payments /\ claimed \subseteq claimed'
    <3>1. Instr("claim", w) \in Instrs /\ Instr("claim", w).op # "pay"
      BY InstrIs
    <3>. QED  BY <2>1, <2>3, <3>1 DEF BidderClaims
  <2>4. ASSUME NEW r \in Recipients, Collapse(r)
        PROVE  /\ over' \in BOOLEAN /\ claimed' \subseteq Bidders /\ atas' \subseteq Recipients
               /\ funds' \subseteq atas' /\ paid' \subseteq Payments /\ claimed \subseteq claimed'
    BY <1>1, <2>4 DEF Collapse, Close, Typed
  <2>. QED  BY <2>2, <2>3, <2>4 DEF Others
<1>3. Typed'
  BY <1>1, <1>2 DEF Typed
<1>4. PotsKnown'
  BY <1>1, <1>2 DEF PotsKnown
<1>5. LaidOut(todo') /\ (stage' \in {"idle", "pulling", "closing"} => todo' = << >>)
  BY <1>1 DEF SettleInv
<1>. QED  BY <1>1, <1>3, <1>4, <1>5, InvIs


-----------------------------------------------------------------------------
(* The invariant, and what it is for.                                       *)

\* It holds at first.
LEMMA InitKeeps == Init => SettleInv
<1>. SUFFICES ASSUME Init PROVE SettleInv
  OBVIOUS
<1>1. Typed
  <2>1. /\ over \in BOOLEAN /\ claimed = {} /\ atas \subseteq Recipients /\ funds = {} /\ paid = {}
        /\ pots = Bidders /\ found = "empty" /\ ended \in BOOLEAN /\ bids = {}
        /\ stage = "idle" /\ from = "billing"
        /\ shown = "none" /\ rejected = 0 /\ disturbed = FALSE /\ faults = 0
    BY DEF Init
  <2>2. faults \in 0..MaxFaults /\ rejected \in 0..1
    BY <2>1, Constants
  <2>3. disturbed \in BOOLEAN
    BY <2>1
  <2>. QED  BY <2>1, <2>2, <2>3 DEF Typed, Stages
<1>2. LaidOut(todo)
  BY LeftIs DEF Init
<1>3. PotsKnown
  BY DEF Init, PotsKnown
<1>4. OnItsWay
  BY DEF Init, OnItsWay
<1>. QED  BY <1>1, <1>2, <1>3, <1>4 DEF SettleInv, Init

\* Nothing happens.
LEMMA StutterKeeps == SettleInv /\ UNCHANGED vars => SettleInv'
<1>. SUFFICES ASSUME SettleInv, UNCHANGED vars PROVE SettleInv'
  OBVIOUS
<1>1. /\ UNCHANGED <<over, claimed, atas, funds, paid, ended, bids, stage, todo>>
      /\ UNCHANGED <<pots, found, from, shown, rejected, disturbed, faults>>
  BY DEF vars
<1>2. Typed'
  BY <1>1 DEF SettleInv, Typed
<1>3. PotsKnown'
  BY <1>1 DEF SettleInv, PotsKnown
<1>4. disturbed' \/ OnItsWay'
  BY <1>1, StaysOnItsWay DEF SettleInv
<1>5. LaidOut(todo') /\ (stage' \in {"idle", "pulling", "closing"} => todo' = << >>)
  BY <1>1 DEF SettleInv
<1>. QED  BY <1>2, <1>3, <1>4, <1>5, InvIs

\* Every step keeps it.
LEMMA NextKeeps == SettleInv /\ [Next]_vars => SettleInv'
<1>. SUFFICES ASSUME SettleInv, [Next]_vars PROVE SettleInv'
  OBVIOUS
<1>1. CASE Load \/ Reload
  BY <1>1, LoadKeeps
<1>2. CASE Visit
  BY <1>2, VisitKeeps
<1>3. CASE Settle \/ Pulled
  BY <1>3, NotificationKeeps, BillingKeeps, PulledKeeps DEF Settle
<1>4. CASE Send
  BY <1>4, LandsKeeps, RejectedKeeps DEF Send
<1>5. CASE NextStage
  BY <1>5, StageKeeps
<1>6. CASE CloseEscrow
  BY <1>6, CloseKeeps
<1>7. CASE Others
  BY <1>7, OthersKeep
<1>8. CASE UNCHANGED vars
  BY <1>8, StutterKeeps
<1>. QED  BY <1>1, <1>2, <1>3, <1>4, <1>5, <1>6, <1>7, <1>8 DEF Next

\* However the settle, the winners, the recipients, the faults and the reloads
\* are interleaved: the instructions still to be sent are laid out in order, the
\* store of the page has forgotten no pot that is to be claimed, and what an
\* undisturbed page has left to send is what is still to be done.
THEOREM SettlementInvariance == Spec => []SettleInv
BY InitKeeps, NextKeeps, PTL DEF Spec

\* What is laid out fits: the transactions, the batches, and no instruction twice.
LEMMA InvFits == SettleInv => BatchesFit
<1>. SUFFICES ASSUME SettleInv PROVE BatchesFit
  OBVIOUS
<1>1. Typed /\ LaidOut(todo)
  BY DEF SettleInv
<1>2. \A i \in DOMAIN todo : /\ todo[i].txs \in Seq(Seq(Instrs)) /\ todo[i].txs # << >>
                             /\ Len(todo[i].txs) <= BatchSize
  BY <1>1 DEF LaidOut, Laid
<1>3. TypeOK
  BY <1>1, <1>2 DEF TypeOK, Typed
<1>4. PICK txs : txs = FlattenSeq([i \in DOMAIN todo |-> todo[i].txs])
  OBVIOUS
<1>5. (\A i \in DOMAIN txs : Len(txs[i]) <= TxSize + 1) /\ IsInjective(FlattenSeq(txs))
  BY <1>1, <1>4, LaidFits
<1>. QED  BY <1>2, <1>3, <1>4, <1>5 DEF BatchesFit

\* An undisturbed page that is through with its payments has made them all.
LEMMA InvSettles == SettleInv => UndisturbedSettles
<1>. SUFFICES ASSUME SettleInv, ~disturbed, stage = "paying", ~Sending
              PROVE  claimed = Bidders /\ paid = Payments
  BY DEF UndisturbedSettles
<1>1. Left(todo) = {}
  BY LeftIs DEF Sending
<1>2. ToPay /\ paid \subseteq Payments
  BY DEF SettleInv, OnItsWay, Typed
<1>. QED  BY <1>1, <1>2 DEF ToPay

\* However the steps fall: what is laid out fits its transactions and batches,
\* with no instruction twice, and a settlement that nobody disturbs is refused
\* nothing and leaves nothing to be claimed or paid.
THEOREM SettlesInFull == Spec => []SettledInFull
<1>1. SettleInv => UndisturbedRefusedNothing
  BY NextAccepted DEF UndisturbedRefusedNothing
<1>2. SettleInv => SettledInFull
  BY <1>1, InvFits, InvSettles DEF SettledInFull
<1>. QED  BY <1>2, SettlementInvariance, PTL
=============================================================================
