-------------------------- MODULE PackOpening_proofs --------------------------
(***************************************************************************)
(* What is proved of the opening of packs, for any number of cards, every  *)
(* size of chunks and batches, and any number of calls and faults:         *)
(* UndisturbedAccepted and ShownAreClaimed.                                *)
(*                                                                         *)
(* While nothing disturbs the visitor, one call runs at most.  While it    *)
(* requests, what it has still to request is what the pack has left; while *)
(* it claims, its list names every edition of every card that is left, in  *)
(* their order, and what it has claimed is the first part of the queue.    *)
(* What the page and the listener know of the process may be old, but as   *)
(* soon as it counts as many claimed cards it is the process.              *)
(***************************************************************************)
EXTENDS PackOpening, WellFoundedInduction, FiniteSetTheorems, SequenceTheorems, TLAPS

-----------------------------------------------------------------------------
(* The inductive invariant of the creation.                                 *)

\* How many transactions carry the accounts, and how many the cards.
AccountTxs == (NumItems + AccountChunk - 1) \div AccountChunk
CardTxs == (NumItems + CardChunk - 1) \div CardChunk

\* The items of the first k chunks of a size.
UpToChunk(k, size) == {i \in Items : i <= k * size}

\* The pack after the first n transactions.
Built(n) ==
  [made     |-> n >= 1,
   accounts |-> UpToChunk(n - 1, AccountChunk),
   cards    |-> UpToChunk(n - 1 - AccountTxs, CardChunk),
   voucher  |-> n >= AccountTxs + CardTxs + 2,
   active   |-> n >= AccountTxs + CardTxs + 3]

\* A seller to whom nothing happened has sent the first part of the list, and
\* all of it when told so.
Building ==
  /\ pack = Built(seller.sent)
  /\ seller.told \in {"nothing", "created"}
  /\ seller.told = "created" => seller.sent = Len(Plan)

CreationTyped ==
  /\ seller \in [sent : Nat, told : {"nothing", "created", "error"}]
  /\ faults \in Nat
  /\ seller.sent <= Len(Plan)
CreationInv == CreationTyped /\ (faults = 0 \/ ~disturbed => Building)

-----------------------------------------------------------------------------
(* The inductive invariant of the opening.                                  *)

Total(p) == Requested(p) + p.redeemed
Processes ==
  {p \in [exists : BOOLEAN, left : [Items -> Nat], redeemed : Nat] :
     /\ Total(p) <= Allowed
     /\ ~p.exists => p = NoProcess}

Claims == [card : Items, edition : Nat]
PageStates ==
  [at : {"away", "pack"}, process : Processes, supply : [Items -> Nat],
   modal : {"initial", "approval", "claiming", "error"}, bound : Processes,
   queue : Seq(Items), polling : BOOLEAN]
CallStates ==
  [at : {"idle", "request", "claim", "last", "hung"},
   todo : Seq(Claims) \cup Seq(Int), signed : Int]

\* Nobody learns of more claimed cards than there are.
CallsTyped ==
  /\ calls \in [Calls -> CallStates]
  /\ \A c \in Calls : calls[c].at = "claim" => calls[c].todo \in Seq(Claims)
ChainTyped ==
  /\ process \in Processes
  /\ supply \in [Items -> Nat] /\ owned \in [Items -> Nat]
  /\ Sum(owned) = process.redeemed
PageTyped ==
  /\ page \in PageStates
  /\ page.modal = "approval" => ~Exhausted(page.bound)
PollTyped == poll \in [reading : BOOLEAN, answer : Processes]
Known ==
  /\ page.process.redeemed <= process.redeemed /\ page.bound.redeemed <= process.redeemed
  /\ poll.answer.redeemed <= process.redeemed
Opening == (Running # {} \/ OnPage) => OnPage /\ seller.told # "nothing"
OpeningTyped ==
  /\ ChainTyped /\ CallsTyped /\ PageTyped /\ PollTyped
  /\ Known /\ Opening
  /\ disturbed \in BOOLEAN /\ unexplained \in BOOLEAN

\* What was read of the process is the process once the counts agree.
Past(p) == p.redeemed = process.redeemed => p = process

\* Nothing is claimed yet since the page was loaded.
Unstarted == page.supply = supply /\ ~page.polling /\ ~poll.reading

\* A call that requests has left to request what the pack has left.
Asking(c) ==
  /\ calls[c].todo = RequestList(Allowed - Total(process))
  /\ Unstarted

\* A call that claims has the editions of the cards that are left before it,
\* those of one card in their order.
Covering(todo) ==
  \A i \in Items : \A e \in (supply[i] + 1) .. (supply[i] + process.left[i]) :
    \E k \in DOMAIN todo : todo[k] = [card |-> i, edition |-> e]
Within(todo) ==
  \A k \in DOMAIN todo :
    todo[k].edition \in (supply[todo[k].card] + 1) .. (supply[todo[k].card] + process.left[todo[k].card])
Ordered(todo) ==
  \A j, k \in DOMAIN todo : j < k /\ todo[j].card = todo[k].card => todo[j].edition < todo[k].edition

\* Its claims go on in the queue where the claimed cards end.
Aligned(todo) ==
  Len(page.queue) = Allowed =>
    /\ Len(todo) = Allowed - process.redeemed
    /\ \A k \in DOMAIN todo : todo[k].card = page.queue[process.redeemed + k]

Claiming(c) ==
  /\ Total(process) = Allowed
  /\ Covering(calls[c].todo) /\ Within(calls[c].todo) /\ Ordered(calls[c].todo)
  /\ Aligned(calls[c].todo)

\* The cards at the places of the queue up to n are the visitor's.
QueueOwned(i) == {k \in 1 .. process.redeemed : page.queue[k] = i}
Followed ==
  Len(page.queue) = Allowed =>
    /\ process.redeemed <= Allowed
    /\ \A i \in Items : Cardinality(QueueOwned(i)) <= owned[i]

NoneHangs == \A c \in Calls : calls[c].at # "hung"
Single == \A c, d \in Running : c = d
Phase(c) ==
  /\ calls[c].at = "request" => Asking(c)
  /\ calls[c].at = "claim" => Claiming(c)
  /\ calls[c].at = "last" => Exhausted(process)
Informed ==
  (\A c \in Calls : calls[c].at # "request") =>
    /\ OnPage => Past(page.process)
    /\ poll.reading => Past(poll.answer)
Resting ==
  (Running = {} /\ OnPage) =>
    /\ page.process = process
    /\ Exhausted(process) \/ Unstarted
OneByOne ==
  /\ NoneHangs /\ Single /\ (\A c \in Running : Phase(c))
  /\ Informed /\ Resting /\ Followed

OpeningInv ==
  /\ OpeningTyped
  /\ ~unexplained
  /\ ~disturbed => OneByOne

\* A claim in flight is for a card.
FlyingTyped == \A claim \in claimsLate : claim.tx.card \in Items

PackInv == CreationInv /\ OpeningInv /\ FlyingTyped
-----------------------------------------------------------------------------
(* Induction, and lists of lists.                                           *)

\* A set of natural numbers that is not empty has a least element.
LEMMA LeastElement ==
  ASSUME NEW T, T \subseteq Nat, T # {}
  PROVE  \E x \in T : \A y \in T : x <= y
<1> DEFINE R == {ss \in Nat \X Nat : ss[1] < ss[2]}
<1>1. IsWellFoundedOn(R, Nat)
  BY NatLessThanWellFounded DEF OpToRel
<1>2. PICK x \in T : \A y \in T : ~(<<y, x>> \in R)
  <2> HIDE DEF R
  <2> QED BY <1>1, WFMin
<1>3. \A y \in T : ~(y < x)
  BY <1>2
<1> QED BY <1>3

\* A set that holds one and the successor of whatever it holds, up to n, has all up to n.
LEMMA UpTo ==
  ASSUME NEW n \in Nat, NEW S, 1 \in S, \A i \in 1 .. (n - 1) : i \in S => i + 1 \in S
  PROVE  1 .. n \subseteq S
<1>. SUFFICES ASSUME (1 .. n) \ S # {} PROVE FALSE
  OBVIOUS
<1>1. PICK x \in (1 .. n) \ S : \A y \in (1 .. n) \ S : x <= y
  <2>1. (1 .. n) \ S \subseteq Nat
    OBVIOUS
  <2>. QED  BY <2>1, LeastElement
<1>2. x # 1 /\ x - 1 \in 1 .. (n - 1) /\ x - 1 \notin (1 .. n) \ S
  BY <1>1
<1>. QED  BY <1>1, <1>2

\* A set that holds zero and the successor of whatever it holds has all of them.
LEMMA SetInduction ==
  ASSUME NEW S, 0 \in S, \A n \in Nat : n \in S => n + 1 \in S
  PROVE  Nat \subseteq S
<1>. SUFFICES ASSUME Nat \ S # {}
              PROVE  FALSE
  OBVIOUS
<1>1. PICK x \in Nat \ S : \A y \in Nat \ S : x <= y
  BY LeastElement
<1>2. x # 0 /\ x - 1 \in Nat /\ x - 1 \notin Nat \ S
  BY <1>1
<1>. QED  BY <1>1, <1>2

\* How FlattenSeq goes through a list of lists.
FlatStep(seqs, before, i) == IF i = 1 THEN seqs[i] ELSE before \o seqs[i]
Flats(seqs) == CHOOSE f : f = [i \in 1 .. Len(seqs) |-> FlatStep(seqs, f[i - 1], i)]

\* The operator of the library is the function defined here.
LEMMA FlattenIsFlats ==
  ASSUME NEW seqs
  PROVE  FlattenSeq(seqs) = IF Len(seqs) = 0 THEN seqs ELSE Flats(seqs)[Len(seqs)]
BY DEF FlattenSeq, Flats, FlatStep

\* It comes to an end.
LEMMA FlatsDefined ==
  ASSUME NEW seqs, NEW n \in Nat \ {0}, Len(seqs) = n
  PROVE  \A i \in 1 .. n : Flats(seqs)[i] = FlatStep(seqs, Flats(seqs)[i - 1], i)
<1>. DEFINE IsFlat(f, m) == f = [i \in 1 .. m |-> FlatStep(seqs, f[i - 1], i)]
            S == {m \in 1 .. n : \E f : IsFlat(f, m)}
<1>1. 1 \in S
  <2>. DEFINE f == [i \in 1 .. 1 |-> seqs[1]]
  <2>1. f = [i \in 1 .. 1 |-> FlatStep(seqs, f[i - 1], i)]
    BY DEF FlatStep
  <2>2. IsFlat(f, 1)
    BY <2>1
  <2>. HIDE DEF f, IsFlat
  <2>. QED  BY <2>2
<1>2. ASSUME NEW m \in 1 .. (n - 1), m \in S PROVE m + 1 \in S
  <2>. PICK f : IsFlat(f, m)
    BY <1>2
  <2>. DEFINE g == [i \in 1 .. (m + 1) |-> IF i = m + 1 THEN FlatStep(seqs, f[m], i) ELSE f[i]]
  <2>1. ASSUME NEW i \in 1 .. (m + 1) PROVE g[i] = FlatStep(seqs, g[i - 1], i)
    <3>1. CASE i = m + 1
      BY <3>1
    <3>2. CASE i # m + 1 /\ i # 1
      <4>1. g[i] = f[i] /\ g[i - 1] = f[i - 1]
        BY <3>2
      <4>2. f[i] = FlatStep(seqs, f[i - 1], i)
        BY <3>2
      <4>. HIDE DEF g, IsFlat
      <4>. QED  BY <4>1, <4>2
    <3>3. CASE i = 1 /\ i # m + 1
      <4>1. g[i] = f[i]
        BY <3>3
      <4>2. f[i] = FlatStep(seqs, f[i - 1], i)
        BY <3>3
      <4>. HIDE DEF g, IsFlat
      <4>. QED  BY <3>3, <4>1, <4>2 DEF FlatStep
    <3>. QED  BY <3>1, <3>2, <3>3
  <2>2. IsFlat(g, m + 1)
    BY <2>1
  <2>3. m + 1 \in 1 .. n
    OBVIOUS
  <2>. HIDE DEF g, IsFlat
  <2>. QED  BY <2>2, <2>3
<1>3. 1 .. n \subseteq S
  <2>. HIDE DEF S
  <2>. QED  BY <1>1, <1>2, UpTo
<1>4. \E f : IsFlat(f, n)
  BY <1>3
<1>5. IsFlat(Flats(seqs), n)
  BY <1>4 DEF Flats
<1>. QED  BY <1>5

\* A list of lists of one kind is a list of that kind.
LEMMA FlatTyped ==
  ASSUME NEW T, NEW n \in Nat, NEW seqs, seqs \in [1 .. n -> Seq(T)]
  PROVE  FlattenSeq(seqs) \in Seq(T)
<1>1. seqs \in Seq(Seq(T)) /\ Len(seqs) = n
  BY IsASeq
<1>2. CASE n = 0
  <2>1. FlattenSeq(seqs) = seqs /\ seqs = << >>
    BY <1>1, <1>2, FlattenIsFlats
  <2>. QED  BY <2>1
<1>3. CASE n # 0
  <2>. DEFINE F == Flats(seqs)
              S == {i \in 1 .. n : F[i] \in Seq(T)}
  <2>1. \A i \in 1 .. n : F[i] = FlatStep(seqs, F[i - 1], i)
    BY <1>1, <1>3, FlatsDefined
  <2>. HIDE DEF F
  <2>2. 1 \in S
    BY <1>3, <2>1 DEF FlatStep
  <2>3. ASSUME NEW i \in 1 .. (n - 1), i \in S PROVE i + 1 \in S
    <3>1. F[i + 1] = FlatStep(seqs, F[i + 1 - 1], i + 1) /\ i + 1 - 1 = i /\ i + 1 # 1 /\ i + 1 \in 1 .. n
      BY <2>1
    <3>2. F[i + 1] = F[i] \o seqs[i + 1]
      BY <3>1 DEF FlatStep
    <3>3. F[i] \in Seq(T) /\ seqs[i + 1] \in Seq(T)
      BY <2>3, <3>1
    <3>4. F[i] \o seqs[i + 1] \in Seq(T)
      BY <3>3, ConcatProperties
    <3>. QED  BY <3>1, <3>2, <3>4
  <2>4. 1 .. n \subseteq S
    <3>. HIDE DEF S
    <3>. QED  BY <2>2, <2>3, UpTo
  <2>5. F[n] \in Seq(T)
    BY <1>3, <2>4
  <2>. QED  BY <1>1, <1>3, <2>5, FlattenIsFlats DEF F
<1>. QED  BY <1>2, <1>3

-----------------------------------------------------------------------------
(* Sums over a function.                                                    *)

\* The sum of a function, from the definition of the fold.
Some(s) == CHOOSE x \in s : TRUE
Part(f, g, s) == IF s = {} THEN 0 ELSE f[Some(s)] + g[s \ {Some(s)}]
Sums(f) == CHOOSE g : g = [s \in SUBSET DOMAIN f |-> Part(f, g, s)]

\* The sum is the fold's function at the whole domain.
LEMMA SumIs == ASSUME NEW f PROVE Sum(f) = Sums(f)[DOMAIN f]
BY DEF Sum, Sums, Part, Some, FoldFunction, FoldFunctionOnSet, MapThenFoldSet

\* A set without one of its elements is smaller.
LEMMA SomeLess ==
  ASSUME NEW s, IsFiniteSet(s), s # {}
  PROVE  /\ Some(s) \in s /\ IsFiniteSet(s \ {Some(s)})
         /\ Cardinality(s \ {Some(s)}) = Cardinality(s) - 1 /\ Cardinality(s) \in Nat
BY FS_RemoveElement, FS_CardinalityType DEF Some

\* The fold is defined.
LEMMA SumsDefined ==
  ASSUME NEW W, IsFiniteSet(W), NEW f, DOMAIN f = W
  PROVE  \A s \in SUBSET W : Sums(f)[s] = Part(f, Sums(f), s)
<1>. DEFINE Small(n) == {s \in SUBSET W : Cardinality(s) <= n}
            IsFold(g, n) == g = [s \in Small(n) |-> Part(f, g, s)]
            S == {n \in Nat : \E g : IsFold(g, n)}
<1>0. \A s \in SUBSET W : IsFiniteSet(s) /\ Cardinality(s) \in Nat /\ Cardinality(s) <= Cardinality(W)
  BY FS_Subset, FS_CardinalityType
<1>1. 0 \in S
  <2>. DEFINE g == [s \in Small(0) |-> 0]
  <2>1. \A s \in Small(0) : s = {}
    BY <1>0, FS_EmptySet
  <2>2. \A s \in Small(0) : Part(f, g, s) = 0
    BY <2>1 DEF Part
  <2>3. IsFold(g, 0)
    BY <2>2
  <2>. QED  BY <2>3
<1>2. ASSUME NEW n \in Nat, n \in S
      PROVE  n + 1 \in S
  <2>1. PICK g : IsFold(g, n)
    BY <1>2
  <2>. DEFINE h == [s \in Small(n + 1) |-> Part(f, g, s)]
  <2>2. ASSUME NEW s \in Small(n + 1)
        PROVE  Part(f, g, s) = Part(f, h, s)
    <3>1. CASE s = {}
      BY <3>1 DEF Part
    <3>2. CASE s # {}
      <4>. DEFINE r == s \ {Some(s)}
      <4>1. r \in Small(n) /\ r \in Small(n + 1)
        BY <1>0, <3>2, SomeLess
      <4>2. g[r] = Part(f, g, r) /\ h[r] = Part(f, g, r)
        BY <2>1, <4>1
      <4>. HIDE DEF h
      <4>. QED  BY <3>2, <4>2 DEF Part
    <3>. QED  BY <3>1, <3>2
  <2>3. h = [s \in Small(n + 1) |-> Part(f, h, s)]
    <3>. HIDE DEF Small
    <3>1. \A s \in Small(n + 1) : h[s] = Part(f, h, s)
      BY <2>2
    <3>. QED  BY <3>1
  <2>4. IsFold(h, n + 1)
    BY <2>3
  <2>. HIDE DEF h, IsFold
  <2>. QED  BY <2>4
<1>3. Cardinality(W) \in S
  <2>. HIDE DEF S
  <2>. QED  BY <1>1, <1>2, SetInduction, FS_CardinalityType
<1>4. PICK g : IsFold(g, Cardinality(W))
  BY <1>3
<1>5. Small(Cardinality(W)) = SUBSET W
  BY <1>0
<1>6. g = [s \in SUBSET W |-> Part(f, g, s)]
  BY <1>4, <1>5
<1>7. Sums(f) = [s \in SUBSET W |-> Part(f, Sums(f), s)]
  BY <1>6 DEF Sums
<1>. QED  BY <1>7

\* What holds of the empty part, and of a part if it holds of the part without
\* one element, holds of every part of a finite set.
LEMMA PartInduction ==
  ASSUME NEW W, IsFiniteSet(W), NEW G, {} \in G,
         \A s \in SUBSET W : s # {} /\ s \ {Some(s)} \in G => s \in G
  PROVE  W \in G
<1>. DEFINE S == {n \in Nat : \A s \in SUBSET W : Cardinality(s) <= n => s \in G}
<1>0. \A s \in SUBSET W : IsFiniteSet(s) /\ Cardinality(s) \in Nat
  BY FS_Subset, FS_CardinalityType
<1>1. 0 \in S
  BY <1>0, FS_EmptySet
<1>2. ASSUME NEW n \in Nat, n \in S
      PROVE  n + 1 \in S
  <2>1. ASSUME NEW s \in SUBSET W, Cardinality(s) <= n + 1, s # {}
        PROVE  s \in G
    <3>1. s \ {Some(s)} \in SUBSET W /\ Cardinality(s \ {Some(s)}) <= n
      BY <1>0, <2>1, SomeLess
    <3>. QED  BY <1>2, <2>1, <3>1
  <2>2. \A s \in SUBSET W : Cardinality(s) <= n + 1 => s \in G
    BY <2>1
  <2>. QED  BY <2>2
<1>3. Cardinality(W) \in S
  <2>. HIDE DEF S
  <2>. QED  BY <1>1, <1>2, SetInduction, FS_CardinalityType
<1>. QED  BY <1>0, <1>3

\* Nothing adds up to zero.
LEMMA SumsNone ==
  ASSUME NEW W, IsFiniteSet(W), NEW f, DOMAIN f = W
  PROVE  Sums(f)[{}] = 0
<1>1. {} \in SUBSET W
  OBVIOUS
<1>2. Sums(f)[{}] = Part(f, Sums(f), {})
  BY <1>1, SumsDefined
<1>. QED  BY <1>2 DEF Part

\* Any element may be taken out of a part first.
LEMMA SumsPick ==
  ASSUME NEW W, IsFiniteSet(W), NEW f \in [W -> Nat]
  PROVE  \A s \in SUBSET W :
           /\ Sums(f)[s] \in Nat
           /\ \A x \in s : Sums(f)[s] = f[x] + Sums(f)[s \ {x}]
<1>. DEFINE Picks(s) == /\ Sums(f)[s] \in Nat
                        /\ \A x \in s : Sums(f)[s] = f[x] + Sums(f)[s \ {x}]
            S == {n \in Nat : \A s \in SUBSET W : Cardinality(s) <= n => Picks(s)}
<1>0. \A s \in SUBSET W : /\ IsFiniteSet(s) /\ Cardinality(s) \in Nat
                          /\ \A x \in s : Cardinality(s \ {x}) = Cardinality(s) - 1
  BY FS_Subset, FS_CardinalityType, FS_RemoveElement
<1>1. \A s \in SUBSET W : Sums(f)[s] = Part(f, Sums(f), s)
  BY SumsDefined
<1>2. 0 \in S
  <2>1. \A s \in SUBSET W : Cardinality(s) <= 0 => s = {}
    BY <1>0, FS_EmptySet
  <2>2. Picks({})
    BY SumsNone
  <2>. QED  BY <2>1, <2>2
<1>3. ASSUME NEW n \in Nat, n \in S PROVE n + 1 \in S
  <2>1. ASSUME NEW s \in SUBSET W, Cardinality(s) <= n + 1, s # {} PROVE Picks(s)
    <3>. DEFINE y == Some(s)
    <3>1. y \in s /\ y \in W /\ f[y] \in Nat
      BY <2>1 DEF Some
    <3>2. Sums(f)[s] = f[y] + Sums(f)[s \ {y}]
      BY <1>1, <2>1 DEF Part
    <3>. HIDE DEF y
    <3>3. \A x \in s : Picks(s \ {x})
      <4>1. ASSUME NEW x \in s PROVE s \ {x} \in SUBSET W /\ Cardinality(s \ {x}) <= n
        BY <1>0, <2>1
      <4>. HIDE DEF Picks
      <4>. QED  BY <1>3, <4>1
    <3>4. Sums(f)[s] \in Nat
      BY <3>1, <3>2, <3>3
    <3>5. ASSUME NEW x \in s, x # y PROVE Sums(f)[s] = f[x] + Sums(f)[s \ {x}]
      <4>. DEFINE r == (s \ {x}) \ {y}
      <4>1. f[x] \in Nat /\ r = (s \ {y}) \ {x} /\ x \in s \ {y} /\ y \in s \ {x}
        BY <3>1, <3>5
      <4>2. Sums(f)[s \ {y}] = f[x] + Sums(f)[r] /\ Sums(f)[s \ {x}] = f[y] + Sums(f)[r]
        BY <3>1, <3>3, <4>1
      <4>3. Sums(f)[r] \in Nat
        <5>1. (s \ {x}) \ {y} \in SUBSET W /\ Cardinality((s \ {x}) \ {y}) <= n
          <6>1. s \ {x} \in SUBSET W /\ Cardinality(s \ {x}) <= n
            BY <1>0, <2>1
          <6>. QED  BY <1>0, <4>1, <6>1
        <5>. HIDE DEF Picks
        <5>2. Picks((s \ {x}) \ {y})
          BY <1>3, <5>1
        <5>. QED  BY <5>2 DEF Picks
      <4>. HIDE DEF r
      <4>. QED  BY <3>1, <3>2, <4>1, <4>2, <4>3
    <3>. QED  BY <3>2, <3>4, <3>5
  <2>2. \A s \in SUBSET W : Cardinality(s) <= n + 1 => Picks(s)
    <3>1. Picks({})
      BY SumsNone
    <3>. HIDE DEF Picks
    <3>. QED  BY <2>1, <3>1
  <2>. HIDE DEF Picks
  <2>. QED  BY <2>2
<1>4. Cardinality(W) \in S
  <2>. HIDE DEF S
  <2>. QED  BY <1>2, <1>3, SetInduction, FS_CardinalityType
<1>5. \A s \in SUBSET W : Cardinality(s) <= Cardinality(W)
  BY FS_Subset
<1>. HIDE DEF Picks
<1>6. \A s \in SUBSET W : Picks(s)
  BY <1>4, <1>5
<1>. QED  BY <1>6 DEF Picks

\* The same for one part and one of its elements.
Without(s, x) == s \ {x}
LEMMA SumsTake ==
  ASSUME NEW W, IsFiniteSet(W), NEW f \in [W -> Nat], NEW s \in SUBSET W, NEW x \in s
  PROVE  Sums(f)[s] = f[x] + Sums(f)[Without(s, x)]
<1>1. \A y \in s : Sums(f)[s] = f[y] + Sums(f)[s \ {y}]
  BY SumsPick
<1>2. Sums(f)[s] = f[x] + Sums(f)[s \ {x}]
  BY <1>1
<1>3. Without(s, x) = s \ {x}
  BY DEF Without
<1>. QED  BY <1>2, <1>3

LEMMA SumsType ==
  ASSUME NEW W, IsFiniteSet(W), NEW f \in [W -> Nat], NEW s \in SUBSET W
  PROVE  Sums(f)[s] \in Nat
BY SumsPick

\* A sum of natural numbers is one, and none of them is larger; that of zeros is
\* zero; sums add up item by item.
LEMMA SumOf ==
  ASSUME NEW W, IsFiniteSet(W), NEW f \in [W -> Nat]
  PROVE  /\ Sum(f) \in Nat
         /\ \A w \in W : f[w] <= Sum(f)
         /\ (\A w \in W : f[w] = 0) => Sum(f) = 0
<1>1. Sum(f) = Sums(f)[W]
  BY SumIs
<1>2. Sum(f) \in Nat
  BY <1>1, SumsPick
<1>3. ASSUME NEW w \in W PROVE f[w] <= Sum(f)
  <2>1. W \in SUBSET W /\ W \ {w} \in SUBSET W
    OBVIOUS
  <2>2. \A s \in SUBSET W : /\ Sums(f)[s] \in Nat
                            /\ \A x \in s : Sums(f)[s] = f[x] + Sums(f)[s \ {x}]
    BY SumsPick
  <2>3. Sums(f)[W \ {w}] \in Nat
    BY <2>1, <2>2
  <2>4. Sums(f)[W] = f[w] + Sums(f)[W \ {w}]
    BY <2>1, <2>2
  <2>. QED  BY <1>1, <2>3, <2>4
<1>4. ASSUME \A w \in W : f[w] = 0 PROVE Sum(f) = 0
  <2>. DEFINE G == {s \in SUBSET W : Sums(f)[s] = 0}
  <2>0. \A s \in SUBSET W : Sums(f)[s] = Part(f, Sums(f), s)
    BY SumsDefined
  <2>1. {} \in G
    BY <2>0 DEF Part
  <2>2. ASSUME NEW s \in SUBSET W, s # {}, s \ {Some(s)} \in G
        PROVE  s \in G
    <3>1. f[Some(s)] = 0
      BY <1>4, <2>2 DEF Some
    <3>. QED  BY <2>0, <2>2, <3>1 DEF Part
  <2>3. W \in G
    <3>. HIDE DEF G
    <3>. QED  BY <2>1, <2>2, PartInduction
  <2>. QED  BY <1>1, <2>3
<1>. QED  BY <1>2, <1>3, <1>4

LEMMA SumAdds ==
  ASSUME NEW W, IsFiniteSet(W), NEW f \in [W -> Nat], NEW d \in [W -> Nat]
  PROVE  Sum([w \in W |-> f[w] + d[w]]) = Sum(f) + Sum(d)
<1>. DEFINE e == [w \in W |-> f[w] + d[w]]
            G == {s \in SUBSET W : /\ Sums(f)[s] \in Nat /\ Sums(d)[s] \in Nat
                                   /\ Sums(e)[s] = Sums(f)[s] + Sums(d)[s]}
<1>0. e \in [W -> Nat] /\ \A w \in W : e[w] = f[w] + d[w]
  OBVIOUS
<1>. HIDE DEF e
<1>1. \A s \in SUBSET W : Sums(f)[s] = Part(f, Sums(f), s)
  BY SumsDefined
<1>2. \A s \in SUBSET W : Sums(d)[s] = Part(d, Sums(d), s)
  BY SumsDefined
<1>3. \A s \in SUBSET W : Sums(e)[s] = Part(e, Sums(e), s)
  BY <1>0, SumsDefined
<1>4. {} \in G
  <2>1. Sums(f)[{}] = 0 /\ Sums(d)[{}] = 0 /\ Sums(e)[{}] = 0
    BY <1>0, SumsNone
  <2>. QED  BY <2>1
<1>5. ASSUME NEW s \in SUBSET W, s # {}, s \ {Some(s)} \in G PROVE s \in G
  <2>. DEFINE x == Some(s)
              r == s \ {x}
  <2>1. x \in W
    BY <1>5 DEF Some
  <2>2. Sums(f)[s] = f[x] + Sums(f)[r] /\ Sums(d)[s] = d[x] + Sums(d)[r]
        /\ Sums(e)[s] = e[x] + Sums(e)[r]
    BY <1>1, <1>2, <1>3, <1>5 DEF Part
  <2>3. Sums(f)[r] \in Nat /\ Sums(d)[r] \in Nat /\ Sums(e)[r] = Sums(f)[r] + Sums(d)[r]
    BY <1>5
  <2>. HIDE DEF x, r
  <2>4. f[x] \in Nat /\ d[x] \in Nat /\ e[x] = f[x] + d[x]
    BY <1>0, <2>1
  <2>. QED  BY <2>2, <2>3, <2>4
<1>6. W \in G
  <2>. HIDE DEF G
  <2>. QED  BY <1>4, <1>5, PartInduction
<1>7. Sum(f) = Sums(f)[W] /\ Sum(d) = Sums(d)[W] /\ Sum(e) = Sums(e)[W]
  BY <1>0, SumIs
<1>. QED  BY <1>6, <1>7 DEF e

\* One more of one of them makes the sum one more, one less makes it one less.
LEMMA SumOneMore ==
  ASSUME NEW W, IsFiniteSet(W), NEW f \in [W -> Nat], NEW w \in W
  PROVE  /\ Sum([f EXCEPT ![w] = @ + 1]) = Sum(f) + 1
         /\ f[w] > 0 => Sum([f EXCEPT ![w] = @ - 1]) = Sum(f) - 1
<1>1. ASSUME NEW g \in [W -> Nat] PROVE Sum([g EXCEPT ![w] = @ + 1]) = Sum(g) + 1
  <2>. DEFINE h == [g EXCEPT ![w] = @ + 1]
  <2>1. h \in [W -> Nat] /\ h[w] = g[w] + 1 /\ \A x \in W \ {w} : h[x] = g[x]
    OBVIOUS
  <2>. HIDE DEF h
  <2>2. \A s \in SUBSET W : /\ Sums(g)[s] \in Nat /\ Sums(h)[s] \in Nat
                            /\ \A x \in s : /\ Sums(g)[s] = g[x] + Sums(g)[s \ {x}]
                                            /\ Sums(h)[s] = h[x] + Sums(h)[s \ {x}]
    BY <2>1, SumsPick
  <2>3. \A s \in SUBSET W : Sums(g)[s] = Part(g, Sums(g), s) /\ Sums(h)[s] = Part(h, Sums(h), s)
    BY <2>1, SumsDefined
  <2>. DEFINE V == W \ {w}
              G == {s \in SUBSET V : Sums(h)[s] = Sums(g)[s]}
  <2>4. {} \in G
    BY <2>3 DEF Part
  <2>5. ASSUME NEW s \in SUBSET V, s # {}, s \ {Some(s)} \in G PROVE s \in G
    <3>1. Some(s) \in s /\ h[Some(s)] = g[Some(s)]
      BY <2>1, <2>5 DEF Some
    <3>. QED  BY <2>3, <2>5, <3>1 DEF Part
  <2>6. V \in G
    <3>1. IsFiniteSet(V)
      BY FS_Subset
    <3>. HIDE DEF G, V
    <3>. QED  BY <2>4, <2>5, <3>1, PartInduction
  <2>7. /\ Sums(g)[W] = g[w] + Sums(g)[V] /\ Sums(h)[W] = h[w] + Sums(h)[V]
        /\ Sums(g)[V] \in Nat /\ g[w] \in Nat
    BY <2>2
  <2>8. Sum(g) = Sums(g)[W] /\ Sum(h) = Sums(h)[W]
    BY <2>1, SumIs
  <2>9. Sums(h)[V] = Sums(g)[V]
    BY <2>6
  <2>. HIDE DEF V
  <2>10. Sum(h) = Sum(g) + 1
    BY <2>1, <2>7, <2>8, <2>9
  <2>. QED  BY <2>10 DEF h
<1>2. ASSUME f[w] > 0 PROVE Sum([f EXCEPT ![w] = @ - 1]) = Sum(f) - 1
  <2>. DEFINE g == [f EXCEPT ![w] = @ - 1]
  <2>1. g \in [W -> Nat] /\ g[w] = f[w] - 1 /\ \A x \in W \ {w} : g[x] = f[x]
    BY <1>2
  <2>. HIDE DEF g
  <2>2. f = [g EXCEPT ![w] = @ + 1]
    <3>. DEFINE h == [g EXCEPT ![w] = @ + 1]
    <3>1. h \in [W -> Nat] /\ h[w] = g[w] + 1 /\ \A x \in W \ {w} : h[x] = g[x]
      BY <2>1
    <3>. HIDE DEF h
    <3>2. \A x \in W : h[x] = f[x]
      BY <2>1, <3>1
    <3>3. h = f
      BY <3>1, <3>2
    <3>. QED  BY <3>3 DEF h
  <2>3. Sum(f) = Sum(g) + 1 /\ Sum(g) \in Nat
    BY <1>1, <2>1, <2>2, SumOf
  <2>4. Sum(g) = Sum(f) - 1
    BY <2>3
  <2>. QED  BY <2>4 DEF g
<1>. QED  BY <1>1, <1>2

-----------------------------------------------------------------------------
(* Where the lists of a list of lists stand once it is made flat.           *)

\* What comes before the i-th list, when they are as long as f says.
Before(f, i) == Sums(f)[1 .. (i - 1)]

\* Sums over the first places.
LEMMA BeforeIs ==
  ASSUME NEW n \in Nat, NEW f \in [1 .. n -> Nat]
  PROVE  /\ Before(f, 1) = 0
         /\ \A i \in 1 .. n : /\ Before(f, i) \in Nat /\ Before(f, i + 1) \in Nat
                              /\ Before(f, i + 1) = Before(f, i) + f[i]
         /\ Sum(f) = Before(f, n + 1)
<1>1. IsFiniteSet(1 .. n)
  BY FS_Interval
<1>2. Before(f, 1) = 0
  <2>1. 1 .. (1 - 1) = {}
    OBVIOUS
  <2>. QED  BY <1>1, <2>1, SumsNone DEF Before
<1>4. ASSUME NEW i \in 1 .. n
      PROVE  /\ Before(f, i) \in Nat /\ Before(f, i + 1) \in Nat
             /\ Before(f, i + 1) = Before(f, i) + f[i]
  <2>. DEFINE W == 1 .. n
              A == 1 .. (i - 1)
              B == 1 .. i
  <2>1. /\ A \in SUBSET W /\ B \in SUBSET W /\ i \in B /\ f[i] \in Nat
        /\ IsFiniteSet(W) /\ f \in [W -> Nat]
    BY <1>1
  <2>2. B \ {i} = A
    OBVIOUS
  <2>3. Before(f, i) = Sums(f)[A]
    BY DEF Before
  <2>4. Before(f, i + 1) = Sums(f)[B]
    <3>1. i + 1 - 1 = i
      OBVIOUS
    <3>. QED  BY <3>1 DEF Before
  <2>. HIDE DEF W, A, B
  <2>5. Sums(f)[A] \in Nat /\ Sums(f)[B] \in Nat
    BY <2>1, SumsType
  <2>6. Sums(f)[B] = f[i] + Sums(f)[B \ {i}]
    <3>1. Sums(f)[B] = f[i] + Sums(f)[Without(B, i)]
      BY <2>1, SumsTake
    <3>. QED  BY <3>1 DEF Without
  <2>7. Sums(f)[B] = Sums(f)[A] + f[i]
    <3>1. Sums(f)[B] = f[i] + Sums(f)[A]
      BY <2>2, <2>6
    <3>. DEFINE v == Sums(f)[A]
                u == f[i]
    <3>2. Sums(f)[B] = u + v /\ u \in Nat /\ v \in Nat
      BY <2>1, <2>5, <3>1
    <3>. HIDE DEF u, v
    <3>3. u + v = v + u
      BY <3>2
    <3>. QED  BY <3>2, <3>3 DEF u, v
  <2>. QED  BY <2>3, <2>4, <2>5, <2>7
<1>5. Sum(f) = Before(f, n + 1)
  <2>1. 1 .. (n + 1 - 1) = 1 .. n /\ DOMAIN f = 1 .. n
    OBVIOUS
  <2>2. Sum(f) = Sums(f)[DOMAIN f]
    BY SumIs
  <2>3. Before(f, n + 1) = Sums(f)[1 .. n]
    BY <2>1 DEF Before
  <2>. QED  BY <2>1, <2>2, <2>3
<1>. QED  BY <1>2, <1>4, <1>5

\* A place among the first b is one among more.
LEMMA Further == ASSUME NEW b \in Nat, NEW l \in Nat, NEW a \in 1 .. b PROVE a \in 1 .. (b + l)
OBVIOUS

\* The lists, and what it means that a list is made of them one after the other.
FlatFrom(T, n, f, seqs) ==
  /\ n \in Nat \ {0} /\ f \in [1 .. n -> Nat] /\ seqs \in [1 .. n -> Seq(T)]
  /\ \A i \in 1 .. n : Len(seqs[i]) = f[i]
FlatGives(T, n, f, seqs, flat) ==
  /\ flat \in Seq(T) /\ Len(flat) = Sum(f)
  /\ \A i \in 1 .. n : \A k \in 1 .. f[i] :
       /\ Before(f, i) + k \in DOMAIN flat
       /\ flat[Before(f, i) + k] = seqs[i][k]
  /\ \A j \in DOMAIN flat : \E i \in 1 .. n : \E k \in 1 .. f[i] : j = Before(f, i) + k

\* Every element of the lists has a place in the flat one, and there is no other.
LEMMA FlatAt ==
  ASSUME NEW T, NEW n, NEW f, NEW seqs, FlatFrom(T, n, f, seqs)
  PROVE  FlatGives(T, n, f, seqs, FlattenSeq(seqs))
<1>. SUFFICES ASSUME n \in Nat \ {0}, f \in [1 .. n -> Nat], seqs \in [1 .. n -> Seq(T)],
                     \A i \in 1 .. n : Len(seqs[i]) = f[i]
              PROVE  FlatGives(T, n, f, seqs, FlattenSeq(seqs))
  BY DEF FlatFrom
<1>1. seqs \in Seq(Seq(T)) /\ Len(seqs) = n
  BY IsASeq
<1>. DEFINE F == Flats(seqs)
            Fits(m) == /\ F[m] \in Seq(T) /\ Len(F[m]) = Before(f, m + 1)
                       /\ \A i \in 1 .. m : \A k \in 1 .. f[i] :
                            /\ Before(f, i) + k \in 1 .. Len(F[m])
                            /\ F[m][Before(f, i) + k] = seqs[i][k]
                       /\ \A j \in 1 .. Len(F[m]) :
                            \E i \in 1 .. m : \E k \in 1 .. f[i] : j = Before(f, i) + k
            S == {m \in 1 .. n : Fits(m)}
<1>2. \A i \in 1 .. n : F[i] = FlatStep(seqs, F[i - 1], i)
  BY <1>1, FlatsDefined
<1>3. /\ Before(f, 1) = 0
      /\ \A i \in 1 .. n : /\ Before(f, i) \in Nat /\ Before(f, i + 1) \in Nat
                           /\ Before(f, i + 1) = Before(f, i) + f[i]
      /\ Sum(f) = Before(f, n + 1)
  BY BeforeIs
<1>. HIDE DEF F
<1>4. 1 \in S
  <2>1. F[1] = seqs[1] /\ seqs[1] \in Seq(T) /\ Len(seqs[1]) = f[1] /\ f[1] \in Nat
    BY <1>2 DEF FlatStep
  <2>2. Len(F[1]) = Before(f, 1 + 1)
    BY <1>3, <2>1
  <2>3. \A i \in 1 .. 1 : \A k \in 1 .. f[i] :
          /\ Before(f, i) + k \in 1 .. Len(F[1]) /\ F[1][Before(f, i) + k] = seqs[i][k]
    BY <1>3, <2>1
  <2>4. \A j \in 1 .. Len(F[1]) : \E i \in 1 .. 1 : \E k \in 1 .. f[i] : j = Before(f, i) + k
    <3>. TAKE j \in 1 .. Len(F[1])
    <3>1. 1 \in 1 .. 1 /\ j \in 1 .. f[1] /\ j = Before(f, 1) + j
      BY <1>3, <2>1
    <3>. QED  BY <3>1
  <2>5. Fits(1)
    BY <2>1, <2>2, <2>3, <2>4
  <2>6. 1 \in 1 .. n
    OBVIOUS
  <2>. HIDE DEF Fits
  <2>. QED  BY <2>5, <2>6
<1>5. ASSUME NEW m \in 1 .. (n - 1), m \in S PROVE m + 1 \in S
  <2>. PICK p \in 2 .. n : p = m + 1
    OBVIOUS
  <2>1. F[p] = FlatStep(seqs, F[p - 1], p) /\ p - 1 = m /\ p # 1 /\ p \in 1 .. n /\ m \in 1 .. n
    BY <1>2
  <2>2. F[p] = F[m] \o seqs[p]
    BY <2>1 DEF FlatStep
  <2>3. /\ F[m] \in Seq(T) /\ Len(F[m]) = Before(f, p)
        /\ \A i \in 1 .. m : \A k \in 1 .. f[i] :
             /\ Before(f, i) + k \in 1 .. Len(F[m]) /\ F[m][Before(f, i) + k] = seqs[i][k]
        /\ \A j \in 1 .. Len(F[m]) : \E i \in 1 .. m : \E k \in 1 .. f[i] : j = Before(f, i) + k
    BY <1>5
  <2>4. seqs[p] \in Seq(T) /\ Len(seqs[p]) = f[p] /\ f[p] \in Nat
    BY <2>1
  <2>. DEFINE b == Before(f, p)
              l == f[p]
  <2>6. b \in Nat /\ l \in Nat /\ Before(f, p + 1) = b + l
    BY <1>3, <2>1, <2>4
  <2>. HIDE DEF b
  <2>5. /\ F[p] \in Seq(T) /\ Len(F[p]) = b + l
        /\ \A j \in 1 .. b : F[p][j] = F[m][j]
        /\ \A j \in 1 .. l : F[p][b + j] = seqs[p][j]
    <3>1. F[m] \in Seq(T) /\ seqs[p] \in Seq(T) /\ Len(F[m]) = b /\ Len(seqs[p]) = l
      BY <2>3, <2>4 DEF b
    <3>. DEFINE x == F[m]
                y == seqs[p]
    <3>. HIDE DEF x, y, l
    <3>2. /\ x \o y \in Seq(T) /\ Len(x \o y) = b + l
          /\ \A j \in 1 .. b : (x \o y)[j] = x[j]
          /\ \A j \in 1 .. l : (x \o y)[b + j] = y[j]
      <4>1. x \in Seq(T) /\ y \in Seq(T) /\ Len(x) = b /\ Len(y) = l
        BY <3>1 DEF x, y
      <4>2. x \o y \in Seq(T) /\ Len(x \o y) = Len(x) + Len(y)
        BY <4>1, ConcatProperties
      <4>3. \A j \in 1 .. b : (x \o y)[j] = x[j]
        <5>1. \A j \in 1 .. Len(x) + Len(y) :
                (x \o y)[j] = IF j <= Len(x) THEN x[j] ELSE y[j - Len(x)]
          BY <4>1, ConcatProperties
        <5>2. ASSUME NEW j \in 1 .. b PROVE j \in 1 .. Len(x) + Len(y) /\ j <= Len(x)
          BY <2>6, <4>1
        <5>. QED  BY <5>1, <5>2
      <4>4. \A j \in 1 .. l : (x \o y)[b + j] = y[j]
        <5>1. \A j \in 1 .. Len(x) + Len(y) :
                (x \o y)[j] = IF j <= Len(x) THEN x[j] ELSE y[j - Len(x)]
          BY <4>1, ConcatProperties
        <5>2. ASSUME NEW j \in 1 .. l
              PROVE b + j \in 1 .. Len(x) + Len(y) /\ ~(b + j <= Len(x)) /\ (b + j) - Len(x) = j
          BY <2>6, <4>1
        <5>. QED  BY <5>1, <5>2
      <4>. QED  BY <4>1, <4>2, <4>3, <4>4
    <3>. QED  BY <2>2, <3>2 DEF x, y
  <2>7. Len(F[p]) = Before(f, p + 1)
    BY <2>5, <2>6
  <2>8. ASSUME NEW i \in 1 .. p, NEW k \in 1 .. f[i]
        PROVE  Before(f, i) + k \in 1 .. Len(F[p]) /\ F[p][Before(f, i) + k] = seqs[i][k]
    <3>1. CASE i = p
      <4>1. k \in 1 .. l /\ b = Before(f, i) /\ Len(F[p]) = b + l
        BY <2>5, <3>1 DEF b
      <4>2. F[p][b + k] = seqs[p][k]
        BY <2>5, <4>1
      <4>3. b + k \in 1 .. b + l
        BY <2>6, <4>1
      <4>. QED  BY <3>1, <4>1, <4>2, <4>3
    <3>2. CASE i # p
      <4>1. i \in 1 .. m
        BY <2>1, <3>2
      <4>2. Before(f, i) + k \in 1 .. Len(F[m]) /\ F[m][Before(f, i) + k] = seqs[i][k]
        BY <2>3, <4>1
      <4>. DEFINE a == Before(f, i) + k
      <4>3. a \in 1 .. b /\ F[m][a] = seqs[i][k]
        BY <2>3, <4>2 DEF b
      <4>. HIDE DEF a, l
      <4>4. a \in 1 .. (b + l)
        BY <2>6, <4>3, Further
      <4>5. F[p][a] = F[m][a]
        BY <2>5, <4>3
      <4>. QED  BY <2>5, <4>3, <4>4, <4>5 DEF a
    <3>. QED  BY <3>1, <3>2
  <2>9. ASSUME NEW j \in 1 .. Len(F[p])
        PROVE  \E i \in 1 .. p : \E k \in 1 .. f[i] : j = Before(f, i) + k
    <3>1. CASE j <= Len(F[m])
      <4>1. j \in 1 .. Len(F[m])
        BY <2>3, <2>6, <3>1
      <4>2. PICK i \in 1 .. m : \E k \in 1 .. f[i] : j = Before(f, i) + k
        BY <2>3, <4>1
      <4>3. i \in 1 .. p
        BY <2>1
      <4>. QED  BY <4>2, <4>3
    <3>2. CASE j > Len(F[m])
      <4>1. j \in 1 .. (b + l) /\ j > b
        BY <2>3, <2>5, <3>2 DEF b
      <4>2. j - b \in 1 .. l /\ j = b + (j - b) /\ p \in 1 .. p
        BY <2>6, <4>1
      <4>. QED  BY <4>2 DEF b
    <3>3. Len(F[m]) \in Nat /\ j \in Nat
      BY <2>3, <2>5, <2>6 DEF b
    <3>. QED  BY <3>1, <3>2, <3>3
  <2>10. Fits(p)
    BY <2>5, <2>7, <2>8, <2>9
  <2>. HIDE DEF Fits
  <2>. QED  BY <2>1, <2>10
<1>6. 1 .. n \subseteq S
  <2>. HIDE DEF S
  <2>. QED  BY <1>4, <1>5, UpTo
<1>7. Fits(n)
  <2>. HIDE DEF Fits
  <2>. QED  BY <1>6
<1>8. FlattenSeq(seqs) = F[n]
  BY <1>1, FlattenIsFlats DEF F
<1>9. DOMAIN F[n] = 1 .. Len(F[n])
  BY <1>7
<1>10. /\ F[n] \in Seq(T) /\ Len(F[n]) = Sum(f)
       /\ \A i \in 1 .. n : \A k \in 1 .. f[i] :
            Before(f, i) + k \in DOMAIN F[n] /\ F[n][Before(f, i) + k] = seqs[i][k]
       /\ \A j \in DOMAIN F[n] : \E i \in 1 .. n : \E k \in 1 .. f[i] : j = Before(f, i) + k
  BY <1>3, <1>7, <1>9
<1>. HIDE DEF F
<1>. QED  BY <1>8, <1>10 DEF FlatGives

-----------------------------------------------------------------------------
(* Pieces of one size.                                                      *)

\* How many pieces of size r a list of n makes: the last one is not empty.
Pieces(n, r) == (n + r - 1) \div r

\* Products of natural numbers, one factor more or less.
LEMMA Multiples ==
  ASSUME NEW r \in Nat \ {0}
  PROVE  /\ \A k \in Int : k * r \in Int /\ (k + 1) * r = k * r + r /\ (k - 1) * r = k * r - r
         /\ 0 * r = 0 /\ 1 * r = r
         /\ \A j, k \in Int : j < k => j * r + r <= k * r
<1>1. \A k \in Int : k * r \in Int /\ (k + 1) * r = k * r + r /\ (k - 1) * r = k * r - r
  OBVIOUS
<1>2. 0 * r = 0 /\ 1 * r = r
  OBVIOUS
<1>3. ASSUME NEW j \in Int, NEW k \in Int, j < k PROVE j * r + r <= k * r
  <2>. DEFINE d == k - j - 1
  <2>1. d \in Nat /\ k = (j + 1) + d
    BY <1>3
  <2>. HIDE DEF d
  <2>2. k * r = (j + 1) * r + d * r
    BY <2>1
  <2>3. d * r \in Nat
    BY <2>1
  <2>4. (j + 1) * r = j * r + r /\ j * r \in Int
    BY <1>1
  <2>. QED  BY <2>2, <2>3, <2>4
<1>. QED  BY <1>1, <1>2, <1>3

LEMMA Quotient ==
  ASSUME NEW a \in Int, NEW r \in Nat \ {0}
  PROVE  /\ a \div r \in Int
         /\ (a \div r) * r <= a /\ a < (a \div r) * r + r
OBVIOUS

\* What the pieces cover: all of the list, and no piece behind it.
LEMMA PiecesAre ==
  ASSUME NEW n \in Nat, NEW r \in Nat \ {0}
  PROVE  /\ Pieces(n, r) \in Nat /\ n <= Pieces(n, r) * r
         /\ \A k \in 1 .. Pieces(n, r) : (k - 1) * r < n
         /\ \A k \in Nat : n <= k * r => Pieces(n, r) <= k
<1>. DEFINE q == Pieces(n, r)
<1>1. n + r - 1 \in Int
  OBVIOUS
<1>2. q \in Int /\ q * r <= n + r - 1 /\ n + r - 1 < q * r + r
  BY <1>1, Quotient DEF Pieces
<1>. HIDE DEF q
<1>3. q * r \in Int /\ 0 * r = 0 /\ (-1) * r = 0 - r
  BY <1>2, Multiples
<1>4. n <= q * r
  BY <1>2, <1>3
<1>5. q \in Nat
  <2>1. CASE q < 0
    <3>1. q * r + r <= 0
      BY <1>2, <1>3, <2>1, Multiples
    <3>. QED  BY <1>2, <1>3, <3>1
  <2>. QED  BY <1>2, <2>1
<1>6. ASSUME NEW k \in 1 .. q PROVE (k - 1) * r < n
  <2>1. (k - 1) * r + r <= q * r /\ (k - 1) * r \in Int
    BY <1>2, Multiples
  <2>. QED  BY <1>2, <1>3, <2>1
<1>7. ASSUME NEW k \in Nat, n <= k * r PROVE q <= k
  <2>1. CASE k < q
    <3>1. k * r + r <= q * r /\ k * r \in Int
      BY <1>2, <2>1, Multiples
    <3>. QED  BY <1>2, <1>3, <1>7, <3>1
  <2>. QED  BY <1>2, <2>1
<1>. QED  BY <1>4, <1>5, <1>6, <1>7 DEF q

\* The requests for n cards: the first asks for some of them and the rest of the
\* list is the list for the rest.
LEMMA RequestListIs ==
  ASSUME NEW n \in Nat
  PROVE  /\ RequestList(n) \in Seq(Int)
         /\ n = 0 => RequestList(n) = <<>>
         /\ n # 0 => /\ RequestList(n) # <<>>
                     /\ Head(RequestList(n)) \in 1 .. n
                     /\ Tail(RequestList(n)) = RequestList(n - Head(RequestList(n)))
<1>. DEFINE r == RequestChunk
            q == Pieces(n, r)
            E(m, k) == IF k * r <= m THEN r ELSE m - (k - 1) * r
<1>1. r \in Nat \ {0}
  BY OpeningAssumption
<1>2. \A m : RequestList(m) = [k \in 1 .. Pieces(m, r) |-> E(m, k)]
  BY DEF RequestList, Pieces
<1>. HIDE DEF r
<1>3. \A m \in Nat : \A k \in Int : E(m, k) \in Int
  BY <1>1, Multiples
<1>4. \A m \in Nat : Pieces(m, r) \in Nat
  BY <1>1, PiecesAre
<1>. HIDE DEF E
<1>5. ASSUME NEW m \in Nat PROVE RequestList(m) \in Seq(Int) /\ Len(RequestList(m)) = Pieces(m, r)
  <2>. DEFINE g == [k \in 1 .. Pieces(m, r) |-> E(m, k)]
              l == Pieces(m, r)
  <2>1. l \in Nat
    BY <1>4
  <2>2. g \in [1 .. l -> Int]
    BY <1>3
  <2>3. RequestList(m) = g
    BY <1>2
  <2>. HIDE DEF g, l
  <2>4. g \in Seq(Int) /\ Len(g) = l
    BY <2>1, <2>2
  <2>. QED  BY <2>3, <2>4 DEF l
<1>6. ASSUME n = 0 PROVE RequestList(n) = <<>>
  <2>1. n <= 0 * r /\ 0 \in Nat
    BY <1>1, <1>6, Multiples
  <2>2. Pieces(n, r) = 0
    BY <1>1, <1>4, <2>1, PiecesAre
  <2>. QED  BY <1>5, <2>2
<1>7. ASSUME n # 0 PROVE q \in Nat /\ q >= 1 /\ n <= q * r
  <2>1. q \in Nat /\ n <= q * r
    BY <1>1, PiecesAre
  <2>2. q # 0
    BY <1>1, <1>7, <2>1, Multiples
  <2>. QED  BY <2>1, <2>2
<1>8. ASSUME n # 0
      PROVE  /\ RequestList(n) # <<>> /\ Head(RequestList(n)) = E(n, 1)
             /\ E(n, 1) = IF r <= n THEN r ELSE n
  <2>1. q \in Nat /\ q >= 1 /\ Len(RequestList(n)) = q
    BY <1>5, <1>7, <1>8
  <2>2. RequestList(n)[1] = E(n, 1)
    BY <1>2, <2>1
  <2>3. 1 * r = r /\ (1 - 1) * r = 0
    BY <1>1, Multiples
  <2>4. E(n, 1) = IF r <= n THEN r ELSE n
    BY <1>1, <2>3 DEF E
  <2>5. RequestList(n) # <<>> /\ Head(RequestList(n)) = RequestList(n)[1]
    <3>1. RequestList(n) \in Seq(Int)
      BY <1>5
    <3>. QED  BY <2>1, <3>1
  <2>. QED  BY <2>2, <2>4, <2>5
<1>9. ASSUME n # 0
      PROVE  Tail(RequestList(n)) = RequestList(n - E(n, 1))
  <2>. DEFINE h == E(n, 1)
  <2>1. h \in 1 .. n /\ h = IF r <= n THEN r ELSE n
    BY <1>1, <1>8, <1>9
  <2>. HIDE DEF h
  <2>m. n - h \in Nat
    BY <2>1
  <2>. PICK m \in Nat : m = n - h
    BY <2>m
  <2>2. q \in Nat /\ q >= 1 /\ n <= q * r /\ q * r \in Int
    BY <1>1, <1>7, <1>9, Multiples
  <2>3. Pieces(m, r) = q - 1
    <3>. DEFINE w == Pieces(m, r)
    <3>1. w \in Nat /\ m <= w * r /\ w * r \in Int
      BY <1>1, PiecesAre, Multiples
    <3>2. (w + 1) * r = w * r + r /\ (q - 1) * r = q * r - r /\ (q - 1) * r \in Int
      BY <1>1, <2>2, <3>1, Multiples
    <3>3. q <= w + 1
      <4>1. n <= (w + 1) * r /\ w + 1 \in Nat
        BY <1>1, <2>1, <3>1, <3>2
      <4>. HIDE DEF w
      <4>. QED  BY <1>1, <4>1, PiecesAre
    <3>4. w <= q - 1
      <4>1. m <= (q - 1) * r /\ q - 1 \in Nat
        <5>1. CASE r <= n
          <6>1. m = n - r
            BY <2>1, <5>1
          <6>. QED  BY <1>1, <2>2, <3>2, <5>1, <6>1
        <5>2. CASE ~(r <= n)
          <6>1. m = 0 /\ 0 * r = 0 /\ q - 1 \in Nat
            BY <1>1, <2>1, <2>2, <5>2, Multiples
          <6>2. (q - 1) * r >= 0
            <7>1. CASE q - 1 = 0
              BY <6>1, <7>1
            <7>2. CASE 0 < q - 1
              <8>1. 0 * r + r <= (q - 1) * r
                BY <1>1, <2>2, <7>2, Multiples
              <8>. QED  BY <1>1, <3>2, <6>1, <8>1
            <7>. QED  BY <2>2, <7>1, <7>2
          <6>. QED  BY <6>1, <6>2
        <5>. QED  BY <5>1, <5>2
      <4>. HIDE DEF q
      <4>. QED  BY <1>1, <4>1, PiecesAre
    <3>. QED  BY <2>2, <3>1, <3>3, <3>4
  <2>4. ASSUME NEW k \in 1 .. (q - 1) PROVE E(n, k + 1) = E(m, k)
    <3>1. k * r < n /\ k * r \in Int
      <4>. PICK j \in 1 .. q : j = k + 1
        BY <2>2
      <4>1. (j - 1) * r < n
        BY <1>1, PiecesAre
      <4>2. j - 1 = k
        OBVIOUS
      <4>. QED  BY <1>1, <4>1, <4>2, Multiples
    <3>2. r <= n
      <4>1. 0 * r + r <= k * r /\ 0 * r = 0
        BY <1>1, Multiples
      <4>. QED  BY <1>1, <3>1, <4>1
    <3>3. m = n - r
      BY <2>1, <3>2
    <3>4. (k + 1) * r = k * r + r /\ (k - 1) * r = k * r - r /\ k + 1 - 1 = k
      BY <1>1, Multiples
    <3>5. E(n, k + 1) = IF k * r + r <= n THEN r ELSE n - k * r
      BY <3>4 DEF E
    <3>6. E(m, k) = IF k * r <= m THEN r ELSE m - (k * r - r)
      BY <3>4 DEF E
    <3>. QED  BY <1>1, <3>1, <3>3, <3>5, <3>6
  <2>5. /\ Tail(RequestList(n)) \in Seq(Int) /\ Len(Tail(RequestList(n))) = q - 1
        /\ \A k \in 1 .. (q - 1) : Tail(RequestList(n))[k] = RequestList(n)[k + 1]
    <3>. DEFINE x == RequestList(n)
    <3>1. x \in Seq(Int) /\ Len(x) = q /\ x # <<>>
      BY <1>5, <1>8, <1>9
    <3>. HIDE DEF x, q
    <3>2. Tail(x) \in Seq(Int) /\ Len(Tail(x)) = Len(x) - 1
      BY <3>1
    <3>3. \A k \in 1 .. (q - 1) : Tail(x)[k] = x[k + 1]
      BY <3>1, <2>2
    <3>. QED  BY <3>1, <3>2, <3>3 DEF x
  <2>6. \A k \in 1 .. (q - 1) : RequestList(n)[k + 1] = E(n, k + 1)
    <3>. TAKE k \in 1 .. (q - 1)
    <3>. PICK j \in 1 .. q : j = k + 1
      BY <2>2
    <3>1. RequestList(n)[j] = E(n, j)
      BY <1>2
    <3>. QED  BY <3>1
  <2>7. RequestList(m) \in Seq(Int) /\ Len(RequestList(m)) = q - 1
    BY <1>5, <2>3
  <2>8. \A k \in 1 .. (q - 1) : RequestList(m)[k] = E(m, k)
    BY <1>2, <2>3
  <2>9. \A k \in 1 .. (q - 1) : Tail(RequestList(n))[k] = RequestList(m)[k]
    BY <2>4, <2>5, <2>6, <2>8
  <2>10. Tail(RequestList(n)) = RequestList(m)
    <3>. DEFINE x == Tail(RequestList(n))
                y == RequestList(m)
    <3>. HIDE DEF x, y, q
    <3>1. x \in Seq(Int) /\ y \in Seq(Int) /\ Len(x) = Len(y) /\ \A k \in 1 .. Len(x) : x[k] = y[k]
      BY <2>5, <2>7, <2>9 DEF x, y
    <3>2. x = y
      BY <3>1, SeqEqual
    <3>. QED  BY <3>2 DEF x, y
  <2>. QED  BY <2>10 DEF h
<1>10. ASSUME n # 0 PROVE E(n, 1) \in 1 .. n
  BY <1>1, <1>8, <1>10
<1>. QED  BY <1>5, <1>6, <1>8, <1>9, <1>10

-----------------------------------------------------------------------------
(* The process, its queue and its claims.                                   *)

LEMMA Constants ==
  /\ {NumItems, AccountChunk, CardChunk, SendChunk} \subseteq Nat \ {0} /\ MaxFaults \in Nat
  /\ NumItems \in Nat /\ NumItems # 0 /\ IsFiniteSet(Items)
  /\ Allowed \in Nat /\ Allowed # 0 /\ MarkSize \in Nat \ {0} /\ RequestChunk \in Nat \ {0}
<1>1. NumItems \in Nat \ {0}
  BY CreationAssumption
<1>2. IsFiniteSet(Items)
  BY <1>1, FS_Interval DEF Items
<1>. QED  BY <1>1, <1>2, CreationAssumption, OpeningAssumption

\* A process, part by part.
LEMMA ProcessParts ==
  ASSUME NEW p \in Processes
  PROVE  /\ p.exists \in BOOLEAN /\ p.left \in [Items -> Nat] /\ p.redeemed \in Nat
         /\ Requested(p) \in Nat /\ Total(p) \in Nat /\ Total(p) <= Allowed
         /\ Total(p) = Requested(p) + p.redeemed
         /\ \A i \in Items : p.left[i] \in Nat /\ p.left[i] <= Requested(p)
         /\ Requested(p) = 0 \/ \E i \in Items : p.left[i] > 0
         /\ ~p.exists => p = NoProcess
<1>1. p.exists \in BOOLEAN /\ p.left \in [Items -> Nat] /\ p.redeemed \in Nat /\ Total(p) <= Allowed
      /\ (~p.exists => p = NoProcess)
  BY DEF Processes
<1>. DEFINE f == p.left
<1>2. f \in [Items -> Nat]
  BY <1>1
<1>. HIDE DEF f
<1>3. /\ Sum(f) \in Nat
      /\ \A w \in Items : f[w] <= Sum(f)
      /\ (\A w \in Items : f[w] = 0) => Sum(f) = 0
  BY <1>2, Constants, SumOf
<1>4. \A i \in Items : f[i] \in Nat
  BY <1>2
<1>5. Requested(p) = Sum(f)
  BY DEF Requested, f
<1>6. Requested(p) = 0 \/ \E i \in Items : f[i] > 0
  BY <1>3, <1>4, <1>5
<1>7. Total(p) \in Nat /\ Total(p) = Requested(p) + p.redeemed
  BY <1>1, <1>3, <1>5 DEF Total
<1>. QED  BY <1>1, <1>3, <1>4, <1>5, <1>6, <1>7 DEF f

LEMMA SumZero == Sum(Zero) = 0
<1>. DEFINE f == Zero
<1>1. f \in [Items -> Nat] /\ \A i \in Items : f[i] = 0
  BY DEF Zero
<1>. HIDE DEF f
<1>2. Sum(f) = 0
  BY <1>1, Constants, SumOf
<1>. QED  BY <1>2 DEF f

LEMMA NoProcessIs ==
  /\ NoProcess \in Processes /\ Total(NoProcess) = 0 /\ Requested(NoProcess) = 0
  /\ NoProcess.redeemed = 0 /\ ~NoProcess.exists /\ Zero \in [Items -> Nat]
<1>1. Zero \in [Items -> Nat]
  BY DEF Zero
<1>2. Requested(NoProcess) = 0 /\ Total(NoProcess) = 0
  BY SumZero DEF Requested, Total, NoProcess
<1>3. NoProcess \in [exists : BOOLEAN, left : [Items -> Nat], redeemed : Nat]
  BY <1>1 DEF NoProcess
<1>4. NoProcess \in Processes
  BY <1>2, <1>3, Constants DEF Processes
<1>. QED  BY <1>1, <1>2, <1>4 DEF NoProcess

\* A process with as many claimed cards as the pack allows has no cards left.
LEMMA NothingLeft ==
  ASSUME NEW p \in Processes, Exhausted(p)
  PROVE  Requested(p) = 0 /\ Total(p) = Allowed
BY ProcessParts, Constants DEF Exhausted

\* The pieces of a queue and of a list of claims.
QueuePieces(p) == [i \in Items |-> [k \in 1 .. p.left[i] |-> i]]
ClaimPieces(p) == [i \in Items |-> [k \in 1 .. p.left[i] |-> [card |-> i, edition |-> Edition(i, k)]]]

LEMMA QueuePiecesAre ==
  ASSUME NEW p \in Processes
  PROVE  /\ QueuePieces(p) \in [1 .. NumItems -> Seq(Items)]
         /\ \A i \in 1 .. NumItems : Len(QueuePieces(p)[i]) = p.left[i]
         /\ \A i \in 1 .. NumItems : \A k \in 1 .. p.left[i] : QueuePieces(p)[i][k] = i
<1>1. ASSUME NEW i \in Items
      PROVE  /\ [k \in 1 .. p.left[i] |-> i] \in Seq(Items)
             /\ Len([k \in 1 .. p.left[i] |-> i]) = p.left[i]
  <2>. DEFINE l == p.left[i]
              g == [k \in 1 .. p.left[i] |-> i]
  <2>1. l \in Nat
    BY ProcessParts
  <2>2. g \in [1 .. l -> Items]
    OBVIOUS
  <2>. HIDE DEF g, l
  <2>3. g \in Seq(Items) /\ Len(g) = l
    BY <2>1, <2>2
  <2>. QED  BY <2>3 DEF g, l
<1>2. \A i \in Items : QueuePieces(p)[i] = [k \in 1 .. p.left[i] |-> i]
  BY DEF QueuePieces
<1>3. QueuePieces(p) \in [Items -> Seq(Items)]
  BY <1>1 DEF QueuePieces
<1>. QED  BY <1>1, <1>2, <1>3 DEF Items

LEMMA ClaimPiecesAre ==
  ASSUME NEW p \in Processes, page.supply \in [Items -> Nat]
  PROVE  /\ ClaimPieces(p) \in [1 .. NumItems -> Seq(Claims)]
         /\ \A i \in 1 .. NumItems : Len(ClaimPieces(p)[i]) = p.left[i]
         /\ \A i \in 1 .. NumItems : \A k \in 1 .. p.left[i] :
              ClaimPieces(p)[i][k] = [card |-> i, edition |-> page.supply[i] + k]
<1>1. ASSUME NEW i \in Items
      PROVE  /\ [k \in 1 .. p.left[i] |-> [card |-> i, edition |-> Edition(i, k)]] \in Seq(Claims)
             /\ Len([k \in 1 .. p.left[i] |-> [card |-> i, edition |-> Edition(i, k)]]) = p.left[i]
  <2>. DEFINE l == p.left[i]
              g == [k \in 1 .. p.left[i] |-> [card |-> i, edition |-> Edition(i, k)]]
  <2>1. l \in Nat
    BY ProcessParts
  <2>2. \A k \in 1 .. l : Edition(i, k) \in Nat
    BY <2>1 DEF Edition
  <2>3. g \in [1 .. l -> Claims]
    BY <2>2 DEF Claims
  <2>. HIDE DEF g, l
  <2>4. g \in Seq(Claims) /\ Len(g) = l
    BY <2>1, <2>3
  <2>. QED  BY <2>4 DEF g, l
<1>2. \A i \in Items : ClaimPieces(p)[i] = [k \in 1 .. p.left[i] |-> [card |-> i, edition |-> Edition(i, k)]]
  BY DEF ClaimPieces
<1>3. ClaimPieces(p) \in [Items -> Seq(Claims)]
  BY <1>1 DEF ClaimPieces
<1>4. \A i \in Items : \A k \in 1 .. p.left[i] :
        ClaimPieces(p)[i][k] = [card |-> i, edition |-> page.supply[i] + k]
  BY <1>2 DEF Edition
<1>. QED  BY <1>1, <1>2, <1>3, <1>4 DEF Items

\* Where the cards of a process are in its queue.
LEMMA QueueIs ==
  ASSUME NEW p \in Processes
  PROVE  /\ QueueOf(p) \in Seq(Items) /\ Len(QueueOf(p)) = Requested(p)
         /\ \A i \in Items : \A k \in 1 .. p.left[i] :
              /\ Before(p.left, i) + k \in DOMAIN QueueOf(p)
              /\ QueueOf(p)[Before(p.left, i) + k] = i
<1>. DEFINE f == p.left
            s == QueuePieces(p)
            n == NumItems
            T == Items
            q == QueueOf(p)
<1>1. f \in [1 .. n -> Nat] /\ n \in Nat \ {0}
  BY ProcessParts, Constants DEF Items
<1>2. s \in [1 .. n -> Seq(T)] /\ \A i \in 1 .. n : Len(s[i]) = f[i]
  BY QueuePiecesAre
<1>3. \A i \in 1 .. n : \A k \in 1 .. f[i] : s[i][k] = i
  BY QueuePiecesAre
<1>4. q = FlattenSeq(s) /\ Requested(p) = Sum(f) /\ 1 .. n = T
  BY DEF QueueOf, QueuePieces, Requested, Items
<1>. HIDE DEF f, s, n, T, q
<1>5. /\ FlattenSeq(s) \in Seq(T) /\ Len(FlattenSeq(s)) = Sum(f)
      /\ \A i \in 1 .. n : \A k \in 1 .. f[i] :
           /\ Before(f, i) + k \in DOMAIN FlattenSeq(s)
           /\ FlattenSeq(s)[Before(f, i) + k] = s[i][k]
  <2>1. FlatFrom(T, n, f, s)
    BY <1>1, <1>2 DEF FlatFrom
  <2>2. FlatGives(T, n, f, s, FlattenSeq(s))
    BY <2>1, FlatAt
  <2>. QED  BY <2>2 DEF FlatGives
<1>6. /\ q \in Seq(T) /\ Len(q) = Requested(p)
      /\ \A i \in T : \A k \in 1 .. f[i] :
           /\ Before(f, i) + k \in DOMAIN q
           /\ q[Before(f, i) + k] = i
  BY <1>3, <1>4, <1>5
<1>. QED  BY <1>6 DEF q, f, T

\* Where the claims are, and that there is no other.
LEMMA ClaimListIs ==
  ASSUME NEW p \in Processes, page.supply \in [Items -> Nat]
  PROVE  /\ ClaimList(p) \in Seq(Claims) /\ Len(ClaimList(p)) = Requested(p)
         /\ \A i \in Items : \A k \in 1 .. p.left[i] :
              /\ Before(p.left, i) + k \in DOMAIN ClaimList(p)
              /\ ClaimList(p)[Before(p.left, i) + k] = [card |-> i, edition |-> page.supply[i] + k]
         /\ \A j \in DOMAIN ClaimList(p) :
              \E i \in Items : \E k \in 1 .. p.left[i] : j = Before(p.left, i) + k
<1>. DEFINE f == p.left
            s == ClaimPieces(p)
            n == NumItems
            T == Claims
            q == ClaimList(p)
            N == Items
<1>1. f \in [1 .. n -> Nat] /\ n \in Nat \ {0}
  BY ProcessParts, Constants DEF Items
<1>2. s \in [1 .. n -> Seq(T)] /\ \A i \in 1 .. n : Len(s[i]) = f[i]
  BY ClaimPiecesAre
<1>3. \A i \in 1 .. n : \A k \in 1 .. f[i] : s[i][k] = [card |-> i, edition |-> page.supply[i] + k]
  BY ClaimPiecesAre
<1>4. q = FlattenSeq(s) /\ Requested(p) = Sum(f) /\ 1 .. n = N
  BY DEF ClaimList, ClaimPieces, Requested, Items
<1>. HIDE DEF f, s, n, T, q, N
<1>5. /\ FlattenSeq(s) \in Seq(T) /\ Len(FlattenSeq(s)) = Sum(f)
      /\ \A i \in 1 .. n : \A k \in 1 .. f[i] :
           /\ Before(f, i) + k \in DOMAIN FlattenSeq(s)
           /\ FlattenSeq(s)[Before(f, i) + k] = s[i][k]
      /\ \A j \in DOMAIN FlattenSeq(s) :
           \E i \in 1 .. n : \E k \in 1 .. f[i] : j = Before(f, i) + k
  <2>1. FlatFrom(T, n, f, s)
    BY <1>1, <1>2 DEF FlatFrom
  <2>2. FlatGives(T, n, f, s, FlattenSeq(s))
    BY <2>1, FlatAt
  <2>. QED  BY <2>2 DEF FlatGives
<1>6. /\ q \in Seq(T) /\ Len(q) = Requested(p)
      /\ \A i \in N : \A k \in 1 .. f[i] :
           /\ Before(f, i) + k \in DOMAIN q
           /\ q[Before(f, i) + k] = [card |-> i, edition |-> page.supply[i] + k]
      /\ \A j \in DOMAIN q :
           \E i \in N : \E k \in 1 .. f[i] : j = Before(f, i) + k
  BY <1>3, <1>4, <1>5
<1>. QED  BY <1>6 DEF q, f, T, N

\* The claims are in the order of the queue.
LEMMA SameCards ==
  ASSUME NEW p \in Processes, page.supply \in [Items -> Nat]
  PROVE  \A j \in DOMAIN ClaimList(p) : ClaimList(p)[j].card = QueueOf(p)[j]
<1>. TAKE j \in DOMAIN ClaimList(p)
<1>1. PICK i \in Items : \E k \in 1 .. p.left[i] : j = Before(p.left, i) + k
  BY ClaimListIs
<1>2. PICK k \in 1 .. p.left[i] : j = Before(p.left, i) + k
  BY <1>1
<1>3. ClaimList(p)[Before(p.left, i) + k] = [card |-> i, edition |-> page.supply[i] + k]
  BY ClaimListIs
<1>4. QueueOf(p)[Before(p.left, i) + k] = i
  BY QueueIs
<1>. QED  BY <1>2, <1>3, <1>4

\* Made for the process by a page that has read the supply, the claims cover
\* what is left, in order.
LEMMA ClaimsMade ==
  ASSUME process \in Processes, page.supply = supply, supply \in [Items -> Nat]
  PROVE  /\ Covering(ClaimList(process)) /\ Within(ClaimList(process)) /\ Ordered(ClaimList(process))
<1>. DEFINE f == process.left
            q == ClaimList(process)
<1>1. f \in [Items -> Nat] /\ f \in [1 .. NumItems -> Nat] /\ NumItems \in Nat
  BY ProcessParts, Constants DEF Items
<1>2. \A i \in Items : \A k \in 1 .. f[i] :
        Before(f, i) + k \in DOMAIN q /\ q[Before(f, i) + k] = [card |-> i, edition |-> supply[i] + k]
  BY ClaimListIs
<1>3. \A j \in DOMAIN q : \E i \in Items : \E k \in 1 .. f[i] : j = Before(f, i) + k
  BY ClaimListIs
<1>4. \A i \in Items : Before(f, i) \in Nat /\ f[i] \in Nat /\ supply[i] \in Nat
  <2>. HIDE DEF f
  <2>1. \A i \in 1 .. NumItems : Before(f, i) \in Nat
    BY <1>1, BeforeIs
  <2>. QED  BY <1>1, <2>1 DEF Items
<1>. HIDE DEF f, q
<1>5. Covering(q)
  <2>. SUFFICES ASSUME NEW i \in Items, NEW e \in (supply[i] + 1) .. (supply[i] + process.left[i])
                PROVE  \E k \in DOMAIN q : q[k] = [card |-> i, edition |-> e]
    BY DEF Covering
  <2>1. PICK k \in 1 .. f[i] : e = supply[i] + k
    <3>1. e - supply[i] \in 1 .. f[i] /\ e = supply[i] + (e - supply[i])
      BY <1>4 DEF f
    <3>. QED  BY <3>1
  <2>2. Before(f, i) + k \in DOMAIN q /\ q[Before(f, i) + k] = [card |-> i, edition |-> e]
    BY <1>2, <2>1
  <2>. QED  BY <2>2
<1>6. Within(q)
  <2>. SUFFICES ASSUME NEW j \in DOMAIN q
                PROVE  q[j].edition \in (supply[q[j].card] + 1) .. (supply[q[j].card] + process.left[q[j].card])
    BY DEF Within
  <2>1. PICK i \in Items : \E k \in 1 .. f[i] : j = Before(f, i) + k
    BY <1>3
  <2>2. PICK k \in 1 .. f[i] : j = Before(f, i) + k
    BY <2>1
  <2>3. q[j] = [card |-> i, edition |-> supply[i] + k]
    BY <1>2, <2>2
  <2>4. supply[i] + k \in (supply[i] + 1) .. (supply[i] + f[i])
    BY <1>4
  <2>. QED  BY <2>3, <2>4 DEF f
<1>7. Ordered(q)
  <2>. SUFFICES ASSUME NEW j \in DOMAIN q, NEW k \in DOMAIN q, j < k, q[j].card = q[k].card
                PROVE  q[j].edition < q[k].edition
    BY DEF Ordered
  <2>1. PICK i \in Items : \E a \in 1 .. f[i] : j = Before(f, i) + a
    BY <1>3
  <2>2. PICK a \in 1 .. f[i] : j = Before(f, i) + a
    BY <2>1
  <2>3. PICK h \in Items : \E b \in 1 .. f[h] : k = Before(f, h) + b
    BY <1>3
  <2>4. PICK b \in 1 .. f[h] : k = Before(f, h) + b
    BY <2>3
  <2>5. q[j] = [card |-> i, edition |-> supply[i] + a]
    BY <1>2, <2>2
  <2>6. q[k] = [card |-> h, edition |-> supply[h] + b]
    BY <1>2, <2>4
  <2>7. h = i
    BY <2>5, <2>6
  <2>8. a < b
    BY <1>4, <2>2, <2>4, <2>7
  <2>9. supply[i] + a < supply[i] + b
    BY <1>4, <2>8
  <2>. QED  BY <2>5, <2>6, <2>7, <2>9
<1>. QED  BY <1>5, <1>6, <1>7 DEF q

-----------------------------------------------------------------------------
(* The seller's list.                                                       *)

\* The places in the k-th piece.
Piece(k, size) == {i \in Items : (k - 1) * size < i /\ i <= k * size}

\* A list cut in pieces.
CutInto(list, size, T, pieces) ==
  /\ pieces \in Seq(Seq(T)) /\ Len(pieces) = Pieces(NumItems, size)
  /\ \A k \in 1 .. Pieces(NumItems, size) :
       ToSet(pieces[k]) = {list[i] : i \in Piece(k, size)}

\* The pieces take every place of the list once, in order.
LEMMA ChunkIs ==
  ASSUME NEW T, NEW list \in [Items -> T], NEW size \in Nat \ {0}
  PROVE  CutInto(list, size, T, Chunk(list, size))
<1>. DEFINE n == NumItems
            p == Pieces(n, size)
            E(k) == SubSeq(list, (k - 1) * size + 1, IF k * size < n THEN k * size ELSE n)
<1>1. n \in Nat /\ n # 0
  BY Constants
<1>2. list \in [1 .. n -> T]
  BY DEF Items
<1>. HIDE DEF n
<1>3. list \in Seq(T) /\ Len(list) = n
  BY <1>1, <1>2
<1>4. Chunk(list, size) = [k \in 1 .. p |-> E(k)]
  BY <1>3 DEF Chunk, Pieces
<1>5. p \in Nat /\ \A k \in 1 .. p : (k - 1) * size < n
  BY <1>1, PiecesAre
<1>. HIDE DEF p
<1>6. ASSUME NEW k \in 1 .. p
      PROVE  E(k) \in Seq(T) /\ ToSet(E(k)) = {list[i] : i \in Piece(k, size)}
  <2>. DEFINE a == (k - 1) * size
              b == k * size
              e == IF b < n THEN b ELSE n
              x == SubSeq(list, a + 1, e)
  <2>1. a \in Int /\ b \in Int /\ b = a + size /\ a < n
    <3>1. a \in Int /\ b \in Int /\ a = b - size
      BY Multiples
    <3>2. a < n
      BY <1>5
    <3>. QED  BY <3>1, <3>2
  <2>2. 0 <= a
    <3>1. CASE k = 1
      <4>1. a = b - size /\ 1 * size = size
        BY Multiples
      <4>. QED  BY <3>1, <4>1
    <3>2. CASE 0 < k - 1
      <4>1. 0 * size + size <= (k - 1) * size /\ 0 * size = 0
        BY <3>2, Multiples
      <4>. QED  BY <2>1, <4>1
    <3>. QED  BY <1>5, <3>1, <3>2
  <2>3. E(k) = x
    OBVIOUS
  <2>4. Piece(k, size) = {i \in 1 .. n : a < i /\ i <= b}
    BY DEF Piece, Items, n
  <2>. HIDE DEF a, b, E
  <2>5. e \in Nat /\ a + 1 \in Nat /\ a + 1 >= 1 /\ a + 1 <= e /\ e <= n
    BY <1>1, <2>1, <2>2
  <2>6. \A i \in 1 .. n : (a < i /\ i <= b) <=> i \in (a + 1) .. e
    BY <1>1, <2>1, <2>2
  <2>. HIDE DEF e
  <2>7. x \in Seq(T) /\ Len(x) = e - a /\ \A j \in 1 .. (e - a) : x[j] = list[a + j]
    BY <1>3, <2>1, <2>5
  <2>. HIDE DEF x
  <2>8. ToSet(x) = {x[j] : j \in 1 .. (e - a)}
    BY <2>7 DEF ToSet
  <2>9. ASSUME NEW y \in ToSet(x) PROVE y \in {list[i] : i \in Piece(k, size)}
    <3>1. PICK j \in 1 .. (e - a) : y = x[j]
      BY <2>8
    <3>2. PICK i \in 1 .. n : i = a + j
      BY <2>1, <2>5, <1>1
    <3>3. i \in Piece(k, size)
      BY <2>1, <2>4, <2>5, <2>6, <3>2
    <3>. QED  BY <2>7, <3>1, <3>2, <3>3
  <2>10. ASSUME NEW y \in {list[i] : i \in Piece(k, size)} PROVE y \in ToSet(x)
    <3>1. PICK i \in Piece(k, size) : y = list[i]
      OBVIOUS
    <3>2. i \in 1 .. n /\ i \in (a + 1) .. e
      BY <2>4, <2>6
    <3>3. PICK j \in 1 .. (e - a) : i = a + j
      <4>1. i - a \in 1 .. (e - a) /\ i = a + (i - a)
        BY <2>1, <2>5, <3>2
      <4>. QED  BY <4>1
    <3>. QED  BY <2>7, <2>8, <3>1, <3>3
  <2>. QED  BY <2>3, <2>7, <2>9, <2>10
<1>. HIDE DEF E
<1>7. Chunk(list, size) \in Seq(Seq(T)) /\ Len(Chunk(list, size)) = p
  <2>. DEFINE g == [k \in 1 .. p |-> E(k)]
  <2>1. g \in [1 .. p -> Seq(T)]
    BY <1>6
  <2>. HIDE DEF g
  <2>2. g \in Seq(Seq(T)) /\ Len(g) = p
    BY <1>5, <2>1
  <2>. QED  BY <1>4, <2>2 DEF g
<1>. QED  BY <1>4, <1>6, <1>7 DEF p, n, CutInto

\* Two lists joined.
LEMMA TwoJoined ==
  ASSUME NEW T, NEW x \in Seq(T), NEW y \in Seq(T)
  PROVE  /\ x \o y \in Seq(T) /\ Len(x) \in Nat /\ Len(y) \in Nat
         /\ Len(x \o y) = Len(x) + Len(y)
         /\ \A j \in 1 .. Len(x) : (x \o y)[j] = x[j]
         /\ \A j \in 1 .. Len(y) : (x \o y)[Len(x) + j] = y[j]
<1>1. x \o y \in Seq(T) /\ Len(x \o y) = Len(x) + Len(y)
  BY ConcatProperties
<1>2. \A j \in 1 .. Len(x) + Len(y) : (x \o y)[j] = IF j <= Len(x) THEN x[j] ELSE y[j - Len(x)]
  BY ConcatProperties
<1>3. Len(x) \in Nat /\ Len(y) \in Nat
  OBVIOUS
<1>4. ASSUME NEW j \in 1 .. Len(x) PROVE (x \o y)[j] = x[j]
  BY <1>2, <1>3
<1>5. ASSUME NEW j \in 1 .. Len(y) PROVE (x \o y)[Len(x) + j] = y[j]
  <2>. PICK i \in 1 .. Len(x) + Len(y) : i = Len(x) + j
    BY <1>3
  <2>1. (x \o y)[i] = y[i - Len(x)] /\ i - Len(x) = j
    BY <1>2, <1>3
  <2>. QED  BY <2>1
<1>. QED  BY <1>1, <1>3, <1>4, <1>5

\* Four lists joined.
JoinedTo(a, b, c, d, z) ==
  /\ Len(z) = Len(a) + Len(b) + Len(c) + Len(d)
  /\ \A i \in 1 .. Len(a) : z[i] = a[i]
  /\ \A i \in 1 .. Len(b) : z[Len(a) + i] = b[i]
  /\ \A i \in 1 .. Len(c) : z[Len(a) + Len(b) + i] = c[i]
  /\ \A i \in 1 .. Len(d) : z[Len(a) + Len(b) + Len(c) + i] = d[i]
LEMMA Joined ==
  ASSUME NEW T, NEW a \in Seq(T), NEW b \in Seq(T), NEW c \in Seq(T), NEW d \in Seq(T)
  PROVE  JoinedTo(a, b, c, d, a \o b \o c \o d)
<1>. DEFINE x == a \o b
            y == x \o c
            z == y \o d
<1>1. /\ x \in Seq(T) /\ Len(a) \in Nat /\ Len(b) \in Nat /\ Len(x) = Len(a) + Len(b)
      /\ \A i \in 1 .. Len(a) : x[i] = a[i]
      /\ \A i \in 1 .. Len(b) : x[Len(a) + i] = b[i]
  BY TwoJoined
<1>2. z = a \o b \o c \o d
  OBVIOUS
<1>3. z = y \o d
  OBVIOUS
<1>11. y = x \o c
  OBVIOUS
<1>. HIDE DEF x, y, z
<1>4. /\ y \in Seq(T) /\ Len(c) \in Nat /\ Len(y) = Len(x) + Len(c)
      /\ \A i \in 1 .. Len(x) : y[i] = x[i]
      /\ \A i \in 1 .. Len(c) : y[Len(x) + i] = c[i]
  <2>1. /\ x \o c \in Seq(T) /\ Len(c) \in Nat /\ Len(x \o c) = Len(x) + Len(c)
        /\ \A i \in 1 .. Len(x) : (x \o c)[i] = x[i]
        /\ \A i \in 1 .. Len(c) : (x \o c)[Len(x) + i] = c[i]
    <3>1. x \in Seq(T)
      BY <1>1
    <3>. QED  BY <3>1, TwoJoined
  <2>. QED  BY <1>11, <2>1
<1>5. /\ Len(d) \in Nat /\ Len(z) = Len(y) + Len(d)
      /\ \A i \in 1 .. Len(y) : z[i] = y[i]
      /\ \A i \in 1 .. Len(d) : z[Len(y) + i] = d[i]
  <2>1. /\ Len(d) \in Nat /\ Len(y \o d) = Len(y) + Len(d)
        /\ \A i \in 1 .. Len(y) : (y \o d)[i] = y[i]
        /\ \A i \in 1 .. Len(d) : (y \o d)[Len(y) + i] = d[i]
    <3>1. y \in Seq(T)
      BY <1>4
    <3>. QED  BY <3>1, TwoJoined
  <2>. QED  BY <1>3, <2>1
<1>6. Len(z) = Len(a) + Len(b) + Len(c) + Len(d)
  BY <1>1, <1>4, <1>5
<1>7. ASSUME NEW i \in 1 .. Len(a) PROVE z[i] = a[i]
  <2>1. i \in 1 .. Len(x) /\ i \in 1 .. Len(y)
    BY <1>1, <1>4
  <2>. QED  BY <1>1, <1>4, <1>5, <2>1
<1>8. ASSUME NEW i \in 1 .. Len(b) PROVE z[Len(a) + i] = b[i]
  <2>. PICK j \in Nat : j = Len(a) + i
    BY <1>1
  <2>1. j \in 1 .. Len(x) /\ j \in 1 .. Len(y)
    BY <1>1, <1>4
  <2>2. z[j] = x[j] /\ x[j] = b[i]
    BY <1>1, <1>4, <1>5, <2>1
  <2>. QED  BY <2>2
<1>9. ASSUME NEW i \in 1 .. Len(c) PROVE z[Len(a) + Len(b) + i] = c[i]
  <2>. PICK j \in Nat : j = Len(x) + i
    BY <1>1
  <2>1. j \in 1 .. Len(y)
    BY <1>1, <1>4
  <2>2. z[j] = y[j] /\ y[j] = c[i]
    BY <1>4, <1>5, <2>1
  <2>. QED  BY <1>1, <2>2
<1>10. ASSUME NEW i \in 1 .. Len(d) PROVE z[Len(a) + Len(b) + Len(c) + i] = d[i]
  <2>1. z[Len(y) + i] = d[i] /\ Len(y) = Len(a) + Len(b) + Len(c)
    BY <1>1, <1>4, <1>5
  <2>. QED  BY <2>1
<1>. QED  BY <1>2, <1>6, <1>7, <1>8, <1>9, <1>10 DEF JoinedTo

\* The transactions, by what they carry.
Carries(do, signers) == [do |-> do, signers |-> signers]
PlanParts ==
  /\ AccountTxs \in Nat /\ CardTxs \in Nat /\ Len(Plan) = AccountTxs + CardTxs + 3
  /\ Plan[1] = Carries({<<"init", PackKey>>}, {PackKey})
  /\ \A k \in 1 .. AccountTxs :
       Plan[k + 1] = Carries({<<"account", i>> : i \in Piece(k, AccountChunk)}, Piece(k, AccountChunk))
  /\ \A k \in 1 .. CardTxs :
       Plan[AccountTxs + k + 1] = Carries({<<"card", i>> : i \in Piece(k, CardChunk)}, {})
  /\ Plan[AccountTxs + CardTxs + 2] = Carries({<<"voucher", PackKey>>}, {})
  /\ Plan[AccountTxs + CardTxs + 3] = Carries({<<"activate", PackKey>>}, {})

\* The list of instructions.
Instructions == {"init", "account", "card", "voucher", "activate"} \X Int
LEMMA InstructionSetsAre ==
  /\ AccountTxs \in Nat /\ CardTxs \in Nat /\ Len(InstructionSets) = AccountTxs + CardTxs + 3
  /\ InstructionSets[1] = << <<"init", PackKey>> >>
  /\ \A k \in 1 .. AccountTxs :
       ToSet(InstructionSets[k + 1]) = {<<"account", i>> : i \in Piece(k, AccountChunk)}
  /\ \A k \in 1 .. CardTxs :
       ToSet(InstructionSets[AccountTxs + k + 1]) = {<<"card", i>> : i \in Piece(k, CardChunk)}
  /\ InstructionSets[AccountTxs + CardTxs + 2] = << <<"voucher", PackKey>> >>
  /\ InstructionSets[AccountTxs + CardTxs + 3] = << <<"activate", PackKey>> >>
<1>. DEFINE T == Seq(Instructions)
            a == << << <<"init", PackKey>> >> >>
            b == Chunk(Each("account"), AccountChunk)
            c == Chunk(Each("card"), CardChunk)
            d == << << <<"voucher", PackKey>> >>, << <<"activate", PackKey>> >> >>
            A == AccountTxs
            C == CardTxs
            s == InstructionSets
<1>1. AccountChunk \in Nat \ {0} /\ CardChunk \in Nat \ {0} /\ NumItems \in Nat
  BY Constants
<1>2. \A i \in Items : i \in Int /\ <<"account", i>> \in Instructions /\ <<"card", i>> \in Instructions
  BY <1>1 DEF Instructions, Items
<1>3. Each("account") \in [Items -> Instructions] /\ Each("card") \in [Items -> Instructions]
  BY <1>2 DEF Each
<1>4. A = Pieces(NumItems, AccountChunk) /\ C = Pieces(NumItems, CardChunk)
  BY DEF AccountTxs, CardTxs, Pieces
<1>5. A \in Nat /\ C \in Nat
  BY <1>1, <1>4, PiecesAre
<1>6. /\ b \in Seq(T) /\ Len(b) = A
      /\ \A k \in 1 .. A : ToSet(b[k]) = {<<"account", i>> : i \in Piece(k, AccountChunk)}
  <2>. DEFINE list == Each("account")
  <2>1. \A i \in Items : list[i] = <<"account", i>>
    BY DEF Each
  <2>. HIDE DEF list
  <2>4. list \in [Items -> Instructions]
    BY <1>3 DEF list
  <2>5. CutInto(list, AccountChunk, Instructions, Chunk(list, AccountChunk))
    BY <1>1, <2>4, ChunkIs
  <2>2. /\ Chunk(list, AccountChunk) \in Seq(T) /\ Len(Chunk(list, AccountChunk)) = Pieces(NumItems, AccountChunk)
        /\ \A k \in 1 .. Pieces(NumItems, AccountChunk) :
             ToSet(Chunk(list, AccountChunk)[k]) = {list[i] : i \in Piece(k, AccountChunk)}
    BY <2>5 DEF CutInto
  <2>3. \A k : {list[i] : i \in Piece(k, AccountChunk)} = {<<"account", i>> : i \in Piece(k, AccountChunk)}
    BY <2>1 DEF Piece
  <2>. QED  BY <1>4, <2>2, <2>3 DEF list
<1>7. /\ c \in Seq(T) /\ Len(c) = C
      /\ \A k \in 1 .. C : ToSet(c[k]) = {<<"card", i>> : i \in Piece(k, CardChunk)}
  <2>. DEFINE list == Each("card")
  <2>1. \A i \in Items : list[i] = <<"card", i>>
    BY DEF Each
  <2>. HIDE DEF list
  <2>4. list \in [Items -> Instructions]
    BY <1>3 DEF list
  <2>5. CutInto(list, CardChunk, Instructions, Chunk(list, CardChunk))
    BY <1>1, <2>4, ChunkIs
  <2>2. /\ Chunk(list, CardChunk) \in Seq(T) /\ Len(Chunk(list, CardChunk)) = Pieces(NumItems, CardChunk)
        /\ \A k \in 1 .. Pieces(NumItems, CardChunk) :
             ToSet(Chunk(list, CardChunk)[k]) = {list[i] : i \in Piece(k, CardChunk)}
    BY <2>5 DEF CutInto
  <2>3. \A k : {list[i] : i \in Piece(k, CardChunk)} = {<<"card", i>> : i \in Piece(k, CardChunk)}
    BY <2>1 DEF Piece
  <2>. QED  BY <1>4, <2>2, <2>3 DEF list
<1>8. /\ a \in Seq(T) /\ d \in Seq(T) /\ Len(a) = 1 /\ Len(d) = 2
      /\ a[1] = << <<"init", PackKey>> >> /\ d[1] = << <<"voucher", PackKey>> >>
      /\ d[2] = << <<"activate", PackKey>> >>
  <2>1. <<"init", PackKey>> \in Instructions /\ <<"voucher", PackKey>> \in Instructions
        /\ <<"activate", PackKey>> \in Instructions
    BY DEF Instructions, PackKey
  <2>. DEFINE x == <<"init", PackKey>>
              y == <<"voucher", PackKey>>
              z == <<"activate", PackKey>>
  <2>. HIDE DEF x, y, z
  <2>2. << x >> \in T /\ << y >> \in T /\ << z >> \in T
    BY <2>1 DEF x, y, z
  <2>. DEFINE X == << x >>
              Y == << y >>
              Z == << z >>
  <2>. HIDE DEF T, X, Y, Z
  <2>3. << X >> \in Seq(T) /\ << Y, Z >> \in Seq(T) /\ Len(<< X >>) = 1 /\ Len(<< Y, Z >>) = 2
        /\ << X >>[1] = X /\ << Y, Z >>[1] = Y /\ << Y, Z >>[2] = Z
    BY <2>2 DEF X, Y, Z
  <2>. QED  BY <2>3 DEF X, Y, Z, x, y, z
<1>9. s = a \o b \o c \o d
  BY DEF InstructionSets
<1>. HIDE DEF a, b, c, d, A, C, s, T
<1>10. /\ Len(s) = Len(a) + Len(b) + Len(c) + Len(d)
       /\ \A i \in 1 .. Len(a) : s[i] = a[i]
       /\ \A i \in 1 .. Len(b) : s[Len(a) + i] = b[i]
       /\ \A i \in 1 .. Len(c) : s[Len(a) + Len(b) + i] = c[i]
       /\ \A i \in 1 .. Len(d) : s[Len(a) + Len(b) + Len(c) + i] = d[i]
  <2>1. a \in Seq(T) /\ b \in Seq(T) /\ c \in Seq(T) /\ d \in Seq(T)
    BY <1>6, <1>7, <1>8
  <2>2. JoinedTo(a, b, c, d, a \o b \o c \o d)
    BY <2>1, Joined
  <2>. QED  BY <1>9, <2>2 DEF JoinedTo
<1>11. Len(s) = A + C + 3 /\ s[1] = a[1]
  BY <1>5, <1>6, <1>7, <1>8, <1>10
<1>12. ASSUME NEW k \in 1 .. A PROVE s[k + 1] = b[k]
  <2>1. s[1 + k] = b[k] /\ 1 + k = k + 1
    BY <1>5, <1>6, <1>8, <1>10
  <2>. QED  BY <2>1
<1>13. ASSUME NEW k \in 1 .. C PROVE s[A + k + 1] = c[k]
  <2>1. s[1 + A + k] = c[k] /\ 1 + A + k = A + k + 1
    BY <1>5, <1>6, <1>7, <1>8, <1>10
  <2>. QED  BY <2>1
<1>14. s[A + C + 2] = d[1] /\ s[A + C + 3] = d[2]
  <2>1. s[1 + A + C + 1] = d[1] /\ s[1 + A + C + 2] = d[2]
    BY <1>5, <1>6, <1>7, <1>8, <1>10
  <2>2. 1 + A + C + 1 = A + C + 2 /\ 1 + A + C + 2 = A + C + 3
    BY <1>5
  <2>. QED  BY <2>1, <2>2
<1>. QED  BY <1>5, <1>6, <1>7, <1>8, <1>11, <1>12, <1>13, <1>14 DEF A, C, s

\* The list of signers.
LEMMA SignerSetsAre ==
  /\ SignerSets[1] = << PackKey >>
  /\ \A k \in 1 .. AccountTxs : ToSet(SignerSets[k + 1]) = Piece(k, AccountChunk)
  /\ \A k \in 1 .. CardTxs : SignerSets[AccountTxs + k + 1] = <<>>
  /\ SignerSets[AccountTxs + CardTxs + 2] = <<>>
  /\ SignerSets[AccountTxs + CardTxs + 3] = <<>>
<1>. DEFINE T == Seq(Int)
            a == << <<PackKey>> >>
            b == Chunk(ItemList, AccountChunk)
            c == [k \in 1 .. Len(Chunk(Each("card"), CardChunk)) |-> <<>>]
            d == << <<>>, <<>> >>
            A == AccountTxs
            C == CardTxs
            s == SignerSets
<1>1. AccountChunk \in Nat \ {0} /\ CardChunk \in Nat \ {0} /\ NumItems \in Nat
  BY Constants
<1>2. A = Pieces(NumItems, AccountChunk) /\ C = Pieces(NumItems, CardChunk)
  BY DEF AccountTxs, CardTxs, Pieces
<1>3. A \in Nat /\ C \in Nat
  BY InstructionSetsAre
<1>4. /\ b \in Seq(T) /\ Len(b) = A
      /\ \A k \in 1 .. A : ToSet(b[k]) = Piece(k, AccountChunk)
  <2>. DEFINE list == ItemList
  <2>1. \A i \in Items : list[i] = i
    BY DEF ItemList
  <2>2. list \in [Items -> Int]
    BY <1>1 DEF ItemList, Items
  <2>. HIDE DEF list
  <2>3. CutInto(list, AccountChunk, Int, Chunk(list, AccountChunk))
    BY <1>1, <2>2, ChunkIs
  <2>4. /\ Chunk(list, AccountChunk) \in Seq(T) /\ Len(Chunk(list, AccountChunk)) = A
        /\ \A k \in 1 .. A : ToSet(Chunk(list, AccountChunk)[k]) = {list[i] : i \in Piece(k, AccountChunk)}
    BY <1>2, <2>3 DEF CutInto
  <2>5. \A k : {list[i] : i \in Piece(k, AccountChunk)} = Piece(k, AccountChunk)
    BY <2>1 DEF Piece
  <2>. QED  BY <2>4, <2>5 DEF list
<1>5. /\ c \in Seq(T) /\ Len(c) = C
      /\ \A k \in 1 .. C : c[k] = <<>>
  <2>. DEFINE list == Each("card")
              g == [k \in 1 .. C |-> <<>>]
  <2>1. list \in [Items -> {"card"} \X Int]
    BY <1>1 DEF Each, Items
  <2>. HIDE DEF list
  <2>2. CutInto(list, CardChunk, {"card"} \X Int, Chunk(list, CardChunk))
    BY <1>1, <2>1, ChunkIs
  <2>3. Len(Chunk(list, CardChunk)) = C
    BY <1>2, <2>2 DEF CutInto
  <2>4. c = g
    BY <2>3 DEF list
  <2>5. g \in [1 .. C -> T] /\ \A k \in 1 .. C : g[k] = <<>>
    OBVIOUS
  <2>. HIDE DEF g, T
  <2>6. g \in Seq(T) /\ Len(g) = C
    BY <1>3, <2>5
  <2>. HIDE DEF c
  <2>. QED  BY <2>4, <2>5, <2>6
<1>6. /\ a \in Seq(T) /\ d \in Seq(T) /\ Len(a) = 1 /\ Len(d) = 2
      /\ a[1] = <<PackKey>> /\ d[1] = <<>> /\ d[2] = <<>>
  <2>. DEFINE X == <<PackKey>>
              Y == <<>>
  <2>1. X \in T /\ Y \in T
    BY DEF PackKey
  <2>. HIDE DEF X, Y, T
  <2>2. << X >> \in Seq(T) /\ << Y, Y >> \in Seq(T) /\ Len(<< X >>) = 1 /\ Len(<< Y, Y >>) = 2
        /\ << X >>[1] = X /\ << Y, Y >>[1] = Y /\ << Y, Y >>[2] = Y
    BY <2>1
  <2>. QED  BY <2>2 DEF X, Y
<1>7. s = a \o b \o c \o d
  BY DEF SignerSets
<1>. HIDE DEF a, b, c, d, A, C, s, T
<1>8. JoinedTo(a, b, c, d, s)
  <2>1. a \in Seq(T) /\ b \in Seq(T) /\ c \in Seq(T) /\ d \in Seq(T)
    BY <1>4, <1>5, <1>6
  <2>2. JoinedTo(a, b, c, d, a \o b \o c \o d)
    BY <2>1, Joined
  <2>. QED  BY <1>7, <2>2
<1>9. s[1] = a[1]
  BY <1>6, <1>8 DEF JoinedTo
<1>10. ASSUME NEW k \in 1 .. A PROVE s[k + 1] = b[k]
  <2>1. s[1 + k] = b[k] /\ 1 + k = k + 1
    BY <1>3, <1>4, <1>6, <1>8 DEF JoinedTo
  <2>. QED  BY <2>1
<1>11. ASSUME NEW k \in 1 .. C PROVE s[A + k + 1] = c[k]
  <2>1. s[1 + A + k] = c[k] /\ 1 + A + k = A + k + 1
    BY <1>3, <1>4, <1>5, <1>6, <1>8 DEF JoinedTo
  <2>. QED  BY <2>1
<1>12. s[A + C + 2] = d[1] /\ s[A + C + 3] = d[2]
  <2>1. s[1 + A + C + 1] = d[1] /\ s[1 + A + C + 2] = d[2]
    BY <1>3, <1>4, <1>5, <1>6, <1>8 DEF JoinedTo
  <2>2. 1 + A + C + 1 = A + C + 2 /\ 1 + A + C + 2 = A + C + 3
    BY <1>3
  <2>. QED  BY <2>1, <2>2
<1>. QED  BY <1>4, <1>5, <1>6, <1>9, <1>10, <1>11, <1>12 DEF A, C, s

\* The lists stay in step.
LEMMA PlanIs == PlanParts
<1>. DEFINE A == AccountTxs
            C == CardTxs
            s == InstructionSets
            g == SignerSets
            Tx(k) == Carries(ToSet(s[k]), ToSet(g[k]))
<1>1. A \in Nat /\ C \in Nat /\ Len(s) = A + C + 3
  BY InstructionSetsAre
<1>2. Plan = [k \in 1 .. Len(s) |-> Tx(k)]
  BY DEF Plan, Carries
<1>3. ASSUME NEW x PROVE ToSet(<< x >>) = {x}
  BY DEF ToSet
<1>4. ToSet(<<>>) = {}
  BY DEF ToSet
<1>5. Len(Plan) = A + C + 3 /\ \A k \in 1 .. (A + C + 3) : Plan[k] = Tx(k)
  <2>. DEFINE n == A + C + 3
              f == [k \in 1 .. n |-> Tx(k)]
  <2>1. n \in Nat /\ Plan = f
    BY <1>1, <1>2
  <2>2. f \in [1 .. n -> {Tx(k) : k \in 1 .. n}]
    OBVIOUS
  <2>. HIDE DEF n, f, Tx
  <2>3. Len(f) = n
    BY <2>1, <2>2
  <2>4. \A k \in 1 .. n : f[k] = Tx(k)
    BY DEF f
  <2>. QED  BY <2>1, <2>3, <2>4 DEF n
<1>6. Plan[1] = Carries({<<"init", PackKey>>}, {PackKey})
  <2>1. s[1] = << <<"init", PackKey>> >> /\ g[1] = << PackKey >>
    BY InstructionSetsAre, SignerSetsAre
  <2>2. ToSet(s[1]) = {<<"init", PackKey>>} /\ ToSet(g[1]) = {PackKey}
    BY <1>3, <2>1
  <2>3. Plan[1] = Tx(1)
    BY <1>1, <1>5
  <2>. QED  BY <2>2, <2>3
<1>7. ASSUME NEW k \in 1 .. A
      PROVE  Plan[k + 1] = Carries({<<"account", i>> : i \in Piece(k, AccountChunk)}, Piece(k, AccountChunk))
  <2>1. ToSet(s[k + 1]) = {<<"account", i>> : i \in Piece(k, AccountChunk)}
        /\ ToSet(g[k + 1]) = Piece(k, AccountChunk)
    BY InstructionSetsAre, SignerSetsAre
  <2>2. Plan[k + 1] = Tx(k + 1)
    <3>. PICK j \in 1 .. (A + C + 3) : j = k + 1
      BY <1>1
    <3>. QED  BY <1>5
  <2>. QED  BY <2>1, <2>2
<1>8. ASSUME NEW k \in 1 .. C
      PROVE  Plan[A + k + 1] = Carries({<<"card", i>> : i \in Piece(k, CardChunk)}, {})
  <2>1. ToSet(s[A + k + 1]) = {<<"card", i>> : i \in Piece(k, CardChunk)} /\ g[A + k + 1] = <<>>
    BY InstructionSetsAre, SignerSetsAre
  <2>2. Plan[A + k + 1] = Tx(A + k + 1)
    <3>. PICK j \in 1 .. (A + C + 3) : j = A + k + 1
      BY <1>1
    <3>. QED  BY <1>5
  <2>. QED  BY <1>4, <2>1, <2>2
<1>9. Plan[A + C + 2] = Carries({<<"voucher", PackKey>>}, {})
  <2>1. s[A + C + 2] = << <<"voucher", PackKey>> >> /\ g[A + C + 2] = <<>>
    BY InstructionSetsAre, SignerSetsAre
  <2>2. Plan[A + C + 2] = Tx(A + C + 2)
    BY <1>1, <1>5
  <2>. QED  BY <1>3, <1>4, <2>1, <2>2
<1>10. Plan[A + C + 3] = Carries({<<"activate", PackKey>>}, {})
  <2>1. s[A + C + 3] = << <<"activate", PackKey>> >> /\ g[A + C + 3] = <<>>
    BY InstructionSetsAre, SignerSetsAre
  <2>2. Plan[A + C + 3] = Tx(A + C + 3)
    BY <1>1, <1>5
  <2>. QED  BY <1>3, <1>4, <2>1, <2>2
<1>. QED  BY <1>1, <1>5, <1>6, <1>7, <1>8, <1>9, <1>10 DEF PlanParts

\* The items of one more piece.
LEMMA OneMorePiece ==
  ASSUME NEW k \in Int, NEW size \in Nat \ {0}
  PROVE  /\ k <= 0 => UpToChunk(k, size) = {}
         /\ UpToChunk(k, size) \cup Piece(k + 1, size) = UpToChunk(k + 1, size)
         /\ UpToChunk(k, size) \cap Piece(k + 1, size) = {}
         /\ k >= Pieces(NumItems, size) => UpToChunk(k, size) = Items
<1>. DEFINE a == k * size
            b == (k + 1) * size
            n == NumItems
<1>1. a \in Int /\ b \in Int /\ b = a + size /\ n \in Nat
  BY Multiples, Constants
<1>2. UpToChunk(k, size) = {i \in 1 .. n : i <= a} /\ UpToChunk(k + 1, size) = {i \in 1 .. n : i <= b}
  BY DEF UpToChunk, Items
<1>3. Piece(k + 1, size) = {i \in 1 .. n : a < i /\ i <= b}
  <2>1. k + 1 - 1 = k
    OBVIOUS
  <2>. QED  BY <2>1 DEF Piece, Items
<1>4. ASSUME k <= 0 PROVE a <= 0
  <2>1. CASE k = 0
    <3>1. 0 * size = 0
      BY Multiples
    <3>. QED  BY <2>1, <3>1
  <2>2. CASE k < 0
    <3>1. k * size + size <= 0 * size /\ 0 * size = 0
      BY <2>2, Multiples
    <3>. QED  BY <1>1, <3>1
  <2>. QED  BY <1>4, <2>1, <2>2
<1>5. ASSUME k >= Pieces(n, size) PROVE n <= a
  <2>. DEFINE p == Pieces(n, size)
  <2>1. p \in Nat /\ n <= p * size /\ p * size \in Int
    BY <1>1, PiecesAre, Multiples
  <2>. HIDE DEF p
  <2>2. CASE k = p
    BY <2>1, <2>2
  <2>3. CASE p < k
    <3>1. p * size + size <= k * size
      BY <2>1, <2>3, Multiples
    <3>. QED  BY <1>1, <2>1, <3>1
  <2>. QED  BY <1>5, <2>1, <2>2, <2>3 DEF p
<1>6. Items = 1 .. n
  BY DEF Items
<1>. HIDE DEF a, b, n
<1>7. ASSUME k <= 0 PROVE UpToChunk(k, size) = {}
  BY <1>1, <1>2, <1>4, <1>7
<1>8. UpToChunk(k, size) \cup Piece(k + 1, size) = UpToChunk(k + 1, size)
  BY <1>1, <1>2, <1>3
<1>9. UpToChunk(k, size) \cap Piece(k + 1, size) = {}
  BY <1>1, <1>2, <1>3
<1>10. ASSUME k >= Pieces(n, size) PROVE UpToChunk(k, size) = Items
  BY <1>1, <1>2, <1>5, <1>6, <1>10
<1>. QED  BY <1>7, <1>8, <1>9, <1>10 DEF n

\* What is in the transactions that carry several.
OnlyOf(tx, kind, S) == Of(tx, kind) = S /\ \A other : other # kind => Of(tx, other) = {}
LEMMA OfMany ==
  ASSUME NEW kind, NEW S, NEW signers
  PROVE  OnlyOf(Carries({<<kind, i>> : i \in S}, signers), kind, S)
<1>. DEFINE D == {<<kind, i>> : i \in S}
<1>1. \A k : Of(Carries(D, signers), k) = {ins[2] : ins \in {i \in D : i[1] = k}}
  BY DEF Of, Carries
<1>2. {i \in D : i[1] = kind} = D
  OBVIOUS
<1>3. \A other : other # kind => {i \in D : i[1] = other} = {}
  OBVIOUS
<1>4. {ins[2] : ins \in D} = S
  <2>1. \A i \in S : <<kind, i>> \in D /\ <<kind, i>>[2] = i
    OBVIOUS
  <2>2. \A ins \in D : ins[2] \in S
    OBVIOUS
  <2>. HIDE DEF D
  <2>. QED  BY <2>1, <2>2
<1>5. {ins[2] : ins \in {}} = {}
  OBVIOUS
<1>. HIDE DEF D
<1>6. Of(Carries(D, signers), kind) = S
  BY <1>1, <1>2, <1>4
<1>7. ASSUME NEW other, other # kind PROVE Of(Carries(D, signers), other) = {}
  BY <1>1, <1>3, <1>5, <1>7
<1>. QED  BY <1>6, <1>7 DEF D, OnlyOf

LEMMA OfOne ==
  ASSUME NEW kind, NEW signers
  PROVE  OnlyOf(Carries({<<kind, PackKey>>}, signers), kind, {PackKey})
<1>. DEFINE S == {PackKey}
<1>1. {<<kind, PackKey>>} = {<<kind, i>> : i \in S}
  OBVIOUS
<1>. HIDE DEF S
<1>2. OnlyOf(Carries({<<kind, i>> : i \in S}, signers), kind, S)
  BY OfMany
<1>. QED  BY <1>1, <1>2 DEF S

\* A seller to whom nothing happened finds each transaction accepted, and the
\* pack grows by what it carries.
LEMMA BuiltNext ==
  ASSUME NEW n \in Nat, n < Len(Plan), pack = Built(n)
  PROVE  /\ Accepted(Plan[n + 1]) /\ ~MayRefuse(Plan[n + 1])
         /\ After(Plan[n + 1]) = Built(n + 1)
<1>. DEFINE A == AccountTxs
            C == CardTxs
<1>1. PlanParts
  BY PlanIs
<1>2. A \in Nat /\ C \in Nat /\ n <= A + C + 2
  BY <1>1 DEF PlanParts
<1>3. AccountChunk \in Nat \ {0} /\ CardChunk \in Nat \ {0}
  BY Constants
<1>4. A = Pieces(NumItems, AccountChunk) /\ C = Pieces(NumItems, CardChunk)
  BY DEF AccountTxs, CardTxs, Pieces
<1>5. /\ (pack.made <=> n >= 1)
      /\ pack.accounts = UpToChunk(n - 1, AccountChunk)
      /\ pack.cards = UpToChunk(n - 1 - A, CardChunk)
      /\ (pack.voucher <=> n >= A + C + 2)
      /\ (pack.active <=> n >= A + C + 3)
  <2>1. /\ pack.made = (n >= 1) /\ pack.accounts = UpToChunk(n - 1, AccountChunk)
        /\ pack.cards = UpToChunk(n - 1 - A, CardChunk)
        /\ pack.voucher = (n >= A + C + 2) /\ pack.active = (n >= A + C + 3)
    BY DEF Built
  <2>. HIDE DEF A, C
  <2>. QED  BY <2>1
<1>6. Built(n + 1) = [made     |-> n + 1 >= 1,
                      accounts |-> UpToChunk(n, AccountChunk),
                      cards    |-> UpToChunk(n - A, CardChunk),
                      voucher  |-> n + 1 >= A + C + 2,
                      active   |-> n + 1 >= A + C + 3]
  <2>1. n + 1 - 1 = n /\ n + 1 - 1 - A = n - A
    BY <1>2
  <2>. QED  BY <2>1 DEF Built
<1>7. /\ n <= 1 => UpToChunk(n - 1, AccountChunk) = {}
      /\ UpToChunk(n - 1, AccountChunk) \cup Piece(n, AccountChunk) = UpToChunk(n, AccountChunk)
      /\ UpToChunk(n - 1, AccountChunk) \cap Piece(n, AccountChunk) = {}
      /\ n >= A + 1 => UpToChunk(n - 1, AccountChunk) = Items
      /\ n >= A => UpToChunk(n, AccountChunk) = Items
      /\ n <= 0 => UpToChunk(n, AccountChunk) = {}
  <2>. PICK m \in Int : m = n - 1
    OBVIOUS
  <2>1. m + 1 = n
    OBVIOUS
  <2>2. /\ m <= 0 => UpToChunk(m, AccountChunk) = {}
        /\ UpToChunk(m, AccountChunk) \cup Piece(m + 1, AccountChunk) = UpToChunk(m + 1, AccountChunk)
        /\ UpToChunk(m, AccountChunk) \cap Piece(m + 1, AccountChunk) = {}
        /\ m >= A => UpToChunk(m, AccountChunk) = Items
    BY <1>3, <1>4, OneMorePiece
  <2>3. /\ n >= A => UpToChunk(n, AccountChunk) = Items
        /\ n <= 0 => UpToChunk(n, AccountChunk) = {}
    BY <1>3, <1>4, OneMorePiece
  <2>. HIDE DEF A, C
  <2>. QED  BY <1>2, <2>1, <2>2, <2>3
<1>8. /\ n <= A + 1 => UpToChunk(n - 1 - A, CardChunk) = {}
      /\ UpToChunk(n - 1 - A, CardChunk) \cup Piece(n - A, CardChunk) = UpToChunk(n - A, CardChunk)
      /\ UpToChunk(n - 1 - A, CardChunk) \cap Piece(n - A, CardChunk) = {}
      /\ n >= A + C + 1 => UpToChunk(n - 1 - A, CardChunk) = Items
      /\ n >= A + C => UpToChunk(n - A, CardChunk) = Items
      /\ n <= A => UpToChunk(n - A, CardChunk) = {}
  <2>. PICK m \in Int : m = n - 1 - A
    BY <1>2
  <2>. PICK l \in Int : l = n - A
    BY <1>2
  <2>1. m + 1 = l
    BY <1>2
  <2>2. /\ m <= 0 => UpToChunk(m, CardChunk) = {}
        /\ UpToChunk(m, CardChunk) \cup Piece(m + 1, CardChunk) = UpToChunk(m + 1, CardChunk)
        /\ UpToChunk(m, CardChunk) \cap Piece(m + 1, CardChunk) = {}
        /\ m >= C => UpToChunk(m, CardChunk) = Items
    BY <1>3, <1>4, OneMorePiece
  <2>3. /\ l >= C => UpToChunk(l, CardChunk) = Items
        /\ l <= 0 => UpToChunk(l, CardChunk) = {}
    BY <1>3, <1>4, OneMorePiece
  <2>. HIDE DEF A, C
  <2>. QED  BY <1>2, <2>1, <2>2, <2>3
<1>9. pack.made \in BOOLEAN /\ pack.voucher \in BOOLEAN /\ pack.active \in BOOLEAN
  BY DEF Built
<1>10. ASSUME NEW tx,
              pack.made \/ Of(tx, "init") # {} <=> n + 1 >= 1,
              pack.accounts \cup Of(tx, "account") = UpToChunk(n, AccountChunk),
              pack.cards \cup Of(tx, "card") = UpToChunk(n - A, CardChunk),
              pack.voucher \/ Of(tx, "voucher") # {} <=> n + 1 >= A + C + 2,
              pack.active \/ Of(tx, "activate") # {} <=> n + 1 >= A + C + 3
       PROVE  After(tx) = Built(n + 1)
  <2>. DEFINE a1 == pack.made \/ Of(tx, "init") # {}
              b1 == n + 1 >= 1
              a4 == pack.voucher \/ Of(tx, "voucher") # {}
              b4 == n + 1 >= A + C + 2
              a5 == pack.active \/ Of(tx, "activate") # {}
              b5 == n + 1 >= A + C + 3
  <2>1. a1 = b1 /\ a4 = b4 /\ a5 = b5
    BY <1>9, <1>10
  <2>. HIDE DEF a1, a4, a5, b1, b4, b5
  <2>2. After(tx) = [made |-> a1, accounts |-> pack.accounts \cup Of(tx, "account"),
                     cards |-> pack.cards \cup Of(tx, "card"), voucher |-> a4, active |-> a5]
    BY DEF After, a1, a4, a5
  <2>3. Built(n + 1) = [made |-> b1, accounts |-> UpToChunk(n, AccountChunk),
                        cards |-> UpToChunk(n - A, CardChunk), voucher |-> b4, active |-> b5]
    BY <1>6 DEF b1, b4, b5
  <2>. QED  BY <1>10, <2>1, <2>2, <2>3
<1>11. CASE n = 0
  <2>. DEFINE tx == Plan[n + 1]
  <2>1. tx = Carries({<<"init", PackKey>>}, {PackKey})
    BY <1>1, <1>11 DEF PlanParts
  <2>m. OnlyOf(tx, "init", {PackKey})
    BY <2>1, OfOne
  <2>2. Of(tx, "init") # {} /\ Of(tx, "account") = {} /\ Of(tx, "card") = {} /\ Of(tx, "voucher") = {}
        /\ Of(tx, "activate") = {}
    BY <2>m DEF OnlyOf
  <2>. HIDE DEF tx, A, C
  <2>3. After(tx) = Built(n + 1)
    <3>1. pack.made \/ Of(tx, "init") # {} <=> n + 1 >= 1
      BY <1>11, <2>2
    <3>2. pack.accounts \cup Of(tx, "account") = UpToChunk(n, AccountChunk)
      BY <1>2, <1>5, <1>7, <1>11, <2>2
    <3>3. pack.cards \cup Of(tx, "card") = UpToChunk(n - A, CardChunk)
      BY <1>2, <1>5, <1>8, <1>11, <2>2
    <3>4. pack.voucher \/ Of(tx, "voucher") # {} <=> n + 1 >= A + C + 2
      BY <1>2, <1>5, <1>11, <2>2
    <3>5. pack.active \/ Of(tx, "activate") # {} <=> n + 1 >= A + C + 3
      BY <1>2, <1>5, <1>11, <2>2
    <3>. QED  BY <1>10, <3>1, <3>2, <3>3, <3>4, <3>5
  <2>4. MustSign(tx) \subseteq tx.signers
    BY <2>1 DEF MustSign, Carries
  <2>5. \A ins \in tx.do : Executable(ins)
    <3>1. ~pack.made
      BY <1>5, <1>11
    <3>. QED  BY <2>1, <3>1 DEF Executable, Carries
  <2>6. ~MayRefuse(tx)
    BY <2>1 DEF MayRefuse, Carries
  <2>. QED  BY <2>3, <2>4, <2>5, <2>6 DEF Accepted, tx
<1>12. CASE n \in 1 .. A
  <2>. DEFINE tx == Plan[n + 1]
              S == Piece(n, AccountChunk)
  <2>1. tx = Carries({<<"account", i>> : i \in S}, S)
    BY <1>1, <1>12 DEF PlanParts
  <2>m. OnlyOf(tx, "account", S)
    BY <2>1, OfMany
  <2>2. Of(tx, "account") = S /\ Of(tx, "init") = {} /\ Of(tx, "card") = {} /\ Of(tx, "voucher") = {}
        /\ Of(tx, "activate") = {}
    BY <2>m DEF OnlyOf
  <2>3. pack.accounts \cup S = UpToChunk(n, AccountChunk) /\ pack.accounts \cap S = {}
    BY <1>5, <1>7
  <2>. HIDE DEF tx, A, C, S
  <2>4. After(tx) = Built(n + 1)
    <3>1. pack.made \/ Of(tx, "init") # {} <=> n + 1 >= 1
      BY <1>5, <1>12, <2>2
    <3>2. pack.accounts \cup Of(tx, "account") = UpToChunk(n, AccountChunk)
      BY <2>2, <2>3
    <3>3. pack.cards \cup Of(tx, "card") = UpToChunk(n - A, CardChunk)
      BY <1>2, <1>5, <1>8, <1>12, <2>2
    <3>4. pack.voucher \/ Of(tx, "voucher") # {} <=> n + 1 >= A + C + 2
      BY <1>2, <1>5, <1>12, <2>2
    <3>5. pack.active \/ Of(tx, "activate") # {} <=> n + 1 >= A + C + 3
      BY <1>2, <1>5, <1>12, <2>2
    <3>. QED  BY <1>10, <3>1, <3>2, <3>3, <3>4, <3>5
  <2>5. MustSign(tx) \subseteq tx.signers
    <3>1. tx.do = {<<"account", i>> : i \in S} /\ tx.signers = S
      BY <2>1 DEF Carries
    <3>. QED  BY <3>1 DEF MustSign
  <2>6. \A ins \in tx.do : Executable(ins)
    <3>1. tx.do = {<<"account", i>> : i \in S}
      BY <2>1 DEF Carries
    <3>. QED  BY <2>3, <3>1 DEF Executable
  <2>7. ~MayRefuse(tx)
    <3>1. tx.do = {<<"account", i>> : i \in S}
      BY <2>1 DEF Carries
    <3>. QED  BY <3>1 DEF MayRefuse
  <2>. QED  BY <2>4, <2>5, <2>6, <2>7 DEF Accepted, tx
<1>13. CASE n \in (A + 1) .. (A + C)
  <2>. DEFINE tx == Plan[n + 1]
              S == Piece(n - A, CardChunk)
  <2>1. tx = Carries({<<"card", i>> : i \in S}, {})
    <3>. PICK k \in 1 .. C : k = n - A
      BY <1>2, <1>13
    <3>1. Plan[A + k + 1] = Carries({<<"card", i>> : i \in Piece(k, CardChunk)}, {}) /\ A + k + 1 = n + 1
      BY <1>1, <1>2 DEF PlanParts
    <3>. QED  BY <3>1
  <2>m. OnlyOf(tx, "card", S)
    BY <2>1, OfMany
  <2>2. Of(tx, "card") = S /\ Of(tx, "init") = {} /\ Of(tx, "account") = {} /\ Of(tx, "voucher") = {}
        /\ Of(tx, "activate") = {}
    BY <2>m DEF OnlyOf
  <2>3. pack.cards \cup S = UpToChunk(n - A, CardChunk) /\ pack.cards \cap S = {} /\ S \subseteq Items
    BY <1>5, <1>8 DEF Piece
  <2>. HIDE DEF tx, A, C, S
  <2>4. pack.accounts = Items /\ UpToChunk(n, AccountChunk) = Items
    BY <1>2, <1>5, <1>7, <1>13
  <2>5. After(tx) = Built(n + 1)
    <3>1. pack.made \/ Of(tx, "init") # {} <=> n + 1 >= 1
      BY <1>2, <1>5, <1>13, <2>2
    <3>2. pack.accounts \cup Of(tx, "account") = UpToChunk(n, AccountChunk)
      BY <2>2, <2>4
    <3>3. pack.cards \cup Of(tx, "card") = UpToChunk(n - A, CardChunk)
      BY <2>2, <2>3
    <3>4. pack.voucher \/ Of(tx, "voucher") # {} <=> n + 1 >= A + C + 2
      BY <1>2, <1>5, <1>13, <2>2
    <3>5. pack.active \/ Of(tx, "activate") # {} <=> n + 1 >= A + C + 3
      BY <1>2, <1>5, <1>13, <2>2
    <3>. QED  BY <1>10, <3>1, <3>2, <3>3, <3>4, <3>5
  <2>6. tx.do = {<<"card", i>> : i \in S}
    BY <2>1 DEF Carries
  <2>7. MustSign(tx) \subseteq tx.signers
    BY <2>6 DEF MustSign
  <2>8. \A ins \in tx.do : Executable(ins)
    <3>1. pack.made
      BY <1>2, <1>5, <1>13
    <3>. QED  BY <2>3, <2>4, <2>6, <3>1 DEF Executable
  <2>9. ~MayRefuse(tx)
    BY <2>6 DEF MayRefuse
  <2>. QED  BY <2>5, <2>7, <2>8, <2>9 DEF Accepted, tx
<1>14. CASE n = A + C + 1
  <2>. DEFINE tx == Plan[n + 1]
  <2>1. tx = Carries({<<"voucher", PackKey>>}, {})
    <3>1. n + 1 = A + C + 2
      BY <1>2, <1>14
    <3>. QED  BY <1>1, <3>1 DEF PlanParts
  <2>m. OnlyOf(tx, "voucher", {PackKey})
    BY <2>1, OfOne
  <2>2. Of(tx, "voucher") # {} /\ Of(tx, "account") = {} /\ Of(tx, "card") = {} /\ Of(tx, "init") = {}
        /\ Of(tx, "activate") = {}
    BY <2>m DEF OnlyOf
  <2>. HIDE DEF tx, A, C
  <2>3. pack.accounts = Items /\ UpToChunk(n, AccountChunk) = Items
        /\ pack.cards = Items /\ UpToChunk(n - A, CardChunk) = Items
    BY <1>2, <1>5, <1>7, <1>8, <1>14
  <2>4. After(tx) = Built(n + 1)
    <3>1. pack.made \/ Of(tx, "init") # {} <=> n + 1 >= 1
      BY <1>2, <1>5, <1>14, <2>2
    <3>2. pack.accounts \cup Of(tx, "account") = UpToChunk(n, AccountChunk)
      BY <2>2, <2>3
    <3>3. pack.cards \cup Of(tx, "card") = UpToChunk(n - A, CardChunk)
      BY <2>2, <2>3
    <3>4. pack.voucher \/ Of(tx, "voucher") # {} <=> n + 1 >= A + C + 2
      BY <1>2, <1>5, <1>14, <2>2
    <3>5. pack.active \/ Of(tx, "activate") # {} <=> n + 1 >= A + C + 3
      BY <1>2, <1>5, <1>14, <2>2
    <3>. QED  BY <1>10, <3>1, <3>2, <3>3, <3>4, <3>5
  <2>5. MustSign(tx) \subseteq tx.signers
    BY <2>1 DEF MustSign, Carries
  <2>6. \A ins \in tx.do : Executable(ins)
    <3>1. pack.made
      BY <1>2, <1>5, <1>14
    <3>. QED  BY <2>1, <3>1 DEF Executable, Carries
  <2>7. ~MayRefuse(tx)
    BY <2>1 DEF MayRefuse, Carries
  <2>. QED  BY <2>4, <2>5, <2>6, <2>7 DEF Accepted, tx
<1>15. CASE n = A + C + 2
  <2>. DEFINE tx == Plan[n + 1]
  <2>1. tx = Carries({<<"activate", PackKey>>}, {})
    <3>1. n + 1 = A + C + 3
      BY <1>2, <1>15
    <3>. QED  BY <1>1, <3>1 DEF PlanParts
  <2>m. OnlyOf(tx, "activate", {PackKey})
    BY <2>1, OfOne
  <2>2. Of(tx, "activate") # {} /\ Of(tx, "account") = {} /\ Of(tx, "card") = {} /\ Of(tx, "init") = {}
        /\ Of(tx, "voucher") = {}
    BY <2>m DEF OnlyOf
  <2>. HIDE DEF tx, A, C
  <2>3. pack.accounts = Items /\ UpToChunk(n, AccountChunk) = Items
        /\ pack.cards = Items /\ UpToChunk(n - A, CardChunk) = Items
    BY <1>2, <1>5, <1>7, <1>8, <1>15
  <2>4. After(tx) = Built(n + 1)
    <3>1. pack.made \/ Of(tx, "init") # {} <=> n + 1 >= 1
      BY <1>2, <1>5, <1>15, <2>2
    <3>2. pack.accounts \cup Of(tx, "account") = UpToChunk(n, AccountChunk)
      BY <2>2, <2>3
    <3>3. pack.cards \cup Of(tx, "card") = UpToChunk(n - A, CardChunk)
      BY <2>2, <2>3
    <3>4. pack.voucher \/ Of(tx, "voucher") # {} <=> n + 1 >= A + C + 2
      BY <1>2, <1>5, <1>15, <2>2
    <3>5. pack.active \/ Of(tx, "activate") # {} <=> n + 1 >= A + C + 3
      BY <1>2, <1>5, <1>15, <2>2
    <3>. QED  BY <1>10, <3>1, <3>2, <3>3, <3>4, <3>5
  <2>5. MustSign(tx) \subseteq tx.signers
    BY <2>1 DEF MustSign, Carries
  <2>6. \A ins \in tx.do : Executable(ins)
    <3>1. pack.made
      BY <1>2, <1>5, <1>15
    <3>. QED  BY <2>1, <3>1 DEF Executable, Carries
  <2>7. ~MayRefuse(tx)
    <3>1. pack.cards = Items /\ pack.voucher
      BY <1>2, <1>5, <1>15, <2>3
    <3>. QED  BY <3>1 DEF MayRefuse
  <2>. QED  BY <2>4, <2>5, <2>6, <2>7 DEF Accepted, tx
<1>. QED  BY <1>2, <1>11, <1>12, <1>13, <1>14, <1>15

\* The pack after the whole list.
LEMMA WholeIs ==
  Built(Len(Plan)) = [made |-> TRUE, accounts |-> Items, cards |-> Items, voucher |-> TRUE, active |-> TRUE]
<1>. DEFINE A == AccountTxs
            C == CardTxs
            n == A + C + 3
<1>1. A \in Nat /\ C \in Nat /\ Len(Plan) = n
  BY PlanIs DEF PlanParts
<1>2. AccountChunk \in Nat \ {0} /\ CardChunk \in Nat \ {0}
  BY Constants
<1>3. A = Pieces(NumItems, AccountChunk) /\ C = Pieces(NumItems, CardChunk)
  BY DEF AccountTxs, CardTxs, Pieces
<1>4. UpToChunk(n - 1, AccountChunk) = Items
  <2>. PICK k \in Int : k = n - 1
    BY <1>1
  <2>1. k >= A
    BY <1>1
  <2>. HIDE DEF A, C
  <2>2. UpToChunk(k, AccountChunk) = Items
    BY <1>2, <1>3, <2>1, OneMorePiece
  <2>. QED  BY <2>2
<1>5. UpToChunk(n - 1 - A, CardChunk) = Items
  <2>. PICK k \in Int : k = n - 1 - A
    BY <1>1
  <2>1. k >= C
    BY <1>1
  <2>. HIDE DEF A, C
  <2>2. UpToChunk(k, CardChunk) = Items
    BY <1>2, <1>3, <2>1, OneMorePiece
  <2>. QED  BY <2>2
<1>. DEFINE b1 == n >= 1
            b4 == n >= A + C + 2
            b5 == n >= A + C + 3
<1>6. b1 = TRUE /\ b4 = TRUE /\ b5 = TRUE
  BY <1>1
<1>7. Built(n) = [made |-> b1, accounts |-> UpToChunk(n - 1, AccountChunk),
                  cards |-> UpToChunk(n - 1 - A, CardChunk), voucher |-> b4, active |-> b5]
  BY DEF Built
<1>. HIDE DEF b1, b4, b5, n
<1>. QED  BY <1>1, <1>4, <1>5, <1>6, <1>7

LEMMA CreationWhole ==
  ASSUME CreationInv
  PROVE  /\ CreatedWhole
         /\ ~disturbed /\ seller.told # "nothing" =>
              pack.made /\ pack.cards = Items /\ pack.voucher /\ pack.active
<1>1. ASSUME seller.told = "created", faults = 0 \/ ~disturbed
      PROVE  pack = [made |-> TRUE, accounts |-> Items, cards |-> Items, voucher |-> TRUE, active |-> TRUE]
  BY <1>1, WholeIs DEF CreationInv, Building
<1>2. ASSUME ~disturbed, seller.told # "nothing" PROVE seller.told = "created"
  BY <1>2 DEF CreationInv, Building
<1>. QED  BY <1>1, <1>2 DEF CreatedWhole

LEMMA CreationInit == Init => CreationInv
<1>. SUFFICES ASSUME Init PROVE CreationInv
  OBVIOUS
<1>. USE DEF Init, InitCreation, InitOpening
<1>1. Len(Plan) \in Nat /\ AccountTxs \in Nat /\ CardTxs \in Nat /\ Len(Plan) = AccountTxs + CardTxs + 3
  BY PlanIs DEF PlanParts
<1>2. seller = [sent |-> 0, told |-> "nothing"] /\ faults = 0
  OBVIOUS
<1>3. CreationTyped
  BY <1>1, <1>2 DEF CreationTyped
<1>4. UpToChunk(0 - 1, AccountChunk) = {}
  <2>. PICK k \in Int : k = 0 - 1
    OBVIOUS
  <2>1. UpToChunk(k, AccountChunk) = {}
    BY Constants, OneMorePiece
  <2>. QED  BY <2>1
<1>5. UpToChunk(0 - 1 - AccountTxs, CardChunk) = {}
  <2>. PICK k \in Int : k = 0 - 1 - AccountTxs /\ k <= 0
    BY <1>1
  <2>1. UpToChunk(k, CardChunk) = {}
    BY Constants, OneMorePiece
  <2>. QED  BY <2>1
<1>6. Built(0) = NoPack
  <2>. DEFINE b1 == 0 >= 1
              b4 == 0 >= AccountTxs + CardTxs + 2
              b5 == 0 >= AccountTxs + CardTxs + 3
  <2>1. b1 = FALSE /\ b4 = FALSE /\ b5 = FALSE
    BY <1>1
  <2>2. Built(0) = [made |-> b1, accounts |-> UpToChunk(0 - 1, AccountChunk),
                    cards |-> UpToChunk(0 - 1 - AccountTxs, CardChunk), voucher |-> b4, active |-> b5]
    BY DEF Built
  <2>. HIDE DEF b1, b4, b5
  <2>. QED  BY <1>4, <1>5, <2>1, <2>2 DEF NoPack
<1>7. Building
  BY <1>2, <1>6 DEF Building
<1>. QED  BY <1>3, <1>7 DEF CreationInv

\* The seller's steps keep the invariant of the creation.
LEMMA CreationSteps ==
  ASSUME CreationInv, Creation, disturbed \in BOOLEAN, disturbed' = (disturbed \/ faults' # faults)
  PROVE  CreationInv'
<1>1. CreationTyped /\ Len(Plan) \in Nat
  BY PlanIs DEF CreationInv, PlanParts
<1>2. seller \in [sent : Nat, told : {"nothing", "created", "error"}] /\ faults \in Nat /\ seller.sent <= Len(Plan)
  BY <1>1 DEF CreationTyped
<1>3. ASSUME Sending, seller' = [seller EXCEPT !.sent = @ + 1], faults' \in {faults, faults + 1}
      PROVE  CreationTyped' /\ seller'.sent = seller.sent + 1 /\ seller'.told = "nothing"
             /\ seller.sent \in Nat /\ seller.sent < Len(Plan)
  <2>1. seller.sent \in Nat /\ seller.sent < Len(Plan) /\ seller.told = "nothing"
    BY <1>2, <1>3 DEF Sending
  <2>2. seller' \in [sent : Nat, told : {"nothing", "created", "error"}]
        /\ seller'.sent = seller.sent + 1 /\ seller'.told = "nothing"
    BY <1>2, <1>3, <2>1
  <2>3. faults' \in Nat /\ seller'.sent <= Len(Plan)
    BY <1>1, <1>2, <1>3, <2>1, <2>2
  <2>. QED  BY <2>1, <2>2, <2>3 DEF CreationTyped
<1>4. CASE SellerSends
  <2>1. Sending /\ faults' = faults /\ seller' = [seller EXCEPT !.sent = @ + 1]
    BY <1>4 DEF SellerSends, Passed
  <2>2. CreationTyped' /\ seller'.sent = seller.sent + 1 /\ seller'.told = "nothing"
        /\ seller.sent \in Nat /\ seller.sent < Len(Plan)
    BY <1>3, <2>1
  <2>3. ASSUME (faults = 0 \/ ~disturbed)' PROVE Building'
    <3>1. pack = Built(seller.sent)
      BY <1>4, <2>1, <2>3 DEF CreationInv, Building
    <3>2. /\ Accepted(Next1) /\ ~MayRefuse(Next1)
          /\ After(Next1) = Built(seller.sent + 1)
      BY <2>2, <3>1, BuiltNext DEF Next1
    <3>3. pack' = Built(seller.sent + 1)
      BY <1>4, <3>2 DEF SellerSends, Passed
    <3>. QED  BY <2>2, <3>3 DEF Building
  <2>. QED  BY <2>2, <2>3 DEF CreationInv
<1>5. CASE SellerLoses
  <2>1. CreationTyped'
    BY <1>3, <1>5 DEF SellerLoses, Passed
  <2>2. faults' # 0 /\ disturbed'
    <3>1. faults' = faults + 1
      BY <1>5 DEF SellerLoses
    <3>2. faults' # 0 /\ faults' # faults
      BY <1>2, <3>1
    <3>. QED  BY <3>2
  <2>. QED  BY <2>1, <2>2 DEF CreationInv
<1>6. CASE SellerDeclines
  <2>1. seller' \in [sent : Nat, told : {"nothing", "created", "error"}] /\ seller'.sent = seller.sent
        /\ faults' \in Nat
    BY <1>2, <1>6 DEF SellerDeclines
  <2>2. CreationTyped'
    BY <1>2, <2>1 DEF CreationTyped
  <2>3. faults' # 0 /\ disturbed'
    <3>1. faults' = faults + 1
      BY <1>6 DEF SellerDeclines
    <3>2. faults' # 0 /\ faults' # faults
      BY <1>2, <3>1
    <3>. QED  BY <3>2
  <2>. QED  BY <2>2, <2>3 DEF CreationInv
<1>7. CASE SellerTold
  <2>1. seller' \in [sent : Nat, told : {"nothing", "created", "error"}] /\ seller'.sent = seller.sent
        /\ faults' = faults /\ pack' = pack /\ seller'.told = "created" /\ seller.sent = Len(Plan)
    BY <1>2, <1>7 DEF SellerTold
  <2>2. CreationTyped'
    BY <1>2, <2>1 DEF CreationTyped
  <2>3. ASSUME (faults = 0 \/ ~disturbed)' PROVE Building'
    BY <2>1, <2>3 DEF Building, CreationInv
  <2>. QED  BY <2>2, <2>3 DEF CreationInv
<1>. QED  BY <1>4, <1>5, <1>6, <1>7 DEF Creation

\* And so do the visitor's, which leave the pack to the seller.
LEMMA OpeningKeepsCreation ==
  ASSUME CreationInv, disturbed \in BOOLEAN, pack' = pack, seller' = seller,
         faults' \in {faults, faults + 1}, disturbed => disturbed'
  PROVE  CreationInv'
<1>1. CreationTyped /\ CreationTyped' /\ faults \in Nat
  BY DEF CreationInv, CreationTyped
<1>2. ASSUME (faults = 0 \/ ~disturbed)' PROVE Building'
  <2>1. faults = 0 \/ ~disturbed
    BY <1>1, <1>2
  <2>. QED  BY <2>1 DEF CreationInv, Building
<1>. QED  BY <1>1, <1>2 DEF CreationInv

-----------------------------------------------------------------------------
(* What the steps do to the types.                                          *)

\* A call at its start and at its end.
LEMMA IdleIs == Idle \in CallStates /\ Idle.at = "idle" /\ Idle.todo = <<>> /\ Idle.todo \in Seq(Claims)
<1>1. <<>> \in Seq(Claims)
  OBVIOUS
<1>. QED  BY <1>1 DEF Idle, CallStates

Starts(at, todo) == [at |-> at, todo |-> todo, signed |-> 0]
LEMMA Starting ==
  \A at, todo : [Idle EXCEPT !.at = at, !.todo = todo] = Starts(at, todo)
<1>. SUFFICES ASSUME NEW at, NEW todo PROVE [Idle EXCEPT !.at = at, !.todo = todo] = Starts(at, todo)
  OBVIOUS
<1>. DEFINE i == Idle
            u == [i EXCEPT !.at = at]
<1>1. i = [at |-> "idle", todo |-> <<>>, signed |-> 0]
  BY DEF Idle
<1>. HIDE DEF i
<1>2. u = [at |-> at, todo |-> <<>>, signed |-> 0]
  BY <1>1
<1>3. [i EXCEPT !.at = at, !.todo = todo] = [u EXCEPT !.todo = todo]
  OBVIOUS
<1>. HIDE DEF u
<1>4. [u EXCEPT !.todo = todo] = [at |-> at, todo |-> todo, signed |-> 0]
  BY <1>2
<1>. QED  BY <1>3, <1>4 DEF i, Starts

\* One call goes on, the others stay.
OnlyChanges(c, x) ==
  /\ calls'[c] = x
  /\ \A d \in Calls : d # c => calls'[d] = calls[d]
LEMMA CallSet ==
  ASSUME CallsTyped, NEW c \in Calls, NEW x \in CallStates, x.at = "claim" => x.todo \in Seq(Claims),
         calls' = [calls EXCEPT ![c] = x]
  PROVE  CallsTyped' /\ OnlyChanges(c, x)
<1>1. calls \in [Calls -> CallStates] /\ \A d \in Calls : calls[d].at = "claim" => calls[d].todo \in Seq(Claims)
  BY DEF CallsTyped
<1>2. calls' \in [Calls -> CallStates] /\ calls'[c] = x /\ \A d \in Calls : d # c => calls'[d] = calls[d]
  <2>. HIDE DEF CallStates
  <2>. QED  BY <1>1
<1>3. \A d \in Calls : calls'[d].at = "claim" => calls'[d].todo \in Seq(Claims)
  BY <1>1, <1>2
<1>. QED  BY <1>2, <1>3 DEF CallsTyped, OnlyChanges

\* The parts of a call.
LEMMA CallParts ==
  ASSUME CallsTyped, NEW c \in Calls
  PROVE  /\ calls[c] \in CallStates
         /\ calls[c].at \in {"idle", "request", "claim", "last", "hung"}
         /\ calls[c].todo \in Seq(Claims) \cup Seq(Int) /\ calls[c].signed \in Int
         /\ calls[c].at = "claim" => calls[c].todo \in Seq(Claims)
<1>1. calls[c] \in CallStates
  BY DEF CallsTyped
<1>2. calls[c].at \in {"idle", "request", "claim", "last", "hung"}
      /\ calls[c].todo \in Seq(Claims) \cup Seq(Int) /\ calls[c].signed \in Int
  BY <1>1 DEF CallStates
<1>. QED  BY <1>1, <1>2 DEF CallsTyped

\* A call passes the first of its transactions.
LEMMA Passed1Is ==
  ASSUME CallsTyped, NEW c \in Calls, calls[c].todo # <<>>, Passed1(c)
  PROVE  /\ CallsTyped'
         /\ calls'[c].at = calls[c].at /\ calls'[c].todo = Tail(calls[c].todo)
         /\ \A d \in Calls : d # c => calls'[d] = calls[d]
<1>. DEFINE t == calls[c].todo
            x == [at |-> calls[c].at, todo |-> Tail(t), signed |-> Signed(c) - 1]
<1>1. calls[c] \in CallStates /\ t \in Seq(Claims) \cup Seq(Int) /\ calls[c].signed \in Int
      /\ calls[c].at \in {"idle", "request", "claim", "last", "hung"}
      /\ (calls[c].at = "claim" => t \in Seq(Claims))
  BY CallParts
<1>2. Signed(c) \in Int
  <2>1. Len(t) \in Nat /\ ClaimBatch \in Nat
    BY <1>1, OpeningAssumption
  <2>. QED  BY <1>1, <2>1 DEF Signed, ToSign
<1>3. Tail(t) \in Seq(Claims) \cup Seq(Int) /\ (t \in Seq(Claims) => Tail(t) \in Seq(Claims))
  <2>. HIDE DEF t
  <2>1. ASSUME t \in Seq(Claims) PROVE Tail(t) \in Seq(Claims)
    BY <2>1 DEF t
  <2>2. ASSUME t \in Seq(Int) PROVE Tail(t) \in Seq(Int)
    BY <2>2 DEF t
  <2>. QED  BY <1>1, <2>1, <2>2
<1>4. x \in CallStates /\ (x.at = "claim" => x.todo \in Seq(Claims))
  BY <1>1, <1>2, <1>3 DEF CallStates
<1>5. calls' = [calls EXCEPT ![c] = x]
  <2>. DEFINE T == Tail(t)
              S == Signed(c) - 1
              r == calls[c]
  <2>1. calls \in [Calls -> CallStates]
    BY DEF CallsTyped
  <2>2. [[r EXCEPT !.todo = T] EXCEPT !.signed = S] = [at |-> r.at, todo |-> T, signed |-> S]
    <3>. DEFINE u == [r EXCEPT !.todo = T]
    <3>. HIDE DEF T, S, r
    <3>1. r \in CallStates
      BY <1>1 DEF r
    <3>2. u = [at |-> r.at, todo |-> T, signed |-> r.signed]
      BY <3>1 DEF CallStates
    <3>. HIDE DEF u
    <3>3. [u EXCEPT !.signed = S] = [at |-> r.at, todo |-> T, signed |-> S]
      BY <3>2
    <3>. QED  BY <3>3 DEF u
  <2>3. calls' = [calls EXCEPT ![c].todo = T, ![c].signed = S]
    BY DEF Passed1
  <2>4. calls' = [calls EXCEPT ![c] = [[r EXCEPT !.todo = T] EXCEPT !.signed = S]]
    <3>. HIDE DEF T, S
    <3>. QED  BY <2>1, <2>3
  <2>. QED  BY <2>2, <2>4
<1>6. CallsTyped' /\ OnlyChanges(c, x)
  <2>. HIDE DEF x
  <2>. QED  BY <1>4, <1>5, CallSet
<1>. QED  BY <1>6 DEF OnlyChanges

\* A call gives up what it had before it.
LEMMA EndedIs ==
  ASSUME CallsTyped, NEW c \in Calls, Ended(c)
  PROVE  /\ CallsTyped'
         /\ calls'[c].at = calls[c].at /\ calls'[c].todo = <<>>
         /\ \A d \in Calls : d # c => calls'[d] = calls[d]
<1>. DEFINE x == [at |-> calls[c].at, todo |-> <<>>, signed |-> 0]
<1>1. calls[c] \in CallStates /\ calls[c].at \in {"idle", "request", "claim", "last", "hung"}
  BY CallParts
<1>2. x \in CallStates /\ (x.at = "claim" => x.todo \in Seq(Claims))
  <2>1. <<>> \in Seq(Claims)
    OBVIOUS
  <2>. QED  BY <1>1, <2>1 DEF CallStates
<1>3. calls' = [calls EXCEPT ![c] = x]
  <2>. DEFINE r == calls[c]
  <2>1. calls \in [Calls -> CallStates]
    BY DEF CallsTyped
  <2>2. [[r EXCEPT !.todo = <<>>] EXCEPT !.signed = 0] = [at |-> r.at, todo |-> <<>>, signed |-> 0]
    <3>. DEFINE u == [r EXCEPT !.todo = <<>>]
    <3>. HIDE DEF r
    <3>1. r \in CallStates
      BY <1>1 DEF r
    <3>2. u = [at |-> r.at, todo |-> <<>>, signed |-> r.signed]
      BY <3>1 DEF CallStates
    <3>. HIDE DEF u
    <3>3. [u EXCEPT !.signed = 0] = [at |-> r.at, todo |-> <<>>, signed |-> 0]
      BY <3>2
    <3>. QED  BY <3>3 DEF u
  <2>3. calls' = [calls EXCEPT ![c].todo = <<>>, ![c].signed = 0]
    BY DEF Ended
  <2>4. calls' = [calls EXCEPT ![c] = [[r EXCEPT !.todo = <<>>] EXCEPT !.signed = 0]]
    BY <2>1, <2>3
  <2>. QED  BY <2>2, <2>4
<1>4. CallsTyped' /\ OnlyChanges(c, x)
  <2>. HIDE DEF x
  <2>. QED  BY <1>2, <1>3, CallSet
<1>. QED  BY <1>4 DEF OnlyChanges

\* A call goes to its last step.
LEMMA LastIs ==
  ASSUME CallsTyped, NEW c \in Calls, calls' = [calls EXCEPT ![c].at = "last"]
  PROVE  /\ CallsTyped' /\ calls'[c].at = "last"
         /\ \A d \in Calls : d # c => calls'[d] = calls[d]
<1>. DEFINE x == [at |-> "last", todo |-> calls[c].todo, signed |-> calls[c].signed]
<1>1. calls[c] \in CallStates /\ calls[c].todo \in Seq(Claims) \cup Seq(Int) /\ calls[c].signed \in Int
  BY CallParts
<1>2. x \in CallStates /\ (x.at = "claim" => x.todo \in Seq(Claims))
  BY <1>1 DEF CallStates
<1>3. calls' = [calls EXCEPT ![c] = x]
  <2>. DEFINE r == calls[c]
  <2>1. calls \in [Calls -> CallStates]
    BY DEF CallsTyped
  <2>2. [r EXCEPT !.at = "last"] = [at |-> "last", todo |-> r.todo, signed |-> r.signed]
    <3>. HIDE DEF r
    <3>1. r \in CallStates
      BY <1>1 DEF r
    <3>. QED  BY <3>1 DEF CallStates
  <2>3. calls' = [calls EXCEPT ![c] = [r EXCEPT !.at = "last"]]
    BY <2>1
  <2>. QED  BY <2>2, <2>3
<1>4. CallsTyped' /\ OnlyChanges(c, x)
  <2>. HIDE DEF x
  <2>. QED  BY <1>2, <1>3, CallSet
<1>. QED  BY <1>4 DEF OnlyChanges

\* What a process is made of.
LEMMA MadeOf ==
  ASSUME NEW q, NEW e \in BOOLEAN, NEW l \in [Items -> Nat], NEW r \in Nat, q = [exists |-> e, left |-> l, redeemed |-> r]
  PROVE  /\ q.exists = e /\ q.left = l /\ q.redeemed = r
         /\ q \in [exists : BOOLEAN, left : [Items -> Nat], redeemed : Nat]
<1>1. q.exists = e
  OBVIOUS
<1>2. q.left = l
  OBVIOUS
<1>3. q.redeemed = r
  OBVIOUS
<1>4. q \in [exists : BOOLEAN, left : [Items -> Nat], redeemed : Nat]
  OBVIOUS
<1>. QED  BY <1>1, <1>2, <1>3, <1>4

\* The program's answers to the visitor.
LEMMA DrawsKeep ==
  ASSUME ChainTyped, NEW k, RequestAccepted(k), NEW d \in Draws(k),
         process' = [process EXCEPT !.exists = TRUE, !.left = [i \in Items |-> @[i] + d[i]]]
  PROVE  /\ process' \in Processes /\ process'.redeemed = process.redeemed /\ process'.exists
         /\ k \in Nat /\ Total(process') = Total(process) + k
<1>. DEFINE f == process.left
            g == [i \in Items |-> f[i] + d[i]]
<1>1. /\ process.exists \in BOOLEAN /\ f \in [Items -> Nat] /\ process.redeemed \in Nat
      /\ Requested(process) \in Nat /\ Total(process) = Requested(process) + process.redeemed
  BY ProcessParts DEF ChainTyped
<1>2. d \in [Items -> Nat] /\ Sum(d) = k
  <2>1. d \in [Items -> 0 .. k] /\ Sum(d) = k
    BY DEF Draws
  <2>2. \A i \in Items : d[i] \in Nat
    BY <2>1
  <2>. QED  BY <2>1, <2>2
<1>3. g \in [Items -> Nat]
  BY <1>1, <1>2
<1>4. Sum(g) = Sum(f) + Sum(d) /\ Sum(d) \in Nat
  <2>. HIDE DEF f
  <2>. QED  BY <1>1, <1>2, Constants, SumAdds, SumOf
<1>5. process \in [exists : BOOLEAN, left : [Items -> Nat], redeemed : Nat]
  BY DEF ChainTyped, Processes
<1>6. process' = [exists |-> TRUE, left |-> g, redeemed |-> process.redeemed]
  BY <1>5
<1>11. process'.exists = TRUE /\ process'.left = g /\ process'.redeemed = process.redeemed
  BY <1>6
<1>. HIDE DEF f, g
<1>7. Requested(process') = Requested(process) + k /\ Requested(process) = Sum(f)
  BY <1>2, <1>4, <1>11 DEF Requested, f
<1>8. k \in Nat /\ Total(process') = Total(process) + k
  BY <1>1, <1>2, <1>4, <1>6, <1>7 DEF Total
<1>9. Total(process') <= Allowed
  BY <1>1, <1>8 DEF RequestAccepted
<1>10. process' \in Processes
  <2>1. process' \in [exists : BOOLEAN, left : [Items -> Nat], redeemed : Nat] /\ process'.exists
    <3>1. process.redeemed \in Nat
      BY <1>1
    <3>. QED  BY <1>3, <1>6, <1>11, <3>1, MadeOf
  <2>. QED  BY <1>9, <2>1 DEF Processes
<1>. QED  BY <1>6, <1>8, <1>10

LEMMA ClaimKeeps ==
  ASSUME ChainTyped, NEW card \in Items, process.left[card] > 0,
         process' = [process EXCEPT !.left[card] = @ - 1, !.redeemed = @ + 1],
         supply' = [supply EXCEPT ![card] = @ + 1],
         owned' = [owned EXCEPT ![card] = @ + 1]
  PROVE  /\ ChainTyped' /\ process'.redeemed = process.redeemed + 1 /\ process'.exists
         /\ Total(process') = Total(process)
         /\ process'.left = [process.left EXCEPT ![card] = @ - 1]
<1>. DEFINE f == process.left
            g == [f EXCEPT ![card] = @ - 1]
<1>1. /\ process.exists \in BOOLEAN /\ f \in [Items -> Nat] /\ process.redeemed \in Nat
      /\ Requested(process) \in Nat /\ Total(process) = Requested(process) + process.redeemed
      /\ Total(process) <= Allowed /\ (~process.exists => process = NoProcess)
  BY ProcessParts DEF ChainTyped
<1>2. process.exists
  <2>1. NoProcess.left[card] = 0
    BY DEF NoProcess, Zero
  <2>. QED  BY <1>1, <2>1
<1>3. g \in [Items -> Nat]
  <2>1. f[card] - 1 \in Nat
    BY <1>1
  <2>. QED  BY <1>1, <2>1
<1>4. Sum(g) = Sum(f) - 1
  <2>1. f[card] > 0
    OBVIOUS
  <2>. HIDE DEF f
  <2>. QED  BY <1>1, <2>1, Constants, SumOneMore
<1>5. process \in [exists : BOOLEAN, left : [Items -> Nat], redeemed : Nat]
  BY DEF ChainTyped, Processes
<1>6. process' = [exists |-> TRUE, left |-> g, redeemed |-> process.redeemed + 1]
  BY <1>2, <1>5
<1>12. process'.exists = TRUE /\ process'.left = g /\ process'.redeemed = process.redeemed + 1
  <2>1. process.redeemed + 1 \in Nat
    BY <1>1
  <2>. DEFINE m == process.redeemed + 1
  <2>2. m \in Nat /\ process' = [exists |-> TRUE, left |-> g, redeemed |-> m]
    BY <1>6, <2>1
  <2>. HIDE DEF f, g, m
  <2>3. process'.exists = TRUE /\ process'.left = g /\ process'.redeemed = m
    <3>1. \A q : q = [exists |-> TRUE, left |-> g, redeemed |-> m] =>
                q.exists = TRUE /\ q.left = g /\ q.redeemed = m
      OBVIOUS
    <3>. QED  BY <2>2, <3>1
  <2>. QED  BY <2>3 DEF m
<1>7. owned' \in [Items -> Nat] /\ supply' \in [Items -> Nat]
  <2>1. owned \in [Items -> Nat] /\ supply \in [Items -> Nat]
    BY DEF ChainTyped
  <2>. QED  BY <2>1
<1>8. Sum(owned') = Sum(owned) + 1 /\ Sum(owned) = process.redeemed
  <2>1. owned \in [Items -> Nat] /\ Sum(owned) = process.redeemed
    BY DEF ChainTyped
  <2>. QED  BY <2>1, Constants, SumOneMore
<1>. HIDE DEF f, g
<1>9. Requested(process') = Requested(process) - 1 /\ Requested(process) = Sum(f)
  BY <1>4, <1>12 DEF Requested, f
<1>10. Total(process') = Total(process)
  BY <1>1, <1>6, <1>9 DEF Total
<1>11. process' \in Processes
  <2>1. process' \in [exists : BOOLEAN, left : [Items -> Nat], redeemed : Nat] /\ process'.exists
    <3>1. process.redeemed + 1 \in Nat
      BY <1>1
    <3>. QED  BY <1>3, <1>6, <1>12, <3>1, MadeOf
  <2>. QED  BY <1>1, <1>10, <2>1 DEF Processes
<1>13. ChainTyped'
  BY <1>7, <1>8, <1>11, <1>12 DEF ChainTyped
<1>. QED  BY <1>10, <1>12, <1>13 DEF f, g

\* What a page is made of.
LEMMA PageParts ==
  ASSUME NEW g \in PageStates
  PROVE  /\ g.at \in {"away", "pack"} /\ g.process \in Processes /\ g.supply \in [Items -> Nat]
         /\ g.modal \in {"initial", "approval", "claiming", "error"} /\ g.bound \in Processes
         /\ g.queue \in Seq(Items) /\ g.polling \in BOOLEAN
BY DEF PageStates

ProcessPage(g, h, p) ==
  /\ h \in PageStates
  /\ h.at = g.at /\ h.process = p /\ h.supply = g.supply /\ h.modal = g.modal
  /\ h.bound = g.bound /\ h.queue = g.queue /\ h.polling = g.polling
LEMMA PageProcess ==
  ASSUME NEW g \in PageStates, NEW p \in Processes
  PROVE  ProcessPage(g, [g EXCEPT !.process = p], p)
<1>. DEFINE h == [g EXCEPT !.process = p]
<1>1. h = [g EXCEPT !.process = p]
  OBVIOUS
<1>. HIDE DEF h
<1>2. /\ h \in PageStates
      /\ h.at = g.at /\ h.process = p /\ h.supply = g.supply /\ h.modal = g.modal
      /\ h.bound = g.bound /\ h.queue = g.queue /\ h.polling = g.polling
  BY <1>1 DEF PageStates
<1>. QED  BY <1>2 DEF ProcessPage, h

ModalPage(g, h, m, b) ==
  /\ h \in PageStates
  /\ h.at = g.at /\ h.process = g.process /\ h.supply = g.supply /\ h.modal = m
  /\ h.bound = b /\ h.queue = g.queue /\ h.polling = g.polling
LEMMA PageModal ==
  ASSUME NEW g \in PageStates, NEW m \in {"initial", "approval", "claiming", "error"}, NEW b \in Processes
  PROVE  ModalPage(g, [g EXCEPT !.modal = m, !.bound = b], m, b)
<1>. DEFINE h == [g EXCEPT !.modal = m, !.bound = b]
<1>1. h = [g EXCEPT !.modal = m, !.bound = b]
  OBVIOUS
<1>. HIDE DEF h
<1>2. /\ h \in PageStates
      /\ h.at = g.at /\ h.process = g.process /\ h.supply = g.supply /\ h.modal = m
      /\ h.bound = b /\ h.queue = g.queue /\ h.polling = g.polling
  BY <1>1 DEF PageStates
<1>. QED  BY <1>2 DEF ModalPage, h

QuietPage(g, h) ==
  /\ h \in PageStates
  /\ h.at = g.at /\ h.process = g.process /\ h.supply = g.supply /\ h.modal = g.modal
  /\ h.bound = g.bound /\ h.queue = g.queue /\ ~h.polling
LEMMA PagePolling ==
  ASSUME NEW g \in PageStates
  PROVE  QuietPage(g, [g EXCEPT !.polling = FALSE])
<1>. DEFINE h == [g EXCEPT !.polling = FALSE]
<1>1. h = [g EXCEPT !.polling = FALSE]
  OBVIOUS
<1>. HIDE DEF h
<1>2. /\ h \in PageStates
      /\ h.at = g.at /\ h.process = g.process /\ h.supply = g.supply /\ h.modal = g.modal
      /\ h.bound = g.bound /\ h.queue = g.queue /\ ~h.polling
  BY <1>1 DEF PageStates
<1>. QED  BY <1>2 DEF QuietPage, h

OpenedPage(g, h, p, q) ==
  /\ h \in PageStates
  /\ h.at = g.at /\ h.process = p /\ h.supply = g.supply /\ h.modal = g.modal
  /\ h.bound = g.bound /\ h.queue = q /\ h.polling
LEMMA PageOpened ==
  ASSUME NEW g \in PageStates, NEW p \in Processes, NEW q \in Seq(Items)
  PROVE  OpenedPage(g, [g EXCEPT !.process = p, !.queue = q, !.polling = TRUE], p, q)
<1>. DEFINE h == [g EXCEPT !.process = p, !.queue = q, !.polling = TRUE]
<1>1. h = [g EXCEPT !.process = p, !.queue = q, !.polling = TRUE]
  OBVIOUS
<1>. HIDE DEF h
<1>2. /\ h \in PageStates
      /\ h.at = g.at /\ h.process = p /\ h.supply = g.supply /\ h.modal = g.modal
      /\ h.bound = g.bound /\ h.queue = q /\ h.polling
  BY <1>1 DEF PageStates
<1>. QED  BY <1>2 DEF OpenedPage, h

LEMMA AwayIs ==
  /\ Away \in PageStates /\ Away.at = "away" /\ Away.process = NoProcess /\ Away.modal = "initial"
  /\ Away.queue = <<>> /\ ~Away.polling /\ Away.bound.redeemed = 0 /\ Away.bound = NoProcess
<1>1. NoProcess \in Processes /\ Zero \in [Items -> Nat]
  BY NoProcessIs
<1>2. Away \in PageStates
  BY <1>1 DEF Away, PageStates
<1>3. NoProcess.redeemed = 0 /\ Away.bound = NoProcess
  BY NoProcessIs DEF Away
<1>4. Away.at = "away" /\ Away.process = NoProcess /\ Away.modal = "initial" /\ Away.queue = <<>> /\ ~Away.polling
  BY DEF Away
<1>. QED  BY <1>2, <1>3, <1>4

LoadedPage(h, p, s) ==
  /\ h \in PageStates
  /\ h.at = "pack" /\ h.process = p /\ h.supply = s /\ h.modal = "initial" /\ h.queue = <<>> /\ ~h.polling
  /\ h.bound.redeemed = 0
LEMMA PageLoaded ==
  ASSUME NEW p \in Processes, NEW s \in [Items -> Nat]
  PROVE  LoadedPage([Away EXCEPT !.at = "pack", !.supply = s, !.process = p], p, s)
<1>. DEFINE a == Away
            h == [Away EXCEPT !.at = "pack", !.supply = s, !.process = p]
<1>1. a \in PageStates /\ a.modal = "initial" /\ a.queue = <<>> /\ ~a.polling /\ a.bound.redeemed = 0
  BY AwayIs
<1>2. h = [a EXCEPT !.at = "pack", !.supply = s, !.process = p]
  OBVIOUS
<1>. HIDE DEF a, h
<1>3. /\ h \in PageStates
      /\ h.at = "pack" /\ h.process = p /\ h.supply = s /\ h.modal = "initial" /\ h.queue = <<>> /\ ~h.polling
      /\ h.bound.redeemed = 0
  BY <1>1, <1>2 DEF PageStates
<1>. QED  BY <1>3 DEF LoadedPage, h

\* Polls.
LEMMA PollParts ==
  ASSUME PollTyped
  PROVE  poll.reading \in BOOLEAN /\ poll.answer \in Processes
BY DEF PollTyped

LEMMA NoPollIs ==
  NoPoll \in [reading : BOOLEAN, answer : Processes] /\ ~NoPoll.reading /\ NoPoll.answer.redeemed = 0
<1>1. NoProcess \in Processes /\ NoProcess.redeemed = 0
  BY NoProcessIs
<1>2. NoPoll.reading = FALSE /\ NoPoll.answer = NoProcess
  BY DEF NoPoll
<1>3. NoPoll \in [reading : BOOLEAN, answer : Processes]
  BY <1>1 DEF NoPoll
<1>. QED  BY <1>1, <1>2, <1>3

-----------------------------------------------------------------------------
(* The steps keep the invariant.                                            *)

\* The page is loaded: it knows the process, and nothing runs.
LEMMA LoadKeeps ==
  ASSUME OpeningInv, NEW link \in Links, NEW found \in BOOLEAN, Load(link, found)
  PROVE  OpeningInv'
<1>. DEFINE p == IF found THEN process ELSE NoProcess
<1>1. /\ ChainTyped /\ CallsTyped /\ PageTyped /\ PollTyped
      /\ disturbed \in BOOLEAN /\ unexplained \in BOOLEAN /\ ~unexplained
  BY DEF OpeningInv, OpeningTyped
<1>2. /\ process' = process /\ supply' = supply /\ owned' = owned /\ seller' = seller
      /\ unexplained' = unexplained /\ poll' = NoPoll /\ calls' = [c \in Calls |-> Idle]
      /\ seller.told # "nothing"
  BY DEF Load, chainVars
<1>3. process \in Processes /\ supply \in [Items -> Nat]
  BY <1>1 DEF ChainTyped
<1>4. p \in Processes /\ p.redeemed <= process.redeemed
  <2>1. CASE found
    BY <1>3, <2>1, ProcessParts
  <2>2. CASE ~found
    BY <1>3, <2>2, NoProcessIs, ProcessParts
  <2>. QED  BY <2>1, <2>2
<1>5. page' = [Away EXCEPT !.at = "pack", !.supply = supply, !.process = p]
  BY DEF Load, MasterEditions
<1>. HIDE DEF p
<1>6. /\ page' \in PageStates
      /\ page'.at = "pack" /\ page'.process = p /\ page'.supply = supply /\ page'.modal = "initial"
      /\ page'.queue = <<>> /\ ~page'.polling /\ page'.bound.redeemed = 0
  <2>1. LoadedPage([Away EXCEPT !.at = "pack", !.supply = supply, !.process = p], p, supply)
    BY <1>3, <1>4, PageLoaded
  <2>. QED  BY <1>5, <2>1 DEF LoadedPage
<1>7. ChainTyped'
  BY <1>1, <1>2 DEF ChainTyped
<1>8. CallsTyped' /\ \A c \in Calls : calls'[c].at = "idle"
  BY <1>2, IdleIs DEF CallsTyped
<1>9. PageTyped'
  BY <1>6 DEF PageTyped
<1>10. PollTyped' /\ ~poll'.reading /\ poll'.answer.redeemed = 0
  BY <1>2, NoPollIs DEF PollTyped
<1>11. Known'
  <2>1. process.redeemed \in Nat
    BY <1>3, ProcessParts
  <2>. QED  BY <1>2, <1>4, <1>6, <1>10, <2>1 DEF Known
<1>12. Opening' /\ OnPage'
  BY <1>2, <1>6 DEF Opening, OnPage
<1>13. disturbed' \in BOOLEAN /\ (~disturbed' => ~(process.exists /\ ~found))
  BY <1>1 DEF Load
<1>14. OpeningTyped' /\ ~unexplained'
  BY <1>1, <1>2, <1>7, <1>8, <1>9, <1>10, <1>11, <1>12, <1>13 DEF OpeningTyped
<1>15. ASSUME ~disturbed' PROVE OneByOne'
  <2>1. p = process
    <3>1. CASE found
      BY <3>1 DEF p
    <3>2. CASE ~found
      <4>1. ~process.exists
        BY <1>13, <1>15, <3>2
      <4>2. process = NoProcess
        BY <1>3, <4>1, ProcessParts
      <4>. QED  BY <3>2, <4>2 DEF p
    <3>. QED  BY <3>1, <3>2
  <2>2. NoneHangs' /\ Single' /\ (\A c \in Running : Phase(c))'
    BY <1>8 DEF NoneHangs, Single, Running
  <2>3. Informed'
    BY <1>2, <1>6, <1>10, <2>1 DEF Informed, Past
  <2>4. Resting'
    BY <1>2, <1>6, <1>10, <2>1 DEF Resting, Unstarted
  <2>5. Followed'
    <3>1. Len(page'.queue) = 0
      BY <1>6
    <3>2. Allowed # 0
      BY Constants
    <3>. QED  BY <3>1, <3>2 DEF Followed
  <2>. QED  BY <2>2, <2>3, <2>4, <2>5 DEF OneByOne
<1>. QED  BY <1>14, <1>15 DEF OpeningInv

\* What is said of the calls stays true as long as they, the chain, the poll and
\* what they use of the page stay.
LEMMA SameOneByOne ==
  ASSUME OneByOne, process' = process, supply' = supply, owned' = owned, calls' = calls, poll' = poll,
         page'.at = page.at, page'.process = page.process, page'.supply = page.supply,
         page'.queue = page.queue, page'.polling = page.polling
  PROVE  OneByOne'
<1>1. Running' = Running
  BY DEF Running
<1>2. NoneHangs' /\ Single'
  BY <1>1 DEF OneByOne, NoneHangs, Single
<1>3. OnPage' = OnPage /\ Unstarted' = Unstarted
  BY DEF OnPage, Unstarted
<1>4. ASSUME NEW c \in Running' PROVE Phase(c)'
  <2>1. c \in Running /\ Phase(c)
    BY <1>1, <1>4 DEF OneByOne
  <2>2. ASSUME calls'[c].at = "request" PROVE Asking(c)'
    BY <1>3, <2>1, <2>2 DEF Phase, Asking, Unstarted
  <2>3. ASSUME calls'[c].at = "claim" PROVE Claiming(c)'
    <3>1. Claiming(c)
      BY <2>1, <2>3 DEF Phase
    <3>. QED  BY <3>1 DEF Claiming, Covering, Within, Ordered, Aligned
  <2>4. ASSUME calls'[c].at = "last" PROVE Exhausted(process)'
    BY <2>1, <2>4 DEF Phase, Exhausted
  <2>. QED  BY <2>2, <2>3, <2>4 DEF Phase
<1>5. Informed'
  BY <1>3 DEF OneByOne, Informed, Past, OnPage
<1>6. Resting'
  <2>1. Resting
    BY DEF OneByOne
  <2>. QED  BY <1>1, <2>1 DEF Resting, Exhausted, Unstarted, OnPage
<1>7. Followed'
  <2>1. Followed
    BY DEF OneByOne
  <2>. QED  BY <2>1 DEF Followed, QueueOwned
<1>. QED  BY <1>2, <1>4, <1>5, <1>6, <1>7 DEF OneByOne

\* What moves the modal alone.
LEMMA ModalKeeps ==
  ASSUME OpeningInv, NEW m \in {"initial", "approval", "claiming", "error"}, NEW b \in Processes,
         page' = [page EXCEPT !.modal = m, !.bound = b], m = "approval" => ~Exhausted(b),
         b.redeemed <= process.redeemed, process' = process, supply' = supply, owned' = owned, calls' = calls, poll' = poll,
         disturbed' = disturbed, unexplained' = unexplained, seller' = seller
  PROVE  OpeningInv'
<1>1. /\ ChainTyped /\ CallsTyped /\ PageTyped /\ PollTyped /\ Known /\ Opening
      /\ disturbed \in BOOLEAN /\ unexplained \in BOOLEAN /\ ~unexplained
  BY DEF OpeningInv, OpeningTyped
<1>2. page \in PageStates
  BY <1>1 DEF PageTyped
<1>3. /\ page' \in PageStates
      /\ page'.at = page.at /\ page'.process = page.process /\ page'.supply = page.supply /\ page'.modal = m
      /\ page'.bound = b /\ page'.queue = page.queue /\ page'.polling = page.polling
  <2>1. ModalPage(page, [page EXCEPT !.modal = m, !.bound = b], m, b)
    BY <1>2, PageModal
  <2>. QED  BY <2>1 DEF ModalPage
<1>4. ChainTyped' /\ CallsTyped' /\ PollTyped'
  BY <1>1 DEF ChainTyped, CallsTyped, PollTyped
<1>5. PageTyped'
  BY <1>3 DEF PageTyped, Exhausted
<1>6. Known' /\ Opening'
  BY <1>1, <1>3 DEF Known, Opening, OnPage, Running
<1>7. OpeningTyped' /\ ~unexplained'
  BY <1>1, <1>4, <1>5, <1>6 DEF OpeningTyped
<1>8. ASSUME ~disturbed' PROVE OneByOne'
  <2>1. OneByOne
    BY <1>8 DEF OpeningInv
  <2>. QED  BY <1>3, <2>1, SameOneByOne
<1>. QED  BY <1>7, <1>8 DEF OpeningInv

LEMMA ClickRedeemKeeps ==
  ASSUME OpeningInv, ClickRedeem
  PROVE  OpeningInv'
<1>1. page.process \in Processes /\ page.process.redeemed <= process.redeemed
  BY PageParts DEF OpeningInv, OpeningTyped, PageTyped, Known
<1>2. /\ ~Exhausted(page.process) /\ page' = [page EXCEPT !.modal = "approval", !.bound = page.process]
      /\ process' = process /\ supply' = supply /\ owned' = owned /\ calls' = calls /\ poll' = poll
      /\ disturbed' = disturbed /\ unexplained' = unexplained /\ seller' = seller
  BY DEF ClickRedeem, chainVars, creationVars
<1>. QED  BY <1>1, <1>2, ModalKeeps

LEMMA CloseKeeps ==
  ASSUME OpeningInv, Close
  PROVE  OpeningInv'
<1>1. NoProcess \in Processes /\ NoProcess.redeemed <= process.redeemed
  <2>1. process.redeemed \in Nat
    BY ProcessParts DEF OpeningInv, OpeningTyped, ChainTyped
  <2>. QED  BY <2>1, NoProcessIs
<1>2. /\ page' = [page EXCEPT !.modal = "initial", !.bound = NoProcess]
      /\ process' = process /\ supply' = supply /\ owned' = owned /\ calls' = calls /\ poll' = poll
      /\ disturbed' = disturbed /\ unexplained' = unexplained /\ seller' = seller
  BY DEF Close, chainVars, creationVars
<1>. QED  BY <1>1, <1>2, ModalKeeps

\* The seller's steps come before the first visit.
LEMMA CreationKeeps ==
  ASSUME OpeningInv, Creation, disturbed' = (disturbed \/ faults' # faults),
         UNCHANGED <<chainVars, page, calls, poll, flying, others, unexplained>>
  PROVE  OpeningInv'
<1>1. /\ ChainTyped /\ CallsTyped /\ PageTyped /\ PollTyped /\ Known /\ Opening
      /\ disturbed \in BOOLEAN /\ unexplained \in BOOLEAN /\ ~unexplained
  BY DEF OpeningInv, OpeningTyped
<1>2. /\ process' = process /\ supply' = supply /\ owned' = owned /\ calls' = calls /\ poll' = poll
      /\ page' = page /\ unexplained' = unexplained
  BY DEF chainVars
<1>3. seller.told = "nothing"
  BY DEF Creation, SellerSends, SellerLoses, SellerDeclines, SellerTold, Sending
<1>4. ChainTyped' /\ CallsTyped' /\ PollTyped' /\ PageTyped' /\ Known'
  BY <1>1, <1>2 DEF ChainTyped, CallsTyped, PollTyped, PageTyped, Known, Exhausted
<1>5. Opening'
  BY <1>1, <1>2, <1>3 DEF Opening, OnPage, Running
<1>6. disturbed' \in BOOLEAN /\ (~disturbed' => ~disturbed)
  BY <1>1
<1>7. OpeningTyped' /\ ~unexplained'
  BY <1>1, <1>2, <1>4, <1>5, <1>6 DEF OpeningTyped
<1>8. ASSUME ~disturbed' PROVE OneByOne'
  <2>1. OneByOne
    BY <1>6, <1>8 DEF OpeningInv
  <2>. QED  BY <1>2, <2>1, SameOneByOne
<1>. QED  BY <1>7, <1>8 DEF OpeningInv

\* Nothing runs beside a call.
LEMMA Alone ==
  ASSUME OneByOne, NEW c \in Calls, calls[c].at # "idle"
  PROVE  /\ Phase(c) /\ \A d \in Calls : d # c => calls[d].at = "idle"
         /\ c \in Running
<1>1. c \in Running
  BY DEF Running
<1>2. ASSUME NEW d \in Calls, d # c PROVE calls[d].at = "idle"
  BY <1>1, <1>2 DEF OneByOne, Single, Running
<1>. QED  BY <1>1, <1>2 DEF OneByOne

\* One call at a time, after a step of it.
LEMMA StillAlone ==
  ASSUME NEW c \in Calls, \A d \in Calls : d # c => calls'[d].at = "idle",
         calls'[c].at # "hung", calls'[c].at # "idle" => Phase(c)'
  PROVE  NoneHangs' /\ Single' /\ (\A d \in Running : Phase(d))'
<1>1. \A d \in Running' : d = c /\ calls'[c].at # "idle" /\ d \in Calls
  BY DEF Running
<1>2. NoneHangs'
  BY DEF NoneHangs
<1>3. Single'
  BY <1>1 DEF Single
<1>4. ASSUME NEW d \in Running' PROVE Phase(d)'
  BY <1>1
<1>. QED  BY <1>2, <1>3, <1>4

\* The listener asks.
LEMMA PollStartsKeeps ==
  ASSUME OpeningInv, PollStarts
  PROVE  OpeningInv'
<1>1. /\ ChainTyped /\ CallsTyped /\ PageTyped /\ PollTyped /\ Known /\ Opening
      /\ disturbed \in BOOLEAN /\ unexplained \in BOOLEAN /\ ~unexplained
  BY DEF OpeningInv, OpeningTyped
<1>2. /\ process' = process /\ supply' = supply /\ owned' = owned /\ seller' = seller /\ calls' = calls
      /\ page' = page /\ disturbed' = disturbed /\ unexplained' = unexplained
      /\ poll' = [reading |-> TRUE, answer |-> process] /\ page.polling
  BY DEF PollStarts, chainVars, creationVars
<1>3. process \in Processes /\ process.redeemed \in Nat
  BY <1>1, ProcessParts DEF ChainTyped
<1>4. ChainTyped' /\ CallsTyped' /\ PageTyped' /\ Opening'
  BY <1>1, <1>2 DEF ChainTyped, CallsTyped, PageTyped, Exhausted, Opening, OnPage, Running
<1>5. PollTyped' /\ poll'.answer = process /\ poll'.reading
  <2>1. poll'.answer = process /\ poll'.reading = TRUE
    BY <1>2
  <2>2. PollTyped'
    BY <1>2, <1>3 DEF PollTyped
  <2>. QED  BY <2>1, <2>2
<1>6. Known'
  BY <1>1, <1>2, <1>3, <1>5 DEF Known
<1>7. OpeningTyped' /\ ~unexplained'
  BY <1>1, <1>2, <1>4, <1>5, <1>6 DEF OpeningTyped
<1>8. ASSUME ~disturbed' PROVE OneByOne'
  <2>1. OneByOne
    BY <1>2, <1>8 DEF OpeningInv
  <2>2. ~Unstarted
    BY <1>2 DEF Unstarted
  <2>3. Running' = Running
    BY <1>2 DEF Running
  <2>4. NoneHangs' /\ Single'
    BY <1>2, <2>1, <2>3 DEF OneByOne, NoneHangs, Single
  <2>5. ASSUME NEW c \in Running' PROVE Phase(c)'
    <3>1. Phase(c) /\ ~Asking(c)
      BY <2>1, <2>2, <2>3 DEF OneByOne, Asking
    <3>2. Claiming(c) => Claiming(c)'
      BY <1>2 DEF Claiming, Covering, Within, Ordered, Aligned
    <3>. QED  BY <1>2, <3>1, <3>2 DEF Phase, Exhausted
  <2>6. Informed'
    BY <1>2, <1>5, <2>1 DEF OneByOne, Informed, Past, OnPage
  <2>7. Resting'
    <3>1. Resting
      BY <2>1 DEF OneByOne
    <3>. QED  BY <1>2, <2>2, <2>3, <3>1 DEF Resting, Exhausted, OnPage
  <2>8. Followed'
    <3>1. Followed
      BY <2>1 DEF OneByOne
    <3>. QED  BY <1>2, <3>1 DEF Followed, QueueOwned
  <2>. QED  BY <2>4, <2>5, <2>6, <2>7, <2>8 DEF OneByOne
<1>. QED  BY <1>7, <1>8 DEF OpeningInv

\* The listener stores what it has read.
LEMMA PollAnsweredKeeps ==
  ASSUME OpeningInv, PollAnswered
  PROVE  OpeningInv'
<1>1. /\ ChainTyped /\ CallsTyped /\ PageTyped /\ PollTyped /\ Known /\ Opening
      /\ disturbed \in BOOLEAN /\ unexplained \in BOOLEAN /\ ~unexplained
  BY DEF OpeningInv, OpeningTyped
<1>2. /\ process' = process /\ supply' = supply /\ owned' = owned /\ seller' = seller /\ calls' = calls
      /\ unexplained' = unexplained /\ poll.reading /\ poll' = NoPoll
      /\ page' = [page EXCEPT !.process = poll.answer]
      /\ disturbed' = (disturbed \/ poll.answer.redeemed < page.process.redeemed)
  BY DEF PollAnswered, chainVars, creationVars
<1>3. process \in Processes /\ process.redeemed \in Nat /\ poll.answer \in Processes /\ poll.answer.redeemed \in Nat
      /\ page \in PageStates /\ page.process.redeemed \in Nat
  <2>1. process \in Processes /\ poll.answer \in Processes /\ page \in PageStates
    BY <1>1, PollParts DEF ChainTyped, PageTyped
  <2>2. page.process \in Processes
    BY <2>1, PageParts
  <2>. QED  BY <2>1, <2>2, ProcessParts
<1>4. /\ page' \in PageStates
      /\ page'.at = page.at /\ page'.process = poll.answer /\ page'.supply = page.supply /\ page'.modal = page.modal
      /\ page'.bound = page.bound /\ page'.queue = page.queue /\ page'.polling = page.polling
  <2>1. ProcessPage(page, [page EXCEPT !.process = poll.answer], poll.answer)
    BY <1>3, PageProcess
  <2>. QED  BY <1>2, <2>1 DEF ProcessPage
<1>5. ChainTyped' /\ CallsTyped' /\ PageTyped' /\ Opening'
  <2>1. ChainTyped' /\ CallsTyped'
    BY <1>1, <1>2 DEF ChainTyped, CallsTyped
  <2>2. PageTyped'
    BY <1>1, <1>4 DEF PageTyped, Exhausted
  <2>3. Opening'
    BY <1>1, <1>2, <1>4 DEF Opening, OnPage, Running
  <2>. QED  BY <2>1, <2>2, <2>3
<1>6. PollTyped' /\ ~poll'.reading /\ poll'.answer.redeemed = 0
  BY <1>2, NoPollIs DEF PollTyped
<1>7. Known'
  BY <1>1, <1>2, <1>3, <1>4, <1>6 DEF Known
<1>8. disturbed' \in BOOLEAN /\ (~disturbed' => ~disturbed /\ ~(poll.answer.redeemed < page.process.redeemed))
  BY <1>1, <1>2
<1>9. OpeningTyped' /\ ~unexplained'
  BY <1>1, <1>2, <1>5, <1>6, <1>7, <1>8 DEF OpeningTyped
<1>10. ASSUME ~disturbed' PROVE OneByOne'
  <2>1. OneByOne
    BY <1>8, <1>10 DEF OpeningInv
  <2>2. ~Unstarted
    BY <1>2 DEF Unstarted
  <2>3. Running' = Running
    BY <1>2 DEF Running
  <2>4. NoneHangs' /\ Single'
    BY <1>2, <2>1, <2>3 DEF OneByOne, NoneHangs, Single
  <2>5. ASSUME NEW c \in Running' PROVE Phase(c)'
    <3>1. Phase(c) /\ ~Asking(c)
      BY <2>1, <2>2, <2>3 DEF OneByOne, Asking
    <3>2. Claiming(c) => Claiming(c)'
      BY <1>2, <1>4 DEF Claiming, Covering, Within, Ordered, Aligned
    <3>. QED  BY <1>2, <3>1, <3>2 DEF Phase, Exhausted
  <2>6. Informed'
    BY <1>2, <1>4, <1>6, <2>1 DEF OneByOne, Informed, Past
  <2>7. ASSUME (Running = {} /\ OnPage)' PROVE page'.process = process' /\ Exhausted(process)'
    <3>1. Running = {} /\ OnPage
      BY <1>4, <2>3, <2>7 DEF OnPage
    <3>2. page.process = process /\ Exhausted(process)
      BY <2>1, <2>2, <3>1 DEF OneByOne, Resting
    <3>3. poll.answer.redeemed = process.redeemed
      BY <1>1, <1>3, <1>8, <1>10, <3>2 DEF Known
    <3>4. \A c \in Calls : calls[c].at # "request"
      BY <3>1 DEF Running
    <3>5. Past(poll.answer)
      BY <1>2, <2>1, <3>4 DEF OneByOne, Informed
    <3>. QED  BY <1>2, <1>4, <3>2, <3>3, <3>5 DEF Past, Exhausted
  <2>8. Resting'
    BY <2>7 DEF Resting
  <2>9. Followed'
    <3>1. Followed
      BY <2>1 DEF OneByOne
    <3>. QED  BY <1>2, <1>4, <3>1 DEF Followed, QueueOwned
  <2>. QED  BY <2>4, <2>5, <2>6, <2>8, <2>9 DEF OneByOne
<1>. QED  BY <1>9, <1>10 DEF OpeningInv

\* A call that has nothing more to request knows the process and claims.
LEMMA OpenedKeeps ==
  ASSUME OpeningInv, NEW c \in Calls, NEW p \in Processes, p.redeemed <= process.redeemed,
         OnPage, seller.told # "nothing", page'.bound.redeemed <= process.redeemed,
         page' \in PageStates, page'.modal # "approval" \/ ~Exhausted(page'.bound),
         page'.at = page.at, page'.process = p, page'.supply = page.supply,
         page'.queue = QueueOf(p), page'.polling,
         calls' = [calls EXCEPT ![c] = [Idle EXCEPT !.at = "claim", !.todo = ClaimList(p)]],
         process' = process, supply' = supply, owned' = owned, poll' = poll, seller' = seller,
         unexplained' = unexplained, disturbed' \in BOOLEAN,
         ~disturbed' => /\ p = process /\ Unstarted /\ Total(process) = Allowed
                        /\ \A d \in Calls : d # c => calls[d].at = "idle"
  PROVE  OpeningInv'
<1>. DEFINE x == [at |-> "claim", todo |-> ClaimList(p), signed |-> 0]
<1>1. /\ ChainTyped /\ CallsTyped /\ PageTyped /\ PollTyped /\ Known /\ Opening
      /\ disturbed \in BOOLEAN /\ unexplained \in BOOLEAN /\ ~unexplained
  BY DEF OpeningInv, OpeningTyped
<1>2. process \in Processes /\ supply \in [Items -> Nat] /\ page.supply \in [Items -> Nat]
      /\ page \in PageStates
  BY <1>1, PageParts DEF ChainTyped, PageTyped
<1>3. ClaimList(p) \in Seq(Claims) /\ Len(ClaimList(p)) = Requested(p)
  BY <1>2, ClaimListIs
<1>4. calls' = [calls EXCEPT ![c] = x] /\ x \in CallStates /\ (x.at = "claim" => x.todo \in Seq(Claims))
  <2>1. [Idle EXCEPT !.at = "claim", !.todo = ClaimList(p)] = x
    BY Starting DEF Starts
  <2>2. x \in CallStates
    BY <1>3 DEF CallStates
  <2>. QED  BY <1>3, <2>1, <2>2
<1>5. /\ CallsTyped' /\ calls'[c].at = "claim" /\ calls'[c].todo = ClaimList(p)
      /\ \A d \in Calls : d # c => calls'[d] = calls[d]
  <2>1. CallsTyped' /\ OnlyChanges(c, x)
    <3>. HIDE DEF x
    <3>. QED  BY <1>1, <1>4, CallSet
  <2>. QED  BY <2>1 DEF OnlyChanges
<1>6. ChainTyped' /\ PollTyped' /\ PageTyped' /\ Known'
  <2>1. ChainTyped' /\ PollTyped'
    BY <1>1 DEF ChainTyped, PollTyped
  <2>2. PageTyped'
    BY DEF PageTyped, Exhausted
  <2>3. Known'
    BY <1>1 DEF Known
  <2>. QED  BY <2>1, <2>2, <2>3
<1>7. Opening'
  BY DEF Opening, OnPage
<1>8. OpeningTyped' /\ ~unexplained'
  BY <1>1, <1>5, <1>6, <1>7 DEF OpeningTyped
<1>9. ASSUME ~disturbed' PROVE OneByOne'
  <2>1. /\ p = process /\ page.supply = supply /\ ~poll.reading /\ Total(process) = Allowed
        /\ \A d \in Calls : d # c => calls[d].at = "idle"
    BY <1>9 DEF Unstarted
  <2>2. \A d \in Calls : d # c => calls'[d].at = "idle"
    BY <1>5, <2>1
  <2>3. Len(QueueOf(p)) = Requested(p)
    BY QueueIs
  <2>4. Requested(p) = Allowed => process.redeemed = 0
    BY <1>2, <2>1, ProcessParts, Constants
  <2>5. Claiming(c)'
    <3>1. Covering(ClaimList(process)) /\ Within(ClaimList(process)) /\ Ordered(ClaimList(process))
      BY <1>2, <2>1, ClaimsMade
    <3>. DEFINE todo == ClaimList(process)
    <3>2. calls'[c].todo = todo
      BY <1>5, <2>1
    <3>3. Len(page'.queue) = Allowed => Len(todo) = Allowed - process.redeemed
      BY <1>2, <1>3, <2>1, <2>3, <2>4, ProcessParts
    <3>4. ASSUME Len(page'.queue) = Allowed, NEW k \in DOMAIN todo PROVE todo[k].card = page'.queue[process.redeemed + k]
      <4>1. todo[k].card = QueueOf(process)[k]
        BY <1>2, <2>1, SameCards
      <4>2. process.redeemed = 0 /\ k \in Nat
        <5>1. process.redeemed = 0
          BY <2>3, <2>4, <3>4
        <5>2. todo \in Seq(Claims)
          BY <1>3, <2>1
        <5>. HIDE DEF todo
        <5>3. k \in Nat
          BY <5>2
        <5>. QED  BY <5>1, <5>3
      <4>3. process.redeemed + k = k
        BY <4>2
      <4>. HIDE DEF todo
      <4>. QED  BY <2>1, <4>1, <4>3
    <3>. HIDE DEF todo
    <3>6. Total(process)' = Allowed
      BY <2>1 DEF Total, Requested
    <3>7. Aligned(calls[c].todo)'
      BY <3>2, <3>3, <3>4 DEF Aligned
    <3>8. Covering(calls[c].todo)' /\ Within(calls[c].todo)' /\ Ordered(calls[c].todo)'
      BY <3>1, <3>2 DEF Covering, Within, Ordered, todo
    <3>. QED  BY <3>6, <3>7, <3>8 DEF Claiming
  <2>6. NoneHangs' /\ Single' /\ (\A d \in Running : Phase(d))'
    <3>1. Phase(c)'
      BY <1>5, <2>5 DEF Phase
    <3>. QED  BY <1>5, <2>2, <3>1, StillAlone
  <2>7. Informed'
    BY <2>1 DEF Informed, Past
  <2>8. Resting'
    <3>1. c \in Running'
      BY <1>5 DEF Running
    <3>. QED  BY <3>1 DEF Resting
  <2>9. Followed'
    <3>. SUFFICES ASSUME Len(page'.queue) = Allowed
                  PROVE  process'.redeemed <= Allowed /\ \A i \in Items : Cardinality(QueueOwned(i)') <= owned'[i]
      BY DEF Followed
    <3>1. process'.redeemed = 0
      BY <2>1, <2>3, <2>4
    <3>2. \A i \in Items : QueueOwned(i)' = {}
      BY <3>1 DEF QueueOwned
    <3>3. \A i \in Items : owned'[i] \in Nat
      BY <1>6 DEF ChainTyped
    <3>4. ASSUME NEW i \in Items PROVE Cardinality(QueueOwned(i)') <= owned'[i]
      <4>1. Cardinality(QueueOwned(i)') = 0
        BY <3>2, FS_EmptySet
      <4>. QED  BY <3>3, <4>1
    <3>. QED  BY <3>1, <3>4, Constants
  <2>. QED  BY <2>6, <2>7, <2>8, <2>9 DEF OneByOne
<1>. QED  BY <1>8, <1>9 DEF OpeningInv

\* The room a process leaves.
LEMMA LeftToOpen ==
  ASSUME NEW p \in Processes
  PROVE  CardsLeftToOpen(p) = Allowed - Total(p) /\ CardsLeftToOpen(p) \in Nat
BY ProcessParts, Constants DEF CardsLeftToOpen

\* The second click.
LEMMA ClickOpenKeeps ==
  ASSUME OpeningInv, NEW c \in Calls, ClickOpen(c)
  PROVE  OpeningInv'
<1>. DEFINE p == page.bound
            now == [page EXCEPT !.modal = "claiming", !.bound = NoProcess]
            left == CardsLeftToOpen(p)
            x == Starts("request", RequestList(left))
<1>1. /\ ChainTyped /\ CallsTyped /\ PageTyped /\ PollTyped /\ Known /\ Opening
      /\ disturbed \in BOOLEAN /\ unexplained \in BOOLEAN /\ ~unexplained
  BY DEF OpeningInv, OpeningTyped
<1>2. /\ process' = process /\ supply' = supply /\ owned' = owned /\ seller' = seller /\ poll' = poll
      /\ unexplained' = unexplained /\ OnPage /\ page.modal = "approval"
      /\ disturbed' = (disturbed \/ Running # {} \/ page.bound # page.process)
  BY DEF ClickOpen, chainVars
<1>3. process \in Processes /\ page \in PageStates /\ p \in Processes /\ p.redeemed <= process.redeemed
      /\ supply \in [Items -> Nat]
  BY <1>1, PageParts DEF ChainTyped, PageTyped, Known
<1>4. disturbed' \in BOOLEAN /\ (~disturbed' => ~disturbed /\ Running = {} /\ p = page.process)
  BY <1>1, <1>2
<1>5. seller.told # "nothing"
  BY <1>1, <1>2 DEF Opening
<1>6. ASSUME ~disturbed'
      PROVE  /\ OneByOne /\ p = process /\ page.process = process /\ Unstarted
             /\ \A d \in Calls : calls[d].at = "idle"
  <2>1. OneByOne /\ Running = {} /\ p = page.process
    BY <1>4, <1>6 DEF OpeningInv
  <2>2. page.process = process /\ (Exhausted(process) \/ Unstarted)
    BY <1>2, <2>1 DEF OneByOne, Resting
  <2>3. ~Exhausted(p)
    BY <1>1, <1>2 DEF PageTyped
  <2>. QED  BY <2>1, <2>2, <2>3 DEF Running
<1>7. /\ now \in PageStates
      /\ now.at = page.at /\ now.process = page.process /\ now.supply = page.supply /\ now.modal = "claiming"
      /\ now.bound = NoProcess /\ now.queue = page.queue /\ now.polling = page.polling
  <2>1. ModalPage(page, [page EXCEPT !.modal = "claiming", !.bound = NoProcess], "claiming", NoProcess)
    BY <1>3, NoProcessIs, PageModal
  <2>. QED  BY <2>1 DEF ModalPage
<1>8. NoProcess.redeemed <= process.redeemed
  BY <1>3, NoProcessIs, ProcessParts
<1>9. left \in Nat /\ left = Allowed - Total(p)
  BY <1>3, LeftToOpen
<1>10. \/ /\ left = 0 /\ p.exists
          /\ page' = [now EXCEPT !.process = p, !.queue = QueueOf(p), !.polling = TRUE]
          /\ calls' = [calls EXCEPT ![c] = [Idle EXCEPT !.at = "claim", !.todo = ClaimList(p)]]
       \/ /\ page' = now
          /\ calls' = [calls EXCEPT ![c] = [Idle EXCEPT !.at = "request", !.todo = RequestList(left)]]
  BY DEF ClickOpen
<1>. HIDE DEF now, p
<1>11. CASE /\ left = 0 /\ p.exists
            /\ page' = [now EXCEPT !.process = p, !.queue = QueueOf(p), !.polling = TRUE]
            /\ calls' = [calls EXCEPT ![c] = [Idle EXCEPT !.at = "claim", !.todo = ClaimList(p)]]
  <2>1. QueueOf(p) \in Seq(Items)
    BY <1>3, QueueIs
  <2>2. /\ page' \in PageStates
        /\ page'.at = now.at /\ page'.process = p /\ page'.supply = now.supply /\ page'.modal = now.modal
        /\ page'.bound = now.bound /\ page'.queue = QueueOf(p) /\ page'.polling
    <3>1. OpenedPage(now, [now EXCEPT !.process = p, !.queue = QueueOf(p), !.polling = TRUE], p, QueueOf(p))
      BY <1>3, <1>7, <2>1, PageOpened
    <3>. QED  BY <1>11, <3>1 DEF OpenedPage
  <2>3. ASSUME ~disturbed'
        PROVE  /\ p = process /\ Unstarted /\ Total(process) = Allowed
               /\ \A d \in Calls : d # c => calls[d].at = "idle"
    <3>1. p = process /\ Unstarted /\ \A d \in Calls : calls[d].at = "idle"
      BY <1>6, <2>3
    <3>2. Total(process) = Allowed
      BY <1>3, <1>9, <1>11, <3>1, ProcessParts, Constants
    <3>. QED  BY <3>1, <3>2
  <2>4. page'.bound.redeemed <= process.redeemed /\ page'.modal # "approval"
    BY <1>7, <1>8, <2>2
  <2>5. page'.at = page.at /\ page'.supply = page.supply
    BY <1>7, <2>2
  <2>. QED  BY <1>2, <1>3, <1>4, <1>5, <1>11, <2>2, <2>3, <2>4, <2>5, OpenedKeeps
<1>12. CASE /\ page' = now
            /\ calls' = [calls EXCEPT ![c] = [Idle EXCEPT !.at = "request", !.todo = RequestList(left)]]
  <2>1. RequestList(left) \in Seq(Int)
    BY <1>9, RequestListIs
  <2>2. /\ CallsTyped' /\ calls'[c].at = "request" /\ calls'[c].todo = RequestList(left)
        /\ \A d \in Calls : d # c => calls'[d] = calls[d]
    <3>1. x \in CallStates /\ x.at = "request" /\ x.todo = RequestList(left)
      BY <2>1 DEF CallStates, Starts
    <3>2. calls' = [calls EXCEPT ![c] = x]
      BY <1>12, Starting
    <3>. HIDE DEF x
    <3>3. CallsTyped' /\ OnlyChanges(c, x)
      BY <1>1, <3>1, <3>2, CallSet
    <3>. QED  BY <3>1, <3>3 DEF OnlyChanges
  <2>3. ChainTyped' /\ PollTyped'
    BY <1>1, <1>2 DEF ChainTyped, PollTyped
  <2>4. PageTyped' /\ Known'
    BY <1>1, <1>2, <1>7, <1>8, <1>12 DEF PageTyped, Known
  <2>5. Opening'
    BY <1>2, <1>5, <1>7, <1>12 DEF Opening, OnPage
  <2>6. OpeningTyped' /\ ~unexplained'
    BY <1>1, <1>2, <1>4, <2>2, <2>3, <2>4, <2>5 DEF OpeningTyped
  <2>7. ASSUME ~disturbed' PROVE OneByOne'
    <3>1. /\ OneByOne /\ p = process /\ page.process = process /\ Unstarted
          /\ \A d \in Calls : calls[d].at = "idle"
      BY <1>6, <2>7
    <3>2. Unstarted'
      BY <1>2, <1>7, <1>12, <3>1 DEF Unstarted
    <3>3. Phase(c)'
      <4>1. left = Allowed - Total(process)
        BY <1>9, <3>1
      <4>2. (Total(process))' = Total(process)
        BY <1>2 DEF Total, Requested
      <4>3. Asking(c)'
        BY <2>2, <3>2, <4>1, <4>2 DEF Asking
      <4>. QED  BY <2>2, <4>3 DEF Phase
    <3>4. \A d \in Calls : d # c => calls'[d].at = "idle"
      BY <2>2, <3>1
    <3>5. NoneHangs' /\ Single' /\ (\A d \in Running : Phase(d))'
      BY <2>2, <3>3, <3>4, StillAlone
    <3>6. Informed'
      BY <2>2 DEF Informed
    <3>7. Resting'
      <4>1. c \in Running'
        BY <2>2 DEF Running
      <4>. QED  BY <4>1 DEF Resting
    <3>8. Followed'
      <4>1. Followed /\ page'.queue = page.queue
        BY <1>7, <1>12, <3>1 DEF OneByOne
      <4>. QED  BY <1>2, <4>1 DEF Followed, QueueOwned
    <3>. QED  BY <3>5, <3>6, <3>7, <3>8 DEF OneByOne
  <2>. QED  BY <2>6, <2>7 DEF OpeningInv
<1>. QED  BY <1>10, <1>11, <1>12

\* A transaction of requests arrives.
LEMMA RequestKeeps ==
  ASSUME CreationInv, OpeningInv, NEW c \in Calls, Request(c)
  PROVE  OpeningInv'
<1>. DEFINE todo == calls[c].todo
            k == Head(todo)
            n == Allowed - Total(process)
<1>1. /\ ChainTyped /\ CallsTyped /\ PageTyped /\ PollTyped /\ Known /\ Opening
      /\ disturbed \in BOOLEAN /\ unexplained \in BOOLEAN /\ ~unexplained
  BY DEF OpeningInv, OpeningTyped
<1>2. /\ supply' = supply /\ owned' = owned /\ seller' = seller /\ poll' = poll /\ page' = page
      /\ disturbed' = disturbed /\ calls[c].at = "request" /\ todo # <<>>
  BY DEF Request, creationVars
<1>3. process \in Processes
  BY <1>1 DEF ChainTyped
<1>4. \/ /\ RequestAccepted(k) /\ Passed1(c) /\ unexplained' = unexplained
         /\ \E d \in Draws(k) :
              process' = [process EXCEPT !.exists = TRUE, !.left = [i \in Items |-> @[i] + d[i]]]
      \/ /\ ~RequestAccepted(k) /\ process' = process /\ (Passed1(c) \/ Ended(c))
         /\ unexplained' = (unexplained \/ ~disturbed)
  BY DEF Request, Refused, Drawn
<1>5. ASSUME ~disturbed
      PROVE  /\ OneByOne /\ Asking(c) /\ n \in Nat /\ n # 0 /\ k \in 1 .. n /\ Tail(todo) = RequestList(n - k)
             /\ RequestAccepted(k)
  <2>1. OneByOne /\ Phase(c)
    BY <1>2, <1>5, Alone DEF OpeningInv
  <2>2. todo = RequestList(n) /\ Asking(c)
    BY <1>2, <2>1 DEF Phase, Asking
  <2>3. n \in Nat /\ Total(process) \in Nat /\ Total(process) = Requested(process) + process.redeemed
    BY <1>3, ProcessParts, Constants
  <2>4. n # 0 /\ k \in 1 .. n /\ Tail(todo) = RequestList(n - k)
    <3>. HIDE DEF n
    <3>1. n # 0
      BY <1>2, <2>2, <2>3, RequestListIs
    <3>2. Head(RequestList(n)) \in 1 .. n /\ Tail(RequestList(n)) = RequestList(n - Head(RequestList(n)))
      BY <2>3, <3>1, RequestListIs
    <3>. QED  BY <2>2, <3>1, <3>2
  <2>5. pack.active /\ pack.cards = Items
    <3>1. seller.told # "nothing"
      <4>1. c \in Running
        BY <1>2 DEF Running
      <4>. QED  BY <1>1, <4>1 DEF Opening
    <3>. QED  BY <1>5, <3>1, CreationWhole
  <2>6. Items # {}
    <3>1. 1 \in Items
      BY Constants DEF Items
    <3>. QED  BY <3>1
  <2>7. Requested(process) + process.redeemed + k <= Allowed
    BY <2>3, <2>4, Constants
  <2>. QED  BY <2>1, <2>2, <2>3, <2>4, <2>5, <2>6, <2>7 DEF RequestAccepted
<1>. HIDE DEF k, todo
<1>6. /\ process' \in Processes /\ process'.redeemed = process.redeemed
      /\ CallsTyped' /\ calls'[c].at = "request"
      /\ \A d \in Calls : d # c => calls'[d] = calls[d]
      /\ ~unexplained' /\ unexplained' \in BOOLEAN
      /\ ~disturbed => Total(process') = Total(process) + k /\ calls'[c].todo = Tail(todo)
  <2>1. CASE /\ RequestAccepted(k) /\ Passed1(c) /\ unexplained' = unexplained
             /\ \E d \in Draws(k) :
                  process' = [process EXCEPT !.exists = TRUE, !.left = [i \in Items |-> @[i] + d[i]]]
    <3>1. process' \in Processes /\ process'.redeemed = process.redeemed /\ Total(process') = Total(process) + k
      BY <1>1, <2>1, DrawsKeep
    <3>2. /\ CallsTyped' /\ calls'[c].at = "request" /\ calls'[c].todo = Tail(todo)
          /\ \A d \in Calls : d # c => calls'[d] = calls[d]
      BY <1>1, <1>2, <2>1, Passed1Is DEF todo
    <3>. QED  BY <1>1, <2>1, <3>1, <3>2
  <2>2. CASE /\ ~RequestAccepted(k) /\ process' = process /\ (Passed1(c) \/ Ended(c))
             /\ unexplained' = (unexplained \/ ~disturbed)
    <3>1. disturbed
      BY <1>1, <1>5, <2>2
    <3>2. CallsTyped' /\ calls'[c].at = "request" /\ \A d \in Calls : d # c => calls'[d] = calls[d]
      <4>1. CASE Passed1(c)
        BY <1>1, <1>2, <4>1, Passed1Is DEF todo
      <4>2. CASE Ended(c)
        BY <1>1, <1>2, <4>2, EndedIs
      <4>. QED  BY <2>2, <4>1, <4>2
    <3>3. ~unexplained' /\ unexplained' \in BOOLEAN
      BY <1>1, <2>2, <3>1
    <3>. QED  BY <1>3, <2>2, <3>1, <3>2, <3>3
  <2>. QED  BY <1>4, <2>1, <2>2
<1>7. ChainTyped' /\ PollTyped' /\ PageTyped' /\ Known'
  <2>1. ChainTyped' /\ PollTyped'
    BY <1>1, <1>2, <1>6 DEF ChainTyped, PollTyped
  <2>2. PageTyped' /\ Known'
    BY <1>1, <1>2, <1>6 DEF PageTyped, Known, Exhausted
  <2>. QED  BY <2>1, <2>2
<1>8. Opening'
  <2>1. c \in Running
    BY <1>2 DEF Running
  <2>. QED  BY <1>1, <1>2, <2>1 DEF Opening, OnPage
<1>9. OpeningTyped' /\ ~unexplained'
  <2>1. disturbed' \in BOOLEAN
    BY <1>1, <1>2
  <2>. QED  BY <1>6, <1>7, <1>8, <2>1 DEF OpeningTyped
<1>10. ASSUME ~disturbed' PROVE OneByOne'
  <2>1. ~disturbed
    BY <1>2, <1>10
  <2>2. /\ OneByOne /\ Asking(c) /\ n \in Nat /\ k \in 1 .. n /\ Tail(todo) = RequestList(n - k)
    BY <1>5, <2>1
  <2>3. \A d \in Calls : d # c => calls'[d].at = "idle"
    BY <1>2, <1>6, <2>2, Alone
  <2>4. Phase(c)'
    <3>1. n - k = Allowed - Total(process')
      <4>1. Total(process) \in Nat /\ Total(process') = Total(process) + k /\ Allowed \in Nat
        BY <1>3, <1>6, <2>1, ProcessParts, Constants
      <4>. QED  BY <2>2, <4>1
    <3>2. Total(process)' = Total(process')
      BY DEF Total, Requested
    <3>3. calls'[c].todo = RequestList(Allowed - Total(process'))
      BY <1>6, <2>1, <2>2, <3>1
    <3>4. Unstarted'
      BY <1>2, <2>2 DEF Asking, Unstarted
    <3>. QED  BY <1>6, <3>2, <3>3, <3>4 DEF Phase, Asking
  <2>5. NoneHangs' /\ Single' /\ (\A d \in Running : Phase(d))'
    BY <1>6, <2>3, <2>4, StillAlone
  <2>6. Informed'
    BY <1>6 DEF Informed
  <2>7. Resting'
    <3>1. c \in Running'
      BY <1>6 DEF Running
    <3>. QED  BY <3>1 DEF Resting
  <2>8. Followed'
    <3>1. Followed
      BY <2>2 DEF OneByOne
    <3>. QED  BY <1>2, <1>6, <3>1 DEF Followed, QueueOwned
  <2>. QED  BY <2>5, <2>6, <2>7, <2>8 DEF OneByOne
<1>. QED  BY <1>9, <1>10 DEF OpeningInv

\* The process is there.
LEMMA FetchKeeps ==
  ASSUME OpeningInv, NEW c \in Calls, Fetch(c)
  PROVE  OpeningInv'
<1>1. /\ ChainTyped /\ CallsTyped /\ PageTyped /\ PollTyped /\ Known /\ Opening
      /\ disturbed \in BOOLEAN /\ unexplained \in BOOLEAN /\ ~unexplained
  BY DEF OpeningInv, OpeningTyped
<1>2. /\ process' = process /\ supply' = supply /\ owned' = owned /\ seller' = seller /\ poll' = poll
      /\ unexplained' = unexplained /\ disturbed' = disturbed
      /\ calls[c].at = "request" /\ calls[c].todo = <<>>
      /\ page' = [page EXCEPT !.process = process, !.queue = QueueOf(process), !.polling = TRUE]
      /\ calls' = [calls EXCEPT ![c] = [Idle EXCEPT !.at = "claim", !.todo = ClaimList(process)]]
  BY DEF Fetch, Opened, chainVars, creationVars
<1>3. process \in Processes /\ page \in PageStates /\ process.redeemed <= process.redeemed
  <2>1. process \in Processes /\ page \in PageStates
    BY <1>1 DEF ChainTyped, PageTyped
  <2>2. process.redeemed \in Nat
    BY <2>1, ProcessParts
  <2>. QED  BY <2>1, <2>2
<1>4. OnPage /\ seller.told # "nothing"
  <2>1. c \in Running
    BY <1>2 DEF Running
  <2>. QED  BY <1>1, <2>1 DEF Opening
<1>5. /\ page' \in PageStates
      /\ page'.at = page.at /\ page'.process = process /\ page'.supply = page.supply /\ page'.modal = page.modal
      /\ page'.bound = page.bound /\ page'.queue = QueueOf(process) /\ page'.polling
  <2>1. QueueOf(process) \in Seq(Items)
    BY <1>3, QueueIs
  <2>2. OpenedPage(page, [page EXCEPT !.process = process, !.queue = QueueOf(process), !.polling = TRUE],
                   process, QueueOf(process))
    BY <1>3, <2>1, PageOpened
  <2>. QED  BY <1>2, <2>2 DEF OpenedPage
<1>6. page'.bound.redeemed <= process.redeemed /\ (page'.modal # "approval" \/ ~Exhausted(page'.bound))
  BY <1>1, <1>5 DEF Known, PageTyped
<1>7. ASSUME ~disturbed'
      PROVE  /\ process = process /\ Unstarted /\ Total(process) = Allowed
             /\ \A d \in Calls : d # c => calls[d].at = "idle"
  <2>1. OneByOne
    BY <1>2, <1>7 DEF OpeningInv
  <2>2. Phase(c) /\ \A d \in Calls : d # c => calls[d].at = "idle"
    BY <1>2, <2>1, Alone
  <2>3. Asking(c)
    BY <1>2, <2>2 DEF Phase
  <2>4. Total(process) = Allowed
    <3>. DEFINE n == Allowed - Total(process)
    <3>1. n \in Nat /\ RequestList(n) = <<>>
      BY <1>2, <1>3, <2>3, ProcessParts, Constants DEF Asking
    <3>. HIDE DEF n
    <3>2. n = 0
      BY <3>1, RequestListIs
    <3>3. Total(process) \in Nat /\ Allowed \in Nat
      BY <1>3, ProcessParts, Constants
    <3>. QED  BY <3>2, <3>3 DEF n
  <2>. QED  BY <2>2, <2>3, <2>4 DEF Asking
<1>8. disturbed' \in BOOLEAN
  BY <1>1, <1>2
<1>. QED  BY <1>2, <1>3, <1>4, <1>5, <1>6, <1>7, <1>8, OpenedKeeps

\* The head of a list, and its tail.
LEMMA HeadAndTail ==
  ASSUME NEW T, NEW s \in Seq(T), s # <<>>
  PROVE  /\ 1 \in DOMAIN s /\ Head(s) = s[1] /\ Head(s) \in T
         /\ Tail(s) \in Seq(T) /\ Len(s) \in Nat /\ Len(s) >= 1 /\ Len(Tail(s)) = Len(s) - 1
         /\ DOMAIN s = 1 .. Len(s) /\ DOMAIN Tail(s) = 1 .. (Len(s) - 1)
         /\ \A k \in DOMAIN Tail(s) : k \in Nat /\ k >= 1 /\ k + 1 \in DOMAIN s /\ Tail(s)[k] = s[k + 1]
<1>1. Len(s) \in Nat /\ Len(s) >= 1 /\ DOMAIN s = 1 .. Len(s)
  BY EmptySeq
<1>2. Head(s) = s[1] /\ s[1] \in T /\ Tail(s) \in Seq(T) /\ Len(Tail(s)) = Len(s) - 1
  BY <1>1
<1>3. \A k \in 1 .. (Len(s) - 1) : Tail(s)[k] = s[k + 1]
  BY <1>1, HeadTailProperties
<1>4. DOMAIN Tail(s) = 1 .. (Len(s) - 1)
  BY <1>2
<1>. QED  BY <1>1, <1>2, <1>3, <1>4

\* The first claim names the next edition of a card that is left.
LEMMA NextEdition ==
  ASSUME NEW todo \in Seq(Claims), todo # <<>>, supply \in [Items -> Nat], process \in Processes,
         Covering(todo), Within(todo), Ordered(todo)
  PROVE  /\ Head(todo).card \in Items /\ process.left[Head(todo).card] > 0
         /\ Head(todo).edition = supply[Head(todo).card] + 1
<1>. DEFINE i == Head(todo).card
            e == Head(todo).edition
<1>1. 1 \in DOMAIN todo /\ Head(todo) = todo[1] /\ Head(todo) \in Claims /\ DOMAIN todo = 1 .. Len(todo)
      /\ Len(todo) \in Nat
  BY HeadAndTail
<1>2. i \in Items /\ e \in Nat
  BY <1>1 DEF Claims
<1>3. supply[i] \in Nat /\ process.left[i] \in Nat
  BY <1>2, ProcessParts
<1>4. e \in (supply[i] + 1) .. (supply[i] + process.left[i])
  BY <1>1 DEF Within
<1>5. process.left[i] > 0 /\ supply[i] + 1 \in (supply[i] + 1) .. (supply[i] + process.left[i])
  BY <1>2, <1>3, <1>4
<1>6. PICK k \in DOMAIN todo : todo[k] = [card |-> i, edition |-> supply[i] + 1]
  BY <1>2, <1>5 DEF Covering
<1>7. ~(1 < k)
  <2>. SUFFICES ASSUME 1 < k PROVE FALSE
    OBVIOUS
  <2>1. todo[k].card = i /\ todo[k].edition = supply[i] + 1
    BY <1>6
  <2>2. todo[1].edition < todo[k].edition
    BY <1>1, <2>1 DEF Ordered
  <2>. QED  BY <1>1, <1>2, <1>3, <1>4, <2>1, <2>2
<1>8. k = 1
  BY <1>1, <1>7
<1>9. e = supply[i] + 1
  BY <1>1, <1>6, <1>8
<1>. QED  BY <1>2, <1>5, <1>9

\* And once it is claimed the rest is right again.
LEMMA RestOfClaims ==
  ASSUME NEW todo \in Seq(Claims), todo # <<>>, supply \in [Items -> Nat], process \in Processes,
         Covering(todo), Within(todo), Ordered(todo),
         process'.left = [process.left EXCEPT ![Head(todo).card] = @ - 1],
         supply' = [supply EXCEPT ![Head(todo).card] = @ + 1]
  PROVE  Covering(Tail(todo))' /\ Within(Tail(todo))' /\ Ordered(Tail(todo))'
<1>. DEFINE h == Head(todo).card
            rest == Tail(todo)
            f == process.left
<1>1. h \in Items /\ f[h] > 0 /\ Head(todo).edition = supply[h] + 1
  BY NextEdition
<1>2. /\ 1 \in DOMAIN todo /\ Head(todo) = todo[1]
      /\ rest \in Seq(Claims) /\ Len(todo) \in Nat /\ Len(todo) >= 1
      /\ DOMAIN todo = 1 .. Len(todo) /\ DOMAIN rest = 1 .. (Len(todo) - 1)
      /\ \A k \in DOMAIN rest : k \in Nat /\ k >= 1 /\ k + 1 \in DOMAIN todo /\ rest[k] = todo[k + 1]
  BY HeadAndTail
<1>3. /\ f \in [Items -> Nat]
      /\ \A i \in Items : supply[i] \in Nat /\ f[i] \in Nat
  BY ProcessParts
<1>4. /\ supply'[h] = supply[h] + 1 /\ process'.left[h] = f[h] - 1
      /\ \A i \in Items : i # h => supply'[i] = supply[i] /\ process'.left[i] = f[i]
  BY <1>1, <1>3
<1>5. todo[1].card = h /\ todo[1].edition = supply[h] + 1
  BY <1>1, <1>2
<1>6. \A k \in DOMAIN todo : todo[k].card \in Items /\ todo[k].edition \in Nat
  <2>1. \A k \in DOMAIN todo : todo[k] \in Claims
    BY <1>2
  <2>. QED  BY <2>1 DEF Claims
<1>7. \A i \in Items : \A e \in (supply[i] + 1) .. (supply[i] + f[i]) :
        \E k \in DOMAIN todo : todo[k] = [card |-> i, edition |-> e]
  BY DEF Covering
<1>8. \A k \in DOMAIN todo :
        todo[k].edition \in (supply[todo[k].card] + 1) .. (supply[todo[k].card] + f[todo[k].card])
  BY DEF Within
<1>9. \A j, k \in DOMAIN todo : j < k /\ todo[j].card = todo[k].card => todo[j].edition < todo[k].edition
  BY DEF Ordered
<1>. HIDE DEF h, rest, f
<1>10. ASSUME NEW i \in Items, NEW e \in (supply'[i] + 1) .. (supply'[i] + process'.left[i])
       PROVE  \E k \in DOMAIN rest : rest[k] = [card |-> i, edition |-> e]
  <2>1. e \in (supply[i] + 1) .. (supply[i] + f[i]) /\ ~(i = h /\ e = supply[h] + 1)
    BY <1>1, <1>3, <1>4
  <2>2. PICK k \in DOMAIN todo : todo[k] = [card |-> i, edition |-> e]
    BY <1>7, <2>1
  <2>3. todo[k].card = i /\ todo[k].edition = e
    BY <2>2
  <2>4. k # 1
    BY <1>5, <2>1, <2>3
  <2>5. PICK m \in DOMAIN rest : k = m + 1
    <3>1. k - 1 \in 1 .. (Len(todo) - 1) /\ k = (k - 1) + 1
      BY <1>2, <2>4
    <3>. QED  BY <1>2, <3>1
  <2>. QED  BY <1>2, <2>2, <2>5
<1>11. ASSUME NEW m \in DOMAIN rest
       PROVE  rest[m].edition \in (supply'[rest[m].card] + 1) .. (supply'[rest[m].card] + process'.left[rest[m].card])
  <2>. PICK k \in DOMAIN todo : k = m + 1
    BY <1>2
  <2>1. rest[m] = todo[k] /\ 1 < k
    BY <1>2
  <2>2. todo[k].card \in Items /\ todo[k].edition \in Nat
        /\ todo[k].edition \in (supply[todo[k].card] + 1) .. (supply[todo[k].card] + f[todo[k].card])
    BY <1>6, <1>8
  <2>3. CASE todo[k].card = h
    <3>1. supply[h] + 1 < todo[k].edition
      BY <1>2, <1>5, <1>9, <2>1, <2>3
    <3>2. supply[h] \in Nat /\ f[h] \in Nat
      BY <1>1, <1>3
    <3>. QED  BY <1>4, <2>1, <2>2, <2>3, <3>1, <3>2
  <2>4. CASE todo[k].card # h
    BY <1>4, <2>1, <2>2, <2>4
  <2>. QED  BY <2>3, <2>4
<1>12. ASSUME NEW m \in DOMAIN rest, NEW n \in DOMAIN rest, m < n, rest[m].card = rest[n].card
       PROVE  rest[m].edition < rest[n].edition
  <2>. PICK j \in DOMAIN todo : j = m + 1
    BY <1>2
  <2>. PICK k \in DOMAIN todo : k = n + 1
    BY <1>2
  <2>1. rest[m] = todo[j] /\ rest[n] = todo[k] /\ j < k
    BY <1>2, <1>12
  <2>. QED  BY <1>9, <1>12, <2>1
<1>13. Covering(rest)' /\ Within(rest)' /\ Ordered(rest)'
  BY <1>10, <1>11, <1>12 DEF Covering, Within, Ordered, rest
<1>. QED  BY <1>13 DEF rest


\* The queue goes on with the card that was claimed.
LEMMA FollowedOn ==
  ASSUME Followed, process.redeemed \in Nat, process'.redeemed = process.redeemed + 1, page' = page,
         process.redeemed + 1 <= Allowed, owned \in [Items -> Nat], NEW card \in Items,
         owned' = [owned EXCEPT ![card] = @ + 1],
         Len(page.queue) = Allowed => page.queue[process.redeemed + 1] = card
  PROVE  Followed'
<1>. SUFFICES ASSUME Len(page.queue) = Allowed
              PROVE  process'.redeemed <= Allowed /\ \A i \in Items : Cardinality(QueueOwned(i)') <= owned'[i]
  BY DEF Followed
<1>. DEFINE n == process.redeemed + 1
<1>1. \A i \in Items : Cardinality(QueueOwned(i)) <= owned[i] /\ owned[i] \in Nat
  BY DEF Followed
<1>2. n \in Nat /\ n - 1 = process.redeemed /\ page.queue[n] = card
  OBVIOUS
<1>3. ASSUME NEW i \in Items PROVE Cardinality(QueueOwned(i)') <= owned'[i]
  <2>. DEFINE q == QueueOwned(i)
  <2>1. q \subseteq 1 .. process.redeemed /\ IsFiniteSet(q) /\ Cardinality(q) \in Nat /\ n \notin q
    <3>1. q \subseteq 1 .. process.redeemed
      BY DEF QueueOwned
    <3>2. n \notin 1 .. process.redeemed
      OBVIOUS
    <3>3. IsFiniteSet(1 .. process.redeemed)
      <4>. PICK r \in Nat : r = process.redeemed
        OBVIOUS
      <4>1. IsFiniteSet(1 .. r)
        <5>1. 1 \in Int /\ r \in Int
          OBVIOUS
        <5>. QED  BY <5>1, FS_Interval
      <4>. QED  BY <4>1
    <3>. QED  BY <3>1, <3>2, <3>3, FS_Subset, FS_CardinalityType
  <2>2. 1 .. process'.redeemed = (1 .. process.redeemed) \cup {n}
    BY <1>2
  <2>3. CASE i = card
    <3>1. QueueOwned(i)' = q \cup {n}
      BY <1>2, <2>2, <2>3 DEF QueueOwned
    <3>2. Cardinality(q \cup {n}) = Cardinality(q) + 1
      BY <2>1, FS_AddElement
    <3>3. owned'[i] = owned[i] + 1
      BY <2>3
    <3>. QED  BY <1>1, <2>1, <3>1, <3>2, <3>3
  <2>4. CASE i # card
    <3>1. QueueOwned(i)' = q
      BY <1>2, <2>2, <2>4 DEF QueueOwned
    <3>2. owned'[i] = owned[i]
      BY <2>4
    <3>. QED  BY <1>1, <3>1, <3>2
  <2>. QED  BY <2>3, <2>4
<1>. QED  BY <1>2, <1>3

\* A claim arrives.
LEMMA ClaimStepKeeps ==
  ASSUME OpeningInv, NEW c \in Calls, Claim(c)
  PROVE  OpeningInv'
<1>1. /\ ChainTyped /\ CallsTyped /\ PageTyped /\ PollTyped /\ Known /\ Opening
      /\ disturbed \in BOOLEAN /\ unexplained \in BOOLEAN /\ ~unexplained
  BY DEF OpeningInv, OpeningTyped
<1>. PICK todo : todo = calls[c].todo
  OBVIOUS
<1>. DEFINE card == Head(todo).card
            accepts == process.left[card] > 0 /\ Mark(Head(todo).edition) = Mark(supply[card] + 1)
<1>2. /\ page' = page /\ seller' = seller /\ poll' = poll /\ disturbed' = disturbed
      /\ calls[c].at = "claim" /\ todo # <<>> /\ Passed1(c)
  BY DEF Claim, creationVars
<1>3. \/ /\ accepts /\ unexplained' = unexplained
         /\ process' = [process EXCEPT !.left[card] = @ - 1, !.redeemed = @ + 1]
         /\ supply' = [supply EXCEPT ![card] = @ + 1]
         /\ owned' = [owned EXCEPT ![card] = @ + 1]
      \/ /\ ~accepts /\ process' = process /\ supply' = supply /\ owned' = owned
         /\ unexplained' = (unexplained \/ ~disturbed)
  BY DEF Claim, Refused, chainVars, ClaimAccepted, Printed
<1>4. /\ todo \in Seq(Claims) /\ card \in Items
      /\ process \in Processes /\ supply \in [Items -> Nat] /\ owned \in [Items -> Nat]
      /\ process.redeemed \in Nat
  <2>1. todo \in Seq(Claims)
    BY <1>1, <1>2, CallParts
  <2>2. Head(todo) \in Claims
    BY <1>2, <2>1, HeadAndTail
  <2>3. process \in Processes /\ supply \in [Items -> Nat] /\ owned \in [Items -> Nat]
    BY <1>1 DEF ChainTyped
  <2>. QED  BY <2>1, <2>2, <2>3, ProcessParts DEF Claims
<1>5. ASSUME ~disturbed
      PROVE  /\ OneByOne /\ Claiming(c) /\ \A d \in Calls : d # c => calls[d].at = "idle"
             /\ Covering(todo) /\ Within(todo) /\ Ordered(todo) /\ accepts
  <2>1. OneByOne
    BY <1>5 DEF OpeningInv
  <2>2. Phase(c) /\ \A d \in Calls : d # c => calls[d].at = "idle"
    BY <1>2, <2>1, Alone
  <2>3. Claiming(c) /\ Covering(todo) /\ Within(todo) /\ Ordered(todo)
    BY <1>2, <2>2 DEF Phase, Claiming
  <2>4. accepts
    BY <1>2, <1>4, <2>3, NextEdition
  <2>. QED  BY <2>1, <2>2, <2>3, <2>4
<1>6. /\ CallsTyped' /\ calls'[c].at = "claim" /\ calls'[c].todo = Tail(todo)
      /\ \A d \in Calls : d # c => calls'[d] = calls[d]
  BY <1>1, <1>2, Passed1Is
<1>. HIDE DEF card, accepts
<1>7. /\ ChainTyped' /\ ~unexplained' /\ unexplained' \in BOOLEAN /\ process.redeemed <= process'.redeemed
      /\ ~disturbed => /\ process'.redeemed = process.redeemed + 1 /\ Total(process') = Total(process)
                       /\ process'.left = [process.left EXCEPT ![card] = @ - 1]
                       /\ supply' = [supply EXCEPT ![card] = @ + 1]
                       /\ owned' = [owned EXCEPT ![card] = @ + 1]
  <2>1. CASE /\ accepts /\ unexplained' = unexplained
             /\ process' = [process EXCEPT !.left[card] = @ - 1, !.redeemed = @ + 1]
             /\ supply' = [supply EXCEPT ![card] = @ + 1]
             /\ owned' = [owned EXCEPT ![card] = @ + 1]
    <3>1. process.left[card] > 0
      BY <2>1 DEF accepts
    <3>2. /\ ChainTyped' /\ process'.redeemed = process.redeemed + 1 /\ Total(process') = Total(process)
          /\ process'.left = [process.left EXCEPT ![card] = @ - 1]
      BY <1>1, <1>4, <2>1, <3>1, ClaimKeeps
    <3>. QED  BY <1>1, <1>4, <2>1, <3>2
  <2>2. CASE /\ ~accepts /\ process' = process /\ supply' = supply /\ owned' = owned
             /\ unexplained' = (unexplained \/ ~disturbed)
    <3>1. disturbed
      BY <1>5, <2>2
    <3>2. ChainTyped'
      BY <1>1, <2>2 DEF ChainTyped
    <3>3. ~unexplained' /\ unexplained' \in BOOLEAN
      BY <1>1, <2>2, <3>1
    <3>. QED  BY <1>4, <2>2, <3>1, <3>2, <3>3
  <2>3. QED
    <3>1. \/ /\ accepts /\ unexplained' = unexplained
             /\ process' = [process EXCEPT !.left[card] = @ - 1, !.redeemed = @ + 1]
             /\ supply' = [supply EXCEPT ![card] = @ + 1]
             /\ owned' = [owned EXCEPT ![card] = @ + 1]
          \/ /\ ~accepts /\ process' = process /\ supply' = supply /\ owned' = owned
             /\ unexplained' = (unexplained \/ ~disturbed)
      BY <1>3 DEF accepts, card
    <3>. QED  BY <2>1, <2>2, <3>1
<1>8. PollTyped' /\ PageTyped'
  BY <1>1, <1>2 DEF PollTyped, PageTyped, Exhausted
<1>9. Known'
  <2>1. page \in PageStates /\ poll.answer \in Processes
    BY <1>1, PollParts DEF PageTyped
  <2>2. page.process.redeemed \in Nat /\ page.bound.redeemed \in Nat /\ poll.answer.redeemed \in Nat
    BY <2>1, PageParts, ProcessParts
  <2>3. process'.redeemed \in Nat
    <3>1. process' \in Processes
      BY <1>7 DEF ChainTyped
    <3>2. PICK q \in Processes : q = process'
      BY <3>1
    <3>. QED  BY <3>2, ProcessParts
  <2>. QED  BY <1>1, <1>2, <1>4, <1>7, <2>2, <2>3 DEF Known
<1>10. Opening'
  <2>1. c \in Running
    BY <1>2 DEF Running
  <2>. QED  BY <1>1, <1>2, <2>1 DEF Opening, OnPage
<1>11. OpeningTyped' /\ ~unexplained'
  <2>1. disturbed' \in BOOLEAN
    BY <1>1, <1>2
  <2>. QED  BY <1>6, <1>7, <1>8, <1>9, <1>10, <2>1 DEF OpeningTyped
<1>12. ASSUME ~disturbed' PROVE OneByOne'
  <2>1. ~disturbed
    BY <1>2, <1>12
  <2>2. /\ OneByOne /\ Claiming(c) /\ (\A d \in Calls : d # c => calls[d].at = "idle")
        /\ Covering(todo) /\ Within(todo) /\ Ordered(todo) /\ Aligned(todo) /\ Total(process) = Allowed
    BY <1>5, <2>1 DEF Claiming
  <2>3. /\ process'.redeemed = process.redeemed + 1 /\ Total(process') = Total(process)
        /\ process'.left = [process.left EXCEPT ![card] = @ - 1]
        /\ supply' = [supply EXCEPT ![card] = @ + 1]
        /\ owned' = [owned EXCEPT ![card] = @ + 1]
    BY <1>7, <2>1
  <2>4. /\ 1 \in DOMAIN todo /\ Head(todo) = todo[1] /\ Len(todo) \in Nat /\ Len(todo) >= 1
        /\ Tail(todo) \in Seq(Claims) /\ Len(Tail(todo)) = Len(todo) - 1
        /\ \A k \in DOMAIN Tail(todo) : k \in Nat /\ k + 1 \in DOMAIN todo /\ Tail(todo)[k] = todo[k + 1]
    BY <1>2, <1>4, HeadAndTail
  <2>5. Covering(Tail(todo))' /\ Within(Tail(todo))' /\ Ordered(Tail(todo))'
    BY <1>2, <1>4, <2>2, <2>3, RestOfClaims DEF card
  <2>6. Aligned(Tail(todo))'
    <3>. SUFFICES ASSUME Len(page.queue) = Allowed
                  PROVE  /\ Len(Tail(todo)) = Allowed - process'.redeemed
                         /\ \A k \in DOMAIN Tail(todo) : Tail(todo)[k].card = page.queue[process'.redeemed + k]
      BY <1>2 DEF Aligned
    <3>1. Len(todo) = Allowed - process.redeemed
          /\ \A k \in DOMAIN todo : todo[k].card = page.queue[process.redeemed + k]
      BY <2>2 DEF Aligned
    <3>2. ASSUME NEW k \in DOMAIN Tail(todo) PROVE Tail(todo)[k].card = page.queue[process'.redeemed + k]
      <4>1. process'.redeemed + k = process.redeemed + (k + 1)
        <5>. PICK m \in Nat : m = k
          BY <2>4
        <5>. PICK r \in Nat : r = process.redeemed
          BY <1>4
        <5>1. process'.redeemed = r + 1
          BY <2>3
        <5>. QED  BY <5>1
      <4>. QED  BY <2>4, <3>1, <4>1
    <3>3. Len(Tail(todo)) = Allowed - process'.redeemed
      BY <1>4, <2>3, <2>4, <3>1, Constants
    <3>. QED  BY <3>2, <3>3
  <2>7. Phase(c)'
    <3>1. Total(process)' = Total(process')
      BY DEF Total, Requested
    <3>2. Claiming(c)'
      BY <1>6, <2>2, <2>3, <2>5, <2>6, <3>1 DEF Claiming, Covering, Within, Ordered, Aligned
    <3>. QED  BY <1>6, <3>2 DEF Phase
  <2>8. \A d \in Calls : d # c => calls'[d].at = "idle"
    BY <1>6, <2>2
  <2>9. NoneHangs' /\ Single' /\ (\A d \in Running : Phase(d))'
    BY <1>6, <2>7, <2>8, StillAlone
  <2>10. Informed'
    <3>1. page \in PageStates /\ poll.answer \in Processes
      BY <1>1, PollParts DEF PageTyped
    <3>2. page.process.redeemed \in Nat /\ poll.answer.redeemed \in Nat
      BY <3>1, PageParts, ProcessParts
    <3>3. page.process.redeemed < process'.redeemed /\ poll.answer.redeemed < process'.redeemed
      BY <1>1, <1>4, <2>3, <3>2 DEF Known
    <3>. QED  BY <1>2, <1>4, <2>3, <3>2, <3>3 DEF Informed, Past
  <2>11. Resting'
    <3>1. c \in Running'
      BY <1>6 DEF Running
    <3>. QED  BY <3>1 DEF Resting
  <2>12. Followed'
    <3>1. Followed
      BY <2>2 DEF OneByOne
    <3>2. Len(page.queue) = Allowed => page.queue[process.redeemed + 1] = card
      BY <2>2, <2>4 DEF Aligned, card
    <3>3. process.redeemed + 1 <= Allowed
      <4>1. PICK q \in Processes : q = process'
        BY <1>7 DEF ChainTyped
      <4>2. Total(q) = Requested(q) + q.redeemed /\ Requested(q) \in Nat /\ q.redeemed \in Nat /\ Total(q) <= Allowed
        BY ProcessParts
      <4>. QED  BY <2>3, <4>1, <4>2, Constants
    <3>. QED  BY <1>2, <1>4, <2>3, <3>1, <3>2, <3>3, FollowedOn
  <2>. QED  BY <2>9, <2>10, <2>11, <2>12 DEF OneByOne
<1>. QED  BY <1>11, <1>12 DEF OpeningInv

\* All claims are answered.
LEMMA ClaimsEndKeeps ==
  ASSUME OpeningInv, NEW c \in Calls, ClaimsEnd(c)
  PROVE  OpeningInv'
<1>1. /\ ChainTyped /\ CallsTyped /\ PageTyped /\ PollTyped /\ Known /\ Opening
      /\ disturbed \in BOOLEAN /\ unexplained \in BOOLEAN /\ ~unexplained
  BY DEF OpeningInv, OpeningTyped
<1>2. /\ process' = process /\ supply' = supply /\ owned' = owned /\ seller' = seller /\ poll' = poll
      /\ unexplained' = unexplained /\ disturbed' = disturbed
      /\ calls[c].at = "claim" /\ calls[c].todo = <<>>
      /\ page' = [page EXCEPT !.polling = FALSE]
      /\ calls' = [calls EXCEPT ![c].at = "last"]
  BY DEF ClaimsEnd, chainVars, creationVars
<1>3. process \in Processes /\ supply \in [Items -> Nat] /\ page \in PageStates
  BY <1>1 DEF ChainTyped, PageTyped
<1>4. /\ page' \in PageStates
      /\ page'.at = page.at /\ page'.process = page.process /\ page'.supply = page.supply /\ page'.modal = page.modal
      /\ page'.bound = page.bound /\ page'.queue = page.queue /\ ~page'.polling
  <2>1. QuietPage(page, [page EXCEPT !.polling = FALSE])
    BY <1>3, PagePolling
  <2>. QED  BY <1>2, <2>1 DEF QuietPage
<1>5. CallsTyped' /\ calls'[c].at = "last" /\ \A d \in Calls : d # c => calls'[d] = calls[d]
  BY <1>1, <1>2, LastIs
<1>6. ChainTyped' /\ PollTyped' /\ PageTyped' /\ Known'
  <2>1. ChainTyped' /\ PollTyped'
    BY <1>1, <1>2 DEF ChainTyped, PollTyped
  <2>2. PageTyped' /\ Known'
    BY <1>1, <1>2, <1>4 DEF PageTyped, Known, Exhausted
  <2>. QED  BY <2>1, <2>2
<1>7. Opening'
  <2>1. c \in Running
    BY <1>2 DEF Running
  <2>. QED  BY <1>1, <1>2, <1>4, <2>1 DEF Opening, OnPage
<1>8. OpeningTyped' /\ ~unexplained'
  <2>1. disturbed' \in BOOLEAN /\ unexplained' \in BOOLEAN
    BY <1>1, <1>2
  <2>. QED  BY <1>1, <1>2, <1>5, <1>6, <1>7, <2>1 DEF OpeningTyped
<1>9. ASSUME ~disturbed' PROVE OneByOne'
  <2>1. OneByOne
    BY <1>2, <1>9 DEF OpeningInv
  <2>2. Phase(c) /\ \A d \in Calls : d # c => calls[d].at = "idle"
    BY <1>2, <2>1, Alone
  <2>3. Covering(calls[c].todo) /\ Total(process) = Allowed
    BY <1>2, <2>2 DEF Phase, Claiming
  <2>4. Exhausted(process)
    <3>1. ASSUME NEW i \in Items, process.left[i] > 0 PROVE FALSE
      <4>1. supply[i] \in Nat /\ process.left[i] \in Nat
        BY <1>3, ProcessParts
      <4>2. supply[i] + 1 \in (supply[i] + 1) .. (supply[i] + process.left[i])
        BY <3>1, <4>1
      <4>3. \E k \in DOMAIN calls[c].todo : TRUE
        BY <2>3, <4>2 DEF Covering
      <4>. QED  BY <1>2, <4>3
    <3>2. Requested(process) = 0
      BY <1>3, <3>1, ProcessParts
    <3>. QED  BY <1>3, <2>3, <3>2, ProcessParts DEF Exhausted
  <2>5. Phase(c)'
    BY <1>2, <1>5, <2>4 DEF Phase, Exhausted
  <2>6. \A d \in Calls : d # c => calls'[d].at = "idle"
    BY <1>5, <2>2
  <2>7. NoneHangs' /\ Single' /\ (\A d \in Running : Phase(d))'
    BY <1>5, <2>5, <2>6, StillAlone
  <2>8. Informed'
    <3>1. \A d \in Calls : calls[d].at # "request"
      BY <1>2, <2>2
    <3>2. (OnPage => Past(page.process)) /\ (poll.reading => Past(poll.answer))
      BY <2>1, <3>1 DEF OneByOne, Informed
    <3>. QED  BY <1>2, <1>4, <3>2 DEF Informed, Past, OnPage
  <2>9. Resting'
    <3>1. c \in Running'
      BY <1>5 DEF Running
    <3>. QED  BY <3>1 DEF Resting
  <2>10. Followed'
    <3>1. Followed
      BY <2>1 DEF OneByOne
    <3>. QED  BY <1>2, <1>4, <3>1 DEF Followed, QueueOwned
  <2>. QED  BY <2>7, <2>8, <2>9, <2>10 DEF OneByOne
<1>. QED  BY <1>8, <1>9 DEF OpeningInv

\* The process is read once more, and the call is over.
LEMMA LastFetchKeeps ==
  ASSUME OpeningInv, NEW c \in Calls, LastFetch(c)
  PROVE  OpeningInv'
<1>1. /\ ChainTyped /\ CallsTyped /\ PageTyped /\ PollTyped /\ Known /\ Opening
      /\ disturbed \in BOOLEAN /\ unexplained \in BOOLEAN /\ ~unexplained
  BY DEF OpeningInv, OpeningTyped
<1>2. /\ process' = process /\ supply' = supply /\ owned' = owned /\ seller' = seller /\ poll' = poll
      /\ unexplained' = unexplained /\ disturbed' = disturbed /\ calls[c].at = "last"
      /\ page' = [page EXCEPT !.process = process]
      /\ calls' = [calls EXCEPT ![c] = Idle]
  BY DEF LastFetch, chainVars, creationVars
<1>3. process \in Processes /\ page \in PageStates /\ process.redeemed \in Nat
  BY <1>1, ProcessParts DEF ChainTyped, PageTyped
<1>4. /\ page' \in PageStates
      /\ page'.at = page.at /\ page'.process = process /\ page'.supply = page.supply /\ page'.modal = page.modal
      /\ page'.bound = page.bound /\ page'.queue = page.queue /\ page'.polling = page.polling
  <2>1. ProcessPage(page, [page EXCEPT !.process = process], process)
    BY <1>3, PageProcess
  <2>. QED  BY <1>2, <2>1 DEF ProcessPage
<1>5. CallsTyped' /\ calls'[c].at = "idle" /\ \A d \in Calls : d # c => calls'[d] = calls[d]
  <2>1. Idle \in CallStates /\ Idle.at = "idle"
    BY IdleIs
  <2>2. CallsTyped' /\ OnlyChanges(c, Idle)
    BY <1>1, <1>2, <2>1, CallSet
  <2>. QED  BY <2>1, <2>2 DEF OnlyChanges
<1>6. ChainTyped' /\ PollTyped' /\ PageTyped' /\ Known'
  <2>1. ChainTyped' /\ PollTyped'
    BY <1>1, <1>2 DEF ChainTyped, PollTyped
  <2>2. PageTyped'
    BY <1>1, <1>4 DEF PageTyped, Exhausted
  <2>3. Known'
    BY <1>1, <1>2, <1>3, <1>4 DEF Known
  <2>. QED  BY <2>1, <2>2, <2>3
<1>7. Opening'
  <2>1. c \in Running
    BY <1>2 DEF Running
  <2>. QED  BY <1>1, <1>2, <1>4, <2>1 DEF Opening, OnPage
<1>8. OpeningTyped' /\ ~unexplained'
  <2>1. disturbed' \in BOOLEAN /\ unexplained' \in BOOLEAN
    BY <1>1, <1>2
  <2>. QED  BY <1>1, <1>2, <1>5, <1>6, <1>7, <2>1 DEF OpeningTyped
<1>9. ASSUME ~disturbed' PROVE OneByOne'
  <2>1. OneByOne
    BY <1>2, <1>9 DEF OpeningInv
  <2>2. Phase(c) /\ \A d \in Calls : d # c => calls[d].at = "idle"
    BY <1>2, <2>1, Alone
  <2>3. Exhausted(process)
    BY <1>2, <2>2 DEF Phase
  <2>4. \A d \in Calls : d # c => calls'[d].at = "idle"
    BY <1>5, <2>2
  <2>5. NoneHangs' /\ Single' /\ (\A d \in Running : Phase(d))'
    BY <1>5, <2>4, StillAlone
  <2>6. Informed'
    <3>1. \A d \in Calls : calls[d].at # "request"
      BY <1>2, <2>2
    <3>2. poll.reading => Past(poll.answer)
      BY <2>1, <3>1 DEF OneByOne, Informed
    <3>. QED  BY <1>2, <1>4, <3>2 DEF Informed, Past
  <2>7. Resting'
    BY <1>2, <1>4, <2>3 DEF Resting, Exhausted
  <2>8. Followed'
    <3>1. Followed
      BY <2>1 DEF OneByOne
    <3>. QED  BY <1>2, <1>4, <3>1 DEF Followed, QueueOwned
  <2>. QED  BY <2>5, <2>6, <2>7, <2>8 DEF OneByOne
<1>. QED  BY <1>8, <1>9 DEF OpeningInv

\* A transaction is lost.
LEMMA LostKeeps ==
  ASSUME OpeningInv, NEW c \in Calls, Lost(c)
  PROVE  OpeningInv'
<1>1. /\ ChainTyped /\ CallsTyped /\ PageTyped /\ PollTyped /\ Known /\ Opening
      /\ disturbed \in BOOLEAN /\ unexplained \in BOOLEAN /\ ~unexplained
  BY DEF OpeningInv, OpeningTyped
<1>2. /\ process' = process /\ supply' = supply /\ owned' = owned /\ seller' = seller /\ poll' = poll
      /\ page' = page /\ unexplained' = unexplained /\ disturbed' = TRUE
      /\ calls[c].at \in {"request", "claim"} /\ calls[c].todo # <<>> /\ (Ended(c) \/ Passed1(c))
  BY DEF Lost, Under, Fault, chainVars
<1>3. CallsTyped' /\ c \in Running
  BY <1>1, <1>2, EndedIs, Passed1Is DEF Running
<1>4. ChainTyped' /\ PollTyped' /\ PageTyped' /\ Known' /\ Opening'
  BY <1>1, <1>2, <1>3 DEF ChainTyped, PollTyped, PageTyped, Known, Exhausted, Opening, OnPage
<1>. QED  BY <1>1, <1>2, <1>3, <1>4 DEF OpeningInv, OpeningTyped

\* A transaction expires.
LEMMA ExpiresKeeps ==
  ASSUME OpeningInv, NEW c \in Calls, Expires(c)
  PROVE  OpeningInv'
<1>. DEFINE x == [Idle EXCEPT !.at = "hung"]
<1>1. /\ ChainTyped /\ CallsTyped /\ PageTyped /\ PollTyped /\ Known /\ Opening
      /\ disturbed \in BOOLEAN /\ unexplained \in BOOLEAN /\ ~unexplained
  BY DEF OpeningInv, OpeningTyped
<1>2. /\ process' = process /\ supply' = supply /\ owned' = owned /\ seller' = seller /\ poll' = poll
      /\ page' = page /\ unexplained' = unexplained /\ disturbed' = TRUE
      /\ calls[c].at \in {"request", "claim"} /\ calls' = [calls EXCEPT ![c] = x]
  BY DEF Expires, Under, Fault, chainVars
<1>3. x \in CallStates /\ x.at = "hung"
  BY IdleIs DEF CallStates, Idle
<1>. HIDE DEF x
<1>4. CallsTyped' /\ c \in Running
  <2>1. CallsTyped'
    BY <1>1, <1>2, <1>3, CallSet
  <2>. QED  BY <1>2, <2>1 DEF Running
<1>5. ChainTyped' /\ PollTyped' /\ PageTyped' /\ Known' /\ Opening'
  BY <1>1, <1>2, <1>4 DEF ChainTyped, PollTyped, PageTyped, Known, Exhausted, Opening, OnPage
<1>. QED  BY <1>1, <1>2, <1>4, <1>5 DEF OpeningInv, OpeningTyped

\* The wallet declines.
LEMMA DeclinesKeeps ==
  ASSUME OpeningInv, NEW c \in Calls, Declines(c)
  PROVE  OpeningInv'
<1>1. /\ ChainTyped /\ CallsTyped /\ PageTyped /\ PollTyped /\ Known /\ Opening
      /\ disturbed \in BOOLEAN /\ unexplained \in BOOLEAN /\ ~unexplained
  BY DEF OpeningInv, OpeningTyped
<1>2. /\ process' = process /\ supply' = supply /\ owned' = owned /\ seller' = seller /\ poll' = poll
      /\ unexplained' = unexplained /\ disturbed' = TRUE
      /\ calls[c].at \in {"request", "claim"} /\ calls' = [calls EXCEPT ![c] = Idle]
      /\ page' = [page EXCEPT !.modal = "error", !.bound = NoProcess]
  BY DEF Declines, Under, Fault, chainVars
<1>3. process \in Processes /\ page \in PageStates /\ process.redeemed \in Nat
      /\ NoProcess \in Processes /\ NoProcess.redeemed = 0
  BY <1>1, ProcessParts, NoProcessIs DEF ChainTyped, PageTyped
<1>4. /\ page' \in PageStates
      /\ page'.at = page.at /\ page'.process = page.process /\ page'.supply = page.supply /\ page'.modal = "error"
      /\ page'.bound = NoProcess /\ page'.queue = page.queue /\ page'.polling = page.polling
  <2>1. ModalPage(page, [page EXCEPT !.modal = "error", !.bound = NoProcess], "error", NoProcess)
    BY <1>3, PageModal
  <2>. QED  BY <1>2, <2>1 DEF ModalPage
<1>5. CallsTyped' /\ c \in Running
  <2>1. Idle \in CallStates /\ Idle.at = "idle"
    BY IdleIs
  <2>2. CallsTyped'
    BY <1>1, <1>2, <2>1, CallSet
  <2>. QED  BY <1>2, <2>2 DEF Running
<1>6. ChainTyped' /\ PollTyped' /\ PageTyped'
  BY <1>1, <1>2, <1>4 DEF ChainTyped, PollTyped, PageTyped
<1>7. Known' /\ Opening'
  BY <1>1, <1>2, <1>3, <1>4, <1>5 DEF Known, Opening, OnPage
<1>. QED  BY <1>1, <1>2, <1>5, <1>6, <1>7 DEF OpeningInv, OpeningTyped

\* Another visitor claims a card.
LEMMA OtherClaimsKeeps ==
  ASSUME OpeningInv, NEW card \in Items, OtherClaims(card)
  PROVE  OpeningInv'
<1>1. /\ ChainTyped /\ CallsTyped /\ PageTyped /\ PollTyped /\ Known /\ Opening
      /\ disturbed \in BOOLEAN /\ unexplained \in BOOLEAN /\ ~unexplained
  BY DEF OpeningInv, OpeningTyped
<1>2. /\ process' = process /\ owned' = owned /\ seller' = seller /\ poll' = poll /\ calls' = calls
      /\ page' = page /\ unexplained' = unexplained /\ disturbed' = TRUE
      /\ supply' = [supply EXCEPT ![card] = @ + 1]
  BY DEF OtherClaims, creationVars
<1>3. ChainTyped'
  <2>1. supply \in [Items -> Nat]
    BY <1>1 DEF ChainTyped
  <2>2. supply' \in [Items -> Nat]
    BY <1>2, <2>1
  <2>. QED  BY <1>1, <1>2, <2>2 DEF ChainTyped
<1>4. CallsTyped' /\ PollTyped' /\ PageTyped' /\ Known' /\ Opening'
  BY <1>1, <1>2 DEF CallsTyped, PollTyped, PageTyped, Known, Exhausted, Opening, OnPage, Running
<1>. QED  BY <1>1, <1>2, <1>3, <1>4 DEF OpeningInv, OpeningTyped

\* Nothing happens to the visitor and to what was read.
LEMMA NothingHappens ==
  ASSUME OpeningInv,
         process' = process, supply' = supply, owned' = owned, seller' = seller, poll' = poll,
         calls' = calls, page' = page, unexplained' = unexplained, disturbed' = disturbed
  PROVE  OpeningInv'
<1>1. /\ ChainTyped /\ CallsTyped /\ PageTyped /\ PollTyped /\ Known /\ Opening
      /\ disturbed \in BOOLEAN /\ unexplained \in BOOLEAN /\ ~unexplained
  BY DEF OpeningInv, OpeningTyped
<1>3. ChainTyped' /\ CallsTyped' /\ PollTyped' /\ PageTyped' /\ Known' /\ Opening'
  BY <1>1 DEF ChainTyped, CallsTyped, PollTyped, PageTyped, Known, Exhausted, Opening, OnPage, Running
<1>4. ASSUME ~disturbed' PROVE OneByOne'
  <2>1. OneByOne
    BY <1>4 DEF OpeningInv
  <2>. QED  BY <2>1, SameOneByOne
<1>. QED  BY <1>1, <1>3, <1>4 DEF OpeningInv, OpeningTyped

\* Cards are drawn or printed for a caller that is gone: what is typed stays
\* typed, and nobody learns of more claimed cards than there are.
LEMMA LandingKeeps ==
  ASSUME OpeningInv, ChainTyped', process.redeemed <= process'.redeemed,
         seller' = seller, poll' = poll, calls' = calls, page' = page, unexplained' = unexplained,
         disturbed' = TRUE
  PROVE  OpeningInv'
<1>1. /\ ChainTyped /\ CallsTyped /\ PageTyped /\ PollTyped /\ Known /\ Opening
      /\ disturbed \in BOOLEAN /\ unexplained \in BOOLEAN /\ ~unexplained
  BY DEF OpeningInv, OpeningTyped
<1>2. CallsTyped' /\ PollTyped' /\ PageTyped' /\ Opening'
  BY <1>1 DEF CallsTyped, PollTyped, PageTyped, Exhausted, Opening, OnPage, Running
<1>3. Known'
  <2>1. page \in PageStates /\ poll.answer \in Processes
    BY <1>1, PollParts DEF PageTyped
  <2>2. page.process.redeemed \in Nat /\ page.bound.redeemed \in Nat /\ poll.answer.redeemed \in Nat
    BY <2>1, PageParts, ProcessParts
  <2>3. process.redeemed \in Nat
    BY <1>1, ProcessParts DEF ChainTyped
  <2>4. process'.redeemed \in Nat
    <3>1. PICK q \in Processes : q = process'
      BY DEF ChainTyped
    <3>. QED  BY <3>1, ProcessParts
  <2>. QED  BY <1>1, <2>2, <2>3, <2>4 DEF Known
<1>. QED  BY <1>1, <1>2, <1>3 DEF OpeningInv, OpeningTyped

\* A request in flight lands.
LEMMA RequestLandsKeeps ==
  ASSUME OpeningInv, NEW request, RequestLands(request)
  PROVE  OpeningInv'
<1>1. ChainTyped
  BY DEF OpeningInv, OpeningTyped
<1>2. /\ supply' = supply /\ owned' = owned /\ seller' = seller /\ poll' = poll /\ calls' = calls
      /\ page' = page /\ unexplained' = unexplained
  BY DEF RequestLands, creationVars
<1>3. CASE RequestAccepted(request.tx) /\ Drawn(request.tx) /\ disturbed' = TRUE
  <2>1. process' \in Processes /\ process'.redeemed = process.redeemed /\ process.redeemed \in Nat
    BY <1>1, <1>3, DrawsKeep, ProcessParts DEF Drawn, ChainTyped
  <2>2. ChainTyped'
    BY <1>1, <1>2, <2>1 DEF ChainTyped
  <2>3. process.redeemed <= process'.redeemed
    BY <2>1
  <2>. QED  BY <1>2, <1>3, <2>2, <2>3, LandingKeeps
<1>4. CASE UNCHANGED <<process, disturbed>>
  BY <1>2, <1>4, NothingHappens
<1>. QED  BY <1>3, <1>4 DEF RequestLands

\* A claim in flight lands.
LEMMA ClaimLandsKeeps ==
  ASSUME OpeningInv, FlyingTyped, NEW claim, ClaimLands(claim)
  PROVE  OpeningInv'
<1>1. ChainTyped /\ claim.tx.card \in Items
  BY DEF OpeningInv, OpeningTyped, FlyingTyped, ClaimLands
<1>2. /\ seller' = seller /\ poll' = poll /\ calls' = calls
      /\ page' = page /\ unexplained' = unexplained
  BY DEF ClaimLands, creationVars
<1>3. CASE ClaimAccepted(claim.tx) /\ Printed(claim.tx.card) /\ disturbed' = TRUE
  <2>1. PICK card \in Items : card = claim.tx.card
    BY <1>1
  <2>2. /\ process.left[card] > 0
        /\ process' = [process EXCEPT !.left[card] = @ - 1, !.redeemed = @ + 1]
        /\ supply' = [supply EXCEPT ![card] = @ + 1]
        /\ owned' = [owned EXCEPT ![card] = @ + 1]
    BY <1>3, <2>1 DEF ClaimAccepted, Printed
  <2>3. ChainTyped' /\ process'.redeemed = process.redeemed + 1
    BY <1>1, <2>2, ClaimKeeps
  <2>4. process.redeemed \in Nat
    BY <1>1, ProcessParts DEF ChainTyped
  <2>5. process.redeemed <= process'.redeemed
    BY <2>3, <2>4
  <2>. QED  BY <1>2, <1>3, <2>3, <2>5, LandingKeeps
<1>4. CASE UNCHANGED <<chainVars, disturbed>>
  <2>1. process' = process /\ supply' = supply /\ owned' = owned /\ disturbed' = disturbed
    BY <1>4 DEF chainVars
  <2>. QED  BY <1>2, <2>1, NothingHappens
<1>. QED  BY <1>3, <1>4 DEF ClaimLands

\* What a call leaves in flight is a claim of its list.
LEMMA CutOffTyped ==
  ASSUME OpeningInv, FlyingTyped, NEW cut \in SUBSET {c \in Calls : Under(c)}, CutOff(cut)
  PROVE  FlyingTyped'
<1>1. \A c \in Calls : calls[c].at = "claim" => calls[c].todo \in Seq(Claims)
  BY DEF OpeningInv, OpeningTyped, CallsTyped
<1>2. ASSUME NEW c \in cut, calls[c].at = "claim" PROVE Sent(c).tx.card \in Items
  <2>1. calls[c].todo \in Seq(Claims) /\ calls[c].todo # <<>>
    BY <1>1, <1>2 DEF Under
  <2>2. Head(calls[c].todo) \in Claims
    BY <2>1, HeadAndTail
  <2>3. Sent(c).tx = Head(calls[c].todo)
    BY DEF Sent
  <2>. QED  BY <2>2, <2>3 DEF Claims
<1>3. claimsLate' = claimsLate \cup {Sent(c) : c \in {d \in cut : calls[d].at = "claim"}}
  BY DEF CutOff
<1>. SUFFICES ASSUME NEW claim \in claimsLate' PROVE claim.tx.card \in Items
  BY DEF FlyingTyped
<1>4. CASE claim \in claimsLate
  BY <1>4 DEF FlyingTyped
<1>5. CASE claim \in {Sent(c) : c \in {d \in cut : calls[d].at = "claim"}}
  <2>1. PICK c \in cut : calls[c].at = "claim" /\ claim = Sent(c)
    BY <1>5
  <2>. QED  BY <1>2, <2>1
<1>. QED  BY <1>3, <1>4, <1>5

\* What is in flight stays typed.
LEMMA FlyingKeeps ==
  ASSUME OpeningInv, FlyingTyped, [Next]_vars
  PROVE  FlyingTyped'
<1>1. ASSUME claimsLate' = claimsLate \/ \E claim : claimsLate' = claimsLate \ {claim} PROVE FlyingTyped'
  BY <1>1 DEF FlyingTyped
<1>2. CASE /\ Creation /\ disturbed' = (disturbed \/ faults' # faults)
           /\ UNCHANGED <<chainVars, page, calls, poll, flying, others, unexplained>>
  BY <1>1, <1>2 DEF flying
<1>3. ASSUME NEW link \in Links, NEW found \in BOOLEAN, Visit(link, found) PROVE FlyingTyped'
  BY <1>1, <1>3 DEF Visit, flying
<1>4. ASSUME NEW link \in Links, NEW found \in BOOLEAN, Reload(link, found) PROVE FlyingTyped'
  <2>1. PICK cut \in SUBSET {c \in Calls : Under(c)} : CutOff(cut)
    BY <1>4 DEF Reload
  <2>. QED  BY <2>1, CutOffTyped
<1>5. CASE ClickRedeem \/ Close \/ PollStarts \/ PollAnswered
  BY <1>1, <1>5 DEF ClickRedeem, Close, PollStarts, PollAnswered, flying
<1>6. ASSUME NEW c \in Calls, ClickOpen(c) \/ Step(c) \/ Expires(c) \/ Declines(c) PROVE FlyingTyped'
  <2>1. CASE ClickOpen(c)
    BY <1>1, <2>1 DEF ClickOpen, flying
  <2>2. CASE Request(c)
    BY <1>1, <2>2 DEF Request, flying
  <2>3. CASE Claim(c)
    BY <1>1, <2>3 DEF Claim, flying
  <2>4. CASE Fetch(c) \/ ClaimsEnd(c) \/ LastFetch(c)
    BY <1>1, <2>4 DEF Fetch, ClaimsEnd, LastFetch, flying
  <2>5. CASE Expires(c) \/ Declines(c)
    BY <1>1, <2>5 DEF Expires, Declines, flying
  <2>. QED  BY <1>6, <2>1, <2>2, <2>3, <2>4, <2>5 DEF Step
<1>7. ASSUME NEW c \in Calls, Lost(c) PROVE FlyingTyped'
  <2>1. PICK cut \in SUBSET {c} : CutOff(cut)
    BY <1>7 DEF Lost
  <2>2. cut \in SUBSET {d \in Calls : Under(d)}
    BY <1>7, <2>1 DEF Lost
  <2>. QED  BY <2>1, <2>2, CutOffTyped
<1>8. ASSUME NEW request \in requestsLate, RequestLands(request) PROVE FlyingTyped'
  BY <1>1, <1>8 DEF RequestLands
<1>9. ASSUME NEW claim \in claimsLate, ClaimLands(claim) PROVE FlyingTyped'
  BY <1>1, <1>9 DEF ClaimLands
<1>10. ASSUME NEW card \in Items, OtherClaims(card) PROVE FlyingTyped'
  BY <1>1, <1>10 DEF OtherClaims, flying
<1>11. CASE UNCHANGED vars
  BY <1>1, <1>11 DEF vars, flying
<1>. QED  BY <1>2, <1>3, <1>4, <1>5, <1>6, <1>7, <1>8, <1>9, <1>10, <1>11 DEF Next

\* Nothing happens here.
LEMMA StutterKeeps ==
  ASSUME OpeningInv, UNCHANGED vars
  PROVE  OpeningInv'
BY NothingHappens DEF vars, chainVars, creationVars

-----------------------------------------------------------------------------
(* The opening at its start.                                                *)

LEMMA OpeningInit == Init => OpeningInv
<1>. SUFFICES ASSUME Init PROVE OpeningInv
  OBVIOUS
<1>1. /\ process = NoProcess /\ supply = Zero /\ owned = Zero /\ page = Away
      /\ calls = [c \in Calls |-> Idle] /\ poll = NoPoll /\ disturbed = FALSE /\ unexplained = FALSE
  BY DEF Init, InitOpening
<1>2. NoProcess \in Processes /\ NoProcess.redeemed = 0 /\ Zero \in [Items -> Nat] /\ Sum(Zero) = 0
  BY NoProcessIs, SumZero
<1>3. ChainTyped
  BY <1>1, <1>2 DEF ChainTyped
<1>4. CallsTyped /\ \A c \in Calls : calls[c].at = "idle"
  BY <1>1, IdleIs DEF CallsTyped
<1>5. PageTyped /\ page.bound.redeemed = 0 /\ page.process.redeemed = 0 /\ page.at = "away" /\ Len(page.queue) = 0
  BY <1>1, <1>2, AwayIs DEF PageTyped
<1>6. PollTyped /\ ~poll.reading /\ poll.answer.redeemed = 0
  BY <1>1, NoPollIs DEF PollTyped
<1>7. Known /\ Opening
  BY <1>1, <1>2, <1>4, <1>5, <1>6 DEF Known, Opening, OnPage, Running
<1>8. OneByOne
  <2>1. Allowed # 0
    BY Constants
  <2>2. NoneHangs /\ Single /\ (\A c \in Running : Phase(c)) /\ Informed /\ Resting
    BY <1>4, <1>5, <1>6 DEF NoneHangs, Single, Running, Informed, Resting, OnPage
  <2>3. Followed
    BY <1>5, <2>1 DEF Followed
  <2>. QED  BY <2>2, <2>3 DEF OneByOne
<1>. QED  BY <1>1, <1>3, <1>4, <1>5, <1>6, <1>7, <1>8 DEF OpeningInv, OpeningTyped

-----------------------------------------------------------------------------
(* The theorems.                                                            *)

\* The visitor's steps leave the pack to the seller.
LEMMA LeavesPack ==
  ASSUME OpeningInv,
         \/ \E link \in Links, found \in BOOLEAN : Visit(link, found) \/ Reload(link, found)
         \/ ClickRedeem \/ Close \/ PollStarts \/ PollAnswered
         \/ \E c \in Calls : ClickOpen(c) \/ Step(c) \/ Lost(c) \/ Expires(c) \/ Declines(c)
         \/ \E request \in requestsLate : RequestLands(request)
         \/ \E claim \in claimsLate : ClaimLands(claim)
         \/ \E card \in Items : OtherClaims(card)
  PROVE  /\ pack' = pack /\ seller' = seller /\ faults' \in {faults, faults + 1}
         /\ disturbed => disturbed'
<1>1. ASSUME NEW link \in Links, NEW found \in BOOLEAN, Visit(link, found) \/ Reload(link, found)
      PROVE  pack' = pack /\ seller' = seller /\ faults' \in {faults, faults + 1} /\ (disturbed => disturbed')
  BY <1>1 DEF Visit, Reload, Load
<1>2. ASSUME ClickRedeem \/ Close \/ PollStarts \/ PollAnswered
      PROVE  pack' = pack /\ seller' = seller /\ faults' \in {faults, faults + 1} /\ (disturbed => disturbed')
  <2>1. CASE ClickRedeem \/ Close \/ PollStarts
    BY <2>1 DEF ClickRedeem, Close, PollStarts, creationVars
  <2>2. CASE PollAnswered
    BY <2>2 DEF PollAnswered, creationVars
  <2>. QED  BY <1>2, <2>1, <2>2
<1>3. ASSUME NEW c \in Calls, ClickOpen(c) \/ Step(c) \/ Lost(c) \/ Expires(c) \/ Declines(c)
      PROVE  pack' = pack /\ seller' = seller /\ faults' \in {faults, faults + 1} /\ (disturbed => disturbed')
  <2>1. CASE ClickOpen(c)
    BY <2>1 DEF ClickOpen
  <2>2. CASE Step(c)
    <3>1. UNCHANGED creationVars /\ disturbed' = disturbed
      <4>1. CASE Request(c)
        BY <4>1 DEF Request
      <4>2. CASE Fetch(c)
        BY <4>2 DEF Fetch
      <4>3. CASE Claim(c)
        BY <4>3 DEF Claim
      <4>4. CASE ClaimsEnd(c) \/ LastFetch(c)
        BY <4>4 DEF ClaimsEnd, LastFetch
      <4>. QED  BY <2>2, <4>1, <4>2, <4>3, <4>4 DEF Step
    <3>. QED  BY <3>1 DEF creationVars
  <2>3. CASE Lost(c) \/ Expires(c) \/ Declines(c)
    BY <2>3 DEF Lost, Expires, Declines, Fault
  <2>. QED  BY <1>3, <2>1, <2>2, <2>3
<1>4. ASSUME NEW card \in Items, OtherClaims(card)
      PROVE  pack' = pack /\ seller' = seller /\ faults' \in {faults, faults + 1} /\ (disturbed => disturbed')
  BY <1>4 DEF OtherClaims, creationVars
<1>5. ASSUME NEW request \in requestsLate, RequestLands(request)
      PROVE  pack' = pack /\ seller' = seller /\ faults' \in {faults, faults + 1} /\ (disturbed => disturbed')
  BY <1>5 DEF RequestLands, creationVars
<1>6. ASSUME NEW claim \in claimsLate, ClaimLands(claim)
      PROVE  pack' = pack /\ seller' = seller /\ faults' \in {faults, faults + 1} /\ (disturbed => disturbed')
  BY <1>6 DEF ClaimLands, creationVars
<1>. QED  BY <1>1, <1>2, <1>3, <1>4, <1>5, <1>6

\* Every step keeps the inductive invariant.
LEMMA PackSteps == PackInv /\ [Next]_vars => PackInv'
<1>. SUFFICES ASSUME PackInv, [Next]_vars PROVE PackInv'
  OBVIOUS
<1>1. CreationInv /\ OpeningInv /\ FlyingTyped /\ disturbed \in BOOLEAN
  BY DEF PackInv, OpeningInv, OpeningTyped
<1>5. FlyingTyped'
  BY <1>1, FlyingKeeps
<1>2. CASE /\ Creation /\ disturbed' = (disturbed \/ faults' # faults)
           /\ UNCHANGED <<chainVars, page, calls, poll, flying, others, unexplained>>
  <2>1. CreationInv'
    BY <1>1, <1>2, CreationSteps
  <2>2. OpeningInv'
    BY <1>1, <1>2, CreationKeeps
  <2>. QED  BY <1>5, <2>1, <2>2 DEF PackInv
<1>3. CASE \/ \E link \in Links, found \in BOOLEAN : Visit(link, found) \/ Reload(link, found)
           \/ ClickRedeem \/ Close \/ PollStarts \/ PollAnswered
           \/ \E c \in Calls : ClickOpen(c) \/ Step(c) \/ Lost(c) \/ Expires(c) \/ Declines(c)
           \/ \E request \in requestsLate : RequestLands(request)
           \/ \E claim \in claimsLate : ClaimLands(claim)
           \/ \E card \in Items : OtherClaims(card)
  <2>1. CreationInv'
    BY <1>1, <1>3, LeavesPack, OpeningKeepsCreation
  <2>2. ASSUME NEW link \in Links, NEW found \in BOOLEAN, Visit(link, found) \/ Reload(link, found)
        PROVE  OpeningInv'
    BY <1>1, <2>2, LoadKeeps DEF Visit, Reload
  <2>3. ASSUME ClickRedeem \/ Close \/ PollStarts \/ PollAnswered PROVE OpeningInv'
    BY <1>1, <2>3, ClickRedeemKeeps, CloseKeeps, PollStartsKeeps, PollAnsweredKeeps
  <2>4. ASSUME NEW c \in Calls, ClickOpen(c) \/ Step(c) \/ Lost(c) \/ Expires(c) \/ Declines(c)
        PROVE  OpeningInv'
    <3>1. CASE ClickOpen(c)
      BY <1>1, <3>1, ClickOpenKeeps
    <3>2. CASE Request(c)
      BY <1>1, <3>2, RequestKeeps
    <3>3. CASE Fetch(c)
      BY <1>1, <3>3, FetchKeeps
    <3>4. CASE Claim(c)
      BY <1>1, <3>4, ClaimStepKeeps
    <3>5. CASE ClaimsEnd(c)
      BY <1>1, <3>5, ClaimsEndKeeps
    <3>6. CASE LastFetch(c)
      BY <1>1, <3>6, LastFetchKeeps
    <3>7. CASE Lost(c)
      BY <1>1, <3>7, LostKeeps
    <3>8. CASE Expires(c)
      BY <1>1, <3>8, ExpiresKeeps
    <3>9. CASE Declines(c)
      BY <1>1, <3>9, DeclinesKeeps
    <3>. QED  BY <2>4, <3>1, <3>2, <3>3, <3>4, <3>5, <3>6, <3>7, <3>8, <3>9 DEF Step
  <2>5. ASSUME NEW card \in Items, OtherClaims(card) PROVE OpeningInv'
    BY <1>1, <2>5, OtherClaimsKeeps
  <2>7. ASSUME NEW request \in requestsLate, RequestLands(request) PROVE OpeningInv'
    BY <1>1, <2>7, RequestLandsKeeps
  <2>8. ASSUME NEW claim \in claimsLate, ClaimLands(claim) PROVE OpeningInv'
    BY <1>1, <2>8, ClaimLandsKeeps
  <2>6. OpeningInv'
    BY <1>3, <2>2, <2>3, <2>4, <2>5, <2>7, <2>8
  <2>. QED  BY <1>5, <2>1, <2>6 DEF PackInv
<1>4. CASE UNCHANGED vars
  <2>1. CreationInv'
    <3>1. pack' = pack /\ seller' = seller /\ faults' = faults /\ disturbed' = disturbed
      BY <1>4 DEF vars, creationVars
    <3>. QED  BY <1>1, <3>1, OpeningKeepsCreation
  <2>2. OpeningInv'
    BY <1>1, <1>4, StutterKeeps
  <2>. QED  BY <1>5, <2>1, <2>2 DEF PackInv
<1>. QED  BY <1>2, <1>3, <1>4 DEF Next

\* PackInv is an inductive invariant of the opening of packs.
THEOREM PackInvariant == Spec => []PackInv
<1>1. Init => PackInv
  BY CreationInit, OpeningInit DEF PackInv, FlyingTyped, Init, InitOpening
<1>. QED  BY <1>1, PackSteps, PTL DEF Spec

\* A pack made undisturbed is whole, and a visitor whom nothing disturbed has no
\* transaction refused, with any sizes of chunks and batches, any number of cards
\* and any number of calls.
THEOREM NothingRefusedUnexplained == Spec => []UndisturbedAccepted
<1>1. PackInv => UndisturbedAccepted
  <2>. SUFFICES ASSUME PackInv PROVE UndisturbedAccepted
    OBVIOUS
  <2>1. CreatedWhole
    BY CreationWhole DEF PackInv
  <2>2. ChainTyped /\ CallsTyped /\ PageTyped /\ ~unexplained
    BY DEF PackInv, OpeningInv, OpeningTyped
  <2>3. process \in Processes /\ page \in PageStates
    BY <2>2 DEF ChainTyped, PageTyped
  <2>4. process.left \in [Items -> 0 .. Allowed] /\ process.redeemed \in 0 .. Allowed
    <3>1. /\ process.left \in [Items -> Nat] /\ process.redeemed \in Nat
          /\ Requested(process) \in Nat /\ Requested(process) + process.redeemed <= Allowed
          /\ \A i \in Items : process.left[i] \in Nat /\ process.left[i] <= Requested(process)
      BY <2>3, ProcessParts
    <3>2. \A i \in Items : process.left[i] \in 0 .. Allowed
      BY <3>1, Constants
    <3>3. process.redeemed \in 0 .. Allowed
      BY <3>1, Constants
    <3>. QED  BY <3>1, <3>2, <3>3
  <2>5. page.at \in {"away", "pack"} /\ page.modal \in {"initial", "approval", "claiming", "error"}
    BY <2>3, PageParts
  <2>6. \A c \in Calls : calls[c].at \in {"idle", "request", "claim", "last", "hung"}
    BY <2>2, CallParts
  <2>7. Sum(owned) = process.redeemed
    BY <2>2 DEF ChainTyped
  <2>. QED  BY <2>1, <2>2, <2>4, <2>5, <2>6, <2>7 DEF UndisturbedAccepted, TypeOK
<1>. QED  BY <1>1, PackInvariant, PTL

\* When a pack is opened in one go, the cards that can have been shown are the
\* visitor's, at every moment, however the listener's answers fall between the
\* claims.
THEOREM CardsShownAreOwned == Spec => []ShownAreClaimed
<1>1. PackInv => ShownAreClaimed
  <2>. SUFFICES ASSUME PackInv, ~disturbed, Len(page.queue) = Allowed, NEW i \in Items
                PROVE  Cardinality({k \in Shown : page.queue[k] = i}) <= owned[i]
    BY DEF ShownAreClaimed
  <2>1. /\ ChainTyped /\ PageTyped /\ Known /\ Followed
    BY DEF PackInv, OpeningInv, OpeningTyped, OneByOne
  <2>2. process \in Processes /\ page \in PageStates /\ page.process \in Processes /\ owned[i] \in Nat
    BY <2>1, PageParts DEF ChainTyped, PageTyped
  <2>3. /\ page.process.redeemed \in Nat /\ process.redeemed \in Nat
        /\ page.process.redeemed <= process.redeemed /\ process.redeemed <= Allowed /\ Allowed \in Nat
        /\ Cardinality(QueueOwned(i)) <= owned[i]
    BY <2>1, <2>2, ProcessParts, Constants DEF Known, Followed
  <2>4. Min({page.process.redeemed, Len(page.queue)}) = page.process.redeemed
    BY <2>3 DEF Min
  <2>. DEFINE shown == {k \in Shown : page.queue[k] = i}
  <2>5. shown \subseteq QueueOwned(i)
    BY <2>3, <2>4 DEF Shown, QueueOwned
  <2>6. IsFiniteSet(QueueOwned(i))
    <3>. PICK r \in Nat : r = process.redeemed
      BY <2>3
    <3>1. IsFiniteSet(1 .. r)
      <4>1. 1 \in Int /\ r \in Int
        OBVIOUS
      <4>. QED  BY <4>1, FS_Interval
    <3>2. QueueOwned(i) \subseteq 1 .. r
      BY DEF QueueOwned
    <3>. QED  BY <3>1, <3>2, FS_Subset
  <2>7. Cardinality(shown) <= Cardinality(QueueOwned(i)) /\ Cardinality(shown) \in Nat
        /\ Cardinality(QueueOwned(i)) \in Nat
    BY <2>5, <2>6, FS_Subset, FS_CardinalityType
  <2>. QED  BY <2>2, <2>3, <2>7
<1>. QED  BY <1>1, PackInvariant, PTL
=============================================================================
