------------------------ MODULE AuctionCreation_proofs ------------------------
(***************************************************************************)
(* What the storefront's creation of an auction shows for every number of  *)
(* prizes, all sizes of batches, groups and pages, and any number of       *)
(* transactions rejected by chance.                                        *)
(*                                                                         *)
(* The argument goes along the list.  First its layout: which steps it has *)
(* and in which order, each of the steps with batches covering its prizes  *)
(* once.  Then what stands on the chain when the first n of its            *)
(* transactions have taken effect (Made(n)), which is what the next needs. *)
(* Then one call of the sender, transaction by transaction, up to its      *)
(* second rejection.  The loop's invariant joins what one call leaves to   *)
(* what the next one finds.                                                *)
(***************************************************************************)
EXTENDS AuctionCreation, WellFoundedInduction, FiniteSetTheorems, SequenceTheorems, TLAPS

-----------------------------------------------------------------------------
(* Induction.                                                               *)

\* A set of natural numbers that is not empty has a least element.
LEMMA LeastElement ==
  ASSUME NEW T, T \subseteq Nat, T # {}
  PROVE  \E x \in T : \A y \in T : x <= y
<1> DEFINE R == {ss \in Nat \X Nat : ss[1] < ss[2]}
<1>1. IsWellFoundedOn(R, Nat)
  BY NatLessThanWellFounded DEF OpToRel
<1>2. PICK x \in T : \A y \in T : ~(<<y, x>> \in R)
  <2> HIDE DEF R
  <2> QED BY <1>1, WFMin
<1>3. \A y \in T : ~(y < x)
  BY <1>2
<1> QED BY <1>3

\* A set that holds zero and the successor of whatever it holds, up to n, has all up to n.
LEMMA UpToFrom ==
  ASSUME NEW n \in Nat, NEW S, 0 \in S, \A i \in 0 .. (n - 1) : i \in S => i + 1 \in S
  PROVE  0 .. n \subseteq S
<1>. SUFFICES ASSUME (0 .. n) \ S # {} PROVE FALSE
  OBVIOUS
<1>1. PICK x \in (0 .. n) \ S : \A y \in (0 .. n) \ S : x <= y
  <2>1. (0 .. n) \ S \subseteq Nat
    OBVIOUS
  <2>. QED  BY <2>1, LeastElement
<1>2. x # 0 /\ x - 1 \in 0 .. (n - 1) /\ x - 1 \notin (0 .. n) \ S
  BY <1>1
<1>. QED  BY <1>1, <1>2

-----------------------------------------------------------------------------
(* Lists from which entries are left out.                                   *)

\* How Kept goes through a list.
KeptStep(s, places, before, n) ==
  IF n = 0 THEN << >> ELSE IF n \in places THEN Append(before, s[n]) ELSE before
Keeps(s, places) == CHOOSE f : f = [n \in 0 .. Len(s) |-> KeptStep(s, places, f[n - 1], n)]

LEMMA KeptIsKeeps ==
  ASSUME NEW s, NEW places
  PROVE  Kept(s, places) = Keeps(s, places)[Len(s)]
BY DEF Kept, Keeps, KeptStep

\* It comes to an end.
LEMMA KeepsDefined ==
  ASSUME NEW s, NEW places, NEW n \in Nat, Len(s) = n
  PROVE  \A i \in 0 .. n : Keeps(s, places)[i] = KeptStep(s, places, Keeps(s, places)[i - 1], i)
<1>. DEFINE IsKept(f, m) == f = [i \in 0 .. m |-> KeptStep(s, places, f[i - 1], i)]
            S == {m \in 0 .. n : \E f : IsKept(f, m)}
<1>1. 0 \in S
  <2>. DEFINE f == [i \in 0 .. 0 |-> << >>]
  <2>1. f = [i \in 0 .. 0 |-> KeptStep(s, places, f[i - 1], i)]
    BY DEF KeptStep
  <2>2. IsKept(f, 0)
    BY <2>1
  <2>. HIDE DEF f, IsKept
  <2>. QED  BY <2>2
<1>2. ASSUME NEW m \in 0 .. (n - 1), m \in S PROVE m + 1 \in S
  <2>. PICK f : IsKept(f, m)
    BY <1>2
  <2>. DEFINE g == [i \in 0 .. (m + 1) |-> IF i = m + 1 THEN KeptStep(s, places, f[m], i) ELSE f[i]]
  <2>1. ASSUME NEW i \in 0 .. (m + 1) PROVE g[i] = KeptStep(s, places, g[i - 1], i)
    <3>1. CASE i = m + 1
      BY <3>1
    <3>2. CASE i # m + 1 /\ i # 0
      <4>1. g[i] = f[i] /\ g[i - 1] = f[i - 1]
        BY <3>2
      <4>2. f[i] = KeptStep(s, places, f[i - 1], i)
        BY <3>2
      <4>. HIDE DEF g, IsKept
      <4>. QED  BY <4>1, <4>2
    <3>3. CASE i = 0
      <4>1. g[i] = f[i]
        BY <3>3
      <4>2. f[i] = KeptStep(s, places, f[i - 1], i)
        BY <3>3
      <4>. HIDE DEF g, IsKept
      <4>. QED  BY <3>3, <4>1, <4>2 DEF KeptStep
    <3>. QED  BY <3>1, <3>2, <3>3
  <2>2. IsKept(g, m + 1)
    BY <2>1
  <2>3. m + 1 \in 0 .. n
    OBVIOUS
  <2>. HIDE DEF g, IsKept
  <2>. QED  BY <2>2, <2>3
<1>3. 0 .. n \subseteq S
  <2>. HIDE DEF S
  <2>. QED  BY <1>1, <1>2, UpToFrom
<1>4. \E f : IsKept(f, n)
  BY <1>3
<1>5. IsKept(Keeps(s, places), n)
  BY <1>4 DEF Keeps
<1>. QED  BY <1>5

\* What is kept of s: the entries at the places, each at one, in their order.
Enumerates(at, k, s, places, m) ==
  /\ at \in [1 .. Len(k) -> 1 .. m]
  /\ \A i \in 1 .. Len(k) : at[i] \in places /\ k[i] = s[at[i]]
  /\ \A i, j \in 1 .. Len(k) : i < j => at[i] < at[j]
  /\ \A p \in 1 .. m : p \in places => \E i \in 1 .. Len(k) : at[i] = p

LEMMA KeptEnumerates ==
  ASSUME NEW T, NEW n \in Nat, NEW s \in Seq(T), Len(s) = n, NEW places
  PROVE  /\ Kept(s, places) \in Seq(T)
         /\ \E at : Enumerates(at, Kept(s, places), s, places, n)
<1>. DEFINE F == Keeps(s, places)
            Good(m) == F[m] \in Seq(T) /\ \E at : Enumerates(at, F[m], s, places, m)
            S == {m \in 0 .. n : Good(m)}
<1>1. \A i \in 0 .. n : F[i] = KeptStep(s, places, F[i - 1], i)
  BY KeepsDefined
<1>. HIDE DEF F
<1>2. 0 \in S
  <2>1. F[0] = << >>
    BY <1>1 DEF KeptStep
  <2>2. << >> \in Seq(T) /\ Len(<< >>) = 0
    BY EmptySeq
  <2>. DEFINE at == [i \in 1 .. 0 |-> 1]
  <2>3. Enumerates(at, << >>, s, places, 0)
    BY <2>2 DEF Enumerates
  <2>. HIDE DEF at
  <2>4. Good(0)
    BY <2>1, <2>2, <2>3
  <2>. QED  BY <2>4
<1>3. ASSUME NEW m \in 0 .. (n - 1), m \in S PROVE m + 1 \in S
  <2>1. F[m + 1] = KeptStep(s, places, F[m], m + 1) /\ m + 1 \in 1 .. n
    <3>1. F[m + 1] = KeptStep(s, places, F[m + 1 - 1], m + 1) /\ m + 1 - 1 = m
      BY <1>1
    <3>. QED  BY <3>1
  <2>2. PICK at : Enumerates(at, F[m], s, places, m)
    BY <1>3
  <2>3. F[m] \in Seq(T) /\ Len(F[m]) \in Nat
    BY <1>3, LenProperties
  <2>4. CASE m + 1 \notin places
    <3>1. F[m + 1] = F[m]
      BY <2>1, <2>4 DEF KeptStep
    <3>2. Enumerates(at, F[m], s, places, m + 1)
      BY <2>2, <2>3, <2>4 DEF Enumerates
    <3>. QED  BY <2>1, <2>3, <3>1, <3>2
  <2>5. CASE m + 1 \in places
    <3>. DEFINE k == F[m]
                e == s[m + 1]
                k2 == Append(k, e)
                at2 == [i \in 1 .. (Len(k) + 1) |-> IF i = Len(k) + 1 THEN m + 1 ELSE at[i]]
    <3>1. F[m + 1] = k2
      BY <2>1, <2>5 DEF KeptStep
    <3>2. e \in T
      BY <2>1
    <3>3. k2 \in Seq(T) /\ Len(k2) = Len(k) + 1 /\ k2[Len(k) + 1] = e /\ \A i \in 1 .. Len(k) : k2[i] = k[i]
      BY <2>3, <3>2, AppendProperties
    <3>. DEFINE l == Len(k)
    <3>4. l \in Nat /\ Len(k2) = l + 1
      BY <2>3, <3>3
    <3>5. /\ at \in [1 .. l -> 1 .. m]
          /\ \A i \in 1 .. l : at[i] \in places /\ k[i] = s[at[i]]
          /\ \A i, j \in 1 .. l : i < j => at[i] < at[j]
          /\ \A p \in 1 .. m : p \in places => \E i \in 1 .. l : at[i] = p
          /\ \A i \in 1 .. l : at[i] \in 1 .. m
      BY <2>2 DEF Enumerates
    <3>6. at2 \in [1 .. (l + 1) -> 1 .. (m + 1)] /\ at2[l + 1] = m + 1 /\ \A i \in 1 .. l : at2[i] = at[i]
      BY <3>4, <3>5
    <3>7. k2[l + 1] = s[m + 1] /\ \A i \in 1 .. l : k2[i] = k[i]
      BY <3>3
    <3>. HIDE DEF k, e, k2, at2, l
    <3>8. ASSUME NEW i \in 1 .. (l + 1) PROVE at2[i] \in places /\ k2[i] = s[at2[i]]
      <4>1. CASE i = l + 1
        BY <2>5, <3>6, <3>7, <4>1
      <4>2. CASE i \in 1 .. l
        BY <3>5, <3>6, <3>7, <4>2
      <4>. QED  BY <3>4, <4>1, <4>2
    <3>9. ASSUME NEW i \in 1 .. (l + 1), NEW j \in 1 .. (l + 1), i < j PROVE at2[i] < at2[j]
      <4>1. i \in 1 .. l /\ at2[i] = at[i] /\ at[i] \in 1 .. m
        BY <3>4, <3>5, <3>6, <3>9
      <4>2. CASE j = l + 1
        BY <3>6, <4>1, <4>2
      <4>3. CASE j \in 1 .. l
        <5>1. at2[j] = at[j] /\ at[i] < at[j]
          BY <3>5, <3>6, <3>9, <4>1, <4>3
        <5>. QED  BY <4>1, <5>1
      <4>. QED  BY <3>4, <4>2, <4>3
    <3>10. \A p \in 1 .. (m + 1) : p \in places => \E i \in 1 .. (l + 1) : at2[i] = p
      <4>. SUFFICES ASSUME NEW p \in 1 .. (m + 1), p \in places PROVE \E i \in 1 .. (l + 1) : at2[i] = p
        OBVIOUS
      <4>1. CASE p = m + 1
        BY <3>4, <3>6, <4>1
      <4>2. CASE p # m + 1
        <5>1. PICK i \in 1 .. l : at[i] = p
          BY <3>5, <4>2
        <5>. QED  BY <3>4, <3>6, <5>1
      <4>. QED  BY <4>1, <4>2
    <3>11. Enumerates(at2, k2, s, places, m + 1)
      BY <3>4, <3>6, <3>8, <3>9, <3>10 DEF Enumerates
    <3>. QED  BY <2>1, <3>1, <3>3, <3>11
  <2>. QED  BY <2>4, <2>5
<1>4. 0 .. n \subseteq S
  <2>. HIDE DEF S
  <2>. QED  BY <1>2, <1>3, UpToFrom
<1>5. Good(n) /\ Kept(s, places) = F[n]
  BY <1>4, KeptIsKeeps DEF F
<1>. QED  BY <1>5

-----------------------------------------------------------------------------
(* How lists of steps are laid out.                                         *)

\* The order of the operations.
Rank(op) ==
  CASE op = "markSold" -> 1
    [] op = "externalPriceAccount" -> 2
    [] op = "createVault" -> 3
    [] op = "addTokens" -> 4
    [] op = "closeVault" -> 5
    [] op = "makeAuction" -> 6
    [] op = "initAuctionManager" -> 7
    [] op = "setAuthorities" -> 8
    [] op = "validateBox" -> 9
    [] op = "startAuction" -> 10
    [] op = "cacheAuction" -> 11
    [] op = "setStoreIndex" -> 12
    [] op = "propagateIndex" -> 13
    [] OTHER -> 0

\* The operations that come once, and those that come once per prize or group,
\* and those without instructions.
Single == {"externalPriceAccount", "createVault", "closeVault", "makeAuction",
           "initAuctionManager", "setAuthorities", "startAuction", "setStoreIndex"}
Several == {"markSold", "addTokens", "validateBox", "cacheAuction"}
Noop == {"populateAuthorization", "populatePrintingTokens", "createReservationList",
         "validateParticipation"}
Ops == Single \cup Several \cup Noop \cup {"propagateIndex"}
StepSet == [op : Ops, items : SUBSET Nat]

\* A list of steps from lo to hi, in order, no two of which do the same.
LaidOut(P, lo, hi) ==
  /\ P \in Seq(StepSet)
  /\ \A i \in 1 .. Len(P) : P[i].items # {} => lo <= Rank(P[i].op) /\ Rank(P[i].op) <= hi
  /\ \A i, j \in 1 .. Len(P) :
       i < j /\ P[i].items # {} /\ P[j].items # {} => Rank(P[i].op) <= Rank(P[j].op)
  /\ \A i, j \in 1 .. Len(P) : i # j /\ P[i].op = P[j].op => P[i].items \cap P[j].items = {}
  /\ \A i \in 1 .. Len(P) : /\ P[i].op \in Single => P[i].items \subseteq {0}
                            /\ P[i].op \in Several => P[i].items \subseteq Prizes
Occurs(P, op, x) == \E i \in 1 .. Len(P) : P[i].op = op /\ x \in P[i].items

LEMMA RankTyped == \A op : Rank(op) \in 0 .. 13 /\ Rank(op) \in Nat
BY DEF Rank

LEMMA StepTyped == \A op \in Ops, items \in SUBSET Nat : Step(op, items) \in StepSet
BY DEF Step, StepSet

LEMMA OnceTyped == \A op \in Ops : Once(op) \in StepSet /\ Step(op, {}) \in StepSet
<1>1. {0} \in SUBSET Nat /\ {} \in SUBSET Nat
  OBVIOUS
<1>. QED  BY <1>1, StepTyped, Zenon DEF Once

\* Two lists one after the other.
LEMMA JoinedLaidOut ==
  ASSUME NEW a \in Nat, NEW b \in Nat, NEW c \in Nat, NEW d \in Nat, a <= b, b < c, c <= d,
         NEW P, NEW Q, LaidOut(P, a, b), LaidOut(Q, c, d)
  PROVE  LaidOut(P \o Q, a, d)
<1>. DEFINE n == Len(P)
            m == Len(Q)
            R == P \o Q
<1>1. P \in Seq(StepSet) /\ Q \in Seq(StepSet)
  BY DEF LaidOut
<1>2. n \in Nat /\ m \in Nat
  BY <1>1, LenProperties
<1>3. R \in Seq(StepSet) /\ Len(R) = n + m
  BY <1>1, ConcatProperties
<1>4. \A i \in 1 .. n : R[i] = P[i]
  BY <1>1, <1>2, ConcatProperties
<1>5. \A i \in (n + 1) .. (n + m) : R[i] = Q[i - n] /\ i - n \in 1 .. m
  BY <1>1, <1>2, ConcatProperties
<1>6. /\ \A i \in 1 .. n : P[i].items # {} => a <= Rank(P[i].op) /\ Rank(P[i].op) <= b
      /\ \A i, j \in 1 .. n :
           i < j /\ P[i].items # {} /\ P[j].items # {} => Rank(P[i].op) <= Rank(P[j].op)
      /\ \A i, j \in 1 .. n : i # j /\ P[i].op = P[j].op => P[i].items \cap P[j].items = {}
      /\ \A i \in 1 .. n : /\ P[i].op \in Single => P[i].items \subseteq {0}
                           /\ P[i].op \in Several => P[i].items \subseteq Prizes
  BY DEF LaidOut
<1>7. /\ \A i \in 1 .. m : Q[i].items # {} => c <= Rank(Q[i].op) /\ Rank(Q[i].op) <= d
      /\ \A i, j \in 1 .. m :
           i < j /\ Q[i].items # {} /\ Q[j].items # {} => Rank(Q[i].op) <= Rank(Q[j].op)
      /\ \A i, j \in 1 .. m : i # j /\ Q[i].op = Q[j].op => Q[i].items \cap Q[j].items = {}
      /\ \A i \in 1 .. m : /\ Q[i].op \in Single => Q[i].items \subseteq {0}
                           /\ Q[i].op \in Several => Q[i].items \subseteq Prizes
  BY DEF LaidOut
<1>. HIDE DEF n, m, R
<1>8. \A i \in 1 .. (n + m) : i \in 1 .. n \/ i \in (n + 1) .. (n + m)
  BY <1>2
<1>9. ASSUME NEW i \in 1 .. (n + m)
      PROVE  /\ R[i].items # {} => a <= Rank(R[i].op) /\ Rank(R[i].op) <= d
             /\ R[i].op \in Single => R[i].items \subseteq {0}
             /\ R[i].op \in Several => R[i].items \subseteq Prizes
  <2>1. CASE i \in 1 .. n
    <3>1. R[i] = P[i]
      BY <1>4, <2>1
    <3>2. Rank(P[i].op) \in Nat
      BY RankTyped
    <3>. QED  BY <1>6, <2>1, <3>1, <3>2
  <2>2. CASE i \in (n + 1) .. (n + m)
    <3>1. R[i] = Q[i - n] /\ i - n \in 1 .. m
      BY <1>5, <2>2
    <3>2. Rank(Q[i - n].op) \in Nat
      BY RankTyped
    <3>3. Q[i - n].items # {} => c <= Rank(Q[i - n].op) /\ Rank(Q[i - n].op) <= d
      BY <1>7, <3>1
    <3>4. /\ Q[i - n].op \in Single => Q[i - n].items \subseteq {0}
          /\ Q[i - n].op \in Several => Q[i - n].items \subseteq Prizes
      BY <1>7, <3>1
    <3>. QED  BY <3>1, <3>2, <3>3, <3>4
  <2>. QED  BY <1>8, <2>1, <2>2
<1>10. ASSUME NEW i \in 1 .. (n + m), NEW j \in 1 .. (n + m), i < j
       PROVE  /\ R[i].items # {} /\ R[j].items # {} => Rank(R[i].op) <= Rank(R[j].op)
              /\ R[i].op = R[j].op => R[i].items \cap R[j].items = {}
  <2>1. CASE j \in 1 .. n
    <3>1. i \in 1 .. n
      BY <1>2, <1>10, <2>1
    <3>2. R[i] = P[i] /\ R[j] = P[j]
      BY <1>4, <2>1, <3>1
    <3>. QED  BY <1>6, <1>10, <2>1, <3>1, <3>2
  <2>2. CASE i \in (n + 1) .. (n + m)
    <3>1. j \in (n + 1) .. (n + m)
      BY <1>2, <1>10, <2>2
    <3>2. R[i] = Q[i - n] /\ R[j] = Q[j - n] /\ i - n \in 1 .. m /\ j - n \in 1 .. m
      BY <1>5, <2>2, <3>1
    <3>3. i - n < j - n /\ i - n # j - n
      BY <1>2, <1>10
    <3>. QED  BY <1>7, <3>2, <3>3
  <2>3. CASE i \in 1 .. n /\ j \in (n + 1) .. (n + m)
    <3>1. R[i] = P[i] /\ R[j] = Q[j - n] /\ j - n \in 1 .. m
      BY <1>4, <1>5, <2>3
    <3>2. P[i].items # {} => Rank(P[i].op) <= b
      BY <1>6, <2>3
    <3>3. Q[j - n].items # {} => c <= Rank(Q[j - n].op)
      BY <1>7, <3>1
    <3>4. Rank(P[i].op) \in Nat /\ Rank(Q[j - n].op) \in Nat
      BY RankTyped
    <3>. QED  BY <3>1, <3>2, <3>3, <3>4
  <2>. QED  BY <1>8, <2>1, <2>2, <2>3
<1>11. ASSUME NEW i \in 1 .. (n + m), NEW j \in 1 .. (n + m), i # j, R[i].op = R[j].op
       PROVE  R[i].items \cap R[j].items = {}
  <2>1. i < j \/ j < i
    BY <1>11
  <2>. QED  BY <1>10, <1>11, <2>1
<1>12. LaidOut(R, a, d)
  BY <1>3, <1>9, <1>10, <1>11 DEF LaidOut
<1>. QED  BY <1>12 DEF R

\* What occurs in one of them.
LEMMA JoinedOccurs ==
  ASSUME NEW P \in Seq(StepSet), NEW Q \in Seq(StepSet), NEW op, NEW x,
         Occurs(P, op, x) \/ Occurs(Q, op, x)
  PROVE  Occurs(P \o Q, op, x)
<1>. DEFINE n == Len(P)
            m == Len(Q)
            R == P \o Q
<1>1. n \in Nat /\ m \in Nat /\ Len(R) = n + m
  BY LenProperties, ConcatProperties
<1>2. \A i \in 1 .. n : R[i] = P[i]
  BY <1>1, ConcatProperties
<1>3. \A i \in 1 .. m : R[i + n] = Q[i]
  BY <1>1, ConcatProperties
<1>4. (\E i \in 1 .. n : P[i].op = op /\ x \in P[i].items) \/ (\E i \in 1 .. m : Q[i].op = op /\ x \in Q[i].items)
  BY DEF Occurs
<1>. HIDE DEF n, m, R
<1>5. CASE \E i \in 1 .. n : P[i].op = op /\ x \in P[i].items
  <2>1. PICK i \in 1 .. n : P[i].op = op /\ x \in P[i].items
    BY <1>5
  <2>2. i \in 1 .. (n + m) /\ R[i] = P[i]
    BY <1>1, <1>2
  <2>3. Occurs(R, op, x)
    BY <1>1, <2>1, <2>2 DEF Occurs
  <2>. QED  BY <2>3 DEF R
<1>6. CASE \E i \in 1 .. m : Q[i].op = op /\ x \in Q[i].items
  <2>1. PICK i \in 1 .. m : Q[i].op = op /\ x \in Q[i].items
    BY <1>6
  <2>2. i + n \in 1 .. (n + m) /\ R[i + n] = Q[i]
    BY <1>1, <1>3
  <2>3. Occurs(R, op, x)
    BY <1>1, <2>1, <2>2 DEF Occurs
  <2>. QED  BY <2>3 DEF R
<1>. QED  BY <1>4, <1>5, <1>6

\* The ranks of the operations.
LEMMA Ranks ==
  /\ Rank("markSold") = 1 /\ Rank("externalPriceAccount") = 2 /\ Rank("createVault") = 3
  /\ Rank("addTokens") = 4 /\ Rank("closeVault") = 5 /\ Rank("makeAuction") = 6
  /\ Rank("initAuctionManager") = 7 /\ Rank("setAuthorities") = 8 /\ Rank("validateBox") = 9
  /\ Rank("startAuction") = 10 /\ Rank("cacheAuction") = 11 /\ Rank("setStoreIndex") = 12
  /\ Rank("propagateIndex") = 13
BY DEF Rank

\* An operation is known by its rank.
LEMMA RankTells ==
  /\ \A op : Rank(op) = 1 <=> op = "markSold"
  /\ \A op : Rank(op) = 2 <=> op = "externalPriceAccount"
  /\ \A op : Rank(op) = 3 <=> op = "createVault"
  /\ \A op : Rank(op) = 4 <=> op = "addTokens"
  /\ \A op : Rank(op) = 5 <=> op = "closeVault"
  /\ \A op : Rank(op) = 6 <=> op = "makeAuction"
  /\ \A op : Rank(op) = 7 <=> op = "initAuctionManager"
  /\ \A op : Rank(op) = 8 <=> op = "setAuthorities"
  /\ \A op : Rank(op) = 9 <=> op = "validateBox"
  /\ \A op : Rank(op) = 10 <=> op = "startAuction"
  /\ \A op : Rank(op) = 11 <=> op = "cacheAuction"
  /\ \A op : Rank(op) = 12 <=> op = "setStoreIndex"
  /\ \A op : Rank(op) = 13 <=> op = "propagateIndex"
BY DEF Rank

\* One operation in several steps.
LEMMA StepsLaidOut ==
  ASSUME NEW op \in Ops, op \notin Single, NEW n \in Nat, NEW b, b \in Seq(SUBSET Nat), Len(b) = n,
         op \in Several => \A i \in 1 .. n : b[i] \subseteq Prizes,
         \A i, j \in 1 .. n : i # j => b[i] \cap b[j] = {}
  PROVE  /\ LaidOut(Steps(op, b), Rank(op), Rank(op))
         /\ \A i \in 1 .. n : \A x \in b[i] : Occurs(Steps(op, b), op, x)
<1>. DEFINE P == Steps(op, b)
<1>1. DOMAIN b = 1 .. n /\ \A i \in 1 .. n : b[i] \in SUBSET Nat
  BY ElementOfSeq, LenProperties
<1>2. P = [i \in 1 .. n |-> Step(op, b[i])]
  BY <1>1 DEF Steps
<1>. HIDE DEF P
<1>3. \A i \in 1 .. n : P[i].op = op /\ P[i].items = b[i] /\ P[i] \in StepSet
  BY <1>1, <1>2 DEF Step, StepSet
<1>4. P \in Seq(StepSet) /\ Len(P) = n
  BY <1>2, <1>3, IsASeq
<1>5. Rank(op) \in Nat
  BY RankTyped, Zenon
<1>6. LaidOut(P, Rank(op), Rank(op))
  BY <1>3, <1>4, <1>5 DEF LaidOut
<1>7. \A i \in 1 .. n : \A x \in b[i] : Occurs(P, op, x)
  BY <1>3, <1>4 DEF Occurs
<1>. QED  BY <1>6, <1>7 DEF P

\* A step by itself.
LEMMA OneLaidOut ==
  ASSUME NEW op \in Ops, op \notin Several
  PROVE  /\ LaidOut(<<Once(op)>>, Rank(op), Rank(op))
         /\ Occurs(<<Once(op)>>, op, 0)
<1>. DEFINE P == <<Once(op)>>
<1>1. P \in Seq(StepSet) /\ Len(P) = 1 /\ P[1] = Once(op)
  BY DEF Once, Step, StepSet
<1>. HIDE DEF P
<1>2. P[1].op = op /\ P[1].items = {0}
  BY <1>1 DEF Once, Step
<1>3. Rank(op) \in Nat
  BY RankTyped, Zenon
<1>4. LaidOut(P, Rank(op), Rank(op))
  BY <1>1, <1>2, <1>3 DEF LaidOut
<1>5. Occurs(P, op, 0)
  BY <1>1, <1>2 DEF Occurs
<1>. QED  BY <1>4, <1>5 DEF P

\* The steps around the vault's tokens.
BeforeTokens == <<Once("externalPriceAccount"), Step("populateAuthorization", {}),
                  Step("populatePrintingTokens", {}), Once("createVault")>>
LEMMA BeforeTokensLaidOut ==
  /\ LaidOut(BeforeTokens, 2, 3)
  /\ Occurs(BeforeTokens, "externalPriceAccount", 0) /\ Occurs(BeforeTokens, "createVault", 0)
<1>. DEFINE P == BeforeTokens
<1>1. /\ P \in Seq(StepSet) /\ Len(P) = 4
      /\ P[1] = Once("externalPriceAccount") /\ P[2] = Step("populateAuthorization", {})
      /\ P[3] = Step("populatePrintingTokens", {}) /\ P[4] = Once("createVault")
  <2>1. /\ Once("externalPriceAccount") \in StepSet /\ Step("populateAuthorization", {}) \in StepSet
        /\ Step("populatePrintingTokens", {}) \in StepSet /\ Once("createVault") \in StepSet
    <3>1. "externalPriceAccount" \in Ops /\ "populateAuthorization" \in Ops /\ "populatePrintingTokens" \in Ops /\ "createVault" \in Ops
      BY DEF Ops, Single, Noop
    <3>. QED  BY <3>1, OnceTyped, Zenon
  <2>. QED  BY <2>1 DEF BeforeTokens
<1>. HIDE DEF P
<1>2. /\ P[1].op = "externalPriceAccount" /\ P[1].items = {0}
      /\ P[2].op = "populateAuthorization" /\ P[2].items = {}
      /\ P[3].op = "populatePrintingTokens" /\ P[3].items = {}
      /\ P[4].op = "createVault" /\ P[4].items = {0}
  BY <1>1 DEF Once, Step
<1>3. \A i \in 1 .. Len(P) : i = 1 \/ i = 2 \/ i = 3 \/ i = 4
  BY <1>1
<1>4. LaidOut(P, 2, 3)
  <2>1. \A i \in 1 .. Len(P) : P[i].items # {} => 2 <= Rank(P[i].op) /\ Rank(P[i].op) <= 3
    BY <1>2, <1>3, Ranks
  <2>2. \A i, j \in 1 .. Len(P) :
          i < j /\ P[i].items # {} /\ P[j].items # {} => Rank(P[i].op) <= Rank(P[j].op)
    BY <1>2, <1>3, Ranks
  <2>3. \A i, j \in 1 .. Len(P) : i # j /\ P[i].op = P[j].op => P[i].items \cap P[j].items = {}
    BY <1>2, <1>3
  <2>4. \A i \in 1 .. Len(P) : /\ P[i].op \in Single => P[i].items \subseteq {0}
                               /\ P[i].op \in Several => P[i].items \subseteq Prizes
    BY <1>2, <1>3 DEF Several
  <2>. QED  BY <1>1, <2>1, <2>2, <2>3, <2>4 DEF LaidOut
<1>5. Occurs(P, "externalPriceAccount", 0) /\ Occurs(P, "createVault", 0)
  BY <1>1, <1>2 DEF Occurs
<1>. QED  BY <1>4, <1>5 DEF P

BehindTokens == <<Step("createReservationList", {}), Once("closeVault"), Once("makeAuction"),
                  Once("initAuctionManager"), Once("setAuthorities"), Step("validateParticipation", {})>>
LEMMA BehindTokensLaidOut ==
  /\ LaidOut(BehindTokens, 5, 8)
  /\ Occurs(BehindTokens, "closeVault", 0) /\ Occurs(BehindTokens, "makeAuction", 0)
  /\ Occurs(BehindTokens, "initAuctionManager", 0) /\ Occurs(BehindTokens, "setAuthorities", 0)
<1>. DEFINE P == BehindTokens
<1>1. /\ P \in Seq(StepSet) /\ Len(P) = 6
      /\ P[1] = Step("createReservationList", {}) /\ P[2] = Once("closeVault")
      /\ P[3] = Once("makeAuction") /\ P[4] = Once("initAuctionManager")
      /\ P[5] = Once("setAuthorities") /\ P[6] = Step("validateParticipation", {})
  <2>1. /\ Step("createReservationList", {}) \in StepSet /\ Once("closeVault") \in StepSet
        /\ Once("makeAuction") \in StepSet /\ Once("initAuctionManager") \in StepSet
        /\ Once("setAuthorities") \in StepSet /\ Step("validateParticipation", {}) \in StepSet
    <3>1. "createReservationList" \in Ops /\ "closeVault" \in Ops /\ "makeAuction" \in Ops /\ "initAuctionManager" \in Ops /\ "setAuthorities" \in Ops /\ "validateParticipation" \in Ops
      BY DEF Ops, Single, Noop
    <3>. QED  BY <3>1, OnceTyped, Zenon
  <2>. QED  BY <2>1 DEF BehindTokens
<1>. HIDE DEF P
<1>2. /\ P[1].op = "createReservationList" /\ P[1].items = {}
      /\ P[2].op = "closeVault" /\ P[2].items = {0}
      /\ P[3].op = "makeAuction" /\ P[3].items = {0}
      /\ P[4].op = "initAuctionManager" /\ P[4].items = {0}
      /\ P[5].op = "setAuthorities" /\ P[5].items = {0}
      /\ P[6].op = "validateParticipation" /\ P[6].items = {}
  BY <1>1 DEF Once, Step
<1>3. \A i \in 1 .. Len(P) : i = 1 \/ i = 2 \/ i = 3 \/ i = 4 \/ i = 5 \/ i = 6
  BY <1>1
<1>4. LaidOut(P, 5, 8)
  <2>1. \A i \in 1 .. Len(P) : P[i].items # {} => 5 <= Rank(P[i].op) /\ Rank(P[i].op) <= 8
    BY <1>2, <1>3, Ranks
  <2>2. \A i, j \in 1 .. Len(P) :
          i < j /\ P[i].items # {} /\ P[j].items # {} => Rank(P[i].op) <= Rank(P[j].op)
    <3>1. \A i \in 2 .. 5 : P[i].items # {} => Rank(P[i].op) = i + 3
      BY <1>2, Ranks
    <3>2. \A i \in 1 .. Len(P) : P[i].items # {} => i \in 2 .. 5
      BY <1>1, <1>2, <1>3
    <3>. QED  BY <3>1, <3>2
  <2>3. \A i, j \in 1 .. Len(P) : i # j /\ P[i].op = P[j].op => P[i].items \cap P[j].items = {}
    BY <1>2, <1>3
  <2>4. \A i \in 1 .. Len(P) : /\ P[i].op \in Single => P[i].items \subseteq {0}
                               /\ P[i].op \in Several => P[i].items \subseteq Prizes
    BY <1>2, <1>3 DEF Several
  <2>. QED  BY <1>1, <2>1, <2>2, <2>3, <2>4 DEF LaidOut
<1>5. /\ Occurs(P, "closeVault", 0) /\ Occurs(P, "makeAuction", 0)
      /\ Occurs(P, "initAuctionManager", 0) /\ Occurs(P, "setAuthorities", 0)
  BY <1>1, <1>2 DEF Occurs
<1>. QED  BY <1>4, <1>5 DEF P

\* How many pieces of size r a list of n makes: the last one is not empty.
Pieces(n, r) == (n + r - 1) \div r

\* Products of natural numbers, one factor more or less.
LEMMA Multiples ==
  ASSUME NEW r \in Nat \ {0}
  PROVE  /\ \A k \in Int : k * r \in Int /\ (k + 1) * r = k * r + r /\ (k - 1) * r = k * r - r
         /\ 0 * r = 0 /\ 1 * r = r
         /\ \A j, k \in Int : j < k => j * r + r <= k * r
<1>1. \A k \in Int : k * r \in Int /\ (k + 1) * r = k * r + r /\ (k - 1) * r = k * r - r
  OBVIOUS
<1>2. 0 * r = 0 /\ 1 * r = r
  OBVIOUS
<1>3. ASSUME NEW j \in Int, NEW k \in Int, j < k PROVE j * r + r <= k * r
  <2>. DEFINE d == k - j - 1
  <2>1. d \in Nat /\ k = (j + 1) + d
    BY <1>3
  <2>. HIDE DEF d
  <2>2. k * r = (j + 1) * r + d * r
    BY <2>1
  <2>3. d * r \in Nat
    BY <2>1
  <2>4. (j + 1) * r = j * r + r /\ j * r \in Int
    BY <1>1
  <2>. QED  BY <2>2, <2>3, <2>4
<1>. QED  BY <1>1, <1>2, <1>3

LEMMA Quotient ==
  ASSUME NEW a \in Int, NEW r \in Nat \ {0}
  PROVE  /\ a \div r \in Int
         /\ (a \div r) * r <= a /\ a < (a \div r) * r + r
OBVIOUS

\* What the pieces cover: all of the list, and no piece behind it.
LEMMA PiecesAre ==
  ASSUME NEW n \in Nat, NEW r \in Nat \ {0}
  PROVE  /\ Pieces(n, r) \in Nat /\ n <= Pieces(n, r) * r
         /\ \A k \in 1 .. Pieces(n, r) : (k - 1) * r < n
         /\ \A k \in Nat : n <= k * r => Pieces(n, r) <= k
<1>. DEFINE q == Pieces(n, r)
<1>1. n + r - 1 \in Int
  OBVIOUS
<1>2. q \in Int /\ q * r <= n + r - 1 /\ n + r - 1 < q * r + r
  BY <1>1, Quotient DEF Pieces
<1>. HIDE DEF q
<1>3. q * r \in Int /\ 0 * r = 0 /\ (-1) * r = 0 - r
  BY <1>2, Multiples
<1>4. n <= q * r
  BY <1>2, <1>3
<1>5. q \in Nat
  <2>1. CASE q < 0
    <3>1. q * r + r <= 0
      BY <1>2, <1>3, <2>1, Multiples
    <3>. QED  BY <1>2, <1>3, <3>1
  <2>. QED  BY <1>2, <2>1
<1>6. ASSUME NEW k \in 1 .. q PROVE (k - 1) * r < n
  <2>1. (k - 1) * r + r <= q * r /\ (k - 1) * r \in Int
    BY <1>2, Multiples
  <2>. QED  BY <1>2, <1>3, <2>1
<1>7. ASSUME NEW k \in Nat, n <= k * r PROVE q <= k
  <2>1. CASE k < q
    <3>1. k * r + r <= q * r /\ k * r \in Int
      BY <1>2, <2>1, Multiples
    <3>. QED  BY <1>2, <1>3, <1>7, <3>1
  <2>. QED  BY <1>2, <2>1
<1>. QED  BY <1>4, <1>5, <1>6, <1>7 DEF q

-----------------------------------------------------------------------------
(* The groups and the batches.                                              *)

\* Batches b of the numbers in S: no number twice, and each in one of them.
BatchesOf(b, S) ==
  /\ b \in Seq(SUBSET Nat)
  /\ \A k \in 1 .. Len(b) : b[k] \subseteq S
  /\ \A j, k \in 1 .. Len(b) : j # k => b[j] \cap b[k] = {}
  /\ \A x \in S : \E k \in 1 .. Len(b) : x \in b[k]

LEMMA GroupsAre ==
  ASSUME NEW n \in Nat, NEW s \in Seq(Nat), Len(s) = n, \A i, j \in 1 .. n : i < j => s[i] # s[j]
  PROVE  BatchesOf(Groups(s), {s[i] : i \in 1 .. n})
<1>. DEFINE G == GroupSize
            N == Pieces(n, G)
            b == Groups(s)
            Places(k) == {j \in 1 .. n : (k - 1) * G < j /\ j <= k * G}
<1>1. G \in Nat \ {0}
  BY AuctionAssumption
<1>2. DOMAIN s = 1 .. n /\ \A i \in 1 .. n : s[i] \in Nat
  BY ElementOfSeq, LenProperties
<1>3. b = [k \in 1 .. N |-> {s[i] : i \in Places(k)}]
  BY <1>2 DEF Groups, Pieces
<1>4. /\ N \in Nat /\ n <= N * G
      /\ \A k \in Nat : n <= k * G => N <= k
  BY <1>1, PiecesAre
<1>. HIDE DEF b, G, N
<1>5. \A k \in 1 .. N : b[k] = {s[i] : i \in Places(k)} /\ b[k] \in SUBSET Nat
  BY <1>2, <1>3
<1>6. b \in Seq(SUBSET Nat) /\ Len(b) = N
  BY <1>3, <1>4, <1>5, IsASeq
<1>7. \A k \in 1 .. N : b[k] \subseteq {s[i] : i \in 1 .. n}
  BY <1>5
<1>8. ASSUME NEW j \in 1 .. N, NEW k \in 1 .. N, j < k PROVE b[j] \cap b[k] = {}
  <2>. SUFFICES ASSUME NEW x, x \in b[j], x \in b[k] PROVE FALSE
    OBVIOUS
  <2>1. PICK i \in Places(j) : x = s[i]
    BY <1>5
  <2>2. PICK h \in Places(k) : x = s[h]
    BY <1>5
  <2>3. i \in 1 .. n /\ h \in 1 .. n /\ i <= j * G /\ (k - 1) * G < h
    OBVIOUS
  <2>4. j * G + G <= k * G /\ (k - 1) * G = k * G - G /\ j * G \in Int /\ k * G \in Int
    BY <1>1, <1>4, <1>8, Multiples
  <2>5. i < h
    BY <1>1, <2>3, <2>4
  <2>. QED  BY <2>1, <2>2, <2>3, <2>5
<1>9. ASSUME NEW i \in 1 .. n PROVE \E k \in 1 .. N : s[i] \in b[k]
  <2>. DEFINE k == Pieces(i, G)
  <2>1. /\ k \in Nat /\ i <= k * G
        /\ \A h \in 1 .. k : (h - 1) * G < i
        /\ \A h \in Nat : i <= h * G => k <= h
    <3>1. i \in Nat
      OBVIOUS
    <3>. HIDE DEF Places
    <3>. QED  BY <1>1, <3>1, PiecesAre
  <2>. HIDE DEF k
  <2>2. N * G \in Int
    BY <1>1, <1>4
  <2>3. k <= N
    BY <1>4, <2>1, <2>2
  <2>4. k # 0
    BY <1>1, <2>1, Multiples
  <2>5. k \in 1 .. N /\ (k - 1) * G < i
    BY <1>4, <2>1, <2>3, <2>4
  <2>6. i \in Places(k)
    BY <2>1, <2>5
  <2>. QED  BY <1>5, <2>5, <2>6
<1>10. \A j, k \in 1 .. N : j # k => b[j] \cap b[k] = {}
  <2>. SUFFICES ASSUME NEW j \in 1 .. N, NEW k \in 1 .. N, j # k PROVE b[j] \cap b[k] = {}
    OBVIOUS
  <2>1. j < k \/ k < j
    BY <1>4
  <2>. QED  BY <1>8, <2>1
<1>11. \A x \in {s[i] : i \in 1 .. n} : \E k \in 1 .. N : x \in b[k]
  BY <1>9
<1>12. BatchesOf(b, {s[i] : i \in 1 .. n})
  BY <1>6, <1>7, <1>10, <1>11 DEF BatchesOf
<1>. QED  BY <1>12 DEF b

\* How TokenBatches goes through the prizes.
BatchStep(before, p) ==
  IF p = 0 THEN [done |-> << >>, cur |-> {}, counter |-> 0]
  ELSE IF before.counter = BatchSize
       THEN [done |-> Append(before.done, before.cur \cup {p}), cur |-> {}, counter |-> 1]
       ELSE [done |-> before.done, cur |-> before.cur \cup {p}, counter |-> before.counter + 1]
Batched == CHOOSE f : f = [p \in 0 .. NumPrizes |-> BatchStep(f[p - 1], p)]

LEMMA TokenBatchesAreBatched ==
  TokenBatches = Append(Batched[NumPrizes].done, Batched[NumPrizes].cur)
BY DEF TokenBatches, Batched, BatchStep

\* It comes to an end.
LEMMA BatchedDefined == \A p \in 0 .. NumPrizes : Batched[p] = BatchStep(Batched[p - 1], p)
<1>. DEFINE IsBatched(f, m) == f = [p \in 0 .. m |-> BatchStep(f[p - 1], p)]
            S == {m \in 0 .. NumPrizes : \E f : IsBatched(f, m)}
<1>0. NumPrizes \in Nat
  BY AuctionAssumption
<1>1. 0 \in S
  <2>. DEFINE f == [p \in 0 .. 0 |-> BatchStep(0, 0)]
  <2>1. f = [p \in 0 .. 0 |-> BatchStep(f[p - 1], p)]
    BY DEF BatchStep
  <2>2. IsBatched(f, 0)
    BY <2>1
  <2>3. 0 \in 0 .. NumPrizes
    BY <1>0
  <2>. HIDE DEF f, IsBatched
  <2>. QED  BY <2>2, <2>3
<1>2. ASSUME NEW m \in 0 .. (NumPrizes - 1), m \in S PROVE m + 1 \in S
  <2>. PICK f : IsBatched(f, m)
    BY <1>2
  <2>. DEFINE g == [p \in 0 .. (m + 1) |-> IF p = m + 1 THEN BatchStep(f[m], p) ELSE f[p]]
  <2>1. ASSUME NEW p \in 0 .. (m + 1) PROVE g[p] = BatchStep(g[p - 1], p)
    <3>1. CASE p = m + 1
      BY <3>1
    <3>2. CASE p # m + 1 /\ p # 0
      <4>1. g[p] = f[p] /\ g[p - 1] = f[p - 1]
        BY <3>2
      <4>2. f[p] = BatchStep(f[p - 1], p)
        BY <3>2
      <4>. HIDE DEF g, IsBatched
      <4>. QED  BY <4>1, <4>2
    <3>3. CASE p = 0
      <4>1. g[p] = f[p]
        BY <3>3
      <4>2. f[p] = BatchStep(f[p - 1], p)
        BY <3>3
      <4>. HIDE DEF g, IsBatched
      <4>. QED  BY <3>3, <4>1, <4>2 DEF BatchStep
    <3>. QED  BY <3>1, <3>2, <3>3
  <2>2. IsBatched(g, m + 1)
    BY <2>1
  <2>3. m + 1 \in 0 .. NumPrizes
    BY <1>0
  <2>. HIDE DEF g, IsBatched
  <2>. QED  BY <2>2, <2>3
<1>3. 0 .. NumPrizes \subseteq S
  <2>. HIDE DEF S
  <2>. QED  BY <1>0, <1>1, <1>2, UpToFrom
<1>4. \E f : IsBatched(f, NumPrizes)
  BY <1>0, <1>3
<1>5. IsBatched(Batched, NumPrizes)
  BY <1>4 DEF Batched
<1>. QED  BY <1>5

\* One more batch.
LEMMA OneMoreBatch ==
  ASSUME NEW b, NEW S, NEW S2, NEW c \in SUBSET Nat,
         BatchesOf(b, S), S2 = S \cup c, S \cap c = {}
  PROVE  BatchesOf(Append(b, c), S2)
<1>. DEFINE n == Len(b)
            b2 == Append(b, c)
<1>1. b \in Seq(SUBSET Nat)
  BY DEF BatchesOf
<1>2. n \in Nat /\ Len(b2) = n + 1 /\ b2[n + 1] = c /\ b2 \in Seq(SUBSET Nat)
  BY <1>1, LenProperties, AppendProperties
<1>3. \A k \in 1 .. n : b2[k] = b[k]
  BY <1>1, AppendProperties
<1>4. /\ \A k \in 1 .. n : b[k] \subseteq S
      /\ \A j, k \in 1 .. n : j # k => b[j] \cap b[k] = {}
      /\ \A x \in S : \E k \in 1 .. n : x \in b[k]
  BY DEF BatchesOf
<1>. HIDE DEF n, b2
<1>5. \A k \in 1 .. (n + 1) : k \in 1 .. n \/ k = n + 1
  BY <1>2
<1>6. \A k \in 1 .. (n + 1) : b2[k] \subseteq S2
  BY <1>2, <1>3, <1>4, <1>5
<1>7. ASSUME NEW j \in 1 .. (n + 1), NEW k \in 1 .. (n + 1), j # k PROVE b2[j] \cap b2[k] = {}
  <2>1. CASE j \in 1 .. n /\ k \in 1 .. n
    BY <1>3, <1>4, <1>7, <2>1
  <2>2. CASE j \in 1 .. n /\ k = n + 1
    <3>1. b2[j] \subseteq S /\ b2[k] = c
      BY <1>2, <1>3, <1>4, <2>2
    <3>. QED  BY <3>1
  <2>3. CASE k \in 1 .. n /\ j = n + 1
    <3>1. b2[k] \subseteq S /\ b2[j] = c
      BY <1>2, <1>3, <1>4, <2>3
    <3>. QED  BY <3>1
  <2>. QED  BY <1>5, <1>7, <2>1, <2>2, <2>3
<1>8. ASSUME NEW x \in S2 PROVE \E k \in 1 .. (n + 1) : x \in b2[k]
  <2>1. CASE x \in c
    <3>1. n + 1 \in 1 .. (n + 1)
      BY <1>2
    <3>. QED  BY <1>2, <2>1, <3>1
  <2>2. CASE x \in S
    <3>1. PICK k \in 1 .. n : x \in b[k]
      BY <1>4, <2>2
    <3>2. k \in 1 .. (n + 1) /\ x \in b2[k]
      BY <1>2, <1>3, <3>1
    <3>. QED  BY <3>2
  <2>. QED  BY <2>1, <2>2
<1>9. BatchesOf(b2, S2)
  BY <1>2, <1>6, <1>7, <1>8 DEF BatchesOf
<1>. QED  BY <1>9 DEF b2

\* The batches of tokens.
LEMMA TokenBatchesAre == BatchesOf(TokenBatches, Prizes)
<1>. DEFINE F == Batched
            Good(m) ==
              /\ BatchesOf(F[m].done, 1 .. m \ F[m].cur)
              /\ F[m].cur \subseteq 1 .. m
            S == {m \in 0 .. NumPrizes : Good(m)}
<1>0. NumPrizes \in Nat
  BY AuctionAssumption
<1>1. \A p \in 0 .. NumPrizes : F[p] = BatchStep(F[p - 1], p)
  BY BatchedDefined
<1>. HIDE DEF F
<1>2. 0 \in S
  <2>1. F[0] = [done |-> << >>, cur |-> {}, counter |-> 0]
    <3>1. 0 \in 0 .. NumPrizes
      BY <1>0
    <3>2. F[0] = BatchStep(F[0 - 1], 0)
      BY <1>1, <3>1
    <3>. QED  BY <3>2 DEF BatchStep
  <2>2. << >> \in Seq(SUBSET Nat) /\ Len(<< >>) = 0
    BY EmptySeq
  <2>3. F[0].done = << >> /\ F[0].cur = {}
    BY <2>1
  <2>4. 1 .. 0 \ {} = {}
    OBVIOUS
  <2>5. BatchesOf(<< >>, {})
    BY <2>2 DEF BatchesOf
  <2>6. Good(0)
    BY <2>3, <2>4, <2>5
  <2>. QED  BY <1>0, <2>6
<1>3. ASSUME NEW m \in 0 .. (NumPrizes - 1), m \in S PROVE m + 1 \in S
  <2>. DEFINE d == F[m].done
              c == F[m].cur
              c2 == c \cup {m + 1}
  <2>1. F[m + 1] = BatchStep(F[m], m + 1)
    <3>1. m + 1 \in 0 .. NumPrizes /\ m + 1 - 1 = m
      BY <1>0
    <3>. QED  BY <1>1, <3>1
  <2>2. BatchesOf(d, 1 .. m \ c) /\ c \subseteq 1 .. m
    BY <1>3
  <2>3. m + 1 # 0 /\ m + 1 \in 0 .. NumPrizes
    BY <1>0
  <2>4. CASE F[m].counter = BatchSize
    <3>1. F[m + 1] = [done |-> Append(d, c2), cur |-> {}, counter |-> 1]
      BY <2>1, <2>3, <2>4 DEF BatchStep
    <3>2. F[m + 1].done = Append(d, c2) /\ F[m + 1].cur = {}
      BY <3>1
    <3>3. BatchesOf(Append(d, c2), 1 .. (m + 1))
      <4>1. 1 .. (m + 1) = (1 .. m \ c) \cup c2 /\ (1 .. m \ c) \cap c2 = {} /\ c2 \in SUBSET Nat
        BY <2>2
      <4>. HIDE DEF d, c2
      <4>. QED  BY <2>2, <4>1, OneMoreBatch
    <3>4. 1 .. (m + 1) \ {} = 1 .. (m + 1)
      OBVIOUS
    <3>5. Good(m + 1)
      <4>. HIDE DEF d, c2
      <4>. QED  BY <3>2, <3>3, <3>4
    <3>. QED  BY <2>3, <3>5
  <2>5. CASE F[m].counter # BatchSize
    <3>1. F[m + 1] = [done |-> d, cur |-> c2, counter |-> F[m].counter + 1]
      BY <2>1, <2>3, <2>5 DEF BatchStep
    <3>2. F[m + 1].done = d /\ F[m + 1].cur = c2
      BY <3>1
    <3>3. 1 .. (m + 1) \ c2 = 1 .. m \ c /\ c2 \subseteq 1 .. (m + 1)
      BY <2>2
    <3>4. Good(m + 1)
      <4>. HIDE DEF d, c2, c
      <4>. QED  BY <2>2, <3>2, <3>3
    <3>. QED  BY <2>3, <3>4
  <2>. QED  BY <2>4, <2>5
<1>4. Good(NumPrizes)
  <2>1. 0 .. NumPrizes \subseteq S
    <3>. HIDE DEF S
    <3>. QED  BY <1>0, <1>2, <1>3, UpToFrom
  <2>2. NumPrizes \in S
    <3>1. NumPrizes \in 0 .. NumPrizes
      BY <1>0
    <3>. HIDE DEF S
    <3>. QED  BY <2>1, <3>1
  <2>. QED  BY <2>2
<1>5. TokenBatches = Append(F[NumPrizes].done, F[NumPrizes].cur)
  BY TokenBatchesAreBatched DEF F
<1>. DEFINE d == F[NumPrizes].done
            c == F[NumPrizes].cur
<1>6. /\ 1 .. NumPrizes = (1 .. NumPrizes \ c) \cup c
      /\ (1 .. NumPrizes \ c) \cap c = {}
      /\ c \in SUBSET Nat
  BY <1>4
<1>7. BatchesOf(d, 1 .. NumPrizes \ c)
  BY <1>4
<1>. HIDE DEF d, c
<1>8. BatchesOf(Append(d, c), 1 .. NumPrizes)
  BY <1>6, <1>7, OneMoreBatch
<1>. QED  BY <1>5, <1>8 DEF d, c, Prizes

-----------------------------------------------------------------------------
(* The list of the auction.                                                 *)

\* The steps made from batches.
LEMMA BatchesLaidOut ==
  ASSUME NEW op \in Ops, op \notin Single, NEW b, NEW S, BatchesOf(b, S),
         op \in Several => S \subseteq Prizes
  PROVE  /\ LaidOut(Steps(op, b), Rank(op), Rank(op))
         /\ \A x \in S : Occurs(Steps(op, b), op, x)
<1>. DEFINE n == Len(b)
<1>1. b \in Seq(SUBSET Nat) /\ n \in Nat
  BY LenProperties DEF BatchesOf
<1>2. /\ \A k \in 1 .. n : b[k] \subseteq S
      /\ \A j, k \in 1 .. n : j # k => b[j] \cap b[k] = {}
      /\ \A x \in S : \E k \in 1 .. n : x \in b[k]
  BY DEF BatchesOf
<1>3. n = Len(b)
  OBVIOUS
<1>. HIDE DEF n
<1>4. op \in Several => \A k \in 1 .. n : b[k] \subseteq Prizes
  BY <1>2
<1>5. /\ LaidOut(Steps(op, b), Rank(op), Rank(op))
      /\ \A k \in 1 .. n : \A x \in b[k] : Occurs(Steps(op, b), op, x)
  BY <1>1, <1>2, <1>3, <1>4, StepsLaidOut
<1>. QED  BY <1>2, <1>5

\* The boxes, one by one.
LEMMA BoxesAre == BatchesOf([p \in Prizes |-> {p}], Prizes)
<1>. DEFINE b == [p \in Prizes |-> {p}]
<1>1. NumPrizes \in Nat /\ Prizes = 1 .. NumPrizes
  BY AuctionAssumption DEF Prizes
<1>2. b \in Seq(SUBSET Nat) /\ Len(b) = NumPrizes
  BY <1>1, IsASeq
<1>3. \A k \in 1 .. NumPrizes : b[k] = {k}
  BY <1>1
<1>. HIDE DEF b
<1>4. BatchesOf(b, Prizes)
  BY <1>1, <1>2, <1>3 DEF BatchesOf
<1>. QED  BY <1>4 DEF b

\* Lists of prizes, and of pages.
LEMMA PrizeListIs ==
  /\ NumPrizes \in Nat \ {0} /\ Prizes = 1 .. NumPrizes
  /\ PrizeList \in Seq(Nat) /\ Len(PrizeList) = NumPrizes
  /\ \A i \in 1 .. NumPrizes : PrizeList[i] = i
<1>1. NumPrizes \in Nat \ {0} /\ Prizes = 1 .. NumPrizes
  BY AuctionAssumption DEF Prizes
<1>2. PrizeList \in Seq(Nat) /\ Len(PrizeList) = NumPrizes
  BY <1>1, IsASeq DEF PrizeList
<1>. QED  BY <1>1, <1>2 DEF PrizeList

LEMMA PrizeGroupsAre == BatchesOf(Groups(PrizeList), Prizes)
<1>1. BatchesOf(Groups(PrizeList), {PrizeList[i] : i \in 1 .. NumPrizes})
  BY PrizeListIs, GroupsAre
<1>2. {PrizeList[i] : i \in 1 .. NumPrizes} = Prizes
  BY PrizeListIs
<1>. QED  BY <1>1, <1>2

LEMMA PageGroupsAre == BatchesOf(Groups([i \in 1 .. FullPages |-> i]), 1 .. FullPages)
<1>. DEFINE s == [i \in 1 .. FullPages |-> i]
<1>1. FullPages \in Nat
  BY AuctionAssumption
<1>2. s \in Seq(Nat) /\ Len(s) = FullPages
  BY <1>1, IsASeq
<1>3. \A i \in 1 .. FullPages : s[i] = i
  OBVIOUS
<1>. HIDE DEF s
<1>4. BatchesOf(Groups(s), {s[i] : i \in 1 .. FullPages})
  BY <1>1, <1>2, <1>3, GroupsAre
<1>5. {s[i] : i \in 1 .. FullPages} = 1 .. FullPages
  BY <1>3
<1>. QED  BY <1>4, <1>5 DEF s

LEMMA SoldGroupsAre == \E S \in SUBSET Prizes : BatchesOf(Groups(Kept(PrizeList, NotMine)), S)
<1>. DEFINE s == Kept(PrizeList, NotMine)
            n == Len(s)
<1>1. s \in Seq(Nat) /\ \E at : Enumerates(at, s, PrizeList, NotMine, NumPrizes)
  BY PrizeListIs, KeptEnumerates
<1>2. PICK at : Enumerates(at, s, PrizeList, NotMine, NumPrizes)
  BY <1>1
<1>3. n \in Nat
  BY <1>1, LenProperties
<1>4. /\ \A i \in 1 .. n : at[i] \in 1 .. NumPrizes
      /\ \A i \in 1 .. n : s[i] = PrizeList[at[i]]
      /\ \A i, j \in 1 .. n : i < j => at[i] < at[j]
  BY <1>2 DEF Enumerates
<1>5. n = Len(s)
  OBVIOUS
<1>. HIDE DEF s, n
<1>6. \A i \in 1 .. n : s[i] = at[i] /\ s[i] \in Prizes
  BY <1>4, PrizeListIs
<1>7. \A i, j \in 1 .. n : i < j => s[i] # s[j]
  BY <1>4, <1>6
<1>8. BatchesOf(Groups(s), {s[i] : i \in 1 .. n})
  BY <1>1, <1>3, <1>5, <1>7, GroupsAre
<1>9. {s[i] : i \in 1 .. n} \in SUBSET Prizes
  BY <1>6
<1>. QED  BY <1>8, <1>9 DEF s

\* The sections of the list.
LEMMA MarkSoldLaidOut == LaidOut(MarkSold, 1, 1)
<1>1. PICK S \in SUBSET Prizes : BatchesOf(Groups(Kept(PrizeList, NotMine)), S)
  BY SoldGroupsAre
<1>2. "markSold" \in Ops /\ "markSold" \notin Single /\ Rank("markSold") = 1
  BY Ranks DEF Ops, Single, Several
<1>. QED  BY <1>1, <1>2, BatchesLaidOut DEF MarkSold

LEMMA AddTokensLaidOut ==
  LaidOut(AddTokens, 4, 4) /\ \A p \in Prizes : Occurs(AddTokens, "addTokens", p)
<1>1. "addTokens" \in Ops /\ "addTokens" \notin Single /\ Rank("addTokens") = 4
  BY Ranks DEF Ops, Single, Several
<1>. QED  BY <1>1, TokenBatchesAre, BatchesLaidOut DEF AddTokens

LEMMA ValidateBoxesLaidOut ==
  LaidOut(ValidateBoxes, 9, 9) /\ \A p \in Prizes : Occurs(ValidateBoxes, "validateBox", p)
<1>1. "validateBox" \in Ops /\ "validateBox" \notin Single /\ Rank("validateBox") = 9
  BY Ranks DEF Ops, Single, Several
<1>. QED  BY <1>1, BoxesAre, BatchesLaidOut DEF ValidateBoxes

LEMMA CacheAuctionLaidOut ==
  /\ LaidOut(CacheAuction, 11, 13)
  /\ \A p \in Prizes : Occurs(CacheAuction, "cacheAuction", p)
  /\ Occurs(CacheAuction, "setStoreIndex", 0)
<1>. DEFINE P == Steps("cacheAuction", Groups(PrizeList))
            Q == <<Once("setStoreIndex")>>
            R == PropagateIndex
<1>1. /\ "cacheAuction" \in Ops /\ "cacheAuction" \notin Single /\ Rank("cacheAuction") = 11
      /\ "setStoreIndex" \in Ops /\ "setStoreIndex" \notin Several /\ Rank("setStoreIndex") = 12
      /\ "propagateIndex" \in Ops /\ "propagateIndex" \notin Single /\ Rank("propagateIndex") = 13
      /\ "propagateIndex" \notin Several
  BY Ranks DEF Ops, Single, Several
<1>2. LaidOut(P, 11, 11) /\ \A p \in Prizes : Occurs(P, "cacheAuction", p)
  BY <1>1, PrizeGroupsAre, BatchesLaidOut
<1>3. LaidOut(Q, 12, 12) /\ Occurs(Q, "setStoreIndex", 0)
  BY <1>1, OneLaidOut
<1>4. LaidOut(R, 13, 13)
  BY <1>1, PageGroupsAre, BatchesLaidOut DEF PropagateIndex
<1>5. CacheAuction = (P \o Q) \o R
  BY DEF CacheAuction
<1>. HIDE DEF P, Q, R
<1>6. P \in Seq(StepSet) /\ Q \in Seq(StepSet) /\ R \in Seq(StepSet)
  BY <1>2, <1>3, <1>4 DEF LaidOut
<1>7. LaidOut(P \o Q, 11, 12)
  BY <1>2, <1>3, JoinedLaidOut
<1>8. LaidOut((P \o Q) \o R, 11, 13)
  BY <1>4, <1>7, JoinedLaidOut
<1>9. P \o Q \in Seq(StepSet)
  BY <1>7 DEF LaidOut
<1>10. \A p \in Prizes : Occurs((P \o Q) \o R, "cacheAuction", p)
  BY <1>2, <1>6, <1>9, JoinedOccurs
<1>11. Occurs((P \o Q) \o R, "setStoreIndex", 0)
  BY <1>3, <1>6, <1>9, JoinedOccurs
<1>. QED  BY <1>5, <1>8, <1>10, <1>11

\* The whole list: in order, and everything in it.
LEMMA PlanLaidOut ==
  /\ LaidOut(Plan, 1, 13)
  /\ \A op \in Single : Occurs(Plan, op, 0)
  /\ \A p \in Prizes : /\ Occurs(Plan, "addTokens", p) /\ Occurs(Plan, "validateBox", p)
                       /\ Occurs(Plan, "cacheAuction", p)
<1>. DEFINE A1 == MarkSold
            A2 == A1 \o BeforeTokens
            A3 == A2 \o AddTokens
            A4 == A3 \o BehindTokens
            A5 == A4 \o ValidateBoxes
            A6 == A5 \o <<Once("startAuction")>>
            A7 == A6 \o CacheAuction
<1>0. Plan = A7
  BY DEF Plan, BeforeTokens, BehindTokens
<1>1. LaidOut(A1, 1, 1)
  BY MarkSoldLaidOut
<1>. HIDE DEF A1
<1>2. /\ LaidOut(A2, 1, 3)
      /\ Occurs(A2, "externalPriceAccount", 0)
      /\ Occurs(A2, "createVault", 0)
  <2>. DEFINE Q == BeforeTokens
  <2>2. /\ LaidOut(Q, 2, 3)
        /\ Occurs(Q, "externalPriceAccount", 0)
        /\ Occurs(Q, "createVault", 0)
    BY BeforeTokensLaidOut
  <2>3. A2 = A1 \o Q
    OBVIOUS
  <2>. HIDE DEF A2, Q
  <2>4. LaidOut(A1 \o Q, 1, 3)
    BY <1>1, <2>2, JoinedLaidOut
  <2>5. A1 \in Seq(StepSet) /\ Q \in Seq(StepSet)
    BY <1>1, <2>2 DEF LaidOut
  <2>6. Occurs(A1 \o Q, "externalPriceAccount", 0)
    BY <1>1, <2>2, <2>5, JoinedOccurs
  <2>7. Occurs(A1 \o Q, "createVault", 0)
    BY <1>1, <2>2, <2>5, JoinedOccurs
  <2>. QED  BY <2>3, <2>4, <2>6, <2>7
<1>. HIDE DEF A2
<1>3. /\ LaidOut(A3, 1, 4)
      /\ Occurs(A3, "externalPriceAccount", 0)
      /\ Occurs(A3, "createVault", 0)
      /\ \A p \in Prizes : Occurs(A3, "addTokens", p)
  <2>. DEFINE Q == AddTokens
  <2>2. /\ LaidOut(Q, 4, 4)
        /\ \A p \in Prizes : Occurs(Q, "addTokens", p)
    BY AddTokensLaidOut
  <2>3. A3 = A2 \o Q
    OBVIOUS
  <2>. HIDE DEF A3, Q
  <2>4. LaidOut(A2 \o Q, 1, 4)
    BY <1>2, <2>2, JoinedLaidOut
  <2>5. A2 \in Seq(StepSet) /\ Q \in Seq(StepSet)
    BY <1>2, <2>2 DEF LaidOut
  <2>6. Occurs(A2 \o Q, "externalPriceAccount", 0)
    BY <1>2, <2>2, <2>5, JoinedOccurs
  <2>7. Occurs(A2 \o Q, "createVault", 0)
    BY <1>2, <2>2, <2>5, JoinedOccurs
  <2>8. \A p \in Prizes : Occurs(A2 \o Q, "addTokens", p)
    BY <1>2, <2>2, <2>5, JoinedOccurs
  <2>. QED  BY <2>3, <2>4, <2>6, <2>7, <2>8
<1>. HIDE DEF A3
<1>4. /\ LaidOut(A4, 1, 8)
      /\ Occurs(A4, "externalPriceAccount", 0)
      /\ Occurs(A4, "createVault", 0)
      /\ \A p \in Prizes : Occurs(A4, "addTokens", p)
      /\ Occurs(A4, "closeVault", 0)
      /\ Occurs(A4, "makeAuction", 0)
      /\ Occurs(A4, "initAuctionManager", 0)
      /\ Occurs(A4, "setAuthorities", 0)
  <2>. DEFINE Q == BehindTokens
  <2>2. /\ LaidOut(Q, 5, 8)
        /\ Occurs(Q, "closeVault", 0)
        /\ Occurs(Q, "makeAuction", 0)
        /\ Occurs(Q, "initAuctionManager", 0)
        /\ Occurs(Q, "setAuthorities", 0)
    BY BehindTokensLaidOut
  <2>3. A4 = A3 \o Q
    OBVIOUS
  <2>. HIDE DEF A4, Q
  <2>4. LaidOut(A3 \o Q, 1, 8)
    BY <1>3, <2>2, JoinedLaidOut
  <2>5. A3 \in Seq(StepSet) /\ Q \in Seq(StepSet)
    BY <1>3, <2>2 DEF LaidOut
  <2>6. Occurs(A3 \o Q, "externalPriceAccount", 0)
    BY <1>3, <2>2, <2>5, JoinedOccurs
  <2>7. Occurs(A3 \o Q, "createVault", 0)
    BY <1>3, <2>2, <2>5, JoinedOccurs
  <2>8. \A p \in Prizes : Occurs(A3 \o Q, "addTokens", p)
    BY <1>3, <2>2, <2>5, JoinedOccurs
  <2>9. Occurs(A3 \o Q, "closeVault", 0)
    BY <1>3, <2>2, <2>5, JoinedOccurs
  <2>10. Occurs(A3 \o Q, "makeAuction", 0)
    BY <1>3, <2>2, <2>5, JoinedOccurs
  <2>11. Occurs(A3 \o Q, "initAuctionManager", 0)
    BY <1>3, <2>2, <2>5, JoinedOccurs
  <2>12. Occurs(A3 \o Q, "setAuthorities", 0)
    BY <1>3, <2>2, <2>5, JoinedOccurs
  <2>. QED  BY <2>3, <2>4, <2>6, <2>7, <2>8, <2>9, <2>10, <2>11, <2>12
<1>. HIDE DEF A4
<1>5. /\ LaidOut(A5, 1, 9)
      /\ Occurs(A5, "externalPriceAccount", 0)
      /\ Occurs(A5, "createVault", 0)
      /\ \A p \in Prizes : Occurs(A5, "addTokens", p)
      /\ Occurs(A5, "closeVault", 0)
      /\ Occurs(A5, "makeAuction", 0)
      /\ Occurs(A5, "initAuctionManager", 0)
      /\ Occurs(A5, "setAuthorities", 0)
      /\ \A p \in Prizes : Occurs(A5, "validateBox", p)
  <2>. DEFINE Q == ValidateBoxes
  <2>2. /\ LaidOut(Q, 9, 9)
        /\ \A p \in Prizes : Occurs(Q, "validateBox", p)
    BY ValidateBoxesLaidOut
  <2>3. A5 = A4 \o Q
    OBVIOUS
  <2>. HIDE DEF A5, Q
  <2>4. LaidOut(A4 \o Q, 1, 9)
    BY <1>4, <2>2, JoinedLaidOut
  <2>5. A4 \in Seq(StepSet) /\ Q \in Seq(StepSet)
    BY <1>4, <2>2 DEF LaidOut
  <2>6. Occurs(A4 \o Q, "externalPriceAccount", 0)
    BY <1>4, <2>2, <2>5, JoinedOccurs
  <2>7. Occurs(A4 \o Q, "createVault", 0)
    BY <1>4, <2>2, <2>5, JoinedOccurs
  <2>8. \A p \in Prizes : Occurs(A4 \o Q, "addTokens", p)
    BY <1>4, <2>2, <2>5, JoinedOccurs
  <2>9. Occurs(A4 \o Q, "closeVault", 0)
    BY <1>4, <2>2, <2>5, JoinedOccurs
  <2>10. Occurs(A4 \o Q, "makeAuction", 0)
    BY <1>4, <2>2, <2>5, JoinedOccurs
  <2>11. Occurs(A4 \o Q, "initAuctionManager", 0)
    BY <1>4, <2>2, <2>5, JoinedOccurs
  <2>12. Occurs(A4 \o Q, "setAuthorities", 0)
    BY <1>4, <2>2, <2>5, JoinedOccurs
  <2>13. \A p \in Prizes : Occurs(A4 \o Q, "validateBox", p)
    BY <1>4, <2>2, <2>5, JoinedOccurs
  <2>. QED  BY <2>3, <2>4, <2>6, <2>7, <2>8, <2>9, <2>10, <2>11, <2>12, <2>13
<1>. HIDE DEF A5
<1>6. /\ LaidOut(A6, 1, 10)
      /\ Occurs(A6, "externalPriceAccount", 0)
      /\ Occurs(A6, "createVault", 0)
      /\ \A p \in Prizes : Occurs(A6, "addTokens", p)
      /\ Occurs(A6, "closeVault", 0)
      /\ Occurs(A6, "makeAuction", 0)
      /\ Occurs(A6, "initAuctionManager", 0)
      /\ Occurs(A6, "setAuthorities", 0)
      /\ \A p \in Prizes : Occurs(A6, "validateBox", p)
      /\ Occurs(A6, "startAuction", 0)
  <2>1. "startAuction" \in Ops /\ "startAuction" \notin Several /\ Rank("startAuction") = 10
    BY Ranks DEF Ops, Single, Several
  <2>. DEFINE Q == <<Once("startAuction")>>
  <2>2. /\ LaidOut(Q, 10, 10)
        /\ Occurs(Q, "startAuction", 0)
    BY <2>1, OneLaidOut
  <2>3. A6 = A5 \o Q
    OBVIOUS
  <2>. HIDE DEF A6, Q
  <2>4. LaidOut(A5 \o Q, 1, 10)
    BY <1>5, <2>2, JoinedLaidOut
  <2>5. A5 \in Seq(StepSet) /\ Q \in Seq(StepSet)
    BY <1>5, <2>2 DEF LaidOut
  <2>6. Occurs(A5 \o Q, "externalPriceAccount", 0)
    BY <1>5, <2>2, <2>5, JoinedOccurs
  <2>7. Occurs(A5 \o Q, "createVault", 0)
    BY <1>5, <2>2, <2>5, JoinedOccurs
  <2>8. \A p \in Prizes : Occurs(A5 \o Q, "addTokens", p)
    BY <1>5, <2>2, <2>5, JoinedOccurs
  <2>9. Occurs(A5 \o Q, "closeVault", 0)
    BY <1>5, <2>2, <2>5, JoinedOccurs
  <2>10. Occurs(A5 \o Q, "makeAuction", 0)
    BY <1>5, <2>2, <2>5, JoinedOccurs
  <2>11. Occurs(A5 \o Q, "initAuctionManager", 0)
    BY <1>5, <2>2, <2>5, JoinedOccurs
  <2>12. Occurs(A5 \o Q, "setAuthorities", 0)
    BY <1>5, <2>2, <2>5, JoinedOccurs
  <2>13. \A p \in Prizes : Occurs(A5 \o Q, "validateBox", p)
    BY <1>5, <2>2, <2>5, JoinedOccurs
  <2>14. Occurs(A5 \o Q, "startAuction", 0)
    BY <1>5, <2>2, <2>5, JoinedOccurs
  <2>. QED  BY <2>3, <2>4, <2>6, <2>7, <2>8, <2>9, <2>10, <2>11, <2>12, <2>13, <2>14
<1>. HIDE DEF A6
<1>7. /\ LaidOut(A7, 1, 13)
      /\ Occurs(A7, "externalPriceAccount", 0)
      /\ Occurs(A7, "createVault", 0)
      /\ \A p \in Prizes : Occurs(A7, "addTokens", p)
      /\ Occurs(A7, "closeVault", 0)
      /\ Occurs(A7, "makeAuction", 0)
      /\ Occurs(A7, "initAuctionManager", 0)
      /\ Occurs(A7, "setAuthorities", 0)
      /\ \A p \in Prizes : Occurs(A7, "validateBox", p)
      /\ Occurs(A7, "startAuction", 0)
      /\ \A p \in Prizes : Occurs(A7, "cacheAuction", p)
      /\ Occurs(A7, "setStoreIndex", 0)
  <2>. DEFINE Q == CacheAuction
  <2>2. /\ LaidOut(Q, 11, 13)
        /\ \A p \in Prizes : Occurs(Q, "cacheAuction", p)
        /\ Occurs(Q, "setStoreIndex", 0)
    BY CacheAuctionLaidOut
  <2>3. A7 = A6 \o Q
    OBVIOUS
  <2>. HIDE DEF A7, Q
  <2>4. LaidOut(A6 \o Q, 1, 13)
    BY <1>6, <2>2, JoinedLaidOut
  <2>5. A6 \in Seq(StepSet) /\ Q \in Seq(StepSet)
    BY <1>6, <2>2 DEF LaidOut
  <2>6. Occurs(A6 \o Q, "externalPriceAccount", 0)
    BY <1>6, <2>2, <2>5, JoinedOccurs
  <2>7. Occurs(A6 \o Q, "createVault", 0)
    BY <1>6, <2>2, <2>5, JoinedOccurs
  <2>8. \A p \in Prizes : Occurs(A6 \o Q, "addTokens", p)
    BY <1>6, <2>2, <2>5, JoinedOccurs
  <2>9. Occurs(A6 \o Q, "closeVault", 0)
    BY <1>6, <2>2, <2>5, JoinedOccurs
  <2>10. Occurs(A6 \o Q, "makeAuction", 0)
    BY <1>6, <2>2, <2>5, JoinedOccurs
  <2>11. Occurs(A6 \o Q, "initAuctionManager", 0)
    BY <1>6, <2>2, <2>5, JoinedOccurs
  <2>12. Occurs(A6 \o Q, "setAuthorities", 0)
    BY <1>6, <2>2, <2>5, JoinedOccurs
  <2>13. \A p \in Prizes : Occurs(A6 \o Q, "validateBox", p)
    BY <1>6, <2>2, <2>5, JoinedOccurs
  <2>14. Occurs(A6 \o Q, "startAuction", 0)
    BY <1>6, <2>2, <2>5, JoinedOccurs
  <2>15. \A p \in Prizes : Occurs(A6 \o Q, "cacheAuction", p)
    BY <1>6, <2>2, <2>5, JoinedOccurs
  <2>16. Occurs(A6 \o Q, "setStoreIndex", 0)
    BY <1>6, <2>2, <2>5, JoinedOccurs
  <2>. QED  BY <2>3, <2>4, <2>6, <2>7, <2>8, <2>9, <2>10, <2>11, <2>12, <2>13, <2>14, <2>15, <2>16
<1>. HIDE DEF A7
<1>8. \A op \in Single : Occurs(A7, op, 0)
  BY <1>7 DEF Single
<1>. QED  BY <1>0, <1>7, <1>8

\* The list of signers lies beside the list of steps: as long, and at each place
\* the keys of the step.
KeySets == SUBSET (Ops \X Nat)
Beside(S, P) ==
  /\ P \in Seq(StepSet) /\ S \in Seq(KeySets) /\ Len(S) = Len(P)
  /\ \A i \in 1 .. Len(P) : S[i] = KeysOf(P[i])

\* Two such pairs one after the other.
LEMMA JoinedBeside ==
  ASSUME NEW P1, NEW S1, NEW P2, NEW S2, Beside(S1, P1), Beside(S2, P2)
  PROVE  Beside(S1 \o S2, P1 \o P2)
<1>. DEFINE n == Len(P1)
            m == Len(P2)
            P == P1 \o P2
            S == S1 \o S2
<1>1. /\ P1 \in Seq(StepSet) /\ P2 \in Seq(StepSet) /\ S1 \in Seq(KeySets) /\ S2 \in Seq(KeySets)
      /\ Len(S1) = n /\ Len(S2) = m
  BY DEF Beside
<1>2. n \in Nat /\ m \in Nat
  BY <1>1, LenProperties
<1>3. P \in Seq(StepSet) /\ Len(P) = n + m /\ S \in Seq(KeySets) /\ Len(S) = n + m
  <2>1. P \in Seq(StepSet) /\ Len(P) = n + m
    BY <1>1, ConcatProperties
  <2>2. S \in Seq(KeySets) /\ Len(S) = Len(S1) + Len(S2)
    BY <1>1, ConcatProperties
  <2>. QED  BY <1>1, <2>1, <2>2
<1>4. \A i \in 1 .. n : P[i] = P1[i] /\ S[i] = S1[i]
  BY <1>1, <1>2, ConcatProperties
<1>5. \A i \in (n + 1) .. (n + m) : P[i] = P2[i - n] /\ S[i] = S2[i - n] /\ i - n \in 1 .. m
  BY <1>1, <1>2, ConcatProperties
<1>6. (\A i \in 1 .. n : S1[i] = KeysOf(P1[i])) /\ \A i \in 1 .. m : S2[i] = KeysOf(P2[i])
  BY DEF Beside
<1>. HIDE DEF n, m, P, S
<1>7. ASSUME NEW i \in 1 .. (n + m) PROVE S[i] = KeysOf(P[i])
  <2>1. CASE i \in 1 .. n
    BY <1>4, <1>6, <2>1
  <2>2. CASE i \in (n + 1) .. (n + m)
    BY <1>5, <1>6, <2>2
  <2>. QED  BY <1>2, <2>1, <2>2
<1>8. Beside(S, P)
  BY <1>3, <1>7 DEF Beside
<1>. QED  BY <1>8 DEF S, P

\* The keys of a step, and of one that the wallet signs alone.
LEMMA KeysTyped == \A step \in StepSet : KeysOf(step) \in KeySets
BY DEF KeysOf, KeySets, StepSet

LEMMA NoKeys ==
  ASSUME NEW lo \in Nat, NEW hi \in Nat, NEW P, LaidOut(P, lo, hi),
         \A op \in KeyOps : Rank(op) < lo \/ hi < Rank(op)
  PROVE  Beside(WalletAlone(P), P)
<1>1. P \in Seq(StepSet) /\ Len(P) \in Nat /\ DOMAIN P = 1 .. Len(P)
  BY LenProperties DEF LaidOut
<1>2. \A i \in 1 .. Len(P) : WalletAlone(P)[i] = {}
  BY <1>1 DEF WalletAlone
<1>3. WalletAlone(P) \in Seq(KeySets) /\ Len(WalletAlone(P)) = Len(P)
  <2>. DEFINE n == Len(P)
  <2>1. {} \in KeySets /\ n \in Nat /\ WalletAlone(P) = [i \in 1 .. n |-> {}]
    BY <1>1 DEF KeySets, WalletAlone
  <2>. HIDE DEF n
  <2>2. WalletAlone(P) \in Seq(KeySets) /\ Len(WalletAlone(P)) = n
    BY <2>1, IsASeq
  <2>. QED  BY <2>2 DEF n
<1>4. \A i \in 1 .. Len(P) : P[i].items = {} \/ P[i].op \notin KeyOps
  <2>. SUFFICES ASSUME NEW i \in 1 .. Len(P), P[i].items # {}, P[i].op \in KeyOps PROVE FALSE
    OBVIOUS
  <2>1. lo <= Rank(P[i].op) /\ Rank(P[i].op) <= hi
    BY DEF LaidOut
  <2>2. Rank(P[i].op) \in Nat
    BY RankTyped, Zenon
  <2>. QED  BY <2>1, <2>2
<1>5. \A i \in 1 .. Len(P) : KeysOf(P[i]) = {}
  BY <1>4 DEF KeysOf
<1>. QED  BY <1>1, <1>2, <1>3, <1>5 DEF Beside

\* Keys for every prize, batch by batch.
LEMMA TokenKeys == Beside(TokenSigners, AddTokens)
<1>. DEFINE b == TokenBatches
            n == Len(b)
<1>1. b \in Seq(SUBSET Nat) /\ n \in Nat /\ DOMAIN b = 1 .. n /\ \A i \in 1 .. n : b[i] \in SUBSET Nat
  BY TokenBatchesAre, LenProperties DEF BatchesOf
<1>2. AddTokens = [i \in 1 .. n |-> Step("addTokens", b[i])]
  BY <1>1 DEF AddTokens, Steps
<1>3. TokenSigners = [i \in 1 .. n |-> {<<"addTokens", p>> : p \in b[i]}]
  BY <1>1 DEF TokenSigners
<1>4. "addTokens" \in Ops /\ "addTokens" \in KeyOps
  BY DEF Ops, Several, KeyOps
<1>. HIDE DEF b, n
<1>5. \A i \in 1 .. n : /\ Step("addTokens", b[i]) \in StepSet
                        /\ {<<"addTokens", p>> : p \in b[i]} \in KeySets
                        /\ {<<"addTokens", p>> : p \in b[i]} = KeysOf(Step("addTokens", b[i]))
  BY <1>1, <1>4 DEF Step, StepSet, KeySets, KeysOf
<1>6. AddTokens \in Seq(StepSet) /\ Len(AddTokens) = n
  <2>. DEFINE e(i) == Step("addTokens", b[i])
  <2>1. AddTokens = [i \in 1 .. n |-> e(i)] /\ \A i \in 1 .. n : e(i) \in StepSet
    BY <1>2, <1>5
  <2>. HIDE DEF e
  <2>. QED  BY <1>1, <2>1, IsASeq
<1>7. TokenSigners \in Seq(KeySets) /\ Len(TokenSigners) = n
  BY <1>1, <1>3, <1>5, IsASeq
<1>8. \A i \in 1 .. n : TokenSigners[i] = KeysOf(AddTokens[i])
  BY <1>2, <1>3, <1>5
<1>. QED  BY <1>6, <1>7, <1>8 DEF Beside

\* The steps around the vault's tokens.
SignersBefore == <<SignersOf("externalPriceAccount"), {}, {}, SignersOf("createVault")>>
SignersBehind == <<{}, SignersOf("closeVault"), {}, SignersOf("initAuctionManager"), {}, {}>>

LEMMA KeysBefore == Beside(SignersBefore, BeforeTokens)
<1>1. BeforeTokens \in Seq(StepSet)
  BY BeforeTokensLaidOut DEF LaidOut
<1>2. /\ KeysOf(Once("externalPriceAccount")) = SignersOf("externalPriceAccount")
      /\ KeysOf(Step("populateAuthorization", {})) = {} /\ KeysOf(Step("populatePrintingTokens", {})) = {}
      /\ KeysOf(Once("createVault")) = SignersOf("createVault")
  BY DEF KeysOf, KeyOps, SignersOf, Once, Step
<1>3. SignersOf("externalPriceAccount") \in KeySets /\ SignersOf("createVault") \in KeySets /\ {} \in KeySets
  BY DEF SignersOf, KeySets, Ops, Single
<1>4. SignersBefore \in Seq(KeySets) /\ Len(SignersBefore) = 4 /\ Len(BeforeTokens) = 4
  BY <1>3 DEF SignersBefore, BeforeTokens
<1>5. \A i \in 1 .. 4 : SignersBefore[i] = KeysOf(BeforeTokens[i])
  <2>1. /\ SignersBefore[1] = KeysOf(BeforeTokens[1]) /\ SignersBefore[2] = KeysOf(BeforeTokens[2])
        /\ SignersBefore[3] = KeysOf(BeforeTokens[3]) /\ SignersBefore[4] = KeysOf(BeforeTokens[4])
    BY <1>2 DEF SignersBefore, BeforeTokens
  <2>. QED  BY <2>1
<1>. QED  BY <1>1, <1>4, <1>5 DEF Beside

LEMMA KeysBehind == Beside(SignersBehind, BehindTokens)
<1>1. BehindTokens \in Seq(StepSet)
  BY BehindTokensLaidOut DEF LaidOut
<1>2. /\ KeysOf(Step("createReservationList", {})) = {} /\ KeysOf(Once("closeVault")) = SignersOf("closeVault")
      /\ KeysOf(Once("makeAuction")) = {}
      /\ KeysOf(Once("initAuctionManager")) = SignersOf("initAuctionManager")
      /\ KeysOf(Once("setAuthorities")) = {} /\ KeysOf(Step("validateParticipation", {})) = {}
  BY DEF KeysOf, KeyOps, SignersOf, Once, Step
<1>3. SignersOf("closeVault") \in KeySets /\ SignersOf("initAuctionManager") \in KeySets /\ {} \in KeySets
  BY DEF SignersOf, KeySets, Ops, Single
<1>4. SignersBehind \in Seq(KeySets) /\ Len(SignersBehind) = 6 /\ Len(BehindTokens) = 6
  BY <1>3 DEF SignersBehind, BehindTokens
<1>5. \A i \in 1 .. 6 : SignersBehind[i] = KeysOf(BehindTokens[i])
  <2>1. /\ SignersBehind[1] = KeysOf(BehindTokens[1]) /\ SignersBehind[2] = KeysOf(BehindTokens[2])
        /\ SignersBehind[3] = KeysOf(BehindTokens[3]) /\ SignersBehind[4] = KeysOf(BehindTokens[4])
        /\ SignersBehind[5] = KeysOf(BehindTokens[5]) /\ SignersBehind[6] = KeysOf(BehindTokens[6])
    BY <1>2 DEF SignersBehind, BehindTokens
  <2>. QED  BY <2>1
<1>. QED  BY <1>1, <1>4, <1>5 DEF Beside

\* The two lists of the code lie side by side.
LEMMA SignersBesidePlan == Beside(SignerLists, Plan)
<1>. DEFINE P1 == MarkSold  S1 == WalletAlone(MarkSold)
            P5 == ValidateBoxes  S5 == WalletAlone(ValidateBoxes)
            P7 == CacheAuction  S7 == WalletAlone(CacheAuction)
            P6 == <<Once("startAuction")>>  S6 == << {} >>
            P2 == BeforeTokens  S2 == SignersBefore
            P3 == AddTokens  S3 == TokenSigners
            P4 == BehindTokens  S4 == SignersBehind
<1>1. /\ \A op \in KeyOps : Rank(op) < 1 \/ 1 < Rank(op)
      /\ \A op \in KeyOps : Rank(op) < 9 \/ 9 < Rank(op)
      /\ \A op \in KeyOps : Rank(op) < 11 \/ 13 < Rank(op)
  BY DEF KeyOps, Rank
<1>2. Beside(S1, P1)
  BY <1>1, MarkSoldLaidOut, NoKeys
<1>3. Beside(S2, P2) /\ Beside(S3, P3) /\ Beside(S4, P4)
  BY KeysBefore, TokenKeys, KeysBehind
<1>4. Beside(S5, P5)
  BY <1>1, ValidateBoxesLaidOut, NoKeys
<1>5. Beside(S6, P6)
  <2>1. Once("startAuction") \in StepSet /\ {} \in KeySets /\ KeysOf(Once("startAuction")) = {}
    BY OnceTyped DEF Ops, Single, KeySets, KeysOf, KeyOps, Once, Step
  <2>. QED  BY <2>1 DEF Beside
<1>6. Beside(S7, P7)
  BY <1>1, CacheAuctionLaidOut, NoKeys
<1>7. /\ Plan = (((((P1 \o P2) \o P3) \o P4) \o P5) \o P6) \o P7
      /\ SignerLists = (((((S1 \o S2) \o S3) \o S4) \o S5) \o S6) \o S7
  BY DEF Plan, SignerLists, BeforeTokens, BehindTokens, SignersBefore, SignersBehind
<1>. HIDE DEF P1, S1, P2, S2, P3, S3, P4, S4, P5, S5, P6, S6, P7, S7
<1>8. Beside(S1 \o S2, P1 \o P2)
  BY <1>2, <1>3, JoinedBeside
<1>9. Beside((S1 \o S2) \o S3, (P1 \o P2) \o P3)
  BY <1>3, <1>8, JoinedBeside
<1>10. Beside(((S1 \o S2) \o S3) \o S4, ((P1 \o P2) \o P3) \o P4)
  BY <1>3, <1>9, JoinedBeside
<1>11. Beside((((S1 \o S2) \o S3) \o S4) \o S5, (((P1 \o P2) \o P3) \o P4) \o P5)
  BY <1>4, <1>10, JoinedBeside
<1>12. Beside(((((S1 \o S2) \o S3) \o S4) \o S5) \o S6, ((((P1 \o P2) \o P3) \o P4) \o P5) \o P6)
  BY <1>5, <1>11, JoinedBeside
<1>13. Beside((((((S1 \o S2) \o S3) \o S4) \o S5) \o S6) \o S7, (((((P1 \o P2) \o P3) \o P4) \o P5) \o P6) \o P7)
  BY <1>6, <1>12, JoinedBeside
<1>. QED  BY <1>7, <1>13

\* Leaving out the entries at the same places keeps them side by side.
LEMMA KeptBeside ==
  ASSUME NEW S, NEW P, Beside(S, P), NEW places
  PROVE  Beside(Kept(S, places), Kept(P, places))
<1>. DEFINE n == Len(P)
            F == Keeps(P, places)
            G == Keeps(S, places)
            Done == {m \in 0 .. n : Beside(G[m], F[m])}
<1>1. n \in Nat /\ n = Len(P) /\ n = Len(S) /\ P \in Seq(StepSet) /\ S \in Seq(KeySets)
  BY LenProperties DEF Beside
<1>2. /\ \A i \in 0 .. n : F[i] = KeptStep(P, places, F[i - 1], i)
      /\ \A i \in 0 .. n : G[i] = KeptStep(S, places, G[i - 1], i)
  BY <1>1, KeepsDefined
<1>3. \A i \in 1 .. n : S[i] = KeysOf(P[i]) /\ P[i] \in StepSet
  BY <1>1 DEF Beside
<1>4. Kept(P, places) = F[n] /\ Kept(S, places) = G[n]
  BY <1>1, KeptIsKeeps
<1>. HIDE DEF F, G, n
<1>5. 0 \in Done
  <2>1. F[0] = << >> /\ G[0] = << >>
    BY <1>1, <1>2 DEF KeptStep
  <2>2. Beside(<< >>, << >>)
    BY DEF Beside
  <2>. QED  BY <1>1, <2>1, <2>2
<1>6. ASSUME NEW m \in 0 .. (n - 1), m \in Done PROVE m + 1 \in Done
  <2>1. m + 1 \in 0 .. n /\ m + 1 \in 1 .. n /\ m + 1 # 0 /\ m + 1 - 1 = m
    BY <1>1
  <2>2. F[m + 1] = KeptStep(P, places, F[m], m + 1) /\ G[m + 1] = KeptStep(S, places, G[m], m + 1)
    <3>1. F[m + 1] = KeptStep(P, places, F[m + 1 - 1], m + 1) /\ G[m + 1] = KeptStep(S, places, G[m + 1 - 1], m + 1)
      BY <1>2, <2>1
    <3>. QED  BY <2>1, <3>1
  <2>3. Beside(G[m], F[m])
    BY <1>6
  <2>4. CASE m + 1 \notin places
    <3>1. F[m + 1] = F[m] /\ G[m + 1] = G[m]
      BY <2>1, <2>2, <2>4 DEF KeptStep
    <3>. QED  BY <2>1, <2>3, <3>1
  <2>5. CASE m + 1 \in places
    <3>1. F[m + 1] = Append(F[m], P[m + 1]) /\ G[m + 1] = Append(G[m], S[m + 1])
      BY <2>1, <2>2, <2>5 DEF KeptStep
    <3>. PICK f : f = F[m]
      OBVIOUS
    <3>. PICK g : g = G[m]
      OBVIOUS
    <3>. PICK e : e = P[m + 1]
      OBVIOUS
    <3>. PICK k : k = S[m + 1]
      OBVIOUS
    <3>2. e \in StepSet /\ k = KeysOf(e) /\ k \in KeySets
      BY <1>3, <2>1, KeysTyped
    <3>3. Beside(g, f)
      BY <2>3
    <3>4. Beside(Append(g, k), Append(f, e))
      <4>1. f \in Seq(StepSet) /\ g \in Seq(KeySets) /\ Len(g) = Len(f) /\ \A i \in 1 .. Len(f) : g[i] = KeysOf(f[i])
        BY <3>3 DEF Beside
      <4>. PICK l : l = Len(f)
        OBVIOUS
      <4>2. l \in Nat
        BY <4>1, LenProperties
      <4>3. /\ Append(f, e) \in Seq(StepSet) /\ Len(Append(f, e)) = l + 1 /\ Append(f, e)[l + 1] = e
            /\ \A i \in 1 .. l : Append(f, e)[i] = f[i]
            /\ Append(g, k) \in Seq(KeySets) /\ Len(Append(g, k)) = l + 1 /\ Append(g, k)[l + 1] = k
            /\ \A i \in 1 .. l : Append(g, k)[i] = g[i]
        BY <3>2, <4>1, AppendProperties
      <4>4. ASSUME NEW i \in 1 .. (l + 1) PROVE Append(g, k)[i] = KeysOf(Append(f, e)[i])
        <5>1. CASE i = l + 1
          BY <3>2, <4>3, <5>1
        <5>2. CASE i \in 1 .. l
          BY <4>1, <4>3, <5>2
        <5>3. i = l + 1 \/ i \in 1 .. l
          BY <4>2
        <5>. QED  BY <5>1, <5>2, <5>3
      <4>. QED  BY <4>3, <4>4 DEF Beside
    <3>. QED  BY <2>1, <3>1, <3>4
  <2>. QED  BY <2>4, <2>5
<1>7. 0 .. n \subseteq Done
  <2>. HIDE DEF Done
  <2>. QED  BY <1>1, <1>5, <1>6, UpToFrom
<1>8. Beside(G[n], F[n])
  BY <1>1, <1>7
<1>. QED  BY <1>4, <1>8

\* Each transaction of the list is signed with its own keys, whatever was left
\* out of the two lists (createAuctionManager.ts:290-334).
THEOREM SignersMatch ==
  /\ Len(FilteredSigners) = Len(Instructions)
  /\ \A t \in Txs : FilteredSigners[t] = KeysOf(Instructions[t])
<1>1. DOMAIN Plan = 1 .. Len(Plan) /\ DOMAIN SignerLists = 1 .. Len(SignerLists) /\ Len(SignerLists) = Len(Plan)
  BY SignersBesidePlan, LenProperties DEF Beside
<1>2. /\ Instructions = Kept(Plan, DOMAIN Plan \ ToRemove)
      /\ FilteredSigners = Kept(SignerLists, DOMAIN Plan \ ToRemove)
  BY <1>1 DEF Instructions, FilteredSigners
<1>3. Beside(FilteredSigners, Instructions)
  BY <1>2, SignersBesidePlan, KeptBeside
<1>. QED  BY <1>3 DEF Beside, Txs, Total

\* The instructions are the plan without its empty steps.
LEMMA InstructionsAre ==
  /\ Instructions \in Seq(StepSet)
  /\ \E at : Enumerates(at, Instructions, Plan, {i \in DOMAIN Plan : ~Empty(Plan[i])}, Len(Plan))
<1>. DEFINE P == Plan
            K == {i \in DOMAIN P : ~Empty(P[i])}
            n == Len(P)
<1>1. P \in Seq(StepSet) /\ n \in Nat
  BY PlanLaidOut, LenProperties DEF LaidOut
<1>2. DOMAIN P \ ToRemove = K
  BY DEF ToRemove
<1>3. Instructions = Kept(P, K)
  BY <1>2 DEF Instructions
<1>5. n = Len(P)
  OBVIOUS
<1>. HIDE DEF P, K, n
<1>6. Kept(P, K) \in Seq(StepSet) /\ \E at : Enumerates(at, Kept(P, K), P, K, n)
  BY <1>1, <1>5, KeptEnumerates
<1>. QED  BY <1>3, <1>6 DEF P, K, n

\* What the list is like: in order, no two transactions do the same, and all
\* that is needed is in it.
LEMMA Layout ==
  /\ Total \in Nat /\ Instructions \in Seq(StepSet)
  /\ \A t \in Txs : /\ Instructions[t] \in StepSet
                    /\ Instructions[t].items # {} /\ Rank(Instructions[t].op) \in 1 .. 13
  /\ \A s, t \in Txs : s < t => Rank(Instructions[s].op) <= Rank(Instructions[t].op)
  /\ \A s, t \in Txs : s # t /\ Instructions[s].op = Instructions[t].op =>
       Instructions[s].items \cap Instructions[t].items = {}
  /\ \A t \in Txs : /\ Instructions[t].op \in Single => Instructions[t].items = {0}
                    /\ Instructions[t].op \in Several => Instructions[t].items \subseteq Prizes
  /\ \A op \in Single : \E t \in Txs : Instructions[t].op = op
  /\ \A p \in Prizes :
       /\ \E t \in Txs : Instructions[t].op = "addTokens" /\ p \in Instructions[t].items
       /\ \E t \in Txs : Instructions[t].op = "validateBox" /\ p \in Instructions[t].items
       /\ \E t \in Txs : Instructions[t].op = "cacheAuction" /\ p \in Instructions[t].items
<1>. DEFINE I == Instructions
            P == Plan
            n == Len(P)
            K == {i \in DOMAIN P : ~Empty(P[i])}
<1>1. PICK at : Enumerates(at, I, P, K, n)
  BY InstructionsAre
<1>2. I \in Seq(StepSet) /\ Total \in Nat /\ Len(I) = Total /\ Txs = 1 .. Total
  BY InstructionsAre, LenProperties DEF Total, Txs
<1>3. P \in Seq(StepSet) /\ n \in Nat /\ DOMAIN P = 1 .. n
  BY PlanLaidOut, LenProperties DEF LaidOut
<1>4. /\ \A i \in 1 .. n : P[i].items # {} => 1 <= Rank(P[i].op) /\ Rank(P[i].op) <= 13
      /\ \A i, j \in 1 .. n :
           i < j /\ P[i].items # {} /\ P[j].items # {} => Rank(P[i].op) <= Rank(P[j].op)
      /\ \A i, j \in 1 .. n : i # j /\ P[i].op = P[j].op => P[i].items \cap P[j].items = {}
      /\ \A i \in 1 .. n : /\ P[i].op \in Single => P[i].items \subseteq {0}
                           /\ P[i].op \in Several => P[i].items \subseteq Prizes
  BY PlanLaidOut DEF LaidOut
<1>5. \A i \in 1 .. n : i \in K <=> P[i].items # {}
  BY <1>3 DEF Empty
<1>6. /\ \A t \in Txs : at[t] \in 1 .. n /\ at[t] \in K /\ I[t] = P[at[t]]
      /\ \A s, t \in Txs : s < t => at[s] < at[t]
      /\ \A i \in 1 .. n : i \in K => \E t \in Txs : at[t] = i
  BY <1>1, <1>2 DEF Enumerates
<1>7. \A op, x : Occurs(P, op, x) => \E i \in 1 .. n : P[i].op = op /\ x \in P[i].items
  BY DEF Occurs
<1>8. \A op \in Single : Occurs(P, op, 0)
  BY PlanLaidOut
<1>9. \A p \in Prizes : Occurs(P, "addTokens", p) /\ Occurs(P, "validateBox", p) /\ Occurs(P, "cacheAuction", p)
  BY PlanLaidOut
<1>10. \A t \in Txs : I[t] \in StepSet
  BY <1>2, ElementOfSeq
<1>. HIDE DEF I, P, n, K
<1>11. \A op, x : Occurs(P, op, x) => \E t \in Txs : I[t].op = op /\ x \in I[t].items
  <2>. SUFFICES ASSUME NEW op, NEW x, Occurs(P, op, x) PROVE \E t \in Txs : I[t].op = op /\ x \in I[t].items
    OBVIOUS
  <2>1. PICK i \in 1 .. n : P[i].op = op /\ x \in P[i].items
    BY <1>7
  <2>2. PICK t \in Txs : at[t] = i
    BY <1>5, <1>6, <2>1
  <2>. QED  BY <1>6, <2>1, <2>2
<1>12. \A t \in Txs : I[t].items # {} /\ Rank(I[t].op) \in 1 .. 13
  <2>. SUFFICES ASSUME NEW t \in Txs PROVE I[t].items # {} /\ Rank(I[t].op) \in 1 .. 13
    OBVIOUS
  <2>1. at[t] \in 1 .. n /\ P[at[t]].items # {} /\ I[t] = P[at[t]]
    BY <1>5, <1>6
  <2>2. Rank(P[at[t]].op) \in Nat
    BY RankTyped
  <2>. QED  BY <1>4, <2>1, <2>2
<1>13. \A s, t \in Txs : s < t => Rank(I[s].op) <= Rank(I[t].op)
  <2>. SUFFICES ASSUME NEW s \in Txs, NEW t \in Txs, s < t PROVE Rank(I[s].op) <= Rank(I[t].op)
    OBVIOUS
  <2>1. /\ at[s] \in 1 .. n /\ P[at[s]].items # {} /\ I[s] = P[at[s]]
        /\ at[t] \in 1 .. n /\ P[at[t]].items # {} /\ I[t] = P[at[t]] /\ at[s] < at[t]
    BY <1>5, <1>6
  <2>. QED  BY <1>4, <2>1
<1>14. \A s, t \in Txs : s # t /\ I[s].op = I[t].op => I[s].items \cap I[t].items = {}
  <2>. SUFFICES ASSUME NEW s \in Txs, NEW t \in Txs, s # t, I[s].op = I[t].op PROVE I[s].items \cap I[t].items = {}
    OBVIOUS
  <2>1. s < t \/ t < s
    BY <1>2
  <2>2. at[s] \in 1 .. n /\ I[s] = P[at[s]] /\ at[t] \in 1 .. n /\ I[t] = P[at[t]]
    BY <1>6
  <2>3. at[s] # at[t]
    BY <1>6, <2>1, <2>2
  <2>. QED  BY <1>4, <2>2, <2>3
<1>15. \A t \in Txs : /\ I[t].op \in Single => I[t].items = {0}
                      /\ I[t].op \in Several => I[t].items \subseteq Prizes
  <2>. SUFFICES ASSUME NEW t \in Txs
                PROVE  /\ I[t].op \in Single => I[t].items = {0}
                       /\ I[t].op \in Several => I[t].items \subseteq Prizes
    OBVIOUS
  <2>1. at[t] \in 1 .. n /\ I[t] = P[at[t]] /\ I[t].items # {}
    BY <1>6, <1>12
  <2>2. /\ I[t].op \in Single => I[t].items \subseteq {0}
        /\ I[t].op \in Several => I[t].items \subseteq Prizes
    BY <1>4, <2>1
  <2>. QED  BY <2>1, <2>2
<1>16. \A op \in Single : \E t \in Txs : I[t].op = op
  BY <1>8, <1>11
<1>17. \A p \in Prizes :
       /\ \E t \in Txs : I[t].op = "addTokens" /\ p \in I[t].items
       /\ \E t \in Txs : I[t].op = "validateBox" /\ p \in I[t].items
       /\ \E t \in Txs : I[t].op = "cacheAuction" /\ p \in I[t].items
  BY <1>9, <1>11
<1>. QED  BY <1>2, <1>10, <1>12, <1>13, <1>14, <1>15, <1>16, <1>17 DEF I

-----------------------------------------------------------------------------
(* The accounts on the chain.                                               *)

ChainSet == [epa : BOOLEAN, vault : {"none", "inactive", "combined"},
             inVault : SUBSET Prizes, auction : {"none", "created", "started"},
             manager : BOOLEAN, authority : {"wallet", "manager"},
             validated : SUBSET Prizes, sold : SUBSET Prizes,
             cached : SUBSET Prizes, indexed : BOOLEAN]

\* A transaction the list may hold.
Instr(s) == s.op \in Ops /\ s.items # {} /\ (s.op \in Several => s.items \subseteq Prizes)

\* What the transaction leaves on the chain, once it took effect.
Holds(c, s) ==
  /\ s.op = "externalPriceAccount" => c.epa
  /\ s.op = "createVault" => c.vault # "none"
  /\ s.op = "addTokens" => s.items \subseteq c.inVault
  /\ s.op = "closeVault" => c.vault = "combined"
  /\ s.op = "makeAuction" => c.auction # "none"
  /\ s.op = "initAuctionManager" => c.manager
  /\ s.op = "setAuthorities" => c.authority = "manager"
  /\ s.op = "validateBox" => s.items \subseteq c.validated
  /\ s.op = "startAuction" => c.auction = "started"
  /\ s.op = "cacheAuction" => s.items \subseteq c.cached
  /\ s.op = "setStoreIndex" => c.indexed

\* What is validated is in the vault, under a manager, and an auction only runs
\* with everything validated under the manager's authority.
Sound(c) ==
  /\ c.validated \subseteq c.inVault
  /\ c.validated # {} => c.manager
  /\ c.auction = "started" => c.manager /\ c.authority = "manager" /\ c.validated = Prizes

\* The chain after a transaction, field by field.
Becomes(c, s, e) ==
  /\ e \in ChainSet
  /\ e.epa <=> c.epa \/ s.op = "externalPriceAccount"
  /\ e.vault = IF s.op = "createVault" THEN "inactive"
               ELSE IF s.op = "closeVault" THEN "combined" ELSE c.vault
  /\ e.inVault = IF s.op = "addTokens" THEN c.inVault \cup s.items ELSE c.inVault
  /\ e.auction = IF s.op = "makeAuction" THEN "created"
                 ELSE IF s.op = "startAuction" THEN "started" ELSE c.auction
  /\ e.manager <=> c.manager \/ s.op = "initAuctionManager"
  /\ e.authority = IF s.op = "setAuthorities" THEN "manager" ELSE c.authority
  /\ e.validated = IF s.op = "validateBox" THEN c.validated \cup s.items ELSE c.validated
  /\ e.sold = IF s.op = "markSold" THEN c.sold \cup s.items ELSE c.sold
  /\ e.cached = IF s.op = "cacheAuction" THEN c.cached \cup s.items ELSE c.cached
  /\ e.indexed <=> c.indexed \/ s.op = "setStoreIndex"

LEMMA EffectBecomes ==
  ASSUME NEW c \in ChainSet, NEW s, Instr(s)
  PROVE  Becomes(c, s, Effect(c, s))
<1>. DEFINE e == Effect(c, s)
<1>1. CASE s.op = "markSold"
  <2>1. e = [c EXCEPT !.sold = @ \cup s.items] /\ s.items \subseteq Prizes
    BY <1>1 DEF Effect, Instr, Several
  <2>. HIDE DEF e
  <2>. QED  BY <1>1, <2>1 DEF Becomes, ChainSet, e
<1>2. CASE s.op = "externalPriceAccount"
  <2>1. e = [c EXCEPT !.epa = TRUE]
    BY <1>2 DEF Effect
  <2>. HIDE DEF e
  <2>. QED  BY <1>2, <2>1 DEF Becomes, ChainSet, e
<1>3. CASE s.op = "createVault"
  <2>1. e = [c EXCEPT !.vault = "inactive"]
    BY <1>3 DEF Effect
  <2>. HIDE DEF e
  <2>. QED  BY <1>3, <2>1 DEF Becomes, ChainSet, e
<1>4. CASE s.op = "addTokens"
  <2>1. e = [c EXCEPT !.inVault = @ \cup s.items] /\ s.items \subseteq Prizes
    BY <1>4 DEF Effect, Instr, Several
  <2>. HIDE DEF e
  <2>. QED  BY <1>4, <2>1 DEF Becomes, ChainSet, e
<1>5. CASE s.op = "closeVault"
  <2>1. e = [c EXCEPT !.vault = "combined"]
    BY <1>5 DEF Effect
  <2>. HIDE DEF e
  <2>. QED  BY <1>5, <2>1 DEF Becomes, ChainSet, e
<1>6. CASE s.op = "makeAuction"
  <2>1. e = [c EXCEPT !.auction = "created"]
    BY <1>6 DEF Effect
  <2>. HIDE DEF e
  <2>. QED  BY <1>6, <2>1 DEF Becomes, ChainSet, e
<1>7. CASE s.op = "initAuctionManager"
  <2>1. e = [c EXCEPT !.manager = TRUE]
    BY <1>7 DEF Effect
  <2>. HIDE DEF e
  <2>. QED  BY <1>7, <2>1 DEF Becomes, ChainSet, e
<1>8. CASE s.op = "setAuthorities"
  <2>1. e = [c EXCEPT !.authority = "manager"]
    BY <1>8 DEF Effect
  <2>. HIDE DEF e
  <2>. QED  BY <1>8, <2>1 DEF Becomes, ChainSet, e
<1>9. CASE s.op = "validateBox"
  <2>1. e = [c EXCEPT !.validated = @ \cup s.items] /\ s.items \subseteq Prizes
    BY <1>9 DEF Effect, Instr, Several
  <2>. HIDE DEF e
  <2>. QED  BY <1>9, <2>1 DEF Becomes, ChainSet, e
<1>10. CASE s.op = "startAuction"
  <2>1. e = [c EXCEPT !.auction = "started"]
    BY <1>10 DEF Effect
  <2>. HIDE DEF e
  <2>. QED  BY <1>10, <2>1 DEF Becomes, ChainSet, e
<1>11. CASE s.op = "cacheAuction"
  <2>1. e = [c EXCEPT !.cached = @ \cup s.items] /\ s.items \subseteq Prizes
    BY <1>11 DEF Effect, Instr, Several
  <2>. HIDE DEF e
  <2>. QED  BY <1>11, <2>1 DEF Becomes, ChainSet, e
<1>12. CASE s.op = "setStoreIndex"
  <2>1. e = [c EXCEPT !.indexed = TRUE]
    BY <1>12 DEF Effect
  <2>. HIDE DEF e
  <2>. QED  BY <1>12, <2>1 DEF Becomes, ChainSet, e
<1>13. CASE s.op \notin Single \cup Several
  <2>1. e = c
    BY <1>13 DEF Effect, Single, Several
  <2>. HIDE DEF e
  <2>. QED  BY <1>13, <2>1 DEF Becomes, ChainSet, Single, Several, e
<1>. QED  BY <1>1, <1>2, <1>3, <1>4, <1>5, <1>6, <1>7, <1>8, <1>9, <1>10, <1>11, <1>12, <1>13
          DEF Single, Several

\* A transaction takes effect, and undoes nothing.
LEMMA EffectKeeps ==
  ASSUME NEW c \in ChainSet, NEW s, Instr(s), Sound(c), Needs(c, s)
  PROVE  /\ Sound(Effect(c, s)) /\ Holds(Effect(c, s), s)
         /\ \A u : Holds(c, u) => Holds(Effect(c, s), u)
<1>. DEFINE e == Effect(c, s)
<1>1. Becomes(c, s, e)
  BY EffectBecomes
<1>2. /\ s.op = "createVault" => c.vault = "none"
      /\ s.op = "makeAuction" => c.auction = "none"
      /\ s.op = "validateBox" => c.manager /\ s.items \subseteq c.inVault
      /\ s.op = "startAuction" => c.manager /\ c.authority = "manager" /\ c.validated = Prizes
  BY DEF Needs
<1>3. /\ c.validated \subseteq Prizes /\ (s.op = "validateBox" => s.items \subseteq Prizes)
      /\ c.authority \in {"wallet", "manager"}
  BY DEF ChainSet, Instr, Several
<1>. HIDE DEF e
<1>4. Sound(e)
  BY <1>1, <1>2, <1>3 DEF Becomes, Sound
<1>5. Holds(e, s)
  BY <1>1 DEF Becomes, Holds
<1>6. ASSUME NEW u, Holds(c, u) PROVE Holds(e, u)
  BY <1>1, <1>2, <1>6 DEF Becomes, Holds
<1>. QED  BY <1>4, <1>5, <1>6 DEF e

-----------------------------------------------------------------------------
(* What the first n transactions of the list come to.                       *)

Sent(op, n) == \E t \in 1 .. n : Instructions[t].op = op
Covered(op, n) == {x \in Prizes : \E t \in 1 .. n : Instructions[t].op = op /\ x \in Instructions[t].items}

\* Every transaction of the list is one.
LEMMA ListTyped == \A t \in Txs : Instr(Instructions[t]) /\ t \in Nat
<1>1. \A t \in Txs : Instructions[t] \in StepSet /\ Instructions[t].items # {}
  BY Layout
<1>2. \A t \in Txs : Instructions[t].op \in Several => Instructions[t].items \subseteq Prizes
  BY Layout
<1>. QED  BY <1>1, <1>2, Layout DEF Instr, StepSet, Txs

\* What comes earlier in the order was sent, what comes later was not, and
\* nothing is in the list twice.
LEMMA Before ==
  ASSUME NEW n \in Txs, NEW op \in Single, Rank(op) < Rank(Instructions[n].op)
  PROVE  Sent(op, n - 1)
<1>1. PICK t \in Txs : Instructions[t].op = op
  BY Layout
<1>2. t \in Int /\ n \in Int /\ t \in 1 .. Total
  BY Layout DEF Txs
<1>3. n < t => Rank(Instructions[n].op) <= Rank(Instructions[t].op)
  BY Layout
<1>4. t # n /\ ~(n < t)
  BY <1>1, <1>3, RankTyped
<1>. QED  BY <1>1, <1>2, <1>4 DEF Sent

LEMMA AllBefore ==
  ASSUME NEW n \in Txs, NEW op \in {"addTokens", "validateBox", "cacheAuction"},
         Rank(op) < Rank(Instructions[n].op)
  PROVE  Covered(op, n - 1) = Prizes
<1>. SUFFICES ASSUME NEW p \in Prizes
              PROVE  \E t \in 1 .. (n - 1) : Instructions[t].op = op /\ p \in Instructions[t].items
  BY DEF Covered
<1>1. PICK t \in Txs : Instructions[t].op = op /\ p \in Instructions[t].items
  BY Layout
<1>2. t \in Int /\ n \in Int /\ t \in 1 .. Total
  BY Layout DEF Txs
<1>3. n < t => Rank(Instructions[n].op) <= Rank(Instructions[t].op)
  BY Layout
<1>4. t # n /\ ~(n < t)
  BY <1>1, <1>3, RankTyped
<1>. QED  BY <1>1, <1>2, <1>4

LEMMA Behind ==
  ASSUME NEW n \in Txs, NEW op, Rank(Instructions[n].op) < Rank(op)
  PROVE  ~Sent(op, n - 1) /\ Covered(op, n - 1) = {}
<1>1. n \in Int /\ n \in 1 .. Total /\ Total \in Int
  BY Layout DEF Txs
<1>. SUFFICES ASSUME NEW t \in 1 .. (n - 1), Instructions[t].op = op PROVE FALSE
  BY DEF Sent, Covered
<1>2. t \in Txs /\ t < n
  BY <1>1 DEF Txs
<1>3. Rank(Instructions[t].op) <= Rank(Instructions[n].op)
  BY <1>2, Layout
<1>. QED  BY <1>3, RankTyped

LEMMA NotTwice ==
  ASSUME NEW n \in Txs
  PROVE  /\ Instructions[n].op \in Single => ~Sent(Instructions[n].op, n - 1)
         /\ Instructions[n].items \cap Covered(Instructions[n].op, n - 1) = {}
<1>. DEFINE op == Instructions[n].op
<1>1. n \in Int /\ n \in 1 .. Total /\ Total \in Int
  BY Layout DEF Txs
<1>2. \A t \in 1 .. (n - 1) : t \in Txs /\ t # n
  BY <1>1 DEF Txs
<1>3. \A t \in 1 .. (n - 1) : Instructions[t].op = op => Instructions[t].items \cap Instructions[n].items = {}
  BY <1>2, Layout
<1>4. \A t \in 1 .. (n - 1) : Instructions[t].op = op /\ op \in Single =>
        Instructions[t].items = {0} /\ Instructions[n].items = {0}
  BY <1>2, Layout
<1>. HIDE DEF op
<1>5. op \in Single => ~Sent(op, n - 1)
  BY <1>3, <1>4 DEF Sent
<1>6. Instructions[n].items \cap Covered(op, n - 1) = {}
  BY <1>3 DEF Covered
<1>. QED  BY <1>5, <1>6 DEF op

\* One more transaction.
LEMMA OneMore ==
  ASSUME NEW n \in Txs, NEW op
  PROVE  /\ Sent(op, n) <=> Sent(op, n - 1) \/ Instructions[n].op = op
         /\ op \in Several =>
              Covered(op, n) = Covered(op, n - 1) \cup (IF Instructions[n].op = op THEN Instructions[n].items ELSE {})
<1>1. n \in Int /\ n \in 1 .. Total /\ Total \in Int
  BY Layout DEF Txs
<1>2. 1 .. n = (1 .. (n - 1)) \cup {n}
  BY <1>1
<1>3. Instructions[n].op \in Several => Instructions[n].items \subseteq Prizes
  BY Layout
<1>4. Sent(op, n) <=> Sent(op, n - 1) \/ Instructions[n].op = op
  BY <1>2 DEF Sent
<1>5. ASSUME op \in Several
      PROVE  Covered(op, n) = Covered(op, n - 1) \cup (IF Instructions[n].op = op THEN Instructions[n].items ELSE {})
  BY <1>2, <1>3, <1>5 DEF Covered
<1>. QED  BY <1>4, <1>5

\* The chain after the first n transactions, in their order and all accepted.
Made(n) ==
  [epa |-> Sent("externalPriceAccount", n),
   vault |-> IF Sent("closeVault", n) THEN "combined"
             ELSE IF Sent("createVault", n) THEN "inactive" ELSE "none",
   inVault |-> Covered("addTokens", n),
   auction |-> IF Sent("startAuction", n) THEN "started"
               ELSE IF Sent("makeAuction", n) THEN "created" ELSE "none",
   manager |-> Sent("initAuctionManager", n),
   authority |-> IF Sent("setAuthorities", n) THEN "manager" ELSE "wallet",
   validated |-> Covered("validateBox", n),
   sold |-> Covered("markSold", n),
   cached |-> Covered("cacheAuction", n),
   indexed |-> Sent("setStoreIndex", n)]

LEMMA MadeTyped == \A n : Made(n) \in ChainSet
<1>1. \A op, n : Covered(op, n) \in SUBSET Prizes /\ Sent(op, n) \in BOOLEAN
  BY DEF Covered, Sent
<1>. QED  BY <1>1 DEF Made, ChainSet

LEMMA MadeFresh == Made(0) = Fresh
<1>1. \A op : ~Sent(op, 0) /\ Covered(op, 0) = {} /\ Sent(op, 0) = FALSE
  BY DEF Covered, Sent
<1>. QED  BY <1>1 DEF Made, Fresh

\* The order is one the chain accepts: each transaction finds what it needs.
LEMMA MadeNeeds ==
  ASSUME NEW n \in Txs
  PROVE  Needs(Made(n - 1), Instructions[n]) /\ ~MayRefuse(Made(n - 1), Instructions[n])
<1>. DEFINE s == Instructions[n]
            c == Made(n - 1)
<1>1. \A op \in Single : Rank(op) < Rank(s.op) => Sent(op, n - 1)
  BY Before
<1>2. \A op \in {"addTokens", "validateBox", "cacheAuction"} : Rank(op) < Rank(s.op) => Covered(op, n - 1) = Prizes
  BY AllBefore
<1>3. \A op : Rank(s.op) < Rank(op) => ~Sent(op, n - 1) /\ Covered(op, n - 1) = {}
  BY Behind
<1>4. /\ s.op \in Single => ~Sent(s.op, n - 1)
      /\ s.items \cap Covered(s.op, n - 1) = {}
  BY NotTwice
<1>5. Instr(s)
  BY ListTyped
<1>6. /\ c.epa <=> Sent("externalPriceAccount", n - 1)
      /\ c.vault = IF Sent("closeVault", n - 1) THEN "combined"
                   ELSE IF Sent("createVault", n - 1) THEN "inactive" ELSE "none"
      /\ c.inVault = Covered("addTokens", n - 1)
      /\ c.auction = IF Sent("startAuction", n - 1) THEN "started"
                     ELSE IF Sent("makeAuction", n - 1) THEN "created" ELSE "none"
      /\ c.manager <=> Sent("initAuctionManager", n - 1)
      /\ c.authority = IF Sent("setAuthorities", n - 1) THEN "manager" ELSE "wallet"
      /\ c.validated = Covered("validateBox", n - 1)
      /\ c.cached = Covered("cacheAuction", n - 1)
      /\ c.indexed <=> Sent("setStoreIndex", n - 1)
  BY DEF Made
<1>7. Prizes # {}
  BY AuctionAssumption DEF Prizes
<1>. HIDE DEF s, c
<1>8. s.items # {} /\ s.op \in Ops /\ (s.op \in Several => s.items \subseteq Prizes)
  BY <1>5 DEF Instr
<1>9. CASE s.op = "markSold"
  <2>1. c.inVault = {}
    BY <1>3, <1>6, <1>9 DEF Rank
  <2>. QED  BY <1>9, <2>1 DEF Needs, MayRefuse, s, c
<1>10. CASE s.op = "externalPriceAccount"
  <2>1. ~c.epa
    BY <1>4, <1>6, <1>10 DEF Single
  <2>. QED  BY <1>10, <2>1 DEF Needs, MayRefuse, s, c
<1>11. CASE s.op = "createVault"
  <2>1. c.epa
    BY <1>1, <1>6, <1>11 DEF Rank, Single
  <2>2. c.vault = "none"
    BY <1>3, <1>4, <1>6, <1>11 DEF Rank, Single
  <2>. QED  BY <1>11, <2>1, <2>2 DEF Needs, MayRefuse, s, c
<1>12. CASE s.op = "addTokens"
  <2>1. c.vault = "inactive"
    BY <1>1, <1>3, <1>6, <1>12 DEF Rank, Single
  <2>2. s.items \cap c.inVault = {}
    BY <1>4, <1>6, <1>12
  <2>. QED  BY <1>12, <2>1, <2>2 DEF Needs, MayRefuse, s, c
<1>13. CASE s.op = "closeVault"
  <2>1. c.vault = "inactive" /\ c.epa
    BY <1>1, <1>4, <1>6, <1>13 DEF Rank, Single
  <2>2. c.inVault = Prizes
    BY <1>2, <1>6, <1>13 DEF Rank
  <2>. QED  BY <1>7, <1>13, <2>1, <2>2 DEF Needs, MayRefuse, s, c
<1>14. CASE s.op = "makeAuction"
  <2>1. c.auction = "none"
    BY <1>3, <1>4, <1>6, <1>14 DEF Rank, Single
  <2>. QED  BY <1>14, <2>1 DEF Needs, MayRefuse, s, c
<1>15. CASE s.op = "initAuctionManager"
  <2>1. ~c.manager
    BY <1>4, <1>6, <1>15 DEF Single
  <2>2. c.vault = "combined" /\ c.auction # "none"
    BY <1>1, <1>6, <1>15 DEF Rank, Single
  <2>. QED  BY <1>15, <2>1, <2>2 DEF Needs, MayRefuse, s, c
<1>16. CASE s.op = "setAuthorities"
  <2>1. c.authority = "wallet"
    BY <1>4, <1>6, <1>16 DEF Single
  <2>2. c.vault = "combined" /\ c.auction # "none" /\ c.manager
    BY <1>1, <1>6, <1>16 DEF Rank, Single
  <2>. QED  BY <1>16, <2>1, <2>2 DEF Needs, MayRefuse, s, c
<1>17. CASE s.op = "validateBox"
  <2>1. c.vault = "combined" /\ c.manager /\ c.authority = "manager"
    BY <1>1, <1>6, <1>17 DEF Rank, Single
  <2>2. c.inVault = Prizes
    BY <1>2, <1>6, <1>17 DEF Rank
  <2>3. s.items \subseteq Prizes /\ s.items \cap c.validated = {}
    BY <1>4, <1>6, <1>8, <1>17 DEF Several
  <2>. QED  BY <1>8, <1>17, <2>1, <2>2, <2>3 DEF Needs, MayRefuse, s, c
<1>18. CASE s.op = "startAuction"
  <2>1. c.manager /\ c.authority = "manager"
    BY <1>1, <1>6, <1>18 DEF Rank, Single
  <2>2. c.validated = Prizes
    BY <1>2, <1>6, <1>18 DEF Rank
  <2>3. c.auction # "started"
    BY <1>4, <1>6, <1>18 DEF Single
  <2>. QED  BY <1>18, <2>1, <2>2, <2>3 DEF Needs, MayRefuse, s, c
<1>19. CASE s.op = "cacheAuction"
  <2>1. c.manager
    BY <1>1, <1>6, <1>19 DEF Rank, Single
  <2>2. s.items \cap c.cached = {}
    BY <1>4, <1>6, <1>19
  <2>. QED  BY <1>8, <1>19, <2>1, <2>2 DEF Needs, MayRefuse, s, c
<1>20. CASE s.op = "setStoreIndex"
  <2>1. ~c.indexed
    BY <1>4, <1>6, <1>20 DEF Single
  <2>2. c.cached = Prizes
    BY <1>2, <1>6, <1>20 DEF Rank
  <2>. QED  BY <1>7, <1>20, <2>1, <2>2 DEF Needs, MayRefuse, s, c
<1>21. CASE s.op \notin Single \cup Several
  BY <1>21 DEF Needs, MayRefuse, Single, Several, s, c
<1>. QED  BY <1>9, <1>10, <1>11, <1>12, <1>13, <1>14, <1>15, <1>16, <1>17, <1>18, <1>19, <1>20, <1>21
          DEF Single, Several

LEMMA MadeNext ==
  ASSUME NEW n \in Txs
  PROVE  Effect(Made(n - 1), Instructions[n]) = Made(n)
<1>. DEFINE s == Instructions[n]
            c == Made(n - 1)
            e == Effect(c, s)
            d == Made(n)
<1>1. Becomes(c, s, e)
  BY MadeTyped, ListTyped, EffectBecomes
<1>2. \A op : Sent(op, n) <=> Sent(op, n - 1) \/ s.op = op
  BY OneMore
<1>3. \A op \in Several : Covered(op, n) = Covered(op, n - 1) \cup (IF s.op = op THEN s.items ELSE {})
  BY OneMore
<1>4. \A op : Rank(s.op) < Rank(op) => ~Sent(op, n - 1)
  BY Behind
<1>5. /\ c.epa <=> Sent("externalPriceAccount", n - 1)
      /\ c.vault = IF Sent("closeVault", n - 1) THEN "combined"
                   ELSE IF Sent("createVault", n - 1) THEN "inactive" ELSE "none"
      /\ c.inVault = Covered("addTokens", n - 1)
      /\ c.auction = IF Sent("startAuction", n - 1) THEN "started"
                     ELSE IF Sent("makeAuction", n - 1) THEN "created" ELSE "none"
      /\ c.manager <=> Sent("initAuctionManager", n - 1)
      /\ c.authority = IF Sent("setAuthorities", n - 1) THEN "manager" ELSE "wallet"
      /\ c.validated = Covered("validateBox", n - 1)
      /\ c.sold = Covered("markSold", n - 1)
      /\ c.cached = Covered("cacheAuction", n - 1)
      /\ c.indexed <=> Sent("setStoreIndex", n - 1)
  BY DEF Made
<1>6. /\ d.epa <=> Sent("externalPriceAccount", n)
      /\ d.vault = IF Sent("closeVault", n) THEN "combined"
                   ELSE IF Sent("createVault", n) THEN "inactive" ELSE "none"
      /\ d.inVault = Covered("addTokens", n)
      /\ d.auction = IF Sent("startAuction", n) THEN "started"
                     ELSE IF Sent("makeAuction", n) THEN "created" ELSE "none"
      /\ d.manager <=> Sent("initAuctionManager", n)
      /\ d.authority = IF Sent("setAuthorities", n) THEN "manager" ELSE "wallet"
      /\ d.validated = Covered("validateBox", n)
      /\ d.sold = Covered("markSold", n)
      /\ d.cached = Covered("cacheAuction", n)
      /\ d.indexed <=> Sent("setStoreIndex", n)
  BY DEF Made
<1>7. d \in ChainSet /\ e \in ChainSet
  BY <1>1, MadeTyped DEF Becomes
<1>. HIDE DEF s, c, e, d
<1>8. e.epa <=> d.epa
  BY <1>1, <1>2, <1>5, <1>6 DEF Becomes
<1>9. e.vault = d.vault
  <2>1. s.op = "createVault" => ~Sent("closeVault", n - 1)
    BY <1>4 DEF Rank
  <2>. QED  BY <1>1, <1>2, <1>5, <1>6, <2>1 DEF Becomes
<1>10. e.auction = d.auction
  <2>1. s.op = "makeAuction" => ~Sent("startAuction", n - 1)
    BY <1>4 DEF Rank
  <2>. QED  BY <1>1, <1>2, <1>5, <1>6, <2>1 DEF Becomes
<1>11. (e.manager <=> d.manager) /\ (e.indexed <=> d.indexed)
  BY <1>1, <1>2, <1>5, <1>6 DEF Becomes
<1>12. e.authority = d.authority
  BY <1>1, <1>2, <1>5, <1>6 DEF Becomes
<1>13. e.inVault = d.inVault /\ e.validated = d.validated
  BY <1>1, <1>3, <1>5, <1>6 DEF Becomes, Several
<1>14. e.sold = d.sold /\ e.cached = d.cached
  BY <1>1, <1>3, <1>5, <1>6 DEF Becomes, Several
<1>15. e = d
  BY <1>7, <1>8, <1>9, <1>10, <1>11, <1>12, <1>13, <1>14 DEF ChainSet
<1>. QED  BY <1>15 DEF s, c, e, d

-----------------------------------------------------------------------------
(* One call of the sender, transaction by transaction.                      *)

RunSet == [chain : ChainSet, glitches : 0 .. Glitches, sent : 0 .. Total, rejected : SUBSET (1 .. Total)]
Unsent(c, g) == [chain |-> c, glitches |-> g, sent |-> 0, rejected |-> {}]

\* How Calls goes through the list.
SendStep(c, g, b, before, k) ==
  IF k = 0 THEN {Unsent(c, g)}
  ELSE UNION {SendOne(r, Instructions[b + k], FilteredSigners[b + k]) : r \in before}
After(c, g, b) == CHOOSE f : f = [k \in 0 .. (Total - b) |-> SendStep(c, g, b, f[k - 1], k)]

LEMMA CallsAreAfter ==
  ASSUME NEW c, NEW g, NEW b
  PROVE  Calls(c, g, b) = After(c, g, b)[Total - b]
BY DEF Calls, After, SendStep, Unsent

\* It comes to an end.
LEMMA AfterDefined ==
  ASSUME NEW c, NEW g, NEW b, NEW n \in Nat, Total - b = n
  PROVE  \A k \in 0 .. n : After(c, g, b)[k] = SendStep(c, g, b, After(c, g, b)[k - 1], k)
<1>. DEFINE IsAfter(f, m) == f = [k \in 0 .. m |-> SendStep(c, g, b, f[k - 1], k)]
            S == {m \in 0 .. n : \E f : IsAfter(f, m)}
<1>1. 0 \in S
  <2>. DEFINE f == [k \in 0 .. 0 |-> SendStep(c, g, b, 0, 0)]
  <2>1. f = [k \in 0 .. 0 |-> SendStep(c, g, b, f[k - 1], k)]
    BY DEF SendStep
  <2>2. IsAfter(f, 0)
    BY <2>1
  <2>. HIDE DEF f, IsAfter
  <2>. QED  BY <2>2
<1>2. ASSUME NEW m \in 0 .. (n - 1), m \in S PROVE m + 1 \in S
  <2>. PICK f : IsAfter(f, m)
    BY <1>2
  <2>. DEFINE h == [k \in 0 .. (m + 1) |-> IF k = m + 1 THEN SendStep(c, g, b, f[m], k) ELSE f[k]]
  <2>1. ASSUME NEW k \in 0 .. (m + 1) PROVE h[k] = SendStep(c, g, b, h[k - 1], k)
    <3>1. CASE k = m + 1
      BY <3>1
    <3>2. CASE k # m + 1 /\ k # 0
      <4>1. h[k] = f[k] /\ h[k - 1] = f[k - 1]
        BY <3>2
      <4>2. f[k] = SendStep(c, g, b, f[k - 1], k)
        BY <3>2
      <4>. HIDE DEF h, IsAfter
      <4>. QED  BY <4>1, <4>2
    <3>3. CASE k = 0
      <4>1. h[k] = f[k]
        BY <3>3
      <4>2. f[k] = SendStep(c, g, b, f[k - 1], k)
        BY <3>3
      <4>. HIDE DEF h, IsAfter
      <4>. QED  BY <3>3, <4>1, <4>2 DEF SendStep
    <3>. QED  BY <3>1, <3>2, <3>3
  <2>2. IsAfter(h, m + 1)
    BY <2>1
  <2>3. m + 1 \in 0 .. n
    OBVIOUS
  <2>. HIDE DEF h, IsAfter
  <2>. QED  BY <2>2, <2>3
<1>3. 0 .. n \subseteq S
  <2>. HIDE DEF S
  <2>. QED  BY <1>1, <1>2, UpToFrom
<1>4. \E f : IsAfter(f, n)
  BY <1>3
<1>5. IsAfter(After(c, g, b), n)
  BY <1>4 DEF After
<1>. QED  BY <1>5

\* A transaction is accepted, refused for what it needs, or lost.
Accepted(r, s, q) ==
  /\ Needs(r.chain, s)
  /\ q.chain = Effect(r.chain, s) /\ q.glitches = r.glitches
  /\ q.sent = r.sent + 1 /\ q.rejected = r.rejected
Refused(r, s, q) ==
  /\ ~Needs(r.chain, s) \/ MayRefuse(r.chain, s)
  /\ q.chain = r.chain /\ q.glitches = r.glitches
  /\ q.sent = r.sent + 1 /\ q.rejected = r.rejected \cup {r.sent + 1}
Lost(r, s, q) ==
  /\ Needs(r.chain, s) /\ r.glitches > 0
  /\ q.chain \in {r.chain, Effect(r.chain, s)} /\ q.glitches = r.glitches - 1
  /\ q.sent = r.sent + 1 /\ q.rejected = r.rejected \cup {r.sent + 1}

LEMMA SendOneGives ==
  ASSUME NEW r \in RunSet, NEW s, Instr(s), r.sent + 1 \in 1 .. Total,
         Cardinality(r.rejected) # 2, NEW q \in SendOne(r, s, KeysOf(s))
  PROVE  q \in RunSet /\ (Accepted(r, s, q) \/ Refused(r, s, q) \/ Lost(r, s, q))
<1>. DEFINE k == r.sent + 1
            e == Effect(r.chain, s)
            done(c, g, bad) == [chain |-> c, glitches |-> g, sent |-> k, rejected |-> r.rejected \cup bad]
<1>1. /\ r.chain \in ChainSet /\ r.glitches \in 0 .. Glitches /\ r.sent \in 0 .. Total
      /\ r.rejected \in SUBSET (1 .. Total) /\ Glitches \in Nat
  BY AuctionAssumption DEF RunSet
<1>2. e \in ChainSet
  BY <1>1, EffectBecomes DEF Becomes
<1>3. \/ Needs(r.chain, s) /\ q = done(e, r.glitches, {})
      \/ (~Needs(r.chain, s) \/ MayRefuse(r.chain, s)) /\ q = done(r.chain, r.glitches, {k})
      \/ Needs(r.chain, s) /\ r.glitches > 0 /\ \E c \in {r.chain, e} : q = done(c, r.glitches - 1, {k})
  BY Zenon DEF SendOne
<1>. HIDE DEF e
<1>4. CASE Needs(r.chain, s) /\ q = done(e, r.glitches, {})
  <2>1. q \in RunSet
    BY <1>1, <1>2, <1>4 DEF RunSet
  <2>2. Accepted(r, s, q)
    BY <1>4 DEF Accepted, e
  <2>. QED  BY <2>1, <2>2
<1>5. CASE (~Needs(r.chain, s) \/ MayRefuse(r.chain, s)) /\ q = done(r.chain, r.glitches, {k})
  <2>1. q \in RunSet
    BY <1>1, <1>2, <1>5 DEF RunSet
  <2>2. Refused(r, s, q)
    BY <1>5 DEF Refused
  <2>. QED  BY <2>1, <2>2
<1>6. CASE Needs(r.chain, s) /\ r.glitches > 0 /\ \E c \in {r.chain, e} : q = done(c, r.glitches - 1, {k})
  <2>. PICK c \in {r.chain, e} : q = done(c, r.glitches - 1, {k})
    BY <1>6
  <2>1. q \in RunSet
    BY <1>1, <1>2, <1>6 DEF RunSet
  <2>2. Lost(r, s, q)
    BY <1>6 DEF Lost, e
  <2>. QED  BY <2>1, <2>2
<1>. QED  BY <1>3, <1>4, <1>5, <1>6

\* Once two were rejected nothing more is sent.
LEMMA SendOneStops ==
  ASSUME NEW r, NEW s, Cardinality(r.rejected) = 2
  PROVE  SendOne(r, s, KeysOf(s)) = {r}
BY DEF SendOne

\* Whether the run goes on after m transactions, none or one of them rejected,
\* or stopped at the second rejection.
Going(r, m) == r.sent = m /\ (r.rejected = {} \/ \E f \in 1 .. m : r.rejected = {f})
Stopped(r, m) == \E e \in 1 .. m : r.sent = e /\ \E f \in 1 .. (e - 1) : r.rejected = {f, e}

LEMMA Rejections ==
  ASSUME NEW m \in Nat, NEW r
  PROVE  /\ Going(r, m) => Cardinality(r.rejected) # 2
         /\ Stopped(r, m) => Cardinality(r.rejected) = 2
<1>1. Cardinality({}) = 0
  BY FS_EmptySet
<1>2. \A f : Cardinality({f}) = 1 /\ IsFiniteSet({f})
  BY FS_Singleton
<1>3. ASSUME NEW e \in 1 .. m, NEW f \in 1 .. (e - 1) PROVE Cardinality({f, e}) = 2
  <2>1. PICK s, w : s = {f} /\ w = {f, e}
    OBVIOUS
  <2>2. w = s \cup {e} /\ e \notin s
    BY <2>1
  <2>3. Cardinality(s) = 1 /\ IsFiniteSet(s)
    BY <1>2, <2>1
  <2>4. Cardinality(s \cup {e}) = Cardinality(s) + 1
    BY <2>2, <2>3, FS_AddElement
  <2>5. Cardinality(w) = 2
    BY <2>2, <2>3, <2>4
  <2>. QED  BY <2>1, <2>5
<1>4. ASSUME Going(r, m) PROVE Cardinality(r.rejected) # 2
  <2>1. CASE r.rejected = {}
    BY <1>1, <2>1
  <2>2. CASE \E f \in 1 .. m : r.rejected = {f}
    <3>1. PICK f \in 1 .. m : r.rejected = {f}
      BY <2>2
    <3>2. Cardinality({f}) = 1
      BY <1>2
    <3>3. Cardinality(r.rejected) = 1
      BY <3>1, <3>2
    <3>. QED  BY <3>3
  <2>. QED  BY <1>4, <2>1, <2>2 DEF Going
<1>5. ASSUME Stopped(r, m) PROVE Cardinality(r.rejected) = 2
  BY <1>3, <1>5 DEF Stopped
<1>. QED  BY <1>4, <1>5

\* One transaction more, from a run that goes on.
Moves(r, s, q) == Accepted(r, s, q) \/ Refused(r, s, q) \/ Lost(r, s, q)

LEMMA MoreSent ==
  ASSUME NEW m \in Nat, NEW r \in RunSet, Going(r, m), NEW s, NEW q, Moves(r, s, q)
  PROVE  Going(q, m + 1) \/ Stopped(q, m + 1)
<1>1. r.sent = m /\ q.sent = m + 1
  BY DEF Going, Moves, Accepted, Refused, Lost
<1>2. q.rejected = r.rejected \/ q.rejected = r.rejected \cup {m + 1}
  BY <1>1 DEF Moves, Accepted, Refused, Lost
<1>3. CASE r.rejected = {}
  BY <1>1, <1>2, <1>3 DEF Going
<1>4. CASE \E f \in 1 .. m : r.rejected = {f}
  <2>. PICK f \in 1 .. m : r.rejected = {f}
    BY <1>4
  <2>1. f \in 1 .. (m + 1) /\ m + 1 \in 1 .. (m + 1) /\ f \in 1 .. (m + 1 - 1)
    OBVIOUS
  <2>2. CASE q.rejected = r.rejected
    BY <1>1, <2>1, <2>2 DEF Going
  <2>3. CASE q.rejected = r.rejected \cup {m + 1}
    <3>1. q.rejected = {f, m + 1}
      BY <2>3
    <3>. QED  BY <1>1, <2>1, <3>1 DEF Stopped
  <2>. QED  BY <1>2, <2>2, <2>3
<1>. QED  BY <1>3, <1>4 DEF Going

LEMMA CallRuns ==
  ASSUME NEW c \in ChainSet, NEW g \in 0 .. Glitches, NEW b \in Nat, NEW n \in Nat, Total = b + n
  PROVE  \A m \in 0 .. n : \A r \in After(c, g, b)[m] : r \in RunSet /\ (Going(r, m) \/ Stopped(r, m))
<1>. DEFINE A == After(c, g, b)
            Good(m) == \A r \in A[m] : r \in RunSet /\ (Going(r, m) \/ Stopped(r, m))
            S == {m \in 0 .. n : Good(m)}
<1>1. \A k \in 0 .. n : A[k] = SendStep(c, g, b, A[k - 1], k)
  BY Layout, AfterDefined
<1>. HIDE DEF A
<1>2. 0 \in S
  <2>0. A[0] = SendStep(c, g, b, A[0 - 1], 0)
    BY <1>1
  <2>1. A[0] = {Unsent(c, g)}
    BY <2>0, Zenon DEF SendStep
  <2>2. Unsent(c, g) \in RunSet /\ Going(Unsent(c, g), 0)
    BY Layout DEF Unsent, RunSet, Going
  <2>. QED  BY <2>1, <2>2
<1>3. ASSUME NEW m \in 0 .. (n - 1), m \in S PROVE m + 1 \in S
  <2>. SUFFICES ASSUME NEW q \in A[m + 1] PROVE q \in RunSet /\ (Going(q, m + 1) \/ Stopped(q, m + 1))
    OBVIOUS
  <2>1. m + 1 \in 0 .. n /\ m + 1 # 0 /\ m + 1 - 1 = m
    OBVIOUS
  <2>2. A[m + 1] = UNION {SendOne(r, Instructions[b + (m + 1)], FilteredSigners[b + (m + 1)]) : r \in A[m]}
    <3>1. A[m + 1] = SendStep(c, g, b, A[m], m + 1)
      BY <1>1, <2>1
    <3>. QED  BY <2>1, <3>1, Zenon DEF SendStep
  <2>3. PICK r \in A[m] : q \in SendOne(r, Instructions[b + (m + 1)], KeysOf(Instructions[b + (m + 1)]))
    <3>1. FilteredSigners[b + (m + 1)] = KeysOf(Instructions[b + (m + 1)])
      BY SignersMatch DEF Txs
    <3>. QED  BY <2>2, <3>1
  <2>4. r \in RunSet /\ (Going(r, m) \/ Stopped(r, m))
    BY <1>3
  <2>5. Instr(Instructions[b + (m + 1)])
    BY ListTyped, Layout DEF Txs
  <2>6. CASE Going(r, m)
    <3>1. r.sent + 1 \in 1 .. Total
      BY <2>6, Layout DEF Going
    <3>2. Cardinality(r.rejected) # 2
      BY <2>6, Rejections
    <3>3. q \in RunSet /\ Moves(r, Instructions[b + (m + 1)], q)
      BY <2>3, <2>4, <2>5, <3>1, <3>2, SendOneGives DEF Moves
    <3>. QED  BY <2>4, <2>6, <3>3, MoreSent
  <2>7. CASE Stopped(r, m)
    <3>1. q = r
      BY <2>3, <2>7, Rejections, SendOneStops
    <3>2. Stopped(r, m + 1)
      BY <2>7 DEF Stopped
    <3>. QED  BY <2>4, <3>1, <3>2
  <2>. QED  BY <2>4, <2>6, <2>7
<1>4. 0 .. n \subseteq S
  <2>. HIDE DEF S
  <2>. QED  BY <1>2, <1>3, UpToFrom
<1>. QED  BY <1>4 DEF A

\* Each run is the one before it with one transaction more, if that goes on.
LEMMA CallMoves ==
  ASSUME NEW c \in ChainSet, NEW g \in 0 .. Glitches, NEW b \in Nat, NEW n \in Nat, Total = b + n
  PROVE  /\ After(c, g, b)[0] = {Unsent(c, g)}
         /\ \A m \in 0 .. (n - 1) : \A q \in After(c, g, b)[m + 1] : \E r \in After(c, g, b)[m] :
              \/ q = r /\ Stopped(r, m)
              \/ Going(r, m) /\ Moves(r, Instructions[b + (m + 1)], q)
<1>. DEFINE A == After(c, g, b)
<1>1. \A k \in 0 .. n : A[k] = SendStep(c, g, b, A[k - 1], k)
  BY Layout, AfterDefined
<1>2. \A m \in 0 .. n : \A r \in A[m] : r \in RunSet /\ (Going(r, m) \/ Stopped(r, m))
  BY CallRuns
<1>. HIDE DEF A
<1>3. A[0] = {Unsent(c, g)}
  <2>1. A[0] = SendStep(c, g, b, A[0 - 1], 0)
    BY <1>1
  <2>. QED  BY <2>1, Zenon DEF SendStep
<1>4. ASSUME NEW m \in 0 .. (n - 1), NEW q \in A[m + 1]
      PROVE  \E r \in A[m] : \/ q = r /\ Stopped(r, m)
                             \/ Going(r, m) /\ Moves(r, Instructions[b + (m + 1)], q)
  <2>1. m + 1 \in 0 .. n /\ m + 1 # 0 /\ m + 1 - 1 = m /\ m \in 0 .. n
    OBVIOUS
  <2>2. A[m + 1] = UNION {SendOne(r, Instructions[b + (m + 1)], FilteredSigners[b + (m + 1)]) : r \in A[m]}
    <3>1. A[m + 1] = SendStep(c, g, b, A[m], m + 1)
      BY <1>1, <2>1
    <3>. QED  BY <2>1, <3>1, Zenon DEF SendStep
  <2>3. PICK r \in A[m] : q \in SendOne(r, Instructions[b + (m + 1)], KeysOf(Instructions[b + (m + 1)]))
    <3>1. FilteredSigners[b + (m + 1)] = KeysOf(Instructions[b + (m + 1)])
      BY SignersMatch DEF Txs
    <3>. QED  BY <2>2, <3>1
  <2>4. r \in RunSet /\ (Going(r, m) \/ Stopped(r, m))
    BY <1>2, <2>1
  <2>5. Instr(Instructions[b + (m + 1)])
    BY ListTyped, Layout DEF Txs
  <2>6. CASE Going(r, m)
    <3>1. r.sent + 1 \in 1 .. Total
      BY <2>6, Layout DEF Going
    <3>2. Cardinality(r.rejected) # 2
      BY <2>6, Rejections
    <3>3. Moves(r, Instructions[b + (m + 1)], q)
      BY <2>3, <2>4, <2>5, <3>1, <3>2, SendOneGives DEF Moves
    <3>. QED  BY <2>6, <3>3
  <2>7. CASE Stopped(r, m)
    <3>1. q = r
      BY <2>3, <2>7, Rejections, SendOneStops
    <3>. QED  BY <2>7, <3>1
  <2>. QED  BY <2>4, <2>6, <2>7
<1>. QED  BY <1>3, <1>4 DEF A

\* What a transaction does to the run: the chain, and who was rejected.
LEMMA MovesAre ==
  ASSUME NEW r \in RunSet, NEW s, NEW q, Moves(r, s, q)
  PROVE  /\ q.sent = r.sent + 1
         /\ q.chain = r.chain \/ (Needs(r.chain, s) /\ q.chain = Effect(r.chain, s))
         /\ \/ q.rejected = r.rejected /\ q.chain = Effect(r.chain, s) /\ Needs(r.chain, s)
            \/ q.rejected = r.rejected \cup {r.sent + 1}
BY DEF Moves, Accepted, Refused, Lost

\* What was answered with success is on the chain, and stays there.
LEMMA CallHolds ==
  ASSUME NEW c \in ChainSet, Sound(c), NEW g \in 0 .. Glitches, NEW b \in Nat, NEW n \in Nat, Total = b + n
  PROVE  \A m \in 0 .. n : \A r \in After(c, g, b)[m] :
           /\ Sound(r.chain)
           /\ \A u : Holds(c, u) => Holds(r.chain, u)
           /\ \A j \in 1 .. r.sent : j \notin r.rejected => Holds(r.chain, Instructions[b + j])
<1>. DEFINE A == After(c, g, b)
            Fine(r) == /\ Sound(r.chain)
                       /\ \A u : Holds(c, u) => Holds(r.chain, u)
                       /\ \A j \in 1 .. r.sent : j \notin r.rejected => Holds(r.chain, Instructions[b + j])
            S == {m \in 0 .. n : \A r \in A[m] : Fine(r)}
<1>1. /\ A[0] = {Unsent(c, g)}
      /\ \A m \in 0 .. (n - 1) : \A q \in A[m + 1] : \E r \in A[m] :
           \/ q = r /\ Stopped(r, m)
           \/ Going(r, m) /\ Moves(r, Instructions[b + (m + 1)], q)
  BY CallMoves
<1>2. \A m \in 0 .. n : \A r \in A[m] : r \in RunSet
  BY CallRuns
<1>. HIDE DEF A
<1>3. 0 \in S
  <2>1. Fine(Unsent(c, g))
    BY DEF Unsent
  <2>. HIDE DEF Fine
  <2>. QED  BY <1>1, <2>1
<1>4. ASSUME NEW m \in 0 .. (n - 1), m \in S PROVE m + 1 \in S
  <2>. SUFFICES ASSUME NEW q \in A[m + 1] PROVE Fine(q)
    OBVIOUS
  <2>. DEFINE s == Instructions[b + (m + 1)]
  <2>1. PICK r \in A[m] : \/ q = r /\ Stopped(r, m)
                          \/ Going(r, m) /\ Moves(r, s, q)
    BY <1>1
  <2>2. Fine(r) /\ r \in RunSet /\ r.chain \in ChainSet
    BY <1>2, <1>4 DEF RunSet
  <2>3. CASE q = r
    BY <2>2, <2>3
  <2>4. CASE Going(r, m) /\ Moves(r, s, q)
    <3>1. Instr(s)
      BY ListTyped, Layout DEF Txs
    <3>2. s = Instructions[b + (m + 1)]
      OBVIOUS
    <3>. HIDE DEF s
    <3>3. /\ q.sent = m + 1 /\ r.sent = m
          /\ q.chain = r.chain \/ (Needs(r.chain, s) /\ q.chain = Effect(r.chain, s))
          /\ \/ q.rejected = r.rejected /\ q.chain = Effect(r.chain, s) /\ Needs(r.chain, s)
             \/ q.rejected = r.rejected \cup {m + 1}
      BY <2>2, <2>4, MovesAre DEF Going
    <3>. DEFINE e == Effect(r.chain, s)
    <3>4. Needs(r.chain, s) => Sound(e) /\ Holds(e, s) /\ \A u : Holds(r.chain, u) => Holds(e, u)
      BY <2>2, <3>1, EffectKeeps
    <3>. HIDE DEF e
    <3>5. Sound(q.chain) /\ \A u : Holds(r.chain, u) => Holds(q.chain, u)
      BY <2>2, <3>3, <3>4 DEF e
    <3>6. m + 1 \notin q.rejected => Holds(q.chain, s)
      BY <3>3, <3>4 DEF e
    <3>7. ASSUME NEW j \in 1 .. q.sent, j \notin q.rejected PROVE Holds(q.chain, Instructions[b + j])
      <4>1. CASE j = m + 1
        BY <3>2, <3>6, <3>7, <4>1
      <4>2. CASE j # m + 1
        <5>1. j \in 1 .. r.sent /\ j \notin r.rejected
          BY <3>3, <3>7, <4>2
        <5>2. Holds(r.chain, Instructions[b + j])
          BY <2>2, <5>1
        <5>. QED  BY <3>5, <5>2
      <4>. QED  BY <4>1, <4>2
    <3>. QED  BY <2>2, <3>5, <3>7
  <2>. QED  BY <2>1, <2>3, <2>4
<1>5. 0 .. n \subseteq S
  <2>. HIDE DEF S
  <2>. QED  BY <1>3, <1>4, UpToFrom
<1>. QED  BY <1>5 DEF A

\* From a fresh chain nothing is rejected unless something was lost.
LEMMA CallInOrder ==
  ASSUME NEW g \in 0 .. Glitches, NEW n \in Nat, Total = n
  PROVE  \A m \in 0 .. n : \A r \in After(Fresh, g, 0)[m] :
           r.glitches <= g /\ (r.glitches = g => r.rejected = {} /\ r.chain = Made(m))
<1>. DEFINE A == After(Fresh, g, 0)
            Fine(r, m) == r.glitches <= g /\ (r.glitches = g => r.rejected = {} /\ r.chain = Made(m))
            S == {m \in 0 .. n : \A r \in A[m] : Fine(r, m)}
<1>0. Fresh \in ChainSet
  BY MadeFresh, MadeTyped
<1>1. /\ A[0] = {Unsent(Fresh, g)}
      /\ \A m \in 0 .. (n - 1) : \A q \in A[m + 1] : \E r \in A[m] :
           \/ q = r /\ Stopped(r, m)
           \/ Going(r, m) /\ Moves(r, Instructions[0 + (m + 1)], q)
  BY <1>0, CallMoves
<1>2. \A m \in 0 .. n : \A r \in A[m] : r \in RunSet
  BY <1>0, CallRuns
<1>. HIDE DEF A
<1>3. 0 \in S
  <2>1. Unsent(Fresh, g).glitches = g /\ Unsent(Fresh, g).rejected = {} /\ Unsent(Fresh, g).chain = Fresh
    BY DEF Unsent
  <2>2. Fine(Unsent(Fresh, g), 0)
    BY <2>1, MadeFresh
  <2>. HIDE DEF Fine
  <2>. QED  BY <1>1, <2>2
<1>4. ASSUME NEW m \in 0 .. (n - 1), m \in S PROVE m + 1 \in S
  <2>. SUFFICES ASSUME NEW q \in A[m + 1] PROVE Fine(q, m + 1)
    OBVIOUS
  <2>. DEFINE s == Instructions[m + 1]
  <2>1. PICK r \in A[m] : \/ q = r /\ Stopped(r, m)
                          \/ Going(r, m) /\ Moves(r, s, q)
    BY <1>1
  <2>2. Fine(r, m) /\ r \in RunSet /\ r.glitches \in 0 .. Glitches /\ Glitches \in Nat
    BY <1>2, <1>4, AuctionAssumption DEF RunSet
  <2>3. CASE q = r /\ Stopped(r, m)
    <3>1. r.glitches # g
      BY <2>2, <2>3 DEF Stopped
    <3>. QED  BY <2>2, <2>3, <3>1
  <2>4. CASE Going(r, m) /\ Moves(r, s, q)
    <3>1. m + 1 \in Txs /\ m + 1 - 1 = m
      BY Layout DEF Txs
    <3>2. Needs(Made(m), s) /\ ~MayRefuse(Made(m), s) /\ Effect(Made(m), s) = Made(m + 1)
      BY <3>1, MadeNeeds, MadeNext
    <3>. HIDE DEF s
    <3>3. CASE Accepted(r, s, q)
      BY <2>2, <3>2, <3>3 DEF Accepted
    <3>4. CASE Refused(r, s, q)
      BY <2>2, <3>2, <3>4 DEF Refused
    <3>5. CASE Lost(r, s, q)
      BY <2>2, <3>5 DEF Lost
    <3>. QED  BY <2>4, <3>3, <3>4, <3>5 DEF Moves
  <2>. QED  BY <2>1, <2>3, <2>4
<1>5. 0 .. n \subseteq S
  <2>. HIDE DEF S
  <2>. QED  BY <1>3, <1>4, UpToFrom
<1>. QED  BY <1>5 DEF A

\* Of a call that starts before the auction runs and is shown, the chain only
\* has what was sent.
LEMMA CallTells ==
  ASSUME NEW c \in ChainSet, c.cached = {}, ~c.indexed,
         NEW g \in 0 .. Glitches, NEW b \in Nat, NEW n \in Nat, Total = b + n
  PROVE  \A m \in 0 .. n : \A r \in After(c, g, b)[m] :
           /\ r.chain.cached \subseteq Covered("cacheAuction", b + r.sent)
           /\ r.chain.indexed => Sent("setStoreIndex", b + r.sent)
           /\ r.chain.auction = "started" => c.auction = "started" \/ Sent("startAuction", b + r.sent)
<1>. DEFINE A == After(c, g, b)
            Fine(r) == /\ r.chain.cached \subseteq Covered("cacheAuction", b + r.sent)
                       /\ r.chain.indexed => Sent("setStoreIndex", b + r.sent)
                       /\ r.chain.auction = "started" => c.auction = "started" \/ Sent("startAuction", b + r.sent)
            S == {m \in 0 .. n : \A r \in A[m] : Fine(r)}
<1>1. /\ A[0] = {Unsent(c, g)}
      /\ \A m \in 0 .. (n - 1) : \A q \in A[m + 1] : \E r \in A[m] :
           \/ q = r /\ Stopped(r, m)
           \/ Going(r, m) /\ Moves(r, Instructions[b + (m + 1)], q)
  BY CallMoves
<1>2. \A m \in 0 .. n : \A r \in A[m] : r \in RunSet
  BY CallRuns
<1>. HIDE DEF A
<1>3. 0 \in S
  <2>1. Fine(Unsent(c, g))
    BY DEF Unsent
  <2>. HIDE DEF Fine
  <2>. QED  BY <1>1, <2>1
<1>4. ASSUME NEW m \in 0 .. (n - 1), m \in S PROVE m + 1 \in S
  <2>. SUFFICES ASSUME NEW q \in A[m + 1] PROVE Fine(q)
    OBVIOUS
  <2>. DEFINE k == b + (m + 1)
              s == Instructions[k]
  <2>1. PICK r \in A[m] : \/ q = r /\ Stopped(r, m)
                          \/ Going(r, m) /\ Moves(r, s, q)
    BY <1>1
  <2>2. Fine(r) /\ r \in RunSet /\ r.chain \in ChainSet
    BY <1>2, <1>4 DEF RunSet
  <2>3. CASE q = r
    BY <2>2, <2>3
  <2>4. CASE Going(r, m) /\ Moves(r, s, q)
    <3>1. Instr(s) /\ k \in Txs /\ k - 1 = b + m
      BY ListTyped, Layout DEF Txs
    <3>2. q.sent = m + 1 /\ r.sent = m
      BY <2>2, <2>4, MovesAre DEF Going
    <3>3. q.chain = r.chain \/ q.chain = Effect(r.chain, s)
      BY <2>2, <2>4, MovesAre
    <3>4. k = b + q.sent /\ k - 1 = b + r.sent
      BY <3>1, <3>2
    <3>5. Becomes(r.chain, s, Effect(r.chain, s))
      BY <2>2, <3>1, EffectBecomes
    <3>6. /\ Covered("cacheAuction", k) = Covered("cacheAuction", k - 1)
                                            \cup (IF s.op = "cacheAuction" THEN s.items ELSE {})
          /\ Sent("setStoreIndex", k) <=> Sent("setStoreIndex", k - 1) \/ s.op = "setStoreIndex"
          /\ Sent("startAuction", k) <=> Sent("startAuction", k - 1) \/ s.op = "startAuction"
      BY <3>1, OneMore DEF Several
    <3>7. /\ r.chain.cached \subseteq Covered("cacheAuction", k - 1)
          /\ r.chain.indexed => Sent("setStoreIndex", k - 1)
          /\ r.chain.auction = "started" => c.auction = "started" \/ Sent("startAuction", k - 1)
      BY <2>2, <3>4
    <3>. HIDE DEF s, k
    <3>8. /\ q.chain.cached \subseteq Covered("cacheAuction", k)
          /\ q.chain.indexed => Sent("setStoreIndex", k)
          /\ q.chain.auction = "started" => c.auction = "started" \/ Sent("startAuction", k)
      BY <3>3, <3>5, <3>6, <3>7 DEF Becomes
    <3>. QED  BY <3>4, <3>8
  <2>. QED  BY <2>1, <2>3, <2>4
<1>5. 0 .. n \subseteq S
  <2>. HIDE DEF S
  <2>. QED  BY <1>3, <1>4, UpToFrom
<1>. QED  BY <1>5 DEF A

\* Behind the start of the auction only the store's index is refused, and only
\* while nothing of the auction is cached.
LEMMA TailRefuses ==
  ASSUME NEW c \in ChainSet, c.manager, NEW n \in Txs, Rank(Instructions[n].op) >= 11,
         c.cached \subseteq Covered("cacheAuction", n - 1),
         c.indexed => Sent("setStoreIndex", n - 1),
         ~Needs(c, Instructions[n]) \/ MayRefuse(c, Instructions[n])
  PROVE  Instructions[n].op = "setStoreIndex" /\ c.cached = {} /\ ~c.indexed
<1>. DEFINE s == Instructions[n]
<1>1. /\ s.op = "setStoreIndex" => ~Sent("setStoreIndex", n - 1)
      /\ s.items \cap Covered(s.op, n - 1) = {}
  BY NotTwice DEF Single
<1>2. s.items # {}
  BY Layout
<1>3. Rank(s.op) >= 11 /\ (~Needs(c, s) \/ MayRefuse(c, s))
  OBVIOUS
<1>. HIDE DEF s
<1>4. s.op \in {"cacheAuction", "setStoreIndex", "propagateIndex"}
  BY <1>3 DEF Rank
<1>5. Needs(c, s)
  BY <1>4 DEF Needs
<1>6. MayRefuse(c, s)
  BY <1>3, <1>5
<1>7. CASE s.op = "cacheAuction"
  <2>1. s.items \cap c.cached = {}
    BY <1>1, <1>7
  <2>. QED  BY <1>2, <1>6, <1>7, <2>1 DEF MayRefuse
<1>8. CASE s.op = "setStoreIndex"
  BY <1>1, <1>6, <1>8 DEF MayRefuse, s
<1>9. CASE s.op = "propagateIndex"
  BY <1>6, <1>9 DEF MayRefuse
<1>. QED  BY <1>4, <1>7, <1>8, <1>9

\* Of all that came before and during the call only the rejected is missing.
LEMMA OnlyRejectedMissing ==
  ASSUME NEW c \in ChainSet, Sound(c), NEW g \in 0 .. Glitches, NEW b \in Nat, NEW n \in Nat, Total = b + n,
         \A t \in 1 .. b : Holds(c, Instructions[t])
  PROVE  \A m \in 0 .. n : \A r \in After(c, g, b)[m] :
           \A t \in 1 .. (b + r.sent) : t - b \notin r.rejected => Holds(r.chain, Instructions[t])
<1>. SUFFICES ASSUME NEW m \in 0 .. n, NEW r \in After(c, g, b)[m],
                     NEW t \in 1 .. (b + r.sent), t - b \notin r.rejected
              PROVE  Holds(r.chain, Instructions[t])
  OBVIOUS
<1>1. /\ \A u : Holds(c, u) => Holds(r.chain, u)
      /\ \A j \in 1 .. r.sent : j \notin r.rejected => Holds(r.chain, Instructions[b + j])
  BY CallHolds
<1>2. r.sent \in Nat /\ Total \in Nat
  BY CallRuns, Layout DEF RunSet
<1>3. CASE t <= b
  <2>1. Holds(c, Instructions[t])
    BY <1>2, <1>3
  <2>. QED  BY <1>1, <2>1
<1>4. CASE ~(t <= b)
  <2>1. t - b \in 1 .. r.sent /\ b + (t - b) = t
    BY <1>2, <1>4
  <2>. QED  BY <1>1, <2>1
<1>. QED  BY <1>3, <1>4

\* An auction that runs and that no prize is cached of: the rest of the list
\* is accepted, unless something is lost.
LEMMA ShownAtLast ==
  ASSUME NEW c \in ChainSet, Sound(c), c.auction = "started", c.cached = {}, ~c.indexed,
         NEW b \in Nat, NEW n \in Nat, Total = b + n, n > 0, Instructions[b + 1].op = "cacheAuction"
  PROVE  \A m \in 0 .. n : \A r \in After(c, 0, b)[m] : r.rejected = {} /\ r.glitches = 0
<1>. DEFINE A == After(c, 0, b)
            Fine(r) == r.rejected = {} /\ r.glitches = 0
            S == {m \in 0 .. n : \A r \in A[m] : Fine(r)}
<1>0. 0 \in 0 .. Glitches
  BY AuctionAssumption
<1>1. /\ A[0] = {Unsent(c, 0)}
      /\ \A m \in 0 .. (n - 1) : \A q \in A[m + 1] : \E r \in A[m] :
           \/ q = r /\ Stopped(r, m)
           \/ Going(r, m) /\ Moves(r, Instructions[b + (m + 1)], q)
  BY <1>0, CallMoves
<1>2. \A m \in 0 .. n : \A r \in A[m] : r \in RunSet
  BY <1>0, CallRuns
<1>3. \A m \in 0 .. n : \A r \in A[m] :
        /\ \A u : Holds(c, u) => Holds(r.chain, u)
        /\ \A j \in 1 .. r.sent : j \notin r.rejected => Holds(r.chain, Instructions[b + j])
  BY <1>0, CallHolds
<1>4. \A m \in 0 .. n : \A r \in A[m] :
        /\ r.chain.cached \subseteq Covered("cacheAuction", b + r.sent)
        /\ r.chain.indexed => Sent("setStoreIndex", b + r.sent)
  BY <1>0, CallTells
<1>. HIDE DEF A
<1>5. 0 \in S
  <2>1. Fine(Unsent(c, 0))
    BY DEF Unsent
  <2>. HIDE DEF Fine
  <2>. QED  BY <1>1, <2>1
<1>6. ASSUME NEW m \in 0 .. (n - 1), m \in S PROVE m + 1 \in S
  <2>. SUFFICES ASSUME NEW q \in A[m + 1] PROVE Fine(q)
    OBVIOUS
  <2>. DEFINE k == b + (m + 1)
              s == Instructions[k]
  <2>1. PICK r \in A[m] : \/ q = r /\ Stopped(r, m)
                          \/ Going(r, m) /\ Moves(r, s, q)
    BY <1>1
  <2>2. Fine(r) /\ r \in RunSet /\ r.chain \in ChainSet
    BY <1>2, <1>6 DEF RunSet
  <2>3. CASE q = r
    BY <2>2, <2>3
  <2>4. CASE Going(r, m) /\ Moves(r, s, q)
    <3>1. k \in Txs /\ k - 1 = b + m /\ b + 1 \in Txs /\ r.sent = m
      BY <2>4, Layout DEF Txs, Going
    <3>2. Rank(s.op) >= 11
      <4>1. Rank(Instructions[b + 1].op) = 11
        BY DEF Rank
      <4>2. b + 1 < k => Rank(Instructions[b + 1].op) <= Rank(s.op)
        BY <3>1, Layout
      <4>3. b + 1 = k \/ b + 1 < k
        OBVIOUS
      <4>. QED  BY <4>1, <4>2, <4>3, RankTyped
    <3>3. r.chain.manager
      <4>1. Holds(c, Once("initAuctionManager"))
        BY DEF Holds, Sound, Once, Step
      <4>2. Holds(r.chain, Once("initAuctionManager"))
        BY <1>3, <4>1
      <4>. QED  BY <4>2 DEF Holds, Once, Step
    <3>4. ~Refused(r, s, q)
      <4>. SUFFICES ASSUME Refused(r, s, q) PROVE FALSE
        OBVIOUS
      <4>1. ~Needs(r.chain, s) \/ MayRefuse(r.chain, s)
        BY DEF Refused
      <4>2. /\ r.chain.cached \subseteq Covered("cacheAuction", k - 1)
            /\ r.chain.indexed => Sent("setStoreIndex", k - 1)
        <5>1. /\ r.chain.cached \subseteq Covered("cacheAuction", b + r.sent)
              /\ r.chain.indexed => Sent("setStoreIndex", b + r.sent)
          BY <1>4
        <5>. QED  BY <3>1, <5>1
      <4>3. s.op = "setStoreIndex" /\ r.chain.cached = {}
        BY <2>2, <3>1, <3>2, <3>3, <4>1, <4>2, TailRefuses
      <4>4. m # 0
        BY <4>3
      <4>5. 1 \in 1 .. r.sent /\ 1 \notin r.rejected
        BY <2>2, <3>1, <4>4
      <4>6. Holds(r.chain, Instructions[b + 1])
        BY <1>3, <4>5
      <4>7. Instructions[b + 1].items # {}
        BY <3>1, Layout
      <4>. QED  BY <4>3, <4>6, <4>7 DEF Holds
    <3>5. CASE Accepted(r, s, q)
      BY <2>2, <3>5 DEF Accepted
    <3>6. CASE Lost(r, s, q)
      BY <2>2, <3>6 DEF Lost
    <3>. QED  BY <2>4, <3>4, <3>5, <3>6 DEF Moves
  <2>. QED  BY <2>1, <2>3, <2>4
<1>7. 0 .. n \subseteq S
  <2>. HIDE DEF S
  <2>. QED  BY <1>5, <1>6, UpToFrom
<1>. QED  BY <1>7 DEF A

\* Past the start of the auction the manager is there, whichever one
\* transaction is missing: without it no box is valid.
LEMMA ManagerMade ==
  ASSUME NEW c \in ChainSet, Sound(c), NEW n \in Txs, Rank(Instructions[n].op) >= 11, NEW x,
         \A t \in 1 .. (n - 1) : t # x => Holds(c, Instructions[t])
  PROVE  c.manager
<1>1. PICK i \in Txs : Instructions[i].op = "initAuctionManager"
  BY Layout DEF Single
<1>2. 1 \in Prizes
  BY AuctionAssumption DEF Prizes
<1>3. PICK v \in Txs : Instructions[v].op = "validateBox" /\ 1 \in Instructions[v].items
  BY <1>2, Layout
<1>4. Rank(Instructions[i].op) = 7 /\ Rank(Instructions[v].op) = 9
  BY <1>1, <1>3 DEF Rank
<1>5. i # v /\ ~(n <= i) /\ ~(n <= v)
  <2>1. n < i => Rank(Instructions[n].op) <= Rank(Instructions[i].op)
    BY Layout
  <2>2. n < v => Rank(Instructions[n].op) <= Rank(Instructions[v].op)
    BY Layout
  <2>3. n \in Int /\ i \in Int /\ v \in Int
    BY Layout DEF Txs
  <2>. QED  BY <1>4, <2>1, <2>2, <2>3, RankTyped
<1>6. i \in 1 .. (n - 1) /\ v \in 1 .. (n - 1)
  BY <1>5, Layout DEF Txs
<1>7. CASE Holds(c, Instructions[i])
  BY <1>1, <1>7 DEF Holds
<1>8. CASE Holds(c, Instructions[v])
  <2>1. Instructions[v].items \subseteq c.validated
    BY <1>3, <1>8 DEF Holds
  <2>. QED  BY <1>3, <2>1 DEF Sound
<1>. QED  BY <1>5, <1>6, <1>7, <1>8

\* What is known of the runs of a call that starts before the auction does.
FailedWell(r, m, g, b) ==
  /\ r.glitches \in 0 .. g
  /\ Going(r, m) => \A f \in r.rejected : Instructions[b + f].op = "cacheAuction" => g = 1 /\ r.glitches = 0
  /\ Stopped(r, m) =>
       /\ r.chain.cached = {} /\ ~r.chain.indexed
       /\ r.chain.auction = "started" =>
            /\ g = 1 /\ r.glitches = 0
            /\ \A f \in r.rejected : f < r.sent => Instructions[b + f].op = "cacheAuction"

\* One transaction of such a call.
LEMMA OneFails ==
  ASSUME NEW c \in ChainSet, Sound(c), c.cached = {}, ~c.indexed, c.auction # "started",
         NEW g \in 0 .. Glitches, g <= 1, NEW b \in Nat, NEW n \in Nat, Total = b + n,
         \A t \in 1 .. b : Holds(c, Instructions[t]),
         g = 1 => c = Fresh /\ b = 0,
         NEW m \in 0 .. (n - 1), NEW r \in After(c, g, b)[m], FailedWell(r, m, g, b),
         NEW q, Going(r, m), Moves(r, Instructions[b + (m + 1)], q)
  PROVE  FailedWell(q, m + 1, g, b)
<1>. DEFINE k == b + (m + 1)
            s == Instructions[k]
<1>1. r \in RunSet /\ r.chain \in ChainSet /\ r.glitches \in 0 .. Glitches /\ r.sent = m
  <2>1. m \in 0 .. n
    OBVIOUS
  <2>2. r \in RunSet
    BY <2>1, CallRuns
  <2>. QED  BY <2>2 DEF RunSet, Going
<1>2. k \in Txs /\ k - 1 = b + m /\ k \in Int
  BY Layout DEF Txs
<1>3. /\ r.chain.cached \subseteq Covered("cacheAuction", k - 1)
      /\ r.chain.indexed => Sent("setStoreIndex", k - 1)
      /\ r.chain.auction = "started" => Sent("startAuction", k - 1)
  <2>1. /\ r.chain.cached \subseteq Covered("cacheAuction", b + r.sent)
        /\ r.chain.indexed => Sent("setStoreIndex", b + r.sent)
        /\ r.chain.auction = "started" => c.auction = "started" \/ Sent("startAuction", b + r.sent)
    BY CallTells
  <2>. QED  BY <1>1, <1>2, <2>1
<1>4. Sound(r.chain)
  BY CallHolds
<1>5. \A t \in 1 .. (k - 1) : t - b \notin r.rejected => Holds(r.chain, Instructions[t])
  BY <1>1, <1>2, OnlyRejectedMissing
<1>6. g = 1 => (r.glitches = g => r.rejected = {})
  BY CallInOrder
<1>7. Going(r, m) => Cardinality(r.rejected) # 2
  BY Rejections
<1>8. r.rejected = {} \/ \E f \in 1 .. m : r.rejected = {f}
  BY DEF Going
<1>9. s = Instructions[b + (m + 1)] /\ k = b + (m + 1)
  OBVIOUS
<1>. HIDE DEF s, k
<1>10. /\ \A u : Going(u, m + 1) => Cardinality(u.rejected) # 2
       /\ \A u : Stopped(u, m + 1) => Cardinality(u.rejected) = 2
  <2>. DEFINE l == m + 1
  <2>1. l \in Nat
    OBVIOUS
  <2>. HIDE DEF l
  <2>2. ASSUME NEW u
        PROVE  /\ Going(u, l) => Cardinality(u.rejected) # 2
               /\ Stopped(u, l) => Cardinality(u.rejected) = 2
    BY <2>1, Rejections
  <2>. QED  BY <2>2 DEF l
<1>11. ASSUME r.rejected = {}, q.rejected = {m + 1} PROVE ~Stopped(q, m + 1)
  BY <1>11 DEF Stopped
<1>12. g \in Int /\ 0 <= g /\ r.glitches \in Int /\ 0 <= r.glitches /\ r.glitches <= g
  BY DEF FailedWell
<1>13. CASE Accepted(r, s, q)
  <2>1. q.rejected = r.rejected /\ q.glitches = r.glitches
    BY <1>13 DEF Accepted
  <2>2. ~Stopped(q, m + 1)
    BY <1>7, <1>10, <2>1
  <2>3. \A f \in q.rejected : Instructions[b + f].op = "cacheAuction" => g = 1 /\ q.glitches = 0
    BY <2>1 DEF FailedWell
  <2>. QED  BY <1>12, <2>1, <2>2, <2>3 DEF FailedWell
<1>14. CASE Lost(r, s, q)
  <2>1. q.glitches = r.glitches - 1 /\ r.glitches > 0 /\ q.rejected = r.rejected \cup {m + 1}
    BY <1>1, <1>14 DEF Lost
  <2>2. g = 1 /\ r.glitches = 1
    BY <1>12, <2>1
  <2>3. r.rejected = {} /\ q.glitches = 0 /\ q.rejected = {m + 1}
    BY <1>6, <2>1, <2>2
  <2>4. ~Stopped(q, m + 1)
    BY <1>11, <2>3
  <2>. QED  BY <2>2, <2>3, <2>4 DEF FailedWell
<1>15. CASE Refused(r, s, q)
  <2>1. /\ q.chain = r.chain /\ q.glitches = r.glitches
        /\ q.rejected = r.rejected \cup {m + 1} /\ q.sent = m + 1
        /\ ~Needs(r.chain, s) \/ MayRefuse(r.chain, s)
    BY <1>1, <1>15 DEF Refused
  <2>2. CASE Rank(s.op) <= 10
    <3>1. r.chain.cached = {} /\ ~r.chain.indexed
      <4>1. Rank(s.op) < Rank("cacheAuction") /\ Rank(s.op) < Rank("setStoreIndex")
        <5>1. Rank("cacheAuction") = 11 /\ Rank("setStoreIndex") = 12
          BY DEF Rank
        <5>2. Rank(s.op) \in Nat
          BY RankTyped
        <5>. QED  BY <2>2, <5>1, <5>2
      <4>2. Covered("cacheAuction", k - 1) = {} /\ ~Sent("setStoreIndex", k - 1)
        BY <1>2, <1>9, <4>1, Behind
      <4>. QED  BY <1>3, <4>2
    <3>2. r.chain.auction # "started"
      <4>1. CASE s.op = "startAuction"
        <5>1. ~Sent("startAuction", k - 1)
          BY <1>2, <1>9, <4>1, NotTwice DEF Single, s
        <5>. QED  BY <1>3, <5>1
      <4>2. CASE s.op # "startAuction"
        <5>1. Rank(s.op) < Rank("startAuction")
          BY <2>2, <4>2, RankTyped DEF Rank
        <5>2. ~Sent("startAuction", k - 1)
          BY <1>2, <1>9, <5>1, Behind
        <5>. QED  BY <1>3, <5>2
      <4>. QED  BY <4>1, <4>2
    <3>3. s.op # "cacheAuction"
      BY <2>2 DEF Rank
    <3>4. \A f \in q.rejected : Instructions[b + f].op = "cacheAuction" => g = 1 /\ q.glitches = 0
      BY <1>9, <2>1, <3>3 DEF FailedWell
    <3>. QED  BY <1>12, <2>1, <3>1, <3>2, <3>4 DEF FailedWell
  <2>3. CASE Rank(s.op) >= 11
    <3>1. r.chain.manager
      <4>1. \E x : \A t \in 1 .. (k - 1) : t # x => Holds(r.chain, Instructions[t])
        <5>1. CASE r.rejected = {}
          BY <1>5, <5>1
        <5>2. CASE \E f \in 1 .. m : r.rejected = {f}
          <6>. PICK f \in 1 .. m : r.rejected = {f}
            BY <5>2
          <6>1. \A t \in 1 .. (k - 1) : t # b + f => t - b \notin r.rejected
            BY <1>2
          <6>. QED  BY <1>5, <6>1
        <5>. QED  BY <1>8, <5>1, <5>2
      <4>2. PICK x : \A t \in 1 .. (k - 1) : t # x => Holds(r.chain, Instructions[t])
        BY <4>1
      <4>. QED  BY <1>1, <1>2, <1>4, <1>9, <2>3, <4>2, ManagerMade DEF s
    <3>2. s.op = "setStoreIndex" /\ r.chain.cached = {} /\ ~r.chain.indexed
      BY <1>1, <1>2, <1>3, <2>1, <2>3, <3>1, TailRefuses DEF s
    <3>3. \A f \in q.rejected : Instructions[b + f].op = "cacheAuction" => g = 1 /\ q.glitches = 0
      BY <1>9, <2>1, <3>2 DEF FailedWell
    <3>4. CASE r.rejected = {}
      <4>1. q.rejected = {m + 1}
        BY <2>1, <3>4
      <4>2. ~Stopped(q, m + 1)
        BY <1>11, <3>4, <4>1
      <4>. QED  BY <1>12, <2>1, <3>3, <4>2 DEF FailedWell
    <3>5. CASE \E f \in 1 .. m : r.rejected = {f}
      <4>. PICK f \in 1 .. m : r.rejected = {f}
        BY <3>5
      <4>1. 1 \in Prizes
        BY AuctionAssumption DEF Prizes
      <4>2. PICK t \in Txs : Instructions[t].op = "cacheAuction" /\ 1 \in Instructions[t].items
        BY <4>1, Layout
      <4>3. t \in 1 .. (k - 1)
        <5>1. Rank(Instructions[t].op) = 11 /\ Rank(s.op) = 12
          BY <3>2, <4>2 DEF Rank
        <5>2. k < t => Rank(Instructions[k].op) <= Rank(Instructions[t].op)
          BY <1>2, Layout
        <5>3. t # k /\ ~(k < t)
          BY <5>1, <5>2 DEF s
        <5>. QED  BY <1>2, <5>3, Layout DEF Txs
      <4>4. ~Holds(r.chain, Instructions[t])
        BY <3>2, <4>2 DEF Holds
      <4>5. t - b = f
        BY <1>5, <4>3, <4>4
      <4>6. t = b + f
        BY <4>3, <4>5, <1>2
      <4>7. g = 1 /\ r.glitches = 0
        BY <4>2, <4>6 DEF FailedWell
      <4>8. \A h \in q.rejected : h < q.sent => Instructions[b + h].op = "cacheAuction"
        BY <2>1, <4>2, <4>6
      <4>. QED  BY <1>12, <2>1, <3>2, <3>3, <4>7, <4>8 DEF FailedWell
    <3>. QED  BY <1>8, <3>4, <3>5
  <2>. QED  BY <2>2, <2>3, RankTyped
<1>. QED  BY <1>9, <1>13, <1>14, <1>15 DEF Moves

LEMMA CallFails ==
  ASSUME NEW c \in ChainSet, Sound(c), c.cached = {}, ~c.indexed, c.auction # "started",
         NEW g \in 0 .. Glitches, g <= 1, NEW b \in Nat, NEW n \in Nat, Total = b + n,
         \A t \in 1 .. b : Holds(c, Instructions[t]),
         g = 1 => c = Fresh /\ b = 0
  PROVE  \A m \in 0 .. n : \A r \in After(c, g, b)[m] : FailedWell(r, m, g, b)
<1>. DEFINE A == After(c, g, b)
            S == {m \in 0 .. n : \A r \in A[m] : FailedWell(r, m, g, b)}
<1>1. /\ A[0] = {Unsent(c, g)}
      /\ \A m \in 0 .. (n - 1) : \A q \in A[m + 1] : \E r \in A[m] :
           \/ q = r /\ Stopped(r, m)
           \/ Going(r, m) /\ Moves(r, Instructions[b + (m + 1)], q)
  BY CallMoves
<1>2. \A m \in 0 .. n : \A r \in A[m] : r \in RunSet
  BY CallRuns
<1>3. A = After(c, g, b)
  OBVIOUS
<1>. HIDE DEF A
<1>4. 0 \in S
  <2>1. Unsent(c, g).glitches = g /\ Unsent(c, g).rejected = {}
    BY DEF Unsent
  <2>2. g \in 0 .. g
    OBVIOUS
  <2>3. FailedWell(Unsent(c, g), 0, g, b)
    BY <2>1, <2>2 DEF FailedWell, Stopped
  <2>. QED  BY <1>1, <2>3
<1>5. ASSUME NEW m \in 0 .. (n - 1), m \in S PROVE m + 1 \in S
  <2>. SUFFICES ASSUME NEW q \in A[m + 1] PROVE FailedWell(q, m + 1, g, b)
    OBVIOUS
  <2>1. PICK r \in A[m] : \/ q = r /\ Stopped(r, m)
                          \/ Going(r, m) /\ Moves(r, Instructions[b + (m + 1)], q)
    BY <1>1
  <2>2. FailedWell(r, m, g, b)
    BY <1>5
  <2>3. CASE q = r /\ Stopped(r, m)
    <3>1. /\ \A u : Going(u, m + 1) => Cardinality(u.rejected) # 2
          /\ Stopped(r, m) => Cardinality(r.rejected) = 2
      BY Rejections
    <3>2. ~Going(q, m + 1)
      BY <2>3, <3>1
    <3>. QED  BY <2>2, <2>3, <3>2 DEF FailedWell
  <2>4. CASE Going(r, m) /\ Moves(r, Instructions[b + (m + 1)], q)
    BY <1>3, <2>2, <2>4, OneFails
  <2>. QED  BY <2>1, <2>3, <2>4
<1>6. 0 .. n \subseteq S
  <2>. HIDE DEF S
  <2>. QED  BY <1>4, <1>5, UpToFrom
<1>. QED  BY <1>6 DEF A

\* Nothing is lost twice.
LEMMA CallLoses ==
  ASSUME NEW c \in ChainSet, NEW g \in 0 .. Glitches, NEW b \in Nat, NEW n \in Nat, Total = b + n
  PROVE  \A m \in 0 .. n : \A r \in After(c, g, b)[m] : r.glitches <= g
<1>. DEFINE A == After(c, g, b)
            S == {m \in 0 .. n : \A r \in A[m] : r.glitches <= g}
<1>1. /\ A[0] = {Unsent(c, g)}
      /\ \A m \in 0 .. (n - 1) : \A q \in A[m + 1] : \E r \in A[m] :
           \/ q = r /\ Stopped(r, m)
           \/ Going(r, m) /\ Moves(r, Instructions[b + (m + 1)], q)
  BY CallMoves
<1>2. \A m \in 0 .. n : \A r \in A[m] : r \in RunSet
  BY CallRuns
<1>. HIDE DEF A
<1>3. 0 \in S
  <2>1. Unsent(c, g).glitches = g /\ g \in Int
    BY DEF Unsent
  <2>. QED  BY <1>1, <2>1
<1>4. ASSUME NEW m \in 0 .. (n - 1), m \in S PROVE m + 1 \in S
  <2>. SUFFICES ASSUME NEW q \in A[m + 1] PROVE q.glitches <= g
    OBVIOUS
  <2>1. PICK r \in A[m] : q = r \/ Moves(r, Instructions[b + (m + 1)], q)
    BY <1>1
  <2>2. r.glitches <= g /\ r.glitches \in Int /\ g \in Int
    BY <1>2, <1>4 DEF RunSet
  <2>3. q.glitches = r.glitches \/ q.glitches = r.glitches - 1
    BY <2>1 DEF Moves, Accepted, Refused, Lost
  <2>. QED  BY <2>2, <2>3
<1>5. 0 .. n \subseteq S
  <2>. HIDE DEF S
  <2>. QED  BY <1>3, <1>4, UpToFrom
<1>. QED  BY <1>5 DEF A

\* What a call leads to.
LEMMA CallGives ==
  ASSUME NEW c \in ChainSet, NEW g \in 0 .. Glitches, NEW b \in Nat, NEW n \in Nat, Total = b + n,
         NEW r \in Calls(c, g, b)
  PROVE  /\ r \in After(c, g, b)[n] /\ n \in 0 .. n
         /\ r \in RunSet /\ (Going(r, n) \/ Stopped(r, n))
         /\ r.sent \in 0 .. n /\ r.rejected \subseteq 1 .. r.sent
<1>1. Total - b = n /\ n \in 0 .. n
  OBVIOUS
<1>2. r \in After(c, g, b)[n]
  BY <1>1, CallsAreAfter
<1>3. r \in RunSet /\ (Going(r, n) \/ Stopped(r, n))
  BY <1>1, <1>2, CallRuns
<1>4. Going(r, n) => r.sent \in 0 .. n /\ r.rejected \subseteq 1 .. r.sent
  BY DEF Going
<1>5. Stopped(r, n) => r.sent \in 0 .. n /\ r.rejected \subseteq 1 .. r.sent
  BY DEF Stopped
<1>. QED  BY <1>1, <1>2, <1>3, <1>4, <1>5

\* The answer points at the first of two rejections.
LEMMA AnswerIs ==
  ASSUME NEW n \in Nat, NEW r
  PROVE  /\ Going(r, n) => Answer(r, n) = n
         /\ \A e \in 1 .. n : \A f \in 1 .. (e - 1) : r.sent = e /\ r.rejected = {f, e} => Answer(r, n) = f - 1
<1>1. ASSUME Going(r, n) PROVE Answer(r, n) = n
  BY <1>1, Rejections DEF Answer
<1>2. ASSUME NEW e \in 1 .. n, NEW f \in 1 .. (e - 1), r.sent = e, r.rejected = {f, e}
      PROVE  Answer(r, n) = f - 1
  <2>1. Stopped(r, n)
    BY <1>2 DEF Stopped
  <2>2. Cardinality(r.rejected) = 2
    BY <2>1, Rejections
  <2>3. Answer(r, n) = (CHOOSE k \in {f, e} : \A j \in {f, e} : k <= j) - 1
    BY <1>2, <2>2 DEF Answer
  <2>4. f \in {f, e} /\ \A j \in {f, e} : f <= j
    OBVIOUS
  <2>5. \A k \in {f, e} : (\A j \in {f, e} : k <= j) => k = f
    OBVIOUS
  <2>6. (CHOOSE k \in {f, e} : \A j \in {f, e} : k <= j) = f
    BY <2>4, <2>5
  <2>. QED  BY <2>3, <2>6
<1>. QED  BY <1>1, <1>2

\* What the loop takes down of a call.
TakenDown(old, new, b, sent, rejected) ==
  new = [t \in Txs |-> IF t \notin {b + k : k \in 1 .. sent} THEN old[t]
                       ELSE IF t \in {b + k : k \in rejected} THEN "rejected" ELSE "resolved"]

Taken(old, new, b, n, sent, rejected) ==
  /\ new \in [Txs -> {"unsent", "resolved", "rejected"}]
  /\ {b + k : k \in 1 .. sent} \subseteq Txs
  /\ \A t \in 1 .. b : new[t] = old[t]
  /\ \A j \in 1 .. sent : new[b + j] = IF j \in rejected THEN "rejected" ELSE "resolved"
  /\ \A j \in (sent + 1) .. n : new[b + j] = old[b + j]

LEMMA Recorded ==
  ASSUME NEW b \in Nat, NEW n \in Nat, Total = b + n,
         NEW sent \in 0 .. n, NEW rejected, rejected \subseteq 1 .. sent,
         NEW old, old \in [Txs -> {"unsent", "resolved", "rejected"}], NEW new,
         TakenDown(old, new, b, sent, rejected)
  PROVE  Taken(old, new, b, n, sent, rejected)
<1>. USE DEF TakenDown
<1>0. Txs = 1 .. (b + n)
  BY DEF Txs
<1>1. new \in [Txs -> {"unsent", "resolved", "rejected"}] /\ {b + k : k \in 1 .. sent} \subseteq Txs
  BY <1>0
<1>2. \A t \in 1 .. b : t \in Txs /\ t \notin {b + k : k \in 1 .. sent}
  BY <1>0
<1>3. ASSUME NEW j \in 1 .. sent PROVE new[b + j] = IF j \in rejected THEN "rejected" ELSE "resolved"
  <2>1. b + j \in Txs /\ b + j \in {b + k : k \in 1 .. sent}
    BY <1>0
  <2>2. b + j \in {b + k : k \in rejected} <=> j \in rejected
    OBVIOUS
  <2>. QED  BY <2>1, <2>2
<1>4. ASSUME NEW j \in (sent + 1) .. n PROVE new[b + j] = old[b + j]
  <2>1. b + j \in Txs /\ b + j \notin {b + k : k \in 1 .. sent}
    BY <1>0
  <2>. QED  BY <2>1
<1>5. \A t \in 1 .. b : new[t] = old[t]
  BY <1>2
<1>. QED  BY <1>1, <1>3, <1>4, <1>5 DEF Taken

-----------------------------------------------------------------------------
(* The invariant.                                                           *)

\* As long as no turn threw, the list up to the next start resolved, and once
\* the loop is through with it all but one of its transactions did.
LoopInv ==
  ~threw =>
    /\ stopPoint < Total - base => \A t \in 1 .. (base + stopPoint) : last[t] = "resolved"
    /\ stopPoint >= Total - base =>
         /\ \A t \in Txs : last[t] # "unsent"
         /\ \A s, t \in Txs : last[s] # "resolved" /\ last[t] # "resolved" => s = t

\* As long as nothing was lost, nothing was sent or all of it resolved.
InOrder ==
  glitches = Glitches =>
    \/ /\ base = 0 /\ stopPoint = 0 /\ chain = Fresh
       /\ \A t \in Txs : last[t] = "unsent"
       /\ ~threw => turns = 0
    \/ stopPoint = Total - base /\ \A t \in Txs : last[t] = "resolved"

Ended ==
  /\ pc = "returned" => stopPoint >= Total - base
  /\ pc = "thrown" => stopPoint < Total - base /\ tries = MaxTries

Begun == turns = 0 => tries = 0 /\ lastLength = 0

\* With one transaction lost at most, a list that is not through was not shown
\* yet; if its auction runs, the lost one is the next that caches it.
Retried ==
  Glitches <= 1 /\ ~threw /\ stopPoint < Total - base =>
    /\ chain.cached = {} /\ ~chain.indexed
    /\ chain.auction = "started" =>
         /\ tries = 0 /\ glitches = 0 /\ Instructions[base + stopPoint + 1].op = "cacheAuction"

AuctionInv ==
  /\ TypeOK
  /\ Sound(chain)
  /\ \A t \in resolved : Holds(chain, Instructions[t])
  /\ \A t \in Txs : last[t] = "resolved" => t \in resolved
  /\ LoopInv /\ InOrder /\ Ended /\ Begun /\ Retried

LEMMA Typed ==
  ASSUME TypeOK
  PROVE  /\ chain \in ChainSet /\ glitches \in 0 .. Glitches /\ Glitches \in Nat
         /\ base \in Nat /\ stopPoint \in Nat /\ tries \in 0 .. 3 /\ lastLength \in Nat /\ turns \in Nat
         /\ base < Total /\ stopPoint <= Total /\ Total \in Nat
         /\ last \in [Txs -> {"unsent", "resolved", "rejected"}]
         /\ resolved \subseteq Txs /\ threw \in BOOLEAN
BY Layout, AuctionAssumption DEF TypeOK, ChainSet, MaxTries

\* There is something to send.
LEMMA SomethingToSend == Total \in Nat /\ Total > 0
<1>1. \E t \in Txs : Instructions[t].op = "createVault"
  BY Layout DEF Single
<1>. QED  BY <1>1, Layout DEF Txs

LEMMA AuctionInit == Init => AuctionInv
<1>. SUFFICES ASSUME Init PROVE AuctionInv
  OBVIOUS
<1>1. Fresh \in ChainSet
  BY MadeFresh, MadeTyped
<1>2. TypeOK
  <2>1. chain \in ChainSet
    BY <1>1 DEF Init
  <2>2. last \in [Txs -> {"unsent", "resolved", "rejected"}]
    BY DEF Init
  <2>3. glitches \in 0 .. Glitches
    BY AuctionAssumption DEF Init
  <2>4. /\ base \in 0 .. (Total - 1) /\ stopPoint \in 0 .. Total
        /\ tries \in 0 .. MaxTries /\ lastLength \in 0 .. Total
    BY SomethingToSend DEF Init, MaxTries
  <2>. QED  BY <2>1, <2>2, <2>3, <2>4 DEF Init, TypeOK, ChainSet
<1>3. Sound(chain)
  <2>1. /\ chain.validated = {} /\ chain.inVault = {} /\ chain.auction = "none"
        /\ chain.cached = {} /\ chain.indexed = FALSE
    BY DEF Init, Fresh
  <2>. QED  BY <2>1 DEF Sound
<1>4. chain.cached = {} /\ ~chain.indexed /\ chain.auction # "started"
  BY DEF Init, Fresh
<1>5. (\A t \in resolved : Holds(chain, Instructions[t])) /\ \A t \in Txs : last[t] = "resolved" => t \in resolved
  BY DEF Init
<1>6. LoopInv
  BY SomethingToSend DEF LoopInv, Init
<1>7. InOrder
  BY DEF InOrder, Init
<1>8. Ended /\ Begun
  BY DEF Ended, Begun, Init
<1>9. Retried
  BY <1>4 DEF Retried
<1>. QED  BY <1>2, <1>3, <1>5, <1>6, <1>7, <1>8, <1>9 DEF AuctionInv

\* The top of a turn.
LEMMA TurnTyped ==
  ASSUME TypeOK, Turn
  PROVE  /\ base' = base + stopPoint /\ base' \in 0 .. (Total - 1) /\ base' \in Nat
         /\ Total - base' \in Nat /\ Total = base' + (Total - base') /\ Total - base' > 0
         /\ lastLength' = Total - base' /\ lastLength' \in 0 .. Total
         /\ tries' \in 0 .. MaxTries /\ turns' \in Nat /\ turns' # 0
         /\ pc = "loop" /\ pc' = "loop"
<1>1. /\ base \in Nat /\ stopPoint \in Nat /\ tries \in 0 .. 3 /\ lastLength \in Nat
      /\ turns \in Nat /\ Total \in Nat
  BY Typed
<1>2. /\ stopPoint < Total - base /\ tries < 3 /\ base' = base + stopPoint /\ lastLength' = Total - base'
      /\ tries' = (IF Total - base' = lastLength THEN tries + 1 ELSE 0) /\ turns' = turns + 1
      /\ pc = "loop" /\ pc' = pc
  BY DEF Turn, MaxTries
<1>. QED  BY <1>1, <1>2 DEF MaxTries

LEMMA TurnThrowsKeeps == AuctionInv /\ TurnThrows => AuctionInv'
<1>. SUFFICES ASSUME AuctionInv, TurnThrows PROVE AuctionInv'
  OBVIOUS
<1>0. TypeOK /\ Turn
  BY DEF AuctionInv, TurnThrows
<1>1. /\ base' = base + stopPoint /\ base' \in 0 .. (Total - 1)
      /\ lastLength' \in 0 .. Total /\ tries' \in 0 .. MaxTries /\ turns' \in Nat /\ turns' # 0 /\ pc' = "loop"
  BY <1>0, TurnTyped
<1>2. /\ threw' = TRUE /\ chain' = chain /\ glitches' = glitches /\ stopPoint' = stopPoint
      /\ last' = last /\ resolved' = resolved
  BY DEF TurnThrows
<1>3. TypeOK'
  BY <1>0, <1>1, <1>2 DEF TypeOK, Txs, Total
<1>4. Sound(chain)' /\ (\A t \in resolved : Holds(chain, Instructions[t]))'
  BY <1>2 DEF AuctionInv, Sound, Holds
<1>5. (\A t \in Txs : last[t] = "resolved" => t \in resolved)'
  BY <1>2 DEF AuctionInv
<1>6. LoopInv' /\ Retried' /\ Begun' /\ Ended'
  BY <1>1, <1>2 DEF LoopInv, Retried, Begun, Ended
<1>7. InOrder'
  <2>1. stopPoint < Total - base /\ base \in Nat /\ stopPoint \in Nat /\ Total \in Nat
    BY <1>0, Typed DEF Turn
  <2>2. glitches = Glitches => base = 0 /\ stopPoint = 0 /\ chain = Fresh /\ \A t \in Txs : last[t] = "unsent"
    BY <2>1 DEF AuctionInv, InOrder
  <2>. QED  BY <1>1, <1>2, <2>2 DEF InOrder
<1>. QED  BY <1>3, <1>4, <1>5, <1>6, <1>7 DEF AuctionInv

LEMMA ReturnKeeps == AuctionInv /\ ReturnOrFailToCreate => AuctionInv'
<1>. SUFFICES ASSUME AuctionInv, ReturnOrFailToCreate PROVE AuctionInv'
  OBVIOUS
<1>1. /\ chain' = chain /\ glitches' = glitches /\ last' = last /\ resolved' = resolved /\ threw' = threw
      /\ base' = base /\ stopPoint' = stopPoint /\ tries' = tries /\ lastLength' = lastLength /\ turns' = turns
  BY DEF ReturnOrFailToCreate, loopVars
<1>2. pc' = (IF stopPoint < Total - base THEN "thrown" ELSE "returned")
      /\ ~(stopPoint < Total - base /\ tries < MaxTries)
  BY DEF ReturnOrFailToCreate
<1>3. TypeOK'
  BY <1>1, <1>2 DEF AuctionInv, TypeOK
<1>4. Sound(chain)' /\ (\A t \in resolved : Holds(chain, Instructions[t]))'
      /\ (\A t \in Txs : last[t] = "resolved" => t \in resolved)'
  BY <1>1 DEF AuctionInv, Sound, Holds
<1>5. LoopInv' /\ InOrder' /\ Begun' /\ Retried'
  BY <1>1 DEF AuctionInv, LoopInv, InOrder, Begun, Retried
<1>6. Ended'
  <2>1. tries \in 0 .. 3 /\ stopPoint \in Nat /\ base \in Nat /\ Total \in Nat
    BY Typed DEF AuctionInv
  <2>. QED  BY <1>1, <1>2, <2>1 DEF Ended, MaxTries
<1>. QED  BY <1>3, <1>4, <1>5, <1>6 DEF AuctionInv

\* How a turn that sends comes out.
Outcome(r, n) ==
  /\ threw => threw'
  /\ \/ Going(r, n) /\ stopPoint' = n /\ threw' = threw
     \/ Going(r, n) /\ stopPoint' = stopPoint /\ n = 1 /\ threw' /\ r.rejected # {}
     \/ /\ threw' = threw
        /\ \E e \in 1 .. n : \E f \in 1 .. (e - 1) : r.sent = e /\ r.rejected = {f, e} /\ stopPoint' = f - 1

LEMMA SingleOutcome ==
  ASSUME TypeOK, NEW n \in Nat, n = 1, NEW r, Going(r, n) \/ Stopped(r, n),
         stopPoint' = IF r.rejected = {} THEN 1 ELSE stopPoint,
         threw' = (threw \/ r.rejected # {})
  PROVE  Outcome(r, n)
<1>1. ~Stopped(r, n)
  BY DEF Stopped
<1>2. CASE r.rejected = {}
  <2>1. threw' = threw
    BY <1>2, Typed
  <2>. QED  BY <1>1, <1>2, <2>1 DEF Outcome
<1>3. CASE r.rejected # {}
  BY <1>1, <1>3 DEF Outcome
<1>. QED  BY <1>2, <1>3

LEMMA BatchOutcome ==
  ASSUME NEW n \in Nat, NEW r, Going(r, n) \/ Stopped(r, n),
         stopPoint' = Answer(r, n), threw' = threw
  PROVE  Outcome(r, n)
<1>1. CASE Going(r, n)
  BY <1>1, AnswerIs DEF Outcome
<1>2. CASE Stopped(r, n)
  <2>1. PICK e \in 1 .. n : r.sent = e /\ \E f \in 1 .. (e - 1) : r.rejected = {f, e}
    BY <1>2 DEF Stopped
  <2>2. PICK f \in 1 .. (e - 1) : r.rejected = {f, e}
    BY <2>1
  <2>3. Answer(r, n) = f - 1
    BY <2>1, <2>2, AnswerIs
  <2>. QED  BY <2>1, <2>2, <2>3 DEF Outcome
<1>. QED  BY <1>1, <1>2

\* What a turn that sends does, before it is looked at in detail.
Sends(r, b, n) ==
  /\ Turn /\ base' = b /\ n = Total - b
  /\ r \in Calls(chain, glitches, b)
  /\ chain' = r.chain /\ glitches' = r.glitches
  /\ TakenDown(last, last', b, r.sent, r.rejected)
  /\ resolved' = resolved \cup ({b + k : k \in 1 .. r.sent} \ {b + k : k \in r.rejected})
  /\ Outcome(r, n)

LEMMA TurnSends ==
  ASSUME AuctionInv, TurnSingle \/ TurnBatch
  PROVE  \E b \in Nat, n \in Nat : \E r : Sends(r, b, n) /\ b + n = Total /\ n > 0 /\ b \in 0 .. (Total - 1)
<1>1. TypeOK /\ Turn
  BY DEF AuctionInv, TurnSingle, TurnBatch
<1>2. PICK b : b = base'
  OBVIOUS
<1>3. PICK n : n = Total - b
  OBVIOUS
<1>4. b \in 0 .. (Total - 1) /\ b \in Nat /\ n \in Nat /\ b + n = Total /\ n > 0
  BY <1>1, <1>2, <1>3, TurnTyped
<1>5. chain \in ChainSet /\ glitches \in 0 .. Glitches
  BY <1>1, Typed
<1>6. CASE TurnSingle
  <2>1. PICK r \in Calls(chain, glitches, base') :
          /\ Record(r)
          /\ stopPoint' = IF r.rejected = {} THEN 1 ELSE stopPoint
          /\ threw' = (threw \/ r.rejected # {})
    BY <1>6 DEF TurnSingle
  <2>2. n = 1
    BY <1>2, <1>3, <1>6 DEF TurnSingle
  <2>3. Going(r, n) \/ Stopped(r, n)
    BY <1>2, <1>4, <1>5, <2>1, CallGives
  <2>4. Outcome(r, n)
    BY <1>1, <1>4, <2>1, <2>2, <2>3, SingleOutcome
  <2>5. Sends(r, b, n)
    BY <1>1, <1>2, <1>3, <2>1, <2>4 DEF Sends, Record, TakenDown
  <2>. QED  BY <1>4, <2>5
<1>7. CASE TurnBatch
  <2>1. PICK r \in Calls(chain, glitches, base') : Record(r) /\ stopPoint' = Answer(r, Total - base')
    BY <1>7 DEF TurnBatch
  <2>2. threw' = threw /\ stopPoint' = Answer(r, n)
    BY <1>2, <1>3, <1>7, <2>1 DEF TurnBatch
  <2>3. Going(r, n) \/ Stopped(r, n)
    BY <1>2, <1>4, <1>5, <2>1, CallGives
  <2>4. Outcome(r, n)
    BY <1>4, <2>2, <2>3, BatchOutcome
  <2>5. Sends(r, b, n)
    BY <1>1, <1>2, <1>3, <2>1, <2>4 DEF Sends, Record, TakenDown
  <2>. QED  BY <1>4, <2>5
<1>. QED  BY <1>6, <1>7

\* The call a turn makes, and what is taken down of it.
LEMMA SendsGives ==
  ASSUME AuctionInv, NEW b \in Nat, NEW n \in Nat, NEW r, Sends(r, b, n), b + n = Total
  PROVE  /\ r \in After(chain, glitches, b)[n] /\ n \in 0 .. n
         /\ r \in RunSet /\ r.chain \in ChainSet /\ r.glitches \in 0 .. Glitches
         /\ r.sent \in 0 .. n /\ r.rejected \subseteq 1 .. r.sent
         /\ last' \in [Txs -> {"unsent", "resolved", "rejected"}]
         /\ {b + k : k \in 1 .. r.sent} \subseteq Txs
         /\ \A t \in 1 .. b : last'[t] = last[t]
         /\ \A j \in 1 .. r.sent : last'[b + j] = IF j \in r.rejected THEN "rejected" ELSE "resolved"
         /\ \A j \in (r.sent + 1) .. n : last'[b + j] = last[b + j]
<1>1. /\ chain \in ChainSet /\ glitches \in 0 .. Glitches
      /\ last \in [Txs -> {"unsent", "resolved", "rejected"}]
  BY Typed DEF AuctionInv
<1>2. r \in Calls(chain, glitches, b)
  BY DEF Sends
<1>3. /\ r \in After(chain, glitches, b)[n] /\ n \in 0 .. n
      /\ r \in RunSet /\ r.sent \in 0 .. n /\ r.rejected \subseteq 1 .. r.sent
  BY <1>1, <1>2, CallGives
<1>4. r.chain \in ChainSet /\ r.glitches \in 0 .. Glitches
  BY <1>3 DEF RunSet
<1>5. PICK new : new = last'
  OBVIOUS
<1>6. PICK sent, rejected : sent = r.sent /\ rejected = r.rejected
  OBVIOUS
<1>7. PICK old : old = last
  OBVIOUS
<1>8. Taken(old, new, b, n, sent, rejected)
  <2>1. Total = b + n /\ old \in [Txs -> {"unsent", "resolved", "rejected"}]
    BY <1>1, <1>7
  <2>2. sent \in 0 .. n /\ rejected \subseteq 1 .. sent
    BY <1>3, <1>6
  <2>3. TakenDown(old, new, b, sent, rejected)
    BY <1>5, <1>6, <1>7 DEF Sends
  <2>. QED  BY <2>1, <2>2, <2>3, Recorded
<1>9. Taken(last, last', b, n, r.sent, r.rejected)
  BY <1>5, <1>6, <1>7, <1>8
<1>. QED  BY <1>3, <1>4, <1>9 DEF Taken

\* One lemma per part of the invariant: types and what is on the chain, ...
LEMMA SendsKeepsChain ==
  ASSUME AuctionInv, NEW b \in Nat, NEW n \in Nat, NEW r, Sends(r, b, n), b + n = Total
  PROVE  /\ TypeOK'
         /\ Sound(chain')
         /\ \A t \in resolved' : Holds(chain', Instructions[t])
         /\ \A t \in Txs : last'[t] = "resolved" => t \in resolved'
<1>1. /\ r \in After(chain, glitches, b)[n] /\ n \in 0 .. n
      /\ r.chain \in ChainSet /\ r.glitches \in 0 .. Glitches
      /\ r.sent \in 0 .. n /\ r.rejected \subseteq 1 .. r.sent
      /\ last' \in [Txs -> {"unsent", "resolved", "rejected"}]
      /\ {b + k : k \in 1 .. r.sent} \subseteq Txs
      /\ \A t \in 1 .. b : last'[t] = last[t]
      /\ \A j \in 1 .. r.sent : last'[b + j] = IF j \in r.rejected THEN "rejected" ELSE "resolved"
      /\ \A j \in (r.sent + 1) .. n : last'[b + j] = last[b + j]
  BY SendsGives
<1>2. /\ Turn /\ base' = b /\ n = Total - b /\ Outcome(r, n)
      /\ chain' = r.chain /\ glitches' = r.glitches
      /\ resolved' = resolved \cup ({b + k : k \in 1 .. r.sent} \ {b + k : k \in r.rejected})
  BY DEF Sends
<1>3. /\ chain \in ChainSet /\ glitches \in 0 .. Glitches /\ Sound(chain) /\ TypeOK
      /\ resolved \subseteq Txs /\ threw \in BOOLEAN /\ stopPoint \in Nat /\ stopPoint <= Total /\ Total \in Nat
  BY Typed DEF AuctionInv
<1>4. /\ base' \in 0 .. (Total - 1) /\ lastLength' \in 0 .. Total /\ tries' \in 0 .. MaxTries
      /\ turns' \in Nat /\ pc' = "loop"
  BY <1>2, <1>3, TurnTyped
<1>5. /\ Sound(r.chain)
      /\ \A u : Holds(chain, u) => Holds(r.chain, u)
      /\ \A j \in 1 .. r.sent : j \notin r.rejected => Holds(r.chain, Instructions[b + j])
  <2>1. PICK c, g : c = chain /\ g = glitches
    OBVIOUS
  <2>2. c \in ChainSet /\ Sound(c) /\ g \in 0 .. Glitches /\ r \in After(c, g, b)[n] /\ Total = b + n
    BY <1>1, <1>3, <2>1
  <2>3. /\ Sound(r.chain)
        /\ \A u : Holds(c, u) => Holds(r.chain, u)
        /\ \A j \in 1 .. r.sent : j \notin r.rejected => Holds(r.chain, Instructions[b + j])
    BY <1>1, <2>2, CallHolds
  <2>. QED  BY <2>1, <2>3
<1>6. \A t \in resolved : Holds(chain, Instructions[t])
  BY DEF AuctionInv
<1>7. \A t \in resolved' : Holds(chain', Instructions[t])
  <2>. SUFFICES ASSUME NEW t \in resolved' PROVE Holds(chain', Instructions[t])
    OBVIOUS
  <2>1. CASE t \in resolved
    BY <1>2, <1>5, <1>6, <2>1
  <2>2. CASE t \notin resolved
    <3>1. PICK k \in 1 .. r.sent : t = b + k /\ k \notin r.rejected
      BY <1>2, <2>2
    <3>. QED  BY <1>2, <1>5, <3>1
  <2>. QED  BY <2>1, <2>2
<1>8. \A t \in Txs : last'[t] = "resolved" => t \in resolved'
  <2>. SUFFICES ASSUME NEW t \in Txs, last'[t] = "resolved" PROVE t \in resolved'
    OBVIOUS
  <2>1. t \in 1 .. (b + n)
    BY DEF Txs
  <2>2. CASE t \in 1 .. b
    <3>1. last[t] = "resolved"
      BY <1>1, <2>2
    <3>. QED  BY <1>2, <3>1 DEF AuctionInv
  <2>3. CASE t \notin 1 .. b
    <3>1. PICK j \in 1 .. n : t = b + j
      <4>1. t - b \in 1 .. n /\ t = b + (t - b)
        BY <2>1, <2>3
      <4>. QED  BY <4>1
    <3>2. CASE j \in 1 .. r.sent
      <4>1. j \notin r.rejected
        BY <1>1, <3>1, <3>2
      <4>2. t \notin {b + k : k \in r.rejected}
        BY <1>1, <3>1, <4>1
      <4>. QED  BY <1>2, <3>1, <3>2, <4>2
    <3>3. CASE j \in (r.sent + 1) .. n
      <4>1. last[t] = "resolved"
        BY <1>1, <3>1, <3>3
      <4>. QED  BY <1>2, <4>1 DEF AuctionInv
    <3>. QED  BY <1>1, <3>2, <3>3
  <2>. QED  BY <2>2, <2>3
<1>9. TypeOK'
  <2>1. resolved' \subseteq Txs
    BY <1>1, <1>2, <1>3
  <2>2. threw' \in BOOLEAN
    BY <1>2, <1>3 DEF Outcome, Sends
  <2>3. stopPoint' \in 0 .. Total
    BY <1>2, <1>3 DEF Outcome
  <2>4. Txs' = Txs /\ Total' = Total
    BY DEF Txs, Total
  <2>. QED  BY <1>1, <1>2, <1>4, <2>1, <2>2, <2>3, <2>4 DEF TypeOK, ChainSet
<1>. QED  BY <1>2, <1>5, <1>7, <1>8, <1>9

\* ... what the loop may move past, ...
LEMMA SendsKeepsLoop ==
  ASSUME AuctionInv, NEW b \in Nat, NEW n \in Nat, NEW r, Sends(r, b, n), b + n = Total
  PROVE  LoopInv'
<1>1. /\ n \in 0 .. n /\ r.sent \in 0 .. n /\ r.rejected \subseteq 1 .. r.sent
      /\ \A t \in 1 .. b : last'[t] = last[t]
      /\ \A j \in 1 .. r.sent : last'[b + j] = IF j \in r.rejected THEN "rejected" ELSE "resolved"
  BY SendsGives
<1>2. Turn /\ base' = b /\ n = Total - b /\ Outcome(r, n) /\ TypeOK
  BY DEF Sends, AuctionInv
<1>3. stopPoint < Total - base /\ base' = base + stopPoint /\ Total - base' > 0
  BY <1>2, TurnTyped DEF Turn
<1>4. Txs' = Txs /\ Total' = Total /\ Txs = 1 .. (b + n)
  BY DEF Txs, Total
<1>. SUFFICES ASSUME ~threw'
              PROVE  /\ stopPoint' < n => \A t \in 1 .. (b + stopPoint') : last'[t] = "resolved"
                     /\ stopPoint' >= n =>
                          /\ \A t \in Txs : last'[t] # "unsent"
                          /\ \A s, t \in Txs : last'[s] # "resolved" /\ last'[t] # "resolved" => s = t
  BY <1>2, <1>4 DEF LoopInv
<1>5. ~threw
  BY <1>2 DEF Outcome
<1>6. \A t \in 1 .. b : last'[t] = "resolved"
  <2>1. \A t \in 1 .. (base + stopPoint) : last[t] = "resolved"
    BY <1>3, <1>5 DEF AuctionInv, LoopInv
  <2>. QED  BY <1>1, <1>2, <1>3, <2>1
<1>7. CASE Going(r, n) /\ stopPoint' = n
  <2>1. \A t \in Txs : t \in 1 .. b \/ \E j \in 1 .. n : t = b + j
    <3>. SUFFICES ASSUME NEW t \in Txs, t \notin 1 .. b PROVE \E j \in 1 .. n : t = b + j
      OBVIOUS
    <3>1. t - b \in 1 .. n /\ t = b + (t - b)
      BY <1>4
    <3>. QED  BY <3>1
  <2>2. \A j \in 1 .. n : last'[b + j] = IF j \in r.rejected THEN "rejected" ELSE "resolved"
    BY <1>1, <1>7 DEF Going
  <2>3. \A t \in Txs : last'[t] # "unsent"
    BY <1>6, <2>1, <2>2
  <2>4. \A i, j \in r.rejected : i = j
    BY <1>7 DEF Going
  <2>5. \A t \in Txs : last'[t] # "resolved" => \E j \in r.rejected : t = b + j
    BY <1>6, <2>1, <2>2
  <2>6. \A s, t \in Txs : last'[s] # "resolved" /\ last'[t] # "resolved" => s = t
    BY <2>4, <2>5
  <2>. QED  BY <1>7, <2>3, <2>6
<1>8. CASE \E e \in 1 .. n : \E f \in 1 .. (e - 1) : r.sent = e /\ r.rejected = {f, e} /\ stopPoint' = f - 1
  <2>. PICK e \in 1 .. n : \E f \in 1 .. (e - 1) : r.sent = e /\ r.rejected = {f, e} /\ stopPoint' = f - 1
    BY <1>8
  <2>. PICK f \in 1 .. (e - 1) : r.sent = e /\ r.rejected = {f, e} /\ stopPoint' = f - 1
    OBVIOUS
  <2>1. ASSUME NEW t \in 1 .. (b + stopPoint') PROVE last'[t] = "resolved"
    <3>1. CASE t \in 1 .. b
      BY <1>6, <3>1
    <3>2. CASE t \notin 1 .. b
      <4>1. t - b \in 1 .. (f - 1) /\ t = b + (t - b)
        BY <3>2
      <4>2. t - b \in 1 .. r.sent /\ t - b \notin r.rejected
        BY <4>1
      <4>. QED  BY <1>1, <4>1, <4>2
    <3>. QED  BY <3>1, <3>2
  <2>. QED  BY <2>1
<1>. QED  BY <1>2, <1>7, <1>8 DEF Outcome

\* ... that nothing is rejected unless something was lost, ...
LEMMA SendsKeepsInOrder ==
  ASSUME AuctionInv, NEW b \in Nat, NEW n \in Nat, NEW r, Sends(r, b, n), b + n = Total
  PROVE  InOrder'
<1>1. /\ r \in After(chain, glitches, b)[n] /\ n \in 0 .. n
      /\ r.glitches \in 0 .. Glitches /\ r.sent \in 0 .. n /\ r.rejected \subseteq 1 .. r.sent
      /\ \A j \in 1 .. r.sent : last'[b + j] = IF j \in r.rejected THEN "rejected" ELSE "resolved"
  BY SendsGives
<1>2. Turn /\ base' = b /\ n = Total - b /\ Outcome(r, n) /\ TypeOK /\ glitches' = r.glitches
  BY DEF Sends, AuctionInv
<1>3. stopPoint < Total - base /\ base' = base + stopPoint
  BY <1>2 DEF Turn
<1>4. /\ chain \in ChainSet /\ glitches \in 0 .. Glitches /\ Glitches \in Nat
      /\ base \in Nat /\ stopPoint \in Nat
  BY <1>2, Typed
<1>5. Txs' = Txs /\ Total' = Total /\ Txs = 1 .. (b + n)
  BY DEF Txs, Total
<1>. SUFFICES ASSUME glitches' = Glitches PROVE stopPoint' = n /\ \A t \in Txs : last'[t] = "resolved"
  BY <1>2, <1>5 DEF InOrder
<1>6. glitches = Glitches
  <2>1. PICK c, g : c = chain /\ g = glitches
    OBVIOUS
  <2>2. c \in ChainSet /\ g \in 0 .. Glitches /\ r \in After(c, g, b)[n] /\ Total = b + n
    BY <1>1, <1>4, <2>1
  <2>3. r.glitches <= g
    BY <1>1, <2>2, CallLoses
  <2>. QED  BY <1>1, <1>2, <1>4, <2>1, <2>3
<1>7. base = 0 /\ stopPoint = 0 /\ chain = Fresh
  BY <1>3, <1>4, <1>6 DEF AuctionInv, InOrder
<1>8. b = 0 /\ Total = n
  BY <1>2, <1>3, <1>7
<1>9. r.rejected = {}
  <2>1. PICK g : g = glitches
    OBVIOUS
  <2>2. g \in 0 .. Glitches /\ r \in After(Fresh, g, 0)[n] /\ r.glitches = g
    BY <1>1, <1>2, <1>4, <1>6, <1>7, <1>8, <2>1
  <2>. QED  BY <1>1, <1>8, <2>2, CallInOrder
<1>10. Going(r, n) /\ stopPoint' = n
  BY <1>2, <1>9 DEF Outcome
<1>11. r.sent = n
  BY <1>10 DEF Going
<1>12. \A t \in Txs : t \in 1 .. r.sent /\ t = b + t
  BY <1>5, <1>8, <1>11
<1>. QED  BY <1>1, <1>9, <1>10, <1>12

\* ... and that a list that is not through was not shown.
LEMMA SendsKeepsRetried ==
  ASSUME AuctionInv, NEW b \in Nat, NEW n \in Nat, NEW r, Sends(r, b, n), b + n = Total
  PROVE  Retried'
<1>1. /\ r \in After(chain, glitches, b)[n] /\ n \in 0 .. n
      /\ r.glitches \in 0 .. Glitches /\ r.sent \in 0 .. n /\ r.rejected \subseteq 1 .. r.sent
  BY SendsGives
<1>2. /\ Turn /\ base' = b /\ n = Total - b /\ Outcome(r, n) /\ TypeOK
      /\ chain' = r.chain /\ glitches' = r.glitches
  BY DEF Sends, AuctionInv
<1>3. /\ stopPoint < Total - base /\ base' = base + stopPoint
      /\ tries' = IF Total - base' = lastLength THEN tries + 1 ELSE 0
  BY <1>2 DEF Turn
<1>4. /\ chain \in ChainSet /\ glitches \in 0 .. Glitches /\ Glitches \in Nat
      /\ base \in Nat /\ stopPoint \in Nat
  BY <1>2, Typed
<1>5. Total' = Total /\ Instructions' = Instructions
  BY DEF Total, Instructions
<1>. SUFFICES ASSUME Glitches <= 1, ~threw', stopPoint' < n
              PROVE  /\ r.chain.cached = {} /\ ~r.chain.indexed
                     /\ r.chain.auction = "started" =>
                          /\ tries' = 0 /\ r.glitches = 0 /\ Instructions[b + stopPoint' + 1].op = "cacheAuction"
  BY <1>2, <1>5 DEF Retried
<1>6. ~threw
  BY <1>2 DEF Outcome
<1>7. \E e \in 1 .. n : \E f \in 1 .. (e - 1) : r.sent = e /\ r.rejected = {f, e} /\ stopPoint' = f - 1
  BY <1>2 DEF Outcome
<1>8. PICK e \in 1 .. n : \E f \in 1 .. (e - 1) : r.sent = e /\ r.rejected = {f, e} /\ stopPoint' = f - 1
  BY <1>7
<1>9. PICK f \in 1 .. (e - 1) : r.sent = e /\ r.rejected = {f, e} /\ stopPoint' = f - 1
  BY <1>8
<1>10. Stopped(r, n)
  BY <1>9 DEF Stopped
<1>11. /\ chain.cached = {} /\ ~chain.indexed
       /\ chain.auction = "started" =>
            /\ tries = 0 /\ glitches = 0 /\ Instructions[base + stopPoint + 1].op = "cacheAuction"
  BY <1>3, <1>6 DEF AuctionInv, Retried
<1>12. PICK c, g : c = chain /\ g = glitches
  OBVIOUS
<1>13. /\ c \in ChainSet /\ Sound(c) /\ c.cached = {} /\ ~c.indexed
       /\ g \in 0 .. Glitches /\ r \in After(c, g, b)[n] /\ Total = b + n
  BY <1>1, <1>4, <1>11, <1>12 DEF AuctionInv
<1>14. CASE c.auction = "started"
  <2>1. g = 0 /\ Instructions[b + 1].op = "cacheAuction"
    BY <1>2, <1>3, <1>11, <1>12, <1>14
  <2>2. n > 0 /\ r \in After(c, 0, b)[n]
    BY <1>8, <1>13, <2>1
  <2>3. r.rejected = {}
    BY <1>1, <1>13, <1>14, <2>1, <2>2, ShownAtLast
  <2>. QED  BY <1>9, <2>3
<1>15. CASE c.auction # "started"
  <2>1. \A t \in 1 .. b : Holds(c, Instructions[t])
    <3>1. \A t \in 1 .. (base + stopPoint) : last[t] = "resolved"
      BY <1>3, <1>6 DEF AuctionInv, LoopInv
    <3>2. \A t \in 1 .. b : t \in Txs
      BY DEF Txs
    <3>3. \A t \in 1 .. b : t \in resolved
      BY <1>2, <1>3, <3>1, <3>2 DEF AuctionInv
    <3>. QED  BY <1>12, <3>3 DEF AuctionInv
  <2>2. g = 1 => glitches = Glitches
    BY <1>4, <1>12
  <2>3. g = 1 => base = 0 /\ stopPoint = 0 /\ chain = Fresh /\ turns = 0
    BY <1>3, <1>4, <1>6, <2>2 DEF AuctionInv, InOrder
  <2>4. g <= 1 /\ (g = 1 => c = Fresh /\ b = 0)
    BY <1>2, <1>3, <1>4, <1>12, <2>3
  <2>5. FailedWell(r, n, g, b)
    BY <1>1, <1>13, <1>15, <2>1, <2>4, CallFails
  <2>6. /\ r.chain.cached = {} /\ ~r.chain.indexed
        /\ r.chain.auction = "started" =>
             /\ g = 1 /\ r.glitches = 0
             /\ \A h \in r.rejected : h < r.sent => Instructions[b + h].op = "cacheAuction"
    BY <1>10, <2>5 DEF FailedWell
  <2>7. ASSUME r.chain.auction = "started"
        PROVE  tries' = 0 /\ r.glitches = 0 /\ Instructions[b + stopPoint' + 1].op = "cacheAuction"
    <3>1. f \in r.rejected /\ f < r.sent /\ b + stopPoint' + 1 = b + f
      BY <1>9
    <3>2. Instructions[b + stopPoint' + 1].op = "cacheAuction"
      BY <2>6, <2>7, <3>1
    <3>3. turns = 0
      BY <2>3, <2>6, <2>7
    <3>4. lastLength = 0
      BY <3>3 DEF AuctionInv, Begun
    <3>5. Total - base' # 0
      BY <1>2, <1>8
    <3>. QED  BY <1>3, <2>6, <2>7, <3>2, <3>4, <3>5
  <2>. QED  BY <2>6, <2>7
<1>. QED  BY <1>14, <1>15

LEMMA AuctionStep == AuctionInv /\ [Next]_vars => AuctionInv'
<1>. SUFFICES ASSUME AuctionInv, [Next]_vars PROVE AuctionInv'
  OBVIOUS
<1>1. CASE TurnThrows
  BY <1>1, TurnThrowsKeeps
<1>2. CASE ReturnOrFailToCreate
  BY <1>2, ReturnKeeps
<1>3. CASE TurnSingle \/ TurnBatch
  <2>1. PICK b \in Nat, n \in Nat : \E r : Sends(r, b, n) /\ b + n = Total
    BY <1>3, TurnSends
  <2>2. PICK r : Sends(r, b, n) /\ b + n = Total
    BY <2>1
  <2>3. /\ TypeOK' /\ Sound(chain')
        /\ \A t \in resolved' : Holds(chain', Instructions[t])
        /\ \A t \in Txs : last'[t] = "resolved" => t \in resolved'
    BY <2>2, SendsKeepsChain
  <2>4. LoopInv' /\ InOrder' /\ Retried'
    BY <2>2, SendsKeepsLoop, SendsKeepsInOrder, SendsKeepsRetried
  <2>5. pc' = "loop" /\ turns' # 0
    BY <2>2, TurnTyped DEF Sends, AuctionInv
  <2>6. Ended' /\ Begun'
    BY <2>5 DEF Ended, Begun
  <2>7. Txs' = Txs /\ Instructions' = Instructions
    BY DEF Txs, Instructions
  <2>8. Sound(chain)' /\ (\A t \in resolved : Holds(chain, Instructions[t]))'
    BY <2>3, <2>7 DEF Sound, Holds
  <2>9. (\A t \in Txs : last[t] = "resolved" => t \in resolved)'
    BY <2>3, <2>7
  <2>. QED  BY <2>3, <2>4, <2>6, <2>8, <2>9 DEF AuctionInv
<1>4. CASE UNCHANGED vars
  <2>1. /\ pc' = pc /\ chain' = chain /\ glitches' = glitches /\ last' = last /\ resolved' = resolved
        /\ threw' = threw /\ base' = base /\ stopPoint' = stopPoint /\ tries' = tries
        /\ lastLength' = lastLength /\ turns' = turns
    BY <1>4 DEF vars, loopVars
  <2>2. TypeOK'
    BY <2>1 DEF AuctionInv, TypeOK
  <2>3. Sound(chain)' /\ (\A t \in resolved : Holds(chain, Instructions[t]))'
        /\ (\A t \in Txs : last[t] = "resolved" => t \in resolved)'
    BY <2>1 DEF AuctionInv, Sound, Holds
  <2>4. LoopInv' /\ InOrder' /\ Begun' /\ Retried' /\ Ended'
    BY <2>1 DEF AuctionInv, LoopInv, InOrder, Begun, Retried, Ended
  <2>. QED  BY <2>2, <2>3, <2>4 DEF AuctionInv
<1>. QED  BY <1>1, <1>2, <1>3, <1>4 DEF Next

\* The inductive invariant: what each answer says is on the chain, where the
\* loop goes on, and what one lost transaction can come to.
THEOREM AuctionInvariant == Spec => []AuctionInv
<1>1. Init => AuctionInv
  BY AuctionInit
<1>2. AuctionInv /\ [Next]_vars => AuctionInv'
  BY AuctionStep
<1>. QED  BY <1>1, <1>2, PTL DEF Spec

-----------------------------------------------------------------------------
(* The properties.                                                          *)

LEMMA InvImpliesAccepted == AuctionInv => AcceptedInOrder
<1>. SUFFICES ASSUME AuctionInv PROVE AcceptedInOrder
  OBVIOUS
<1>1. glitches = Glitches => \A t \in Txs : last[t] = "unsent" \/ last[t] = "resolved"
  BY DEF AuctionInv, InOrder
<1>. QED  BY <1>1 DEF AuctionInv, AcceptedInOrder

\* Once the loop has returned, one transaction at most is missing.
LEMMA OneMissing ==
  ASSUME AuctionInv, pc = "returned", ~threw
  PROVE  \E x : \A t \in Txs : /\ t # x => last[t] = "resolved" /\ Holds(chain, Instructions[t])
                               /\ last[t] # "resolved" => last[t] = "rejected"
<1>1. stopPoint >= Total - base
  BY DEF AuctionInv, Ended
<1>2. /\ \A t \in Txs : last[t] # "unsent"
      /\ \A s, t \in Txs : last[s] # "resolved" /\ last[t] # "resolved" => s = t
  BY <1>1 DEF AuctionInv, LoopInv
<1>3. last \in [Txs -> {"unsent", "resolved", "rejected"}]
  BY Typed DEF AuctionInv
<1>4. \A t \in Txs : last[t] = "resolved" => Holds(chain, Instructions[t])
  BY DEF AuctionInv
<1>5. \A t \in Txs : last[t] # "resolved" => last[t] = "rejected"
  BY <1>2, <1>3
<1>6. CASE \A t \in Txs : last[t] = "resolved"
  BY <1>4, <1>6
<1>7. CASE \E x \in Txs : last[x] # "resolved"
  <2>1. PICK x \in Txs : last[x] # "resolved"
    BY <1>7
  <2>2. \A t \in Txs : t # x => last[t] = "resolved"
    BY <1>2, <2>1
  <2>. QED  BY <1>4, <1>5, <2>2
<1>. QED  BY <1>6, <1>7

LEMMA InvImpliesPlaced == AuctionInv => CreatedMeansPlaced
<1>. SUFFICES ASSUME AuctionInv, pc = "returned", ~threw
              PROVE  /\ Cardinality({t \in Txs : last[t] # "resolved"}) <= 1
                     /\ chain.inVault = Prizes /\ chain.validated = Prizes
                     /\ chain.manager /\ chain.authority = "manager"
                     /\ chain.vault = "combined" \/ Rejected = {"closeVault"}
                     /\ chain.auction = "started" \/ Rejected = {"startAuction"}
  BY DEF CreatedMeansPlaced
<1>1. PICK x : \A t \in Txs : /\ t # x => last[t] = "resolved" /\ Holds(chain, Instructions[t])
                              /\ last[t] # "resolved" => last[t] = "rejected"
  BY OneMissing
<1>2. chain \in ChainSet /\ Sound(chain)
  BY Typed DEF AuctionInv
<1>3. /\ \E t \in Txs : Instructions[t].op = "initAuctionManager"
      /\ \E t \in Txs : Instructions[t].op = "setAuthorities"
      /\ \E t \in Txs : Instructions[t].op = "startAuction"
      /\ \E t \in Txs : Instructions[t].op = "closeVault"
  BY Layout DEF Single
<1>4. PICK i \in Txs : Instructions[i].op = "initAuctionManager"
  BY <1>3
<1>5. PICK a \in Txs : Instructions[a].op = "setAuthorities"
  BY <1>3
<1>6. PICK s \in Txs : Instructions[s].op = "startAuction"
  BY <1>3
<1>7. PICK v \in Txs : Instructions[v].op = "closeVault"
  BY <1>3
<1>8. s # x => chain.auction = "started"
  BY <1>1, <1>6 DEF Holds
<1>9. chain.auction = "started" => chain.manager /\ chain.authority = "manager" /\ chain.validated = Prizes
  BY <1>2 DEF Sound
<1>10. Cardinality({t \in Txs : last[t] # "resolved"}) <= 1
  <2>. DEFINE U == {t \in Txs : last[t] # "resolved"}
  <2>1. U = {} \/ U = {x}
    BY <1>1
  <2>2. Cardinality({}) = 0 /\ Cardinality({x}) = 1
    BY FS_EmptySet, FS_Singleton
  <2>. HIDE DEF U
  <2>3. Cardinality(U) = 0 \/ Cardinality(U) = 1
    BY <2>1, <2>2, Zenon
  <2>4. Cardinality(U) <= 1
    BY <2>3
  <2>. QED  BY <2>4 DEF U
<1>11. chain.manager
  <2>1. i # s
    BY <1>4, <1>6
  <2>2. i # x => chain.manager
    BY <1>1, <1>4 DEF Holds
  <2>. QED  BY <1>8, <1>9, <2>1, <2>2
<1>12. chain.authority = "manager"
  <2>1. a # s
    BY <1>5, <1>6
  <2>2. a # x => chain.authority = "manager"
    BY <1>1, <1>5 DEF Holds
  <2>. QED  BY <1>8, <1>9, <2>1, <2>2
<1>13. ASSUME NEW p \in Prizes PROVE p \in chain.validated
  <2>1. PICK t \in Txs : Instructions[t].op = "validateBox" /\ p \in Instructions[t].items
    BY Layout
  <2>2. t # s
    BY <1>6, <2>1
  <2>3. t # x => Instructions[t].items \subseteq chain.validated
    BY <1>1, <2>1 DEF Holds
  <2>. QED  BY <1>8, <1>9, <2>1, <2>2, <2>3
<1>14. chain.validated = Prizes /\ chain.inVault = Prizes
  <2>1. chain.validated \subseteq Prizes /\ chain.inVault \subseteq Prizes
    BY <1>2 DEF ChainSet
  <2>2. chain.validated \subseteq chain.inVault
    BY <1>2 DEF Sound
  <2>. QED  BY <1>13, <2>1, <2>2
<1>15. ASSUME NEW z \in Txs, z = x, last[z] # "resolved" PROVE Rejected = {Instructions[z].op}
  <2>1. {u \in Txs : last[u] = "rejected"} = {z}
    BY <1>1, <1>15
  <2>. QED  BY <2>1 DEF Rejected
<1>16. \A t \in Txs : last[t] = "resolved" => Holds(chain, Instructions[t])
  BY DEF AuctionInv
<1>17. chain.vault = "combined" \/ Rejected = {"closeVault"}
  <2>1. CASE last[v] = "resolved"
    BY <1>7, <1>16, <2>1 DEF Holds
  <2>2. CASE last[v] # "resolved"
    BY <1>1, <1>7, <1>15, <2>2
  <2>. QED  BY <2>1, <2>2
<1>18. chain.auction = "started" \/ Rejected = {"startAuction"}
  <2>1. CASE last[s] = "resolved"
    BY <1>6, <1>16, <2>1 DEF Holds
  <2>2. CASE last[s] # "resolved"
    BY <1>1, <1>6, <1>15, <2>2
  <2>. QED  BY <2>1, <2>2
<1>. QED  BY <1>10, <1>11, <1>12, <1>14, <1>17, <1>18

LEMMA InvImpliesNotRunning == AuctionInv => FailedMeansNotRunning
<1>. SUFFICES ASSUME AuctionInv, pc = "thrown", ~threw, Glitches <= 1, chain.auction = "started" PROVE FALSE
  BY DEF FailedMeansNotRunning
<1>1. stopPoint < Total - base /\ tries = MaxTries
  BY DEF AuctionInv, Ended
<1>2. tries = 0
  BY <1>1 DEF AuctionInv, Retried
<1>. QED  BY <1>1, <1>2 DEF MaxTries

\* The list is in an order the chain accepts: as long as nothing is lost, no
\* transaction of it is rejected, for any number of prizes, batches and pages.
THEOREM ListAccepted == Spec => []AcceptedInOrder
<1>1. AuctionInv => AcceptedInOrder
  BY InvImpliesAccepted
<1>. QED  BY <1>1, AuctionInvariant, PTL

\* What the seller is told of the auction is true, whatever was lost.
THEOREM SellerIsTold == Spec => []OutcomeTold
<1>1. AuctionInv => OutcomeTold
  BY InvImpliesPlaced, InvImpliesNotRunning DEF OutcomeTold
<1>. QED  BY <1>1, AuctionInvariant, PTL

-----------------------------------------------------------------------------
(* The loop as the loop of ManualRetry.                                     *)

LEMMA RetryStarts == Init => Retry!RetryInit
BY DEF Init, Retry!RetryInit, Retry!Entries, Txs

\* The outcomes of a call are those of StopOnFailure.
LEMMA CallsStopOnFailure ==
  ASSUME NEW n \in Nat, NEW r, Going(r, n) \/ Stopped(r, n)
  PROVE  Retry!Outcome(r.sent, r.rejected, Answer(r, n)) \in Retry!StopOnFailureOutcomes(n)
<1>. DEFINE o == Retry!Outcome(r.sent, r.rejected, Answer(r, n))
<1>1. CASE Going(r, n)
  <2>1. Answer(r, n) = n /\ r.sent = n
    BY <1>1, AnswerIs DEF Going
  <2>2. CASE r.rejected = {}
    <3>1. o = Retry!Outcome(n, {}, n)
      BY <2>1, <2>2
    <3>. QED  BY <3>1 DEF Retry!StopOnFailureOutcomes
  <2>3. CASE \E f \in 1 .. n : r.rejected = {f}
    <3>1. PICK f \in 1 .. n : r.rejected = {f}
      BY <2>3
    <3>2. o = Retry!Outcome(n, {f}, n)
      BY <2>1, <3>1
    <3>. QED  BY <3>2 DEF Retry!StopOnFailureOutcomes
  <2>. QED  BY <1>1, <2>2, <2>3 DEF Going
<1>2. CASE Stopped(r, n)
  <2>1. PICK e \in 1 .. n : r.sent = e /\ \E f \in 1 .. (e - 1) : r.rejected = {f, e}
    BY <1>2 DEF Stopped
  <2>2. PICK f \in 1 .. (e - 1) : r.rejected = {f, e}
    BY <2>1
  <2>3. Answer(r, n) = f - 1
    BY <2>1, <2>2, AnswerIs
  <2>4. o = Retry!Outcome(e, {f, e}, f - 1)
    BY <2>1, <2>2, <2>3
  <2>5. <<f, e>> \in {p \in (1 .. n) \X (1 .. n) : p[1] < p[2]}
    OBVIOUS
  <2>6. Retry!Outcome(<<f, e>>[2], {<<f, e>>[1], <<f, e>>[2]}, <<f, e>>[1] - 1) = o
    BY <2>4
  <2>7. o \in {Retry!Outcome(fs[2], {fs[1], fs[2]}, fs[1] - 1) :
                 fs \in {p \in (1 .. n) \X (1 .. n) : p[1] < p[2]}}
    BY <2>5, <2>6
  <2>. QED  BY <2>7 DEF Retry!StopOnFailureOutcomes
<1>. QED  BY <1>1, <1>2

\* What the loop takes down of a call is what ManualRetry does.
LEMMA TakenDownIsSent ==
  ASSUME NEW b \in Nat, NEW n \in Nat, Total = b + n, NEW r, r.sent \in 0 .. n,
         TakenDown(last, last', b, r.sent, r.rejected),
         resolved' = resolved \cup ({b + k : k \in 1 .. r.sent} \ {b + k : k \in r.rejected})
  PROVE  Retry!Send(b, r.sent, r.rejected)
<1>. DEFINE out == {b + k : k \in 1 .. r.sent}
            bad == {b + k : k \in r.rejected}
<1>1. out = (b + 1) .. (b + r.sent)
  <2>1. ASSUME NEW t \in (b + 1) .. (b + r.sent) PROVE t \in out
    <3>1. t - b \in 1 .. r.sent /\ t = b + (t - b)
      OBVIOUS
    <3>. QED  BY <3>1
  <2>2. ASSUME NEW t \in out PROVE t \in (b + 1) .. (b + r.sent)
    OBVIOUS
  <2>. QED  BY <2>1, <2>2
<1>2. Retry!Entries = Txs /\ out \subseteq Txs
  BY <1>1 DEF Retry!Entries, Txs
<1>3. last' = [t \in Txs |-> IF t \notin out THEN last[t] ELSE IF t \in bad THEN "rejected" ELSE "resolved"]
  BY DEF TakenDown
<1>4. resolved' = resolved \cup (out \ bad)
  OBVIOUS
<1>5. bad = {b + k : k \in r.rejected}
  OBVIOUS
<1>. HIDE DEF out, bad
<1>6. last' = [t \in Retry!Entries |->
                IF t \notin (b + 1) .. (b + r.sent) THEN last[t]
                ELSE IF t \in bad THEN "rejected" ELSE "resolved"]
  BY <1>1, <1>2, <1>3
<1>7. resolved' = resolved \cup {t \in Retry!Entries : t \in ((b + 1) .. (b + r.sent)) \ bad}
  BY <1>1, <1>2, <1>4
<1>. QED  BY <1>5, <1>6, <1>7 DEF Retry!Send

LEMMA RetrySteps == AuctionInv /\ [Next]_vars => [Retry!RetryNext]_(Retry!retryVars)
<1>. SUFFICES ASSUME AuctionInv, [Next]_vars PROVE [Retry!RetryNext]_(Retry!retryVars)
  OBVIOUS
<1>1. ASSUME Turn PROVE Retry!Turn
  BY <1>1 DEF Turn, Retry!Turn, Retry!MaxTries, MaxTries
<1>2. CASE TurnThrows
  <2>1. Retry!TurnThrows
    BY <1>1, <1>2 DEF TurnThrows, Retry!TurnThrows
  <2>. QED  BY <2>1 DEF Retry!RetryNext
<1>3. CASE TurnSingle \/ TurnBatch
  <2>0. TypeOK /\ Turn /\ chain \in ChainSet /\ glitches \in 0 .. Glitches
    BY <1>3, Typed DEF AuctionInv, TurnSingle, TurnBatch
  <2>1. PICK b, n : b = base' /\ n = Total - b
    OBVIOUS
  <2>2. b \in Nat /\ n \in Nat /\ Total = b + n /\ n > 0 /\ Retry!Turn
    BY <1>1, <2>0, <2>1, TurnTyped
  <2>3. ASSUME NEW r \in Calls(chain, glitches, base')
        PROVE  /\ Going(r, n) \/ Stopped(r, n)
               /\ r.sent \in 0 .. n
               /\ Record(r) => Retry!Send(b, r.sent, r.rejected)
    <3>1. PICK c, g : c = chain /\ g = glitches
      OBVIOUS
    <3>2. r \in Calls(c, g, b) /\ c \in ChainSet /\ g \in 0 .. Glitches
      BY <2>0, <2>1, <2>3, <3>1
    <3>3. (Going(r, n) \/ Stopped(r, n)) /\ r.sent \in 0 .. n
      BY <2>2, <3>2, CallGives
    <3>4. ASSUME Record(r) PROVE Retry!Send(b, r.sent, r.rejected)
      <4>1. /\ TakenDown(last, last', b, r.sent, r.rejected)
            /\ resolved' = resolved \cup ({b + k : k \in 1 .. r.sent} \ {b + k : k \in r.rejected})
        BY <2>1, <3>4 DEF Record, TakenDown
      <4>. QED  BY <2>2, <3>3, <4>1, TakenDownIsSent
    <3>. QED  BY <3>3, <3>4
  <2>4. CASE TurnSingle
    <3>1. PICK r \in Calls(chain, glitches, base') :
            /\ Record(r)
            /\ stopPoint' = IF r.rejected = {} THEN 1 ELSE stopPoint
            /\ threw' = (threw \/ r.rejected # {})
      BY <2>4 DEF TurnSingle
    <3>2. n = 1
      BY <2>1, <2>4 DEF TurnSingle
    <3>3. Retry!Send(b, r.sent, r.rejected) /\ (Going(r, n) \/ Stopped(r, n))
      BY <2>3, <3>1
    <3>4. r.sent = 1 /\ (r.rejected = {} \/ r.rejected = {1})
      BY <3>2, <3>3 DEF Going, Stopped
    <3>5. threw \in BOOLEAN
      BY <2>0, Typed
    <3>6. Retry!TurnSingle
      <4>1. CASE r.rejected = {}
        <5>1. Retry!Send(base', 1, {}) /\ stopPoint' = 1 /\ threw' = threw
          BY <2>1, <3>1, <3>3, <3>4, <3>5, <4>1
        <5>. QED  BY <2>1, <2>2, <3>2, <5>1 DEF Retry!TurnSingle
      <4>2. CASE r.rejected = {1}
        <5>1. Retry!Send(base', 1, {1}) /\ stopPoint' = stopPoint /\ threw' = TRUE
          BY <2>1, <3>1, <3>3, <3>4, <3>5, <4>2
        <5>. QED  BY <2>1, <2>2, <3>2, <5>1 DEF Retry!TurnSingle
      <4>. QED  BY <3>4, <4>1, <4>2
    <3>. QED  BY <3>6 DEF Retry!RetryNext
  <2>5. CASE TurnBatch
    <3>1. PICK r \in Calls(chain, glitches, base') : Record(r) /\ stopPoint' = Answer(r, Total - base')
      BY <2>5 DEF TurnBatch
    <3>2. Total - base' > 1 /\ threw' = threw
      BY <2>5 DEF TurnBatch
    <3>3. Retry!Send(b, r.sent, r.rejected) /\ (Going(r, n) \/ Stopped(r, n))
      BY <2>3, <3>1
    <3>4. PICK o : o = Retry!Outcome(r.sent, r.rejected, Answer(r, n))
      OBVIOUS
    <3>5. o \in Retry!StopOnFailureOutcomes(n)
      BY <2>2, <3>3, <3>4, CallsStopOnFailure
    <3>6. o.sent = r.sent /\ o.rejected = r.rejected /\ o.answer = Answer(r, n)
      BY <3>4 DEF Retry!Outcome
    <3>7. /\ o \in Retry!StopOnFailureOutcomes(Total - base')
          /\ Retry!Send(base', o.sent, o.rejected) /\ stopPoint' = o.answer
      BY <2>1, <3>1, <3>3, <3>5, <3>6
    <3>8. Retry!TurnBatch
      BY <2>2, <3>2, <3>7 DEF Retry!TurnBatch
    <3>. QED  BY <3>8 DEF Retry!RetryNext
  <2>. QED  BY <1>3, <2>4, <2>5
<1>4. CASE ReturnOrFailToCreate
  <2>1. Retry!ReturnOrFailToCreate
    BY <1>4 DEF ReturnOrFailToCreate, Retry!ReturnOrFailToCreate, Retry!Exit, Retry!MaxTries, MaxTries, loopVars
  <2>. QED  BY <2>1 DEF Retry!RetryNext
<1>5. CASE UNCHANGED vars
  BY <1>5 DEF vars, loopVars, Retry!retryVars
<1>. QED  BY <1>2, <1>3, <1>4, <1>5 DEF Next

\* The loop of createAuctionManager, with the transactions it really sends, is
\* the retry loop of ManualRetry for a list of that length.
THEOREM AuctionImplementsRetry == Spec => ImplementsRetry
<1>1. Init => Retry!RetryInit
  BY RetryStarts
<1>2. AuctionInv /\ [Next]_vars => [Retry!RetryNext]_(Retry!retryVars)
  BY RetrySteps
<1>. QED  BY <1>1, <1>2, AuctionInvariant, PTL DEF Spec, ImplementsRetry, Retry!RetrySpec
=============================================================================
