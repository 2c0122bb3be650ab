--------------------------- MODULE Redemption_proofs ---------------------------
(***************************************************************************)
(* What is proved of the redemption, for every outcome of the auction, any *)
(* number of places and prizes and every number of faults: PrizesByPlace,  *)
(* and UndisturbedAccepted.                                                *)
(*                                                                         *)
(* A list of transactions is lawful when whatever it asks for is what the  *)
(* auction gives: the lists of bidders and of the seller are, be the page  *)
(* they are built from up to date or not, and so is what a retry leaves of *)
(* them.  What an edition is numbered from is the supply before the        *)
(* auction: until there is a ticket nothing is printed, and the ticket     *)
(* holds that supply.                                                      *)
(*                                                                         *)
(* For UndisturbedAccepted the lists are looked at a second time: a page   *)
(* asks for nothing the chain it was built from has already given, and no  *)
(* transaction of a list stands in the way of a later one (Coherent).      *)
(* While nothing disturbs the page, what is left of its list fits the      *)
(* chain (Fits), or the list is one the property leaves out (Escapes):     *)
(* every answer, and every step of another page, keeps it so (AcceptInv).  *)
(***************************************************************************)
EXTENDS Redemption, WellFoundedInduction, FiniteSetTheorems, SequenceTheorems, TLAPS

-----------------------------------------------------------------------------
(* The inductive invariant.                                                 *)

Ops == {"end", "print", "box", "claim", "cancel", "mint", "part", "sale", "take"}
Numbers == Nat \cup {NoTicket}
Transactions == [op : Ops, of : Pages, place : Nat, number : Int]

\* Who may get the box of a place.
BoxOf(i) == IF i \in Won THEN auction.bids[i] ELSE Seller

\* A transaction that asks for what the auction gives, whoever sends it.
Lawful(t) ==
  /\ t.op = "print" => t.place \in Won /\ t.of = auction.bids[t.place]
  /\ t.op = "box" => t.place \in Boxes /\ t.of = BoxOf(t.place)
  /\ t.op = "claim" => t.of \in Winners
  /\ t.op = "cancel" => t.of \notin Winners
LawfulTxs == {t \in Transactions : Lawful(t)}

Lists == Seq(LawfulTxs)
Runs == [list : Lists, at : Nat, failed : Seq(Nat), stop : Nat, tries : Nat, last : Nat,
         minted : SUBSET Pages, retry : BOOLEAN]

\* Where a run stands: within its list, with one rejection at most behind it.
Stands(r) ==
  /\ r.at \in 0 .. Len(r.list) /\ Len(r.failed) <= 1
  /\ \A i \in DOMAIN r.failed : r.failed[i] \in 1 .. Len(r.list)

Editions == [of : Pages, place : Nat, number : Int]
RedeemTyped ==
  /\ auction \in Outcomes /\ over \in BOOLEAN
  /\ printed \subseteq Editions /\ IsFiniteSet(printed)
  /\ part \subseteq [of : Pages, number : Int] /\ IsFiniteSet(part)
  /\ ticket \in {NoTicket, Supply} /\ out \subseteq {"part", "master"}
  /\ box \in [Places -> {"vault", "none"} \cup Pages]
  /\ pot \in [Bidders -> {"none", "full", "claimed", "refunded"}]
  /\ run \in [Pages -> Runs]
  /\ \A p \in Pages : Stands(run[p]) /\ (run[p].retry => p # Seller)

\* Before there is a ticket nothing has been printed.
TicketFirst == ticket = NoTicket => printed = {}

RedeemInv ==
  /\ RedeemTyped /\ TicketFirst
  /\ EditionsByPlace /\ BoxesByPlace /\ PotsByPlace

-----------------------------------------------------------------------------
(* Sequences.                                                               *)

\* A set of natural numbers that is not empty has a least element.
LEMMA LeastElement ==
  ASSUME NEW T, T \subseteq Nat, T # {}
  PROVE  \E x \in T : \A y \in T : x <= y
<1> DEFINE R == {ss \in Nat \X Nat : ss[1] < ss[2]}
<1>1. IsWellFoundedOn(R, Nat)
  BY NatLessThanWellFounded DEF OpToRel
<1>2. PICK x \in T : \A y \in T : ~(<<y, x>> \in R)
  <2> HIDE DEF R
  <2> QED BY <1>1, WFMin
<1>3. \A y \in T : ~(y < x)
  BY <1>2
<1> QED BY <1>3

\* A set that holds one and the successor of whatever it holds, up to n, has all up to n.
LEMMA UpTo ==
  ASSUME NEW n \in Nat, NEW S, 1 \in S, \A i \in 1 .. (n - 1) : i \in S => i + 1 \in S
  PROVE  1 .. n \subseteq S
<1>. SUFFICES ASSUME (1 .. n) \ S # {} PROVE FALSE
  OBVIOUS
<1>1. PICK x \in (1 .. n) \ S : \A y \in (1 .. n) \ S : x <= y
  <2>1. (1 .. n) \ S \subseteq Nat
    OBVIOUS
  <2>. QED  BY <2>1, LeastElement
<1>2. x # 1 /\ x - 1 \in 1 .. (n - 1) /\ x - 1 \notin (1 .. n) \ S
  BY <1>1
<1>. QED  BY <1>1, <1>2

\* How FlattenSeq goes through a list of lists.
FlatStep(seqs, before, i) == IF i = 1 THEN seqs[i] ELSE before \o seqs[i]
Flats(seqs) == CHOOSE f : f = [i \in 1 .. Len(seqs) |-> FlatStep(seqs, f[i - 1], i)]

\* The operator of the library is the function defined here.
LEMMA FlattenIsFlats ==
  ASSUME NEW seqs
  PROVE  FlattenSeq(seqs) = IF Len(seqs) = 0 THEN seqs ELSE Flats(seqs)[Len(seqs)]
BY DEF FlattenSeq, Flats, FlatStep

\* It comes to an end.
LEMMA FlatsDefined ==
  ASSUME NEW seqs, NEW n \in Nat \ {0}, Len(seqs) = n
  PROVE  \A i \in 1 .. n : Flats(seqs)[i] = FlatStep(seqs, Flats(seqs)[i - 1], i)
<1>. DEFINE IsFlat(f, m) == f = [i \in 1 .. m |-> FlatStep(seqs, f[i - 1], i)]
            S == {m \in 1 .. n : \E f : IsFlat(f, m)}
<1>1. 1 \in S
  <2>. DEFINE f == [i \in 1 .. 1 |-> seqs[1]]
  <2>1. f = [i \in 1 .. 1 |-> FlatStep(seqs, f[i - 1], i)]
    BY DEF FlatStep
  <2>2. IsFlat(f, 1)
    BY <2>1
  <2>. HIDE DEF f, IsFlat
  <2>. QED  BY <2>2
<1>2. ASSUME NEW m \in 1 .. (n - 1), m \in S PROVE m + 1 \in S
  <2>. PICK f : IsFlat(f, m)
    BY <1>2
  <2>. DEFINE g == [i \in 1 .. (m + 1) |-> IF i = m + 1 THEN FlatStep(seqs, f[m], i) ELSE f[i]]
  <2>1. ASSUME NEW i \in 1 .. (m + 1) PROVE g[i] = FlatStep(seqs, g[i - 1], i)
    <3>1. CASE i = m + 1
      BY <3>1
    <3>2. CASE i # m + 1 /\ i # 1
      <4>1. g[i] = f[i] /\ g[i - 1] = f[i - 1]
        BY <3>2
      <4>2. f[i] = FlatStep(seqs, f[i - 1], i)
        BY <3>2
      <4>. HIDE DEF g, IsFlat
      <4>. QED  BY <4>1, <4>2
    <3>3. CASE i = 1 /\ i # m + 1
      <4>1. g[i] = f[i]
        BY <3>3
      <4>2. f[i] = FlatStep(seqs, f[i - 1], i)
        BY <3>3
      <4>. HIDE DEF g, IsFlat
      <4>. QED  BY <3>3, <4>1, <4>2 DEF FlatStep
    <3>. QED  BY <3>1, <3>2, <3>3
  <2>2. IsFlat(g, m + 1)
    BY <2>1
  <2>3. m + 1 \in 1 .. n
    OBVIOUS
  <2>. HIDE DEF g, IsFlat
  <2>. QED  BY <2>2, <2>3
<1>3. 1 .. n \subseteq S
  <2>. HIDE DEF S
  <2>. QED  BY <1>1, <1>2, UpTo
<1>4. \E f : IsFlat(f, n)
  BY <1>3
<1>5. IsFlat(Flats(seqs), n)
  BY <1>4 DEF Flats
<1>. QED  BY <1>5

-----------------------------------------------------------------------------
(* Lists in which nothing stands in the way of what follows.                *)

\* What may follow a transaction: nothing that it makes impossible.
Follows(t, u) ==
  /\ t.op = u.op => \/ u.op = "print" /\ t.number # u.number
                    \/ u.op = "box" /\ t.place # u.place
                    \/ u.op = "take" /\ u.number # 1
  /\ t.op = "take" => t.number = 1 /\ u.op \notin {"mint", "part", "sale"}
  /\ t.op \in {"claim", "cancel"} => u.op \notin {"claim", "cancel"}

\* A participation print is minted before it is redeemed, and redeemed before
\* it is marked as sold.
Coherent(list) ==
  /\ \A i, j \in DOMAIN list : i < j => Follows(list[i], list[j])
  /\ \A j \in DOMAIN list : list[j].op = "part" =>
       \E i \in 1 .. (j - 1) : list[i].op = "mint" /\ list[i].of = list[j].of
  /\ \A j \in DOMAIN list : list[j].op = "sale" =>
       \E i \in 1 .. (j - 1) : list[i].op = "part" /\ list[i].of = list[j].of

\* Two lists, one behind the other.
IsJoined(u, s, t) ==
  /\ Len(u) = Len(s) + Len(t) /\ Len(s) \in Nat /\ Len(t) \in Nat
  /\ DOMAIN s = 1 .. Len(s) /\ DOMAIN t = 1 .. Len(t) /\ DOMAIN u = 1 .. (Len(s) + Len(t))
  /\ \A i \in DOMAIN s : i \in DOMAIN u /\ u[i] = s[i]
  /\ \A j \in DOMAIN t : Len(s) + j \in DOMAIN u /\ u[Len(s) + j] = t[j]
  /\ \A k \in DOMAIN u : \/ k \in DOMAIN s /\ u[k] = s[k]
                         \/ k - Len(s) \in DOMAIN t /\ u[k] = t[k - Len(s)]

\* Two sequences, one behind the other.
LEMMA Joined ==
  ASSUME NEW T, NEW s \in Seq(T), NEW t \in Seq(T)
  PROVE  s \o t \in Seq(T) /\ IsJoined(s \o t, s, t)
<1>1. /\ s \o t \in Seq(T) /\ Len(s \o t) = Len(s) + Len(t)
      /\ \A i \in 1 .. Len(s) + Len(t) : (s \o t)[i] = IF i <= Len(s) THEN s[i] ELSE t[i - Len(s)]
  BY ConcatProperties
<1>. DEFINE u == s \o t
<1>2. u \in Seq(T) /\ Len(u) = Len(s) + Len(t)
      /\ \A i \in 1 .. Len(s) + Len(t) : u[i] = IF i <= Len(s) THEN s[i] ELSE t[i - Len(s)]
  BY <1>1
<1>. HIDE DEF u
<1>3. DOMAIN s = 1 .. Len(s) /\ DOMAIN t = 1 .. Len(t) /\ DOMAIN u = 1 .. (Len(s) + Len(t))
      /\ Len(s) \in Nat /\ Len(t) \in Nat
  BY <1>2
<1>4. \A i \in DOMAIN s : i \in DOMAIN u /\ u[i] = s[i]
  BY <1>2, <1>3
<1>5. \A j \in DOMAIN t : Len(s) + j \in DOMAIN u /\ u[Len(s) + j] = t[j]
  BY <1>2, <1>3
<1>6. \A k \in DOMAIN u : \/ k \in DOMAIN s /\ u[k] = s[k]
                          \/ k - Len(s) \in DOMAIN t /\ u[k] = t[k - Len(s)]
  BY <1>2, <1>3
<1>7. IsJoined(u, s, t)
  BY <1>2, <1>3, <1>4, <1>5, <1>6 DEF IsJoined
<1>. QED  BY <1>2, <1>7 DEF u

\* Two such lists make one if what is in the second may follow what is in the first.
LEMMA JoinedCoherent ==
  ASSUME NEW T, NEW s \in Seq(T), NEW t \in Seq(T), Coherent(s), Coherent(t),
         \A i \in DOMAIN s, j \in DOMAIN t : Follows(s[i], t[j])
  PROVE  s \o t \in Seq(T) /\ Coherent(s \o t)
<1>1. PICK u : u = s \o t
  OBVIOUS
<1>2. u \in Seq(T) /\ IsJoined(u, s, t)
  BY <1>1, Joined
<1>. DEFINE n == Len(s)
<1>3. /\ u \in Seq(T) /\ n \in Nat /\ DOMAIN s = 1 .. n /\ DOMAIN t = 1 .. Len(t) /\ Len(t) \in Nat /\ DOMAIN u = 1 .. (n + Len(t))
      /\ \A i \in DOMAIN s : i \in DOMAIN u /\ u[i] = s[i]
      /\ \A j \in DOMAIN t : n + j \in DOMAIN u /\ u[n + j] = t[j]
      /\ \A k \in DOMAIN u : \/ k \in DOMAIN s /\ u[k] = s[k]
                             \/ k - n \in DOMAIN t /\ u[k] = t[k - n]
  BY <1>2 DEF IsJoined
<1>. HIDE DEF n
<1>4. ASSUME NEW i \in DOMAIN u, NEW j \in DOMAIN u, i < j PROVE Follows(u[i], u[j])
  <2>1. CASE j \in DOMAIN s
    BY <1>3, <1>4, <2>1 DEF Coherent
  <2>2. CASE i \in DOMAIN s /\ j \notin DOMAIN s
    BY <1>3, <2>2
  <2>3. CASE i \notin DOMAIN s
    <3>1. i - n \in DOMAIN t /\ j - n \in DOMAIN t /\ i - n < j - n /\ u[i] = t[i - n] /\ u[j] = t[j - n]
      BY <1>3, <1>4, <2>3
    <3>. QED  BY <3>1 DEF Coherent
  <2>. QED  BY <2>1, <2>2, <2>3
<1>. DEFINE Led(list, o, q) == \A k \in DOMAIN list : list[k].op = o =>
                                \E i \in 1 .. (k - 1) : list[i].op = q /\ list[i].of = list[k].of
<1>5. ASSUME NEW o, NEW q, Led(s, o, q), Led(t, o, q) PROVE Led(u, o, q)
  <2>. SUFFICES ASSUME NEW j \in DOMAIN u, u[j].op = o
                PROVE  \E i \in 1 .. (j - 1) : u[i].op = q /\ u[i].of = u[j].of
    OBVIOUS
  <2>1. CASE j \in DOMAIN s
    <3>1. u[j] = s[j]
      BY <1>3, <2>1
    <3>2. PICK i \in 1 .. (j - 1) : s[i].op = q /\ s[i].of = s[j].of
      BY <1>5, <2>1, <3>1
    <3>3. i \in DOMAIN s
      BY <1>3, <2>1
    <3>4. u[i] = s[i]
      BY <1>3, <3>3
    <3>. QED  BY <3>1, <3>2, <3>4
  <2>2. CASE j \notin DOMAIN s
    <3>1. j - n \in DOMAIN t /\ u[j] = t[j - n]
      BY <1>3, <2>2
    <3>2. PICK i \in 1 .. (j - n - 1) : t[i].op = q /\ t[i].of = t[j - n].of
      BY <1>5, <3>1
    <3>3. i \in DOMAIN t /\ n + i \in 1 .. (j - 1)
      BY <1>3, <3>1
    <3>4. u[n + i] = t[i]
      BY <1>3, <3>3
    <3>. QED  BY <3>1, <3>2, <3>3, <3>4
  <2>. QED  BY <2>1, <2>2
<1>6. Led(s, "part", "mint") /\ Led(t, "part", "mint") /\ Led(s, "sale", "part") /\ Led(t, "sale", "part")
  BY DEF Coherent
<1>7. Led(u, "part", "mint") /\ Led(u, "sale", "part")
  <2>. HIDE DEF Led
  <2>. QED  BY <1>5, <1>6
<1>8. \A i, j \in DOMAIN u : i < j => Follows(u[i], u[j])
  BY <1>4
<1>9. Coherent(u)
  <2>. HIDE DEF Follows
  <2>. QED  BY <1>7, <1>8 DEF Coherent
<1>. QED  BY <1>1, <1>3, <1>9

\* Lists of one transaction, or none.
LEMMA ShortCoherent ==
  /\ Coherent(<< >>)
  /\ \A t : t.op \notin {"part", "sale"} => Coherent(<<t>>)
BY DEF Coherent

\* Whatever a list holds is in one of the first m of the lists, and the other
\* way round.
From(list, seqs, m) ==
  \A i \in DOMAIN list : \E k \in 1 .. m : \E h \in DOMAIN seqs[k] : list[i] = seqs[k][h]
Has(list, seqs, m) ==
  \A k \in 1 .. m : \A h \in DOMAIN seqs[k] : \E i \in DOMAIN list : list[i] = seqs[k][h]

\* The first m sequences, flattened, hold all of their elements and no other.
LEMMA FlatMade ==
  ASSUME NEW T, NEW n \in Nat \ {0}, NEW seqs \in [1 .. n -> Seq(T)]
  PROVE  \A m \in 1 .. n : /\ Flats(seqs)[m] \in Seq(T)
                           /\ From(Flats(seqs)[m], seqs, m) /\ Has(Flats(seqs)[m], seqs, m)
<1>0. Len(seqs) = n /\ seqs \in Seq(Seq(T))
  BY IsASeq
<1>. DEFINE F == Flats(seqs)
            S == {m \in 1 .. n : F[m] \in Seq(T) /\ From(F[m], seqs, m) /\ Has(F[m], seqs, m)}
<1>1. \A i \in 1 .. n : F[i] = FlatStep(seqs, F[i - 1], i)
  BY <1>0, FlatsDefined
<1>. HIDE DEF F
<1>2. 1 \in S
  <2>1. F[1] = seqs[1] /\ 1 \in 1 .. n
    BY <1>1 DEF FlatStep
  <2>2. seqs[1] \in Seq(T) /\ From(seqs[1], seqs, 1) /\ Has(seqs[1], seqs, 1)
    BY <2>1 DEF From, Has
  <2>. QED  BY <2>1, <2>2
<1>3. ASSUME NEW m \in 1 .. (n - 1), m \in S PROVE m + 1 \in S
  <2>1. F[m + 1] = FlatStep(seqs, F[m + 1 - 1], m + 1) /\ m + 1 - 1 = m /\ m + 1 # 1 /\ m + 1 \in 1 .. n
    BY <1>1
  <2>2. F[m + 1] = F[m] \o seqs[m + 1]
    BY <2>1 DEF FlatStep
  <2>3. PICK s \in Seq(T) : s = F[m]
    BY <1>3
  <2>4. PICK t \in Seq(T) : t = seqs[m + 1]
    BY <2>1
  <2>5. PICK u : u = s \o t
    OBVIOUS
  <2>6. u = F[m + 1]
    BY <2>2, <2>3, <2>4, <2>5
  <2>7. u \in Seq(T) /\ IsJoined(u, s, t)
    BY <2>5, Joined
  <2>. DEFINE l == Len(s)
  <2>8. /\ u \in Seq(T)
        /\ \A i \in DOMAIN s : i \in DOMAIN u /\ u[i] = s[i]
        /\ \A j \in DOMAIN t : l + j \in DOMAIN u /\ u[l + j] = t[j]
        /\ \A k \in DOMAIN u : \/ k \in DOMAIN s /\ u[k] = s[k]
                               \/ k - l \in DOMAIN t /\ u[k] = t[k - l]
    BY <2>7 DEF IsJoined
  <2>. HIDE DEF l
  <2>9. From(s, seqs, m) /\ Has(s, seqs, m)
    BY <1>3, <2>3
  <2>10. From(u, seqs, m + 1)
    <3>. SUFFICES ASSUME NEW i \in DOMAIN u
                  PROVE  \E k \in 1 .. (m + 1) : \E h \in DOMAIN seqs[k] : u[i] = seqs[k][h]
      BY DEF From
    <3>1. CASE i \in DOMAIN s /\ u[i] = s[i]
      <4>1. PICK k \in 1 .. m : \E h \in DOMAIN seqs[k] : s[i] = seqs[k][h]
        BY <2>9, <3>1 DEF From
      <4>2. k \in 1 .. (m + 1)
        OBVIOUS
      <4>. QED  BY <3>1, <4>1, <4>2
    <3>2. CASE i - l \in DOMAIN t /\ u[i] = t[i - l]
      <4>1. m + 1 \in 1 .. (m + 1)
        OBVIOUS
      <4>. QED  BY <2>4, <3>2, <4>1
    <3>. QED  BY <2>8, <3>1, <3>2
  <2>11. Has(u, seqs, m + 1)
    <3>. SUFFICES ASSUME NEW k \in 1 .. (m + 1), NEW h \in DOMAIN seqs[k]
                  PROVE  \E i \in DOMAIN u : u[i] = seqs[k][h]
      BY DEF Has
    <3>1. CASE k = m + 1
      BY <2>4, <2>8, <3>1
    <3>2. CASE k # m + 1
      <4>1. k \in 1 .. m
        BY <3>2
      <4>2. PICK i \in DOMAIN s : s[i] = seqs[k][h]
        BY <2>9, <4>1 DEF Has
      <4>. QED  BY <2>8, <4>2
    <3>. QED  BY <3>1, <3>2
  <2>. QED  BY <2>1, <2>6, <2>8, <2>10, <2>11
<1>4. 1 .. n \subseteq S
  <2>. HIDE DEF S
  <2>. QED  BY <1>2, <1>3, UpTo
<1>. QED  BY <1>4 DEF F

\* So it is for the list that FlattenSeq makes of all of them.
LEMMA FlatIs ==
  ASSUME NEW T, NEW n \in Nat, NEW seqs \in [1 .. n -> Seq(T)]
  PROVE  /\ FlattenSeq(seqs) \in Seq(T)
         /\ From(FlattenSeq(seqs), seqs, n) /\ Has(FlattenSeq(seqs), seqs, n)
<1>0. Len(seqs) = n /\ seqs \in Seq(Seq(T))
  BY IsASeq
<1>1. CASE n = 0
  <2>1. FlattenSeq(seqs) = seqs /\ seqs = << >>
    BY <1>0, <1>1, FlattenIsFlats
  <2>2. << >> \in Seq(T) /\ From(<< >>, seqs, n) /\ Has(<< >>, seqs, n)
    BY <1>1 DEF From, Has
  <2>. QED  BY <2>1, <2>2
<1>2. CASE n # 0
  <2>1. FlattenSeq(seqs) = Flats(seqs)[n] /\ n \in 1 .. n
    BY <1>0, <1>2, FlattenIsFlats
  <2>. QED  BY <1>2, <2>1, FlatMade
<1>. QED  BY <1>1, <1>2

\* Lists of which each may follow those before make one.
LEMMA FlatCoherent ==
  ASSUME NEW T, NEW n \in Nat, NEW seqs \in [1 .. n -> Seq(T)], \A k \in 1 .. n : Coherent(seqs[k]),
         \A k, l \in 1 .. n : k < l => \A i \in DOMAIN seqs[k], j \in DOMAIN seqs[l] : Follows(seqs[k][i], seqs[l][j])
  PROVE  Coherent(FlattenSeq(seqs))
<1>0. Len(seqs) = n /\ seqs \in Seq(Seq(T))
  BY IsASeq
<1>1. CASE n = 0
  <2>1. FlattenSeq(seqs) = seqs /\ seqs = << >>
    BY <1>0, <1>1, FlattenIsFlats
  <2>. QED  BY <2>1, ShortCoherent
<1>2. CASE n # 0
  <2>. DEFINE F == Flats(seqs)
              S == {m \in 1 .. n : Coherent(F[m])}
  <2>1. \A i \in 1 .. n : F[i] = FlatStep(seqs, F[i - 1], i)
    BY <1>0, <1>2, FlatsDefined
  <2>2. \A m \in 1 .. n : F[m] \in Seq(T) /\ From(F[m], seqs, m)
    BY <1>2, FlatMade
  <2>. HIDE DEF F
  <2>3. 1 \in S
    <3>1. F[1] = seqs[1] /\ 1 \in 1 .. n
      BY <1>2, <2>1 DEF FlatStep
    <3>. QED  BY <3>1
  <2>4. ASSUME NEW m \in 1 .. (n - 1), m \in S PROVE m + 1 \in S
    <3>1. F[m + 1] = FlatStep(seqs, F[m + 1 - 1], m + 1) /\ m + 1 - 1 = m /\ m + 1 # 1 /\ m + 1 \in 1 .. n /\ m \in 1 .. n
      BY <2>1
    <3>2. F[m + 1] = F[m] \o seqs[m + 1]
      BY <3>1 DEF FlatStep
    <3>3. PICK s \in Seq(T) : s = F[m]
      BY <2>2, <3>1
    <3>4. PICK t \in Seq(T) : t = seqs[m + 1]
      BY <3>1
    <3>5. Coherent(s) /\ Coherent(t) /\ From(s, seqs, m)
      BY <2>2, <2>4, <3>1, <3>3, <3>4
    <3>6. ASSUME NEW i \in DOMAIN s, NEW j \in DOMAIN t PROVE Follows(s[i], t[j])
      <4>1. PICK k \in 1 .. m : \E h \in DOMAIN seqs[k] : s[i] = seqs[k][h]
        BY <3>5 DEF From
      <4>2. k \in 1 .. n /\ k < m + 1
        OBVIOUS
      <4>. QED  BY <3>1, <3>4, <4>1, <4>2
    <3>7. Coherent(s \o t)
      BY <3>5, <3>6, JoinedCoherent
    <3>. QED  BY <3>1, <3>2, <3>3, <3>4, <3>7
  <2>5. 1 .. n \subseteq S
    <3>. HIDE DEF S
    <3>. QED  BY <1>2, <2>3, <2>4, UpTo
  <2>6. Coherent(F[n])
    BY <1>2, <2>5
  <2>. QED  BY <1>0, <1>2, <2>6, FlattenIsFlats DEF F
<1>. QED  BY <1>1, <1>2

-----------------------------------------------------------------------------
(* Places and offsets.                                                      *)

\* The assumption, one constant at a time.
LEMMA Constants ==
  /\ NumPlaces \in Nat /\ Places = 1 .. NumPlaces /\ Places \subseteq Nat
  /\ Prints \in [Places -> Nat] /\ Boxes \subseteq Places
  /\ Supply \in Nat /\ Seller \notin Bidders /\ Seller \in Pages /\ Bidders \subseteq Pages
  /\ NoTicket \notin Nat /\ NoTicket \in Int
BY RedemptionAssumption DEF Places, Pages, NoTicket

\* The bids of an outcome are a list of different bidders.
LEMMA BidsAre ==
  ASSUME auction \in Outcomes
  PROVE  /\ auction.bids \in Seq(Bidders) /\ Len(auction.bids) \in Nat
         /\ DOMAIN auction.bids = 1 .. Len(auction.bids)
         /\ ToSet(auction.bids) \subseteq Bidders
         /\ \A i, j \in DOMAIN auction.bids : auction.bids[i] = auction.bids[j] => i = j
         /\ \A i \in DOMAIN auction.bids : auction.bids[i] \in ToSet(auction.bids) /\ auction.bids[i] \in Bidders
<1>1. auction.bids \in Seq(ToSet(auction.bids)) /\ IsInjective(auction.bids)
  BY RedemptionAssumption
<1>2. ToSet(auction.bids) \subseteq Bidders
  BY DEF Bidders
<1>3. auction.bids \in Seq(Bidders)
  BY <1>1, <1>2, SeqMonotonic
<1>4. \A i \in DOMAIN auction.bids : auction.bids[i] \in ToSet(auction.bids)
  BY DEF ToSet
<1>5. Len(auction.bids) \in Nat /\ DOMAIN auction.bids = 1 .. Len(auction.bids)
  BY <1>3
<1>6. \A i, j \in DOMAIN auction.bids : auction.bids[i] = auction.bids[j] => i = j
  BY <1>1 DEF IsInjective
<1>. QED  BY <1>2, <1>3, <1>4, <1>5, <1>6

\* The places that were won are the first ones.
LEMMA WonAre ==
  ASSUME auction \in Outcomes
  PROVE  /\ Won \subseteq Places /\ Won \subseteq DOMAIN auction.bids
         /\ \E k \in Nat : Won = 1 .. k /\ Cardinality(Won) = k /\ k <= NumPlaces
         /\ \A i \in Places : i <= Len(auction.bids) <=> i \in Won
         /\ \A i \in Won : auction.bids[i] \in Winners
         /\ Winners \subseteq ToSet(auction.bids)
         /\ \A b \in Winners : PlaceOf(b) \in Won /\ auction.bids[PlaceOf(b)] = b
<1>. DEFINE k == IF Len(auction.bids) <= NumPlaces THEN Len(auction.bids) ELSE NumPlaces
<1>1. k \in Nat /\ k <= NumPlaces /\ Won = 1 .. k
  BY BidsAre, Constants DEF Won
<1>2. Cardinality(1 .. k) = k
  BY <1>1, FS_Interval
<1>3. \A i \in Places : i <= Len(auction.bids) <=> i \in Won
  BY BidsAre, Constants DEF Won
<1>4. \A i \in Won : auction.bids[i] \in Winners
  BY DEF Winners
<1>5. Winners \subseteq ToSet(auction.bids)
  BY BidsAre DEF Winners, Won
<1>6. ASSUME NEW b \in Winners PROVE PlaceOf(b) \in Won /\ auction.bids[PlaceOf(b)] = b
  BY <1>6 DEF Winners, PlaceOf
<1>7. Won \subseteq Places /\ Won \subseteq DOMAIN auction.bids
  BY DEF Won
<1>8. Cardinality(Won) = k
  BY <1>1, <1>2
<1>. HIDE DEF k
<1>. QED  BY <1>1, <1>3, <1>4, <1>5, <1>6, <1>7, <1>8

\* The sums of the editions of the places before.
SumStep(before, i) == IF i = 0 THEN 1 ELSE before + Prints[i]
Sums == CHOOSE f : f = [i \in 0 .. NumPlaces |-> SumStep(f[i - 1], i)]

\* The operator of the model is the function defined here.
LEMMA OffsetIsSum == ASSUME NEW place PROVE Offset(place) = Sums[place - 1]
BY DEF Offset, Sums, SumStep

\* The sums exist for every place.
LEMMA SumsDefined == \A i \in 0 .. NumPlaces : Sums[i] = SumStep(Sums[i - 1], i)
<1>. DEFINE IsSum(f, m) == f = [i \in 0 .. m |-> SumStep(f[i - 1], i)]
            S == {m \in 1 .. (NumPlaces + 1) : \E f : IsSum(f, m - 1)}
<1>1. 1 \in S
  <2>. DEFINE f == [i \in 0 .. 0 |-> 1]
  <2>1. f = [i \in 0 .. 0 |-> SumStep(f[i - 1], i)]
    BY DEF SumStep
  <2>2. IsSum(f, 0)
    BY <2>1
  <2>3. 1 - 1 = 0 /\ 1 \in 1 .. (NumPlaces + 1)
    BY Constants
  <2>. HIDE DEF f, IsSum
  <2>. QED  BY <2>2, <2>3
<1>2. ASSUME NEW m \in 1 .. NumPlaces, m \in S PROVE m + 1 \in S
  <2>. PICK f : IsSum(f, m - 1)
    BY <1>2
  <2>. DEFINE g == [i \in 0 .. m |-> IF i = m THEN SumStep(f[m - 1], i) ELSE f[i]]
  <2>1. ASSUME NEW i \in 0 .. m PROVE g[i] = SumStep(g[i - 1], i)
    <3>0. m \in Nat /\ m # 0 /\ m - 1 \in 0 .. m
      BY Constants
    <3>1. CASE i = m
      BY <3>0, <3>1
    <3>2. CASE i # m /\ i # 0
      <4>1. g[i] = f[i] /\ g[i - 1] = f[i - 1]
        BY <3>0, <3>2
      <4>2. f[i] = SumStep(f[i - 1], i)
        BY <3>0, <3>2
      <4>. HIDE DEF g, IsSum
      <4>. QED  BY <4>1, <4>2
    <3>3. CASE i = 0
      <4>1. g[i] = f[i]
        BY <3>0, <3>3
      <4>2. f[i] = SumStep(f[i - 1], i)
        BY <3>0, <3>3
      <4>. HIDE DEF g, IsSum
      <4>. QED  BY <3>3, <4>1, <4>2 DEF SumStep
    <3>. QED  BY <3>1, <3>2, <3>3
  <2>2. IsSum(g, m)
    BY <2>1
  <2>3. m + 1 \in 1 .. (NumPlaces + 1) /\ m + 1 - 1 = m
    BY Constants
  <2>. HIDE DEF g, IsSum
  <2>. QED  BY <2>2, <2>3
<1>3. \E f : IsSum(f, NumPlaces)
  <2>1. PICK n \in Nat : n = NumPlaces + 1
    BY Constants
  <2>2. n - 1 = NumPlaces /\ n \in 1 .. n
    BY <2>1, Constants
  <2>3. \A m \in 1 .. (n - 1) : m \in S => m + 1 \in S
    BY <1>2, <2>2
  <2>4. n \in S
    <3>. HIDE DEF S
    <3>1. 1 .. n \subseteq S
      BY <1>1, <2>3, UpTo
    <3>. QED  BY <2>2, <3>1
  <2>5. \E f : IsSum(f, n - 1)
    BY <2>4
  <2>. HIDE DEF IsSum
  <2>. QED  BY <2>2, <2>5
<1>4. IsSum(Sums, NumPlaces)
  BY <1>3 DEF Sums
<1>. QED  BY <1>4

\* The numbers of a place begin where those of the place before end.
LEMMA OffsetsAre ==
  /\ \A i \in Places : Offset(i) \in Nat
  /\ \A i \in Places : i + 1 \in Places => Offset(i + 1) = Offset(i) + Prints[i]
<1>1. Sums[0] = 1
  <2>1. 0 \in 0 .. NumPlaces
    BY Constants
  <2>2. Sums[0] = SumStep(Sums[0 - 1], 0)
    BY <2>1, SumsDefined
  <2>. QED  BY <2>2 DEF SumStep
<1>2. ASSUME NEW i \in Places PROVE Sums[i] = Sums[i - 1] + Prints[i]
  <2>1. i \in 0 .. NumPlaces /\ i # 0
    BY Constants
  <2>2. Sums[i] = SumStep(Sums[i - 1], i)
    BY <2>1, SumsDefined
  <2>. QED  BY <2>1, <2>2 DEF SumStep
<1>3. \A i \in Places : Sums[i - 1] \in Nat
  <2>. DEFINE S == {i \in Places : Sums[i - 1] \in Nat}
  <2>1. CASE Places = {}
    BY <2>1
  <2>2. CASE Places # {}
    <3>1. 1 \in S
      BY <1>1, <2>2, Constants
    <3>2. ASSUME NEW i \in 1 .. (NumPlaces - 1), i \in S PROVE i + 1 \in S
      <4>1. i \in Places /\ i + 1 \in Places /\ i + 1 - 1 = i /\ Prints[i] \in Nat
        BY Constants
      <4>. QED  BY <1>2, <3>2, <4>1
    <3>3. 1 .. NumPlaces \subseteq S
      <4>1. NumPlaces \in Nat
        BY Constants
      <4>. HIDE DEF S
      <4>. QED  BY <3>1, <3>2, <4>1, UpTo
    <3>. QED  BY <3>3, Constants
  <2>. QED  BY <2>1, <2>2
<1>4. ASSUME NEW i \in Places, i + 1 \in Places PROVE Offset(i + 1) = Offset(i) + Prints[i]
  <2>1. PICK j \in Places : j = i + 1
    BY <1>4
  <2>2. j - 1 = i
    BY <2>1, Constants
  <2>3. Offset(j) = Sums[j - 1] /\ Offset(i) = Sums[i - 1]
    BY OffsetIsSum
  <2>4. Offset(j) = Offset(i) + Prints[i]
    BY <1>2, <2>2, <2>3
  <2>. QED  BY <2>1, <2>4
<1>. QED  BY <1>3, <1>4, OffsetIsSum

\* Later places begin behind all numbers of an earlier one.
LEMMA OffsetsApart ==
  ASSUME NEW i \in Places, NEW j \in Places, i < j
  PROVE  Offset(j) >= Offset(i) + Prints[i]
<1>. DEFINE S == {m \in 1 .. NumPlaces : i < m => Offset(m) >= Offset(i) + Prints[i]}
<1>1. NumPlaces \in Nat /\ Places = 1 .. NumPlaces /\ Prints[i] \in Nat /\ Offset(i) \in Nat
  BY Constants, OffsetsAre
<1>2. 1 \in S
  BY <1>1
<1>3. ASSUME NEW m \in 1 .. (NumPlaces - 1), m \in S PROVE m + 1 \in S
  <2>1. m \in Places /\ m + 1 \in Places
    BY <1>1
  <2>2. Offset(m + 1) = Offset(m) + Prints[m] /\ Offset(m) \in Nat /\ Prints[m] \in Nat
    BY <2>1, Constants, OffsetsAre
  <2>3. CASE i < m
    <3>1. Offset(m) >= Offset(i) + Prints[i]
      BY <1>3, <2>3
    <3>. QED  BY <1>1, <2>1, <2>2, <3>1
  <2>4. CASE ~(i < m)
    <3>1. i < m + 1 => m = i
      BY <1>1, <2>1, <2>4
    <3>. QED  BY <1>1, <2>1, <2>2, <3>1
  <2>. QED  BY <2>3, <2>4
<1>4. 1 .. NumPlaces \subseteq S
  <2>. HIDE DEF S
  <2>. QED  BY <1>1, <1>2, <1>3, UpTo
<1>. QED  BY <1>1, <1>4

-----------------------------------------------------------------------------
(* The lists.                                                               *)

\* A transaction as Tx makes it.
LEMMA TxIs ==
  ASSUME NEW o \in Ops, NEW of \in Pages, NEW place \in Nat, NEW number \in Int
  PROVE  /\ Tx(o, of, place, number) \in Transactions
         /\ Tx(o, of, place, number).op = o /\ Tx(o, of, place, number).of = of
         /\ Tx(o, of, place, number).place = place /\ Tx(o, of, place, number).number = number
BY DEF Tx, Transactions

\* What a page knows has numbers in it.
Views == [over : BOOLEAN, ticket : Int, supply : Int, given : SUBSET Places, part : SUBSET Pages,
          partSupply : Int, refunded : SUBSET Bidders]

\* The transactions that concern no place.
LEMMA PlainLawful ==
  ASSUME NEW o \in {"mint", "part", "sale", "take"}, NEW b \in Pages, NEW n \in Int
  PROVE  Tx(o, b, 0, n) \in LawfulTxs
<1>1. Tx(o, b, 0, n) \in Transactions /\ Tx(o, b, 0, n).op = o
  BY TxIs DEF Ops
<1>. QED  BY <1>1 DEF LawfulTxs, Lawful

-----------------------------------------------------------------------------
(* What the lists ask for.                                                  *)

\* A transaction that a page showing v may put on its list.
Asked(v) ==
  {t \in LawfulTxs :
     /\ t.op = "print" => /\ t.number \notin Taken
                          /\ \E k \in 1 .. Prints[t.place] : t.number = Desired(v, t.place, k - 1)
     /\ t.op = "end" => ~v.over
     /\ t.op = "box" => t.place \notin v.given
     /\ t.op = "cancel" => t.of \in Bidders
     /\ t.op = "part" => t.of \in Eligible \ v.part /\ t.number = v.partSupply + 1
     /\ t.op = "take" => t.number \in {1, 2} /\ (IF t.number = 1 THEN "part" ELSE "master") \notin out}

\* Those of certain kinds, and those behind the end of the auction.
AskedOf(v, ops) == {t \in Asked(v) : t.op \in ops}
AskedThen(v) == {t \in Asked(v) : t.op # "end"}

\* A list with one transaction, or with none.
LEMMA UnlessOne ==
  ASSUME NEW skip, NEW t
  PROVE  /\ \A i \in DOMAIN Unless(skip, <<t>>) : ~skip /\ i = 1 /\ Unless(skip, <<t>>)[i] = t
         /\ ~skip => 1 \in DOMAIN Unless(skip, <<t>>) /\ Unless(skip, <<t>>)[1] = t
         /\ t.op \notin {"part", "sale"} => Coherent(Unless(skip, <<t>>))
         /\ \A T : skip \/ t \in T => Unless(skip, <<t>>) \in Seq(T)
<1>1. CASE skip
  BY <1>1, ShortCoherent DEF Unless
<1>2. CASE ~skip
  BY <1>2, ShortCoherent DEF Unless
<1>. QED  BY <1>1, <1>2

\* A list, or none.
LEMMA UnlessList ==
  ASSUME NEW skip, NEW list
  PROVE  /\ \A T : skip \/ list \in Seq(T) => Unless(skip, list) \in Seq(T)
         /\ Coherent(list) => Coherent(Unless(skip, list))
         /\ ~skip => Unless(skip, list) = list
<1>1. CASE skip
  BY <1>1, ShortCoherent DEF Unless
<1>2. CASE ~skip
  BY <1>2 DEF Unless
<1>. QED  BY <1>1, <1>2

\* The editions of a place.
EditionTx(v, place, k) == Tx("print", auction.bids[place], place, Desired(v, place, k - 1))
EditionLists(v, place) ==
  [k \in 1 .. Prints[place] |-> Unless(Desired(v, place, k - 1) \in Taken, <<EditionTx(v, place, k)>>)]

\* They are what PrintEditions flattens.
LEMMA EditionsAreLists ==
  ASSUME NEW v, NEW place
  PROVE  PrintEditions(v, place) = FlattenSeq(EditionLists(v, place))
BY DEF PrintEditions, EditionLists, EditionTx

\* The editions of a place that was won go to its winner, each with a number of
\* its own.
LEMMA EditionTxAsked ==
  ASSUME auction \in Outcomes, NEW v \in Views, NEW place \in Won, NEW k \in 1 .. Prints[place],
         Desired(v, place, k - 1) \notin Taken
  PROVE  /\ EditionTx(v, place, k) \in AskedOf(v, {"print"})
         /\ EditionTx(v, place, k).place = place /\ EditionTx(v, place, k).number = Desired(v, place, k - 1)
<1>1. place \in Places /\ place \in Nat /\ Prints[place] \in Nat /\ Offset(place) \in Nat
  BY WonAre, Constants, OffsetsAre
<1>2. auction.bids[place] \in Pages
  BY WonAre, BidsAre, Constants
<1>3. PICK t : t = EditionTx(v, place, k)
  OBVIOUS
<1>4. PICK n : n = Desired(v, place, k - 1)
  OBVIOUS
<1>5. n \in Int
  BY <1>1, <1>4, Constants DEF Desired, Views
<1>6. "print" \in Ops
  BY DEF Ops
<1>7. t = Tx("print", auction.bids[place], place, n)
  BY <1>3, <1>4 DEF EditionTx
<1>8. t \in Transactions /\ t.op = "print" /\ t.of = auction.bids[place] /\ t.place = place /\ t.number = n
  BY <1>1, <1>2, <1>5, <1>6, <1>7, TxIs
<1>9. t \in LawfulTxs
  BY <1>8 DEF LawfulTxs, Lawful
<1>10. \E j \in 1 .. Prints[t.place] : t.number = Desired(v, t.place, j - 1)
  BY <1>4, <1>8
<1>11. t \in AskedOf(v, {"print"})
  BY <1>4, <1>8, <1>9, <1>10 DEF Asked, AskedOf
<1>. QED  BY <1>3, <1>4, <1>8, <1>11

\* The numbers a page works out are numbers, and differ from each other.
LEMMA DesiredTyped ==
  ASSUME auction \in Outcomes, NEW v \in Views, NEW i \in Won, NEW k \in 1 .. Prints[i]
  PROVE  Desired(v, i, k - 1) \in Int
<1>1. i \in Places /\ Prints[i] \in Nat /\ Offset(i) \in Nat
  BY WonAre, Constants, OffsetsAre
<1>2. PICK b \in Int : \A p, m : Desired(v, p, m) = b + Offset(p) + m
  BY DEF Desired, Views
<1>. QED  BY <1>1, <1>2

\* No two editions, of one place or of two, want the same number.
LEMMA DesiredApart ==
  ASSUME auction \in Outcomes, NEW v \in Views, NEW i \in Won, NEW j \in Won,
         NEW k \in 1 .. Prints[i], NEW l \in 1 .. Prints[j], i < j \/ (i = j /\ k < l)
  PROVE  Desired(v, i, k - 1) < Desired(v, j, l - 1)
<1>1. /\ i \in Places /\ j \in Places /\ Prints[i] \in Nat /\ Prints[j] \in Nat
      /\ Offset(i) \in Nat /\ Offset(j) \in Nat
  BY WonAre, Constants, OffsetsAre
<1>2. PICK b \in Int : \A p, m : Desired(v, p, m) = b + Offset(p) + m
  BY DEF Desired, Views
<1>3. i < j => Offset(j) >= Offset(i) + Prints[i]
  BY <1>1, OffsetsApart
<1>4. Desired(v, i, k - 1) = b + Offset(i) + (k - 1) /\ Desired(v, j, l - 1) = b + Offset(j) + (l - 1)
  BY <1>2
<1>5. i \in Nat /\ j \in Nat /\ k \in Nat /\ l \in Nat
  BY <1>1, Constants
<1>. QED  BY <1>1, <1>3, <1>4, <1>5

\* The editions of one place: a list nothing stands in the way of, that has
\* every number that is not taken.
LEMMA EditionsOfPlace ==
  ASSUME auction \in Outcomes, NEW v \in Views, NEW place \in Won
  PROVE  /\ PrintEditions(v, place) \in Seq(AskedOf(v, {"print"}))
         /\ Coherent(PrintEditions(v, place))
         /\ \A i \in DOMAIN PrintEditions(v, place) :
              /\ PrintEditions(v, place)[i].op = "print"
              /\ \E k \in 1 .. Prints[place] : PrintEditions(v, place)[i].number = Desired(v, place, k - 1)
         /\ \A k \in 1 .. Prints[place] : Desired(v, place, k - 1) \notin Taken =>
              \E i \in DOMAIN PrintEditions(v, place) : PrintEditions(v, place)[i].number = Desired(v, place, k - 1)
<1>. DEFINE T == AskedOf(v, {"print"})
<1>1. PICK n \in Nat : n = Prints[place]
  BY WonAre, Constants
<1>2. PICK seqs : seqs = EditionLists(v, place)
  OBVIOUS
<1>3. seqs = [k \in 1 .. n |-> Unless(Desired(v, place, k - 1) \in Taken, <<EditionTx(v, place, k)>>)]
  BY <1>1, <1>2 DEF EditionLists
<1>4. ASSUME NEW k \in 1 .. n
      PROVE  /\ seqs[k] \in Seq(T) /\ Coherent(seqs[k])
             /\ \A i \in DOMAIN seqs[k] : seqs[k][i].op = "print" /\ seqs[k][i].number = Desired(v, place, k - 1)
             /\ Desired(v, place, k - 1) \notin Taken =>
                  \E i \in DOMAIN seqs[k] : seqs[k][i].number = Desired(v, place, k - 1)
  <2>. DEFINE skip == Desired(v, place, k - 1) \in Taken
              t == EditionTx(v, place, k)
  <2>1. seqs[k] = Unless(skip, <<t>>)
    BY <1>3
  <2>2. ~skip => t \in T /\ t.number = Desired(v, place, k - 1)
    BY <1>1, EditionTxAsked
  <2>3. t.op = "print"
    BY DEF EditionTx, Tx
  <2>. HIDE DEF skip, t
  <2>4. Unless(skip, <<t>>) \in Seq(T)
    BY <2>2, UnlessOne
  <2>5. Coherent(Unless(skip, <<t>>))
    BY <2>3, UnlessOne
  <2>6. \A i \in DOMAIN Unless(skip, <<t>>) : ~skip /\ Unless(skip, <<t>>)[i] = t
    BY UnlessOne
  <2>7. ~skip => 1 \in DOMAIN Unless(skip, <<t>>) /\ Unless(skip, <<t>>)[1] = t
    BY UnlessOne
  <2>8. \A i \in DOMAIN seqs[k] : seqs[k][i].op = "print" /\ seqs[k][i].number = Desired(v, place, k - 1)
    BY <2>1, <2>2, <2>3, <2>6
  <2>9. ~skip => \E i \in DOMAIN seqs[k] : seqs[k][i].number = Desired(v, place, k - 1)
    BY <2>1, <2>2, <2>7
  <2>10. Desired(v, place, k - 1) \notin Taken => ~skip
    BY DEF skip
  <2>. QED  BY <2>1, <2>4, <2>5, <2>8, <2>9, <2>10
<1>5. seqs \in [1 .. n -> Seq(T)]
  <2>. HIDE DEF T
  <2>. QED  BY <1>3, <1>4
<1>6. ASSUME NEW k \in 1 .. n, NEW l \in 1 .. n, k < l, NEW i \in DOMAIN seqs[k], NEW j \in DOMAIN seqs[l]
      PROVE  Follows(seqs[k][i], seqs[l][j])
  <2>1. PICK t, u : t = seqs[k][i] /\ u = seqs[l][j]
    OBVIOUS
  <2>2. /\ t.op = "print" /\ t.number = Desired(v, place, k - 1)
        /\ u.op = "print" /\ u.number = Desired(v, place, l - 1)
    BY <1>4, <2>1
  <2>3. Desired(v, place, k - 1) < Desired(v, place, l - 1)
    BY <1>1, <1>6, DesiredApart
  <2>4. Desired(v, place, k - 1) \in Int /\ Desired(v, place, l - 1) \in Int
    BY <1>1, DesiredTyped
  <2>5. Desired(v, place, k - 1) # Desired(v, place, l - 1)
    BY <2>3, <2>4
  <2>6. Follows(t, u)
    BY <2>2, <2>5 DEF Follows
  <2>. QED  BY <2>1, <2>6
<1>7. PICK list : list = FlattenSeq(seqs)
  OBVIOUS
<1>. HIDE DEF T
<1>8. list \in Seq(T) /\ From(list, seqs, n) /\ Has(list, seqs, n)
  BY <1>5, <1>7, FlatIs
<1>9. Coherent(list)
  BY <1>4, <1>5, <1>6, <1>7, FlatCoherent
<1>10. PrintEditions(v, place) = list
  BY <1>2, <1>7, EditionsAreLists
<1>11. ASSUME NEW i \in DOMAIN list
       PROVE  list[i].op = "print" /\ \E k \in 1 .. n : list[i].number = Desired(v, place, k - 1)
  <2>1. PICK k \in 1 .. n : \E h \in DOMAIN seqs[k] : list[i] = seqs[k][h]
    BY <1>8 DEF From
  <2>2. PICK h \in DOMAIN seqs[k] : list[i] = seqs[k][h]
    BY <2>1
  <2>3. seqs[k][h].op = "print" /\ seqs[k][h].number = Desired(v, place, k - 1)
    BY <1>4
  <2>. QED  BY <2>2, <2>3
<1>12. ASSUME NEW k \in 1 .. n, Desired(v, place, k - 1) \notin Taken
       PROVE  \E i \in DOMAIN list : list[i].number = Desired(v, place, k - 1)
  <2>1. PICK h \in DOMAIN seqs[k] : seqs[k][h].number = Desired(v, place, k - 1)
    BY <1>4, <1>12
  <2>2. PICK i \in DOMAIN list : list[i] = seqs[k][h]
    BY <1>8 DEF Has
  <2>. QED  BY <2>1, <2>2
<1>. QED  BY <1>1, <1>8, <1>9, <1>10, <1>11, <1>12 DEF T

\* The editions of all places that were won.
AllEditions(v) == FlattenSeq([i \in 1 .. Cardinality(Won) |-> PrintEditions(v, i)])

\* They are coherent, and leave out none that is still to be printed.
LEMMA EditionsOfAll ==
  ASSUME auction \in Outcomes, NEW v \in Views
  PROVE  /\ AllEditions(v) \in Seq(AskedOf(v, {"print"}))
         /\ Coherent(AllEditions(v))
         /\ \A place \in Won : \A k \in 1 .. Prints[place] : Desired(v, place, k - 1) \notin Taken =>
              \E i \in DOMAIN AllEditions(v) : AllEditions(v)[i].number = Desired(v, place, k - 1)
<1>. DEFINE T == AskedOf(v, {"print"})
<1>1. PICK n \in Nat : Won = 1 .. n /\ Cardinality(Won) = n
  BY WonAre
<1>2. PICK seqs : seqs = [i \in 1 .. n |-> PrintEditions(v, i)]
  OBVIOUS
<1>3. PICK list : list = FlattenSeq(seqs)
  OBVIOUS
<1>4. AllEditions(v) = list
  BY <1>1, <1>2, <1>3 DEF AllEditions
<1>. HIDE DEF T
<1>5. ASSUME NEW i \in 1 .. n
      PROVE  /\ seqs[i] \in Seq(T) /\ Coherent(seqs[i])
             /\ \A h \in DOMAIN seqs[i] :
                  seqs[i][h].op = "print" /\ \E k \in 1 .. Prints[i] : seqs[i][h].number = Desired(v, i, k - 1)
             /\ \A k \in 1 .. Prints[i] : Desired(v, i, k - 1) \notin Taken =>
                  \E h \in DOMAIN seqs[i] : seqs[i][h].number = Desired(v, i, k - 1)
  <2>1. i \in Won /\ seqs[i] = PrintEditions(v, i)
    BY <1>1, <1>2
  <2>. QED  BY <2>1, EditionsOfPlace DEF T
<1>6. seqs \in [1 .. n -> Seq(T)]
  BY <1>2, <1>5
<1>7. ASSUME NEW k \in 1 .. n, NEW l \in 1 .. n, k < l, NEW i \in DOMAIN seqs[k], NEW j \in DOMAIN seqs[l]
      PROVE  Follows(seqs[k][i], seqs[l][j])
  <2>1. PICK t, u : t = seqs[k][i] /\ u = seqs[l][j]
    OBVIOUS
  <2>2. t.op = "print" /\ u.op = "print"
    BY <1>5, <2>1
  <2>3. PICK x \in 1 .. Prints[k] : t.number = Desired(v, k, x - 1)
    BY <1>5, <2>1
  <2>4. PICK y \in 1 .. Prints[l] : u.number = Desired(v, l, y - 1)
    BY <1>5, <2>1
  <2>5. k \in Won /\ l \in Won
    BY <1>1
  <2>6. t.number < u.number
    BY <1>7, <2>3, <2>4, <2>5, DesiredApart
  <2>7. t.number \in Int /\ u.number \in Int
    BY <2>3, <2>4, <2>5, DesiredTyped
  <2>8. Follows(t, u)
    BY <2>2, <2>6, <2>7 DEF Follows
  <2>. QED  BY <2>1, <2>8
<1>8. list \in Seq(T) /\ Has(list, seqs, n)
  BY <1>3, <1>6, FlatIs
<1>9. Coherent(list)
  BY <1>3, <1>5, <1>6, <1>7, FlatCoherent
<1>10. ASSUME NEW place \in Won, NEW k \in 1 .. Prints[place], Desired(v, place, k - 1) \notin Taken
       PROVE  \E i \in DOMAIN list : list[i].number = Desired(v, place, k - 1)
  <2>1. place \in 1 .. n
    BY <1>1
  <2>2. PICK h \in DOMAIN seqs[place] : seqs[place][h].number = Desired(v, place, k - 1)
    BY <1>5, <1>10, <2>1
  <2>3. PICK i \in DOMAIN list : list[i] = seqs[place][h]
    BY <1>8, <2>1 DEF Has
  <2>. QED  BY <2>2, <2>3
<1>. QED  BY <1>4, <1>8, <1>9, <1>10 DEF T

\* The box of a place, sent for by who may get it.
LEMMA BoxOfPlace ==
  ASSUME auction \in Outcomes, NEW v \in Views, NEW place \in Places, NEW b \in Pages, b = BoxOf(place)
  PROVE  /\ RedeemBox(v, place, b) \in Seq(AskedOf(v, {"box"})) /\ Coherent(RedeemBox(v, place, b))
         /\ \A i \in DOMAIN RedeemBox(v, place, b) :
              RedeemBox(v, place, b)[i].op = "box" /\ RedeemBox(v, place, b)[i].place = place
<1>. DEFINE skip == place \notin Boxes \/ place \in v.given
            t == Tx("box", b, place, 0)
<1>1. RedeemBox(v, place, b) = Unless(skip, <<t>>)
  BY DEF RedeemBox
<1>2. place \in Nat /\ 0 \in Int /\ "box" \in Ops
  BY Constants DEF Ops
<1>3. t \in Transactions /\ t.op = "box" /\ t.of = b /\ t.place = place
  BY <1>2, TxIs
<1>. HIDE DEF t
<1>4. ~skip => t \in LawfulTxs
  BY <1>3 DEF LawfulTxs, Lawful
<1>5. ~skip => t \in AskedOf(v, {"box"})
  BY <1>3, <1>4 DEF Asked, AskedOf
<1>6. Unless(skip, <<t>>) \in Seq(AskedOf(v, {"box"}))
  BY <1>5, UnlessOne
<1>7. Coherent(Unless(skip, <<t>>))
  BY <1>3, UnlessOne
<1>8. \A i \in DOMAIN Unless(skip, <<t>>) : Unless(skip, <<t>>)[i] = t
  BY UnlessOne
<1>. QED  BY <1>1, <1>3, <1>6, <1>7, <1>8

\* The transactions that concern no place.
LEMMA PlainAsked ==
  ASSUME NEW v \in Views, NEW b \in Pages
  PROVE  /\ Tx("mint", b, 0, 0) \in Asked(v) /\ Tx("sale", b, 0, 0) \in Asked(v)
         /\ IsEligible(v, b) => Tx("part", b, 0, v.partSupply + 1) \in Asked(v)
         /\ \A n \in {1, 2} : (IF n = 1 THEN "part" ELSE "master") \notin out => Tx("take", b, 0, n) \in Asked(v)
<1>1. v.partSupply + 1 \in Int
  BY DEF Views
<1>2. ASSUME NEW o \in {"mint", "part", "sale", "take"}, NEW n \in Int
      PROVE  /\ Tx(o, b, 0, n) \in LawfulTxs
             /\ Tx(o, b, 0, n).op = o /\ Tx(o, b, 0, n).of = b /\ Tx(o, b, 0, n).number = n
  BY PlainLawful DEF Tx
<1>3. Tx("mint", b, 0, 0) \in Asked(v) /\ Tx("sale", b, 0, 0) \in Asked(v)
  BY <1>2 DEF Asked
<1>4. IsEligible(v, b) => Tx("part", b, 0, v.partSupply + 1) \in Asked(v)
  BY <1>1, <1>2 DEF Asked, IsEligible
<1>5. ASSUME NEW n \in {1, 2}, (IF n = 1 THEN "part" ELSE "master") \notin out
      PROVE  Tx("take", b, 0, n) \in Asked(v)
  <2>1. n \in Int
    OBVIOUS
  <2>. QED  BY <1>2, <1>5, <2>1 DEF Asked
<1>. QED  BY <1>3, <1>4, <1>5

\* A participation print: minted, redeemed, and for oneself marked as sold.
LEMMA Participation ==
  ASSUME NEW v \in Views, NEW b \in Pages, IsEligible(v, b), NEW self \in BOOLEAN
  PROVE  LET list == RedeemParticipation(v, b, self)
         IN  /\ list \in Seq(AskedOf(v, IF self THEN {"mint", "part", "sale"} ELSE {"mint", "part"}))
             /\ Coherent(list)
             /\ Len(list) = (IF self THEN 3 ELSE 2)
             /\ list[2].op = "part" /\ list[2].of = b
             /\ \A i \in DOMAIN list : list[i].op = "part" => i = 2
<1>. DEFINE m == Tx("mint", b, 0, 0)
            q == Tx("part", b, 0, v.partSupply + 1)
            s == Tx("sale", b, 0, 0)
<1>1. m \in Asked(v) /\ q \in Asked(v) /\ s \in Asked(v)
  BY PlainAsked
<1>2. m.op = "mint" /\ q.op = "part" /\ s.op = "sale" /\ m.of = b /\ q.of = b /\ s.of = b
  BY DEF Tx
<1>0. PICK list : list = RedeemParticipation(v, b, self)
  OBVIOUS
<1>3. RedeemParticipation(v, b, self) = <<m, q>> \o Unless(~self, <<s>>)
  BY DEF RedeemParticipation
<1>. HIDE DEF m, q, s
<1>4. <<m, q>> \in Seq({m, q, s}) /\ <<s>> \in Seq({m, q, s}) /\ << >> \in Seq({m, q, s})
  OBVIOUS
<1>. SUFFICES /\ list \in Seq(AskedOf(v, IF self THEN {"mint", "part", "sale"} ELSE {"mint", "part"}))
              /\ Coherent(list)
              /\ Len(list) = (IF self THEN 3 ELSE 2)
              /\ list[2].op = "part" /\ list[2].of = b
              /\ \A i \in DOMAIN list : list[i].op = "part" => i = 2
  BY <1>0
<1>5. CASE self
  <2>1. list = <<m, q>> \o <<s>>
    BY <1>0, <1>3, <1>5 DEF Unless
  <2>2. list \in Seq({m, q, s})
    BY <1>4, <2>1, ConcatProperties
  <2>3. Len(<<m, q>>) = 2 /\ Len(<<s>>) = 1 /\ <<m, q>>[1] = m /\ <<m, q>>[2] = q /\ <<s>>[1] = s
    OBVIOUS
  <2>4. Len(list) = 3 /\ DOMAIN list = 1 .. 3 /\ list[1] = m /\ list[2] = q /\ list[3] = s
    <3>1. IsJoined(list, <<m, q>>, <<s>>)
      BY <1>4, <2>1, Joined
    <3>. QED  BY <2>3, <3>1 DEF IsJoined
  <2>5. list \in Seq(AskedOf(v, {"mint", "part", "sale"}))
    <3>1. {m, q, s} \subseteq AskedOf(v, {"mint", "part", "sale"})
      BY <1>1, <1>2 DEF AskedOf
    <3>. QED  BY <2>2, <3>1, SeqMonotonic
  <2>6. Coherent(list)
    <3>1. Follows(m, q) /\ Follows(m, s) /\ Follows(q, s)
      BY <1>2 DEF Follows
    <3>2. \A i, j \in DOMAIN list : i < j => Follows(list[i], list[j])
      BY <2>4, <3>1
    <3>3. \A j \in DOMAIN list : list[j].op = "part" =>
            \E i \in 1 .. (j - 1) : list[i].op = "mint" /\ list[i].of = list[j].of
      <4>1. \A j \in DOMAIN list : list[j].op = "part" => j = 2
        BY <1>2, <2>4
      <4>2. 1 \in 1 .. (2 - 1) /\ list[1].op = "mint" /\ list[1].of = list[2].of
        BY <1>2, <2>4
      <4>. QED  BY <4>1, <4>2
    <3>4. \A j \in DOMAIN list : list[j].op = "sale" =>
            \E i \in 1 .. (j - 1) : list[i].op = "part" /\ list[i].of = list[j].of
      <4>1. \A j \in DOMAIN list : list[j].op = "sale" => j = 3
        BY <1>2, <2>4
      <4>2. 2 \in 1 .. (3 - 1) /\ list[2].op = "part" /\ list[2].of = list[3].of
        BY <1>2, <2>4
      <4>. QED  BY <4>1, <4>2
    <3>. QED  BY <3>2, <3>3, <3>4 DEF Coherent
  <2>. QED  BY <1>2, <1>5, <2>4, <2>5, <2>6
<1>6. CASE ~self
  <2>2. <<m, q>> \o << >> = <<m, q>>
    BY <1>4, ConcatEmptySeq
  <2>1. list = <<m, q>>
    BY <1>0, <1>3, <1>6, <2>2 DEF Unless
  <2>4. Len(list) = 2 /\ DOMAIN list = 1 .. 2 /\ list[1] = m /\ list[2] = q
    BY <2>1
  <2>5. list \in Seq(AskedOf(v, {"mint", "part"}))
    BY <1>1, <1>2, <2>1 DEF AskedOf
  <2>6. Coherent(list)
    <3>1. Follows(m, q)
      BY <1>2 DEF Follows
    <3>2. \A i, j \in DOMAIN list : i < j => Follows(list[i], list[j])
      BY <2>4, <3>1
    <3>3. \A j \in DOMAIN list : list[j].op = "part" =>
            \E i \in 1 .. (j - 1) : list[i].op = "mint" /\ list[i].of = list[j].of
      <4>1. \A j \in DOMAIN list : list[j].op = "part" => j = 2
        BY <1>2, <2>4
      <4>2. 1 \in 1 .. (2 - 1) /\ list[1].op = "mint" /\ list[1].of = list[2].of
        BY <1>2, <2>4
      <4>. QED  BY <4>1, <4>2
    <3>4. \A j \in DOMAIN list : list[j].op # "sale"
      BY <1>2, <2>4
    <3>. QED  BY <3>2, <3>3, <3>4 DEF Coherent
  <2>. QED  BY <1>2, <1>6, <2>4, <2>5, <2>6
<1>. QED  BY <1>5, <1>6

\* Two lists of kinds that do not stand in each other's way.
LEMMA JoinedKinds ==
  ASSUME NEW A, NEW B, NEW s \in Seq(A), NEW t \in Seq(B), \A a \in A, b \in B : Follows(a, b)
  PROVE  /\ s \o t \in Seq(A \cup B) /\ IsJoined(s \o t, s, t)
         /\ Coherent(s) /\ Coherent(t) => Coherent(s \o t)
<1>. DEFINE T == A \cup B
<1>1. s \in Seq(T) /\ t \in Seq(T)
  <2>1. A \subseteq T /\ B \subseteq T
    OBVIOUS
  <2>. HIDE DEF T
  <2>. QED  BY <2>1, SeqMonotonic
<1>2. \A i \in DOMAIN s, j \in DOMAIN t : Follows(s[i], t[j])
  <2>. SUFFICES ASSUME NEW i \in DOMAIN s, NEW j \in DOMAIN t PROVE Follows(s[i], t[j])
    OBVIOUS
  <2>1. s[i] \in A /\ t[j] \in B
    OBVIOUS
  <2>. QED  BY <2>1
<1>. HIDE DEF T
<1>3. s \o t \in Seq(T) /\ IsJoined(s \o t, s, t)
  BY <1>1, Joined
<1>4. Coherent(s) /\ Coherent(t) => Coherent(s \o t)
  BY <1>1, <1>2, JoinedCoherent
<1>. QED  BY <1>3, <1>4 DEF T

\* Which kinds do not.
LEMMA FollowsByKind ==
  ASSUME NEW t, NEW u, t.op # u.op, t.op # "take", ~(t.op \in {"claim", "cancel"} /\ u.op \in {"claim", "cancel"})
  PROVE  Follows(t, u)
BY DEF Follows

\* A list of one transaction.
LEMMA OneIs ==
  ASSUME NEW A, NEW t \in A, t.op \notin {"part", "sale"}
  PROVE  <<t>> \in Seq(A) /\ Coherent(<<t>>)
BY ShortCoherent

\* A participation print that a bidder redeems is the last but one on its list.
PartLast(list) == \A i \in DOMAIN list : list[i].op = "part" => i = Len(list) - 1

\* What a bidder sends: what a page may ask for, nothing in the way of what
\* follows, the participation print last but one.
LEMMA RedeemAsked ==
  ASSUME auction \in Outcomes, NEW v \in Views, NEW b \in Bidders
  PROVE  /\ Redeem(v, b) \in Seq(AskedThen(v)) /\ Coherent(Redeem(v, b)) /\ PartLast(Redeem(v, b))
         /\ \A i \in DOMAIN Redeem(v, b) : Redeem(v, b)[i].op # "take"
<1>. DEFINE P == AskedOf(v, {"print"})
            X == AskedOf(v, {"box"})
            C == AskedOf(v, {"claim", "cancel"})
            M == AskedOf(v, {"mint", "part", "sale"})
            skip == ~IsEligible(v, b)
            last == RedeemParticipation(v, b, TRUE)
            ends == Unless(skip, last)
<1>0. b \in Pages
  BY Constants
<1>1. ends \in Seq(M) /\ Coherent(ends)
      /\ \A i \in DOMAIN ends : ends[i].op = "part" => i = Len(ends) - 1
  <2>1. CASE skip
    <3>1. Unless(skip, last) = << >>
      BY <2>1 DEF Unless
    <3>2. << >> \in Seq(M) /\ Coherent(<< >>) /\ DOMAIN << >> = {}
      BY ShortCoherent
    <3>. QED  BY <3>1, <3>2
  <2>2. CASE ~skip
    <3>1. Unless(skip, last) = last
      BY <2>2 DEF Unless
    <3>2. /\ last \in Seq(AskedOf(v, IF TRUE THEN {"mint", "part", "sale"} ELSE {"mint", "part"}))
          /\ Coherent(last) /\ Len(last) = (IF TRUE THEN 3 ELSE 2)
          /\ \A i \in DOMAIN last : last[i].op = "part" => i = 2
      BY <1>0, <2>2, Participation
    <3>3. last \in Seq(M) /\ Len(last) = 3
      BY <3>2
    <3>. HIDE DEF skip, last, M
    <3>4. \A i \in DOMAIN last : last[i].op = "part" => i = Len(last) - 1
      <4>1. 3 - 1 = 2
        OBVIOUS
      <4>. QED  BY <3>2, <3>3, <4>1
    <3>. QED  BY <3>1, <3>2, <3>3, <3>4
  <2>. QED  BY <2>1, <2>2
<1>2. P \subseteq AskedThen(v) /\ X \subseteq AskedThen(v) /\ C \subseteq AskedThen(v) /\ M \subseteq AskedThen(v)
  BY DEF AskedOf, AskedThen
<1>3. /\ \A t \in P, u \in X : Follows(t, u)
      /\ \A t \in P \cup X, u \in C : Follows(t, u)
      /\ \A t \in P \cup X \cup C, u \in M : Follows(t, u)
  <2>1. /\ \A t \in P : t.op = "print"
        /\ \A t \in X : t.op = "box"
        /\ \A t \in C : t.op \in {"claim", "cancel"}
        /\ \A t \in M : t.op \in {"mint", "part", "sale"}
    BY DEF AskedOf
  <2>. HIDE DEF P, X, C, M
  <2>2. \A t \in P, u \in X : Follows(t, u)
    BY <2>1, FollowsByKind
  <2>3. \A t \in P \cup X, u \in C : Follows(t, u)
    BY <2>1, FollowsByKind
  <2>4. \A t \in P \cup X \cup C, u \in M : Follows(t, u)
    BY <2>1, FollowsByKind
  <2>. QED  BY <2>2, <2>3, <2>4
<1>4. ASSUME NEW first \in Seq(P \cup X \cup C), Coherent(first)
      PROVE  /\ first \o ends \in Seq(AskedThen(v)) /\ Coherent(first \o ends) /\ PartLast(first \o ends)
             /\ \A i \in DOMAIN (first \o ends) : (first \o ends)[i].op # "take"
  <2>1. PICK list : list = first \o ends
    OBVIOUS
  <2>2. PICK e : e = ends
    OBVIOUS
  <2>3. /\ e \in Seq(M) /\ Coherent(e) /\ list = first \o e
        /\ \A i \in DOMAIN e : e[i].op = "part" => i = Len(e) - 1
    BY <1>1, <2>1, <2>2
  <2>4. /\ \A t \in P \cup X \cup C : t.op # "part"
        /\ \A t \in P \cup X \cup C \cup M : t.op # "take"
    BY DEF AskedOf
  <2>. HIDE DEF P, X, C, M, ends
  <2>5. list \in Seq(P \cup X \cup C \cup M) /\ IsJoined(list, first, e) /\ Coherent(list)
    BY <1>3, <1>4, <2>3, JoinedKinds
  <2>6. list \in Seq(AskedThen(v))
    <3>1. P \cup X \cup C \cup M \subseteq AskedThen(v)
      BY <1>2
    <3>. QED  BY <2>5, <3>1, SeqMonotonic
  <2>7. ASSUME NEW k \in DOMAIN list, list[k].op = "part" PROVE k = Len(list) - 1
    <3>0. PICK n \in Nat, m \in Nat : n = Len(first) /\ m = Len(e)
      BY <2>5 DEF IsJoined
    <3>1. Len(list) = n + m /\ k \in 1 .. (n + m)
      BY <2>5, <3>0 DEF IsJoined
    <3>2. CASE k \in DOMAIN first /\ list[k] = first[k]
      <4>1. first[k] \in P \cup X \cup C
        BY <1>4, <3>2
      <4>. QED  BY <2>4, <2>7, <3>2, <4>1
    <3>3. CASE k - n \in DOMAIN e /\ list[k] = e[k - n]
      <4>1. k - n = m - 1
        BY <2>3, <2>7, <3>0, <3>3
      <4>. QED  BY <3>1, <4>1
    <3>. QED  BY <2>5, <3>0, <3>2, <3>3 DEF IsJoined
  <2>8. PartLast(list)
    BY <2>7 DEF PartLast
  <2>9. \A i \in DOMAIN list : list[i].op # "take"
    BY <2>4, <2>5
  <2>. QED  BY <2>1, <2>5, <2>6, <2>8, <2>9
<1>5. CASE b \in Winners
  <2>. DEFINE i == PlaceOf(b)
              c == Tx("claim", b, 0, 0)
  <2>1. i \in Won /\ i \in Places /\ auction.bids[i] = b
    BY <1>5, WonAre
  <2>. HIDE DEF i
  <2>2. b = BoxOf(i)
    BY <2>1 DEF BoxOf
  <2>3. PrintEditions(v, i) \in Seq(P) /\ Coherent(PrintEditions(v, i))
    BY <2>1, EditionsOfPlace
  <2>4. RedeemBox(v, i, b) \in Seq(X) /\ Coherent(RedeemBox(v, i, b))
    BY <1>0, <2>1, <2>2, BoxOfPlace
  <2>5. c \in C /\ c.op = "claim"
    <3>1. "claim" \in Ops /\ 0 \in Nat /\ 0 \in Int
      BY DEF Ops
    <3>2. c \in Transactions /\ c.op = "claim" /\ c.of = b
      BY <1>0, <3>1, TxIs
    <3>. HIDE DEF c
    <3>3. c \in LawfulTxs
      BY <1>5, <3>2 DEF LawfulTxs, Lawful
    <3>. QED  BY <3>2, <3>3 DEF Asked, AskedOf
  <2>6. <<c>> \in Seq(C) /\ Coherent(<<c>>)
    <3>. HIDE DEF c, C
    <3>. QED  BY <2>5, OneIs
  <2>. HIDE DEF c, P, X, C, M, ends
  <2>7. PICK s \in Seq(P) : s = PrintEditions(v, i) /\ Coherent(s)
    BY <2>3
  <2>8. PICK t \in Seq(X) : t = RedeemBox(v, i, b) /\ Coherent(t)
    BY <2>4
  <2>9. s \o t \in Seq(P \cup X) /\ Coherent(s \o t)
    BY <1>3, <2>7, <2>8, JoinedKinds
  <2>10. PICK u \in Seq(P \cup X) : u = s \o t /\ Coherent(u)
    BY <2>9
  <2>11. u \o <<c>> \in Seq(P \cup X \cup C) /\ Coherent(u \o <<c>>)
    BY <1>3, <2>6, <2>10, JoinedKinds
  <2>12. PICK first \in Seq(P \cup X \cup C) : first = u \o <<c>> /\ Coherent(first)
    BY <2>11
  <2>13. Redeem(v, b) = first \o ends
    BY <1>5, <2>7, <2>8, <2>10, <2>12 DEF Redeem, ends, c, i
  <2>. QED  BY <1>4, <2>12, <2>13
<1>6. CASE b \notin Winners
  <2>. DEFINE c == Tx("cancel", b, 0, 0)
  <2>1. c \in C /\ c.op = "cancel"
    <3>1. "cancel" \in Ops /\ 0 \in Nat /\ 0 \in Int
      BY DEF Ops
    <3>2. c \in Transactions /\ c.op = "cancel" /\ c.of = b
      BY <1>0, <3>1, TxIs
    <3>. HIDE DEF c
    <3>3. c \in LawfulTxs
      BY <1>6, <3>2 DEF LawfulTxs, Lawful
    <3>. QED  BY <3>2, <3>3 DEF Asked, AskedOf
  <2>. HIDE DEF c, P, X, C, M, ends
  <2>2. <<c>> \in Seq(P \cup X \cup C) /\ Coherent(<<c>>)
    <3>1. c \in P \cup X \cup C
      BY <2>1
    <3>. QED  BY <2>1, <3>1, OneIs
  <2>3. PICK first \in Seq(P \cup X \cup C) : first = <<c>> /\ Coherent(first)
    BY <2>2
  <2>4. Redeem(v, b) = first \o ends
    BY <1>6, <2>3 DEF Redeem, ends, c
  <2>. QED  BY <1>4, <2>3, <2>4
<1>. QED  BY <1>5, <1>6

\* The bidders the seller prints for are eligible.
LEMMA OthersAre ==
  ASSUME auction \in Outcomes, NEW v \in Views
  PROVE  LET others == FindEligibleParticipation(v)
         IN  /\ others \subseteq Bidders /\ IsFiniteSet(others)
             /\ \A b \in others : IsEligible(v, b)
<1>1. IsFiniteSet(ToSet(auction.bids))
  <2>1. IsFiniteSet(DOMAIN auction.bids)
    BY BidsAre, FS_Interval
  <2>2. ToSet(auction.bids) = {auction.bids[i] : i \in DOMAIN auction.bids}
    BY DEF ToSet
  <2>3. auction.bids \in Surjection(DOMAIN auction.bids, ToSet(auction.bids))
    BY <2>2, BidsAre DEF Surjection
  <2>. QED  BY <2>1, <2>3, FS_Surjection
<1>2. FindEligibleParticipation(v) \subseteq ToSet(auction.bids)
  BY DEF FindEligibleParticipation
<1>3. IsFiniteSet(FindEligibleParticipation(v))
  BY <1>1, <1>2, FS_Subset
<1>. QED  BY <1>2, <1>3, BidsAre DEF FindEligibleParticipation

\* Two participation prints on one list.
Several(list) ==
  \E i, j \in DOMAIN list : i # j /\ list[i].op = "part" /\ list[j].op = "part"

\* What is on either of two lists is on the two together.
LEMMA SeveralJoined ==
  ASSUME NEW u, NEW s, NEW t, IsJoined(u, s, t), Several(s)
  PROVE  Several(u)
BY DEF IsJoined, Several

\* What the seller sends to print for the others: a mint and a redemption each.
LEMMA OthersTxs ==
  ASSUME auction \in Outcomes, NEW v \in Views
  PROVE  LET others == FindEligibleParticipation(v)
         IN  UNION {ToSet(RedeemParticipation(v, b, FALSE)) : b \in others}
               = {Tx("mint", b, 0, 0) : b \in others} \cup {Tx("part", b, 0, v.partSupply + 1) : b \in others}
<1>1. ASSUME NEW b
      PROVE  ToSet(RedeemParticipation(v, b, FALSE)) = {Tx("mint", b, 0, 0), Tx("part", b, 0, v.partSupply + 1)}
  <2>1. PICK m, q : m = Tx("mint", b, 0, 0) /\ q = Tx("part", b, 0, v.partSupply + 1)
    OBVIOUS
  <2>2. <<m, q>> \in Seq({m, q})
    OBVIOUS
  <2>3. <<m, q>> \o << >> = <<m, q>>
    BY <2>2, ConcatEmptySeq
  <2>4. RedeemParticipation(v, b, FALSE) = <<m, q>>
    BY <2>1, <2>3 DEF RedeemParticipation, Unless
  <2>5. ToSet(<<m, q>>) = {m, q}
    BY DEF ToSet
  <2>. QED  BY <2>1, <2>4, <2>5
<1>. DEFINE M(b) == Tx("mint", b, 0, 0)
            Q(b) == Tx("part", b, 0, v.partSupply + 1)
<1>2. PICK others : others = FindEligibleParticipation(v)
  OBVIOUS
<1>3. \A b : ToSet(RedeemParticipation(v, b, FALSE)) = {M(b), Q(b)}
  BY <1>1
<1>. HIDE DEF M, Q
<1>4. UNION {ToSet(RedeemParticipation(v, b, FALSE)) : b \in others} = UNION {{M(b), Q(b)} : b \in others}
  BY <1>3
<1>5. UNION {{M(b), Q(b)} : b \in others} = {M(b) : b \in others} \cup {Q(b) : b \in others}
  OBVIOUS
<1>. QED  BY <1>2, <1>4, <1>5 DEF M, Q

\* The participation prints the seller makes for the others, in whichever order
\* they are prepared.
LEMMA PartsAsked ==
  ASSUME auction \in Outcomes, NEW v \in Views, NEW list \in Interleaved(v)
  PROVE  list \in Seq(AskedOf(v, {"mint", "part"})) /\ (Coherent(list) \/ Several(list))
<1>. DEFINE M(b) == Tx("mint", b, 0, 0)
            Q(b) == Tx("part", b, 0, v.partSupply + 1)
            A == AskedOf(v, {"mint", "part"})
<1>1. PICK others : others = FindEligibleParticipation(v)
  OBVIOUS
<1>2. others \subseteq Bidders /\ IsFiniteSet(others) /\ \A b \in others : IsEligible(v, b)
  BY <1>1, OthersAre
<1>3. PICK txs : txs = {M(b) : b \in others} \cup {Q(b) : b \in others}
  OBVIOUS
<1>4. /\ list \in SetToSeqs(txs)
      /\ \A i, j \in DOMAIN list :
           list[i].op = "mint" /\ list[j].op = "part" /\ list[i].of = list[j].of => i < j
  <2>1. txs = UNION {ToSet(RedeemParticipation(v, b, FALSE)) : b \in others}
    BY <1>1, <1>3, OthersTxs
  <2>. QED  BY <1>1, <2>1 DEF Interleaved
<1>5. IsFiniteSet(txs)
  <2>. DEFINE f == [b \in others |-> M(b)]
              g == [b \in others |-> Q(b)]
              A1 == {M(b) : b \in others}
              A2 == {Q(b) : b \in others}
  <2>1. f \in Surjection(others, A1) /\ g \in Surjection(others, A2)
    BY DEF Surjection
  <2>. HIDE DEF f, g, A1, A2
  <2>2. IsFiniteSet(A1)
    BY <1>2, <2>1, FS_Surjection
  <2>3. IsFiniteSet(A2)
    BY <1>2, <2>1, FS_Surjection
  <2>4. IsFiniteSet(A1 \cup A2)
    BY <2>2, <2>3, FS_Union
  <2>. QED  BY <1>3, <2>4 DEF A1, A2
<1>6. PICK n \in Nat : n = Cardinality(txs)
  BY <1>5, FS_CardinalityType
<1>7. list \in [1 .. n -> txs] /\ \A i, j \in 1 .. n : i # j => list[i] # list[j]
  BY <1>4, <1>6 DEF SetToSeqs
<1>8. \A t \in txs : \E i \in 1 .. n : list[i] = t
  <2>1. IsFiniteSet(1 .. n) /\ Cardinality(1 .. n) = n
    BY FS_Interval
  <2>2. list \in Injection(1 .. n, txs)
    BY <1>7 DEF Injection, IsInjective
  <2>3. list \in Surjection(1 .. n, txs)
    BY <1>5, <1>6, <2>1, <2>2, FS_Injection
  <2>. QED  BY <2>3 DEF Surjection
<1>9. ASSUME NEW b \in others
      PROVE  /\ M(b) \in A /\ M(b).op = "mint" /\ M(b).of = b
             /\ Q(b) \in A /\ Q(b).op = "part" /\ Q(b).of = b
  <2>1. b \in Pages /\ IsEligible(v, b)
    BY <1>2, Constants
  <2>2. M(b) \in Asked(v) /\ Q(b) \in Asked(v)
    BY <2>1, PlainAsked
  <2>3. M(b).op = "mint" /\ M(b).of = b /\ Q(b).op = "part" /\ Q(b).of = b
    BY DEF Tx
  <2>. QED  BY <2>2, <2>3 DEF AskedOf
<1>. HIDE DEF M, Q, A
<1>10. txs \subseteq A
  BY <1>3, <1>9
<1>11. list \in Seq(A) /\ DOMAIN list = 1 .. n
  <2>1. list \in [1 .. n -> A]
    BY <1>7, <1>10
  <2>. QED  BY <2>1, IsASeq
<1>12. CASE \E b \in others, c \in others : b # c
  <2>1. PICK b \in others, c \in others : b # c
    BY <1>12
  <2>2. PICK i \in 1 .. n : list[i] = Q(b)
    BY <1>3, <1>8
  <2>3. PICK j \in 1 .. n : list[j] = Q(c)
    BY <1>3, <1>8
  <2>4. list[i].of = b /\ list[j].of = c /\ list[i].op = "part" /\ list[j].op = "part"
    BY <1>9, <2>2, <2>3
  <2>5. Several(list)
    BY <1>11, <2>1, <2>4 DEF Several
  <2>. QED  BY <1>11, <2>5 DEF A
<1>13. CASE \A b \in others, c \in others : b = c
  <2>1. \A t \in txs : \E b \in others : t = M(b) \/ t = Q(b)
    BY <1>3
  <2>2. \A t \in txs, u \in txs : t # u => t.op # u.op
    BY <1>9, <1>13, <2>1
  <2>3. \A t \in txs : t.op \in {"mint", "part"}
    BY <1>9, <2>1
  <2>4. ASSUME NEW i \in 1 .. n, NEW j \in 1 .. n, i < j PROVE Follows(list[i], list[j])
    <3>1. PICK t \in txs, u \in txs : t = list[i] /\ u = list[j]
      BY <1>7
    <3>2. t # u
      BY <1>7, <2>4, <3>1
    <3>3. t.op # u.op /\ t.op \in {"mint", "part"}
      BY <2>2, <2>3, <3>2
    <3>4. Follows(t, u)
      BY <3>3, FollowsByKind
    <3>. QED  BY <3>1, <3>4
  <2>5. ASSUME NEW j \in 1 .. n, list[j].op = "part"
        PROVE  \E i \in 1 .. (j - 1) : list[i].op = "mint" /\ list[i].of = list[j].of
    <3>1. PICK b \in others : list[j] = M(b) \/ list[j] = Q(b)
      BY <1>7, <2>1
    <3>2. list[j] = Q(b) /\ list[j].of = b
      BY <1>9, <2>5, <3>1
    <3>3. PICK i \in 1 .. n : list[i] = M(b)
      BY <1>3, <1>8
    <3>4. list[i].op = "mint" /\ list[i].of = b
      BY <1>9, <3>3
    <3>5. i < j
      BY <1>4, <1>11, <2>5, <3>2, <3>4
    <3>6. i \in 1 .. (j - 1)
      BY <3>5
    <3>. QED  BY <3>2, <3>4, <3>6
  <2>6. \A j \in 1 .. n : list[j].op # "sale"
    BY <1>7, <2>3
  <2>7. Coherent(list)
    <3>. HIDE DEF Follows
    <3>. QED  BY <1>11, <2>4, <2>5, <2>6 DEF Coherent
  <2>. QED  BY <1>11, <2>7 DEF A
<1>. QED  BY <1>12, <1>13

\* The boxes nobody won.
LEMMA BoxesAsked ==
  ASSUME auction \in Outcomes, NEW v \in Views
  PROVE  TakeBoxes(v) \in Seq(AskedOf(v, {"box"})) /\ Coherent(TakeBoxes(v))
<1>. DEFINE X == AskedOf(v, {"box"})
<1>1. PICK n \in Nat : n = NumPlaces /\ Places = 1 .. n
  BY Constants
<1>2. PICK seqs : seqs = [i \in 1 .. n |->
                     Unless(i <= Len(auction.bids) \/ box[i] # "vault", RedeemBox(v, i, Seller))]
  OBVIOUS
<1>3. TakeBoxes(v) = FlattenSeq(seqs)
  BY <1>1, <1>2 DEF TakeBoxes
<1>4. ASSUME NEW i \in 1 .. n
      PROVE  /\ seqs[i] \in Seq(X) /\ Coherent(seqs[i])
             /\ \A h \in DOMAIN seqs[i] : seqs[i][h].op = "box" /\ seqs[i][h].place = i
  <2>. DEFINE skip == i <= Len(auction.bids) \/ box[i] # "vault"
  <2>1. PICK list : list = RedeemBox(v, i, Seller)
    OBVIOUS
  <2>2. seqs[i] = Unless(skip, list)
    BY <1>2, <2>1
  <2>3. ~skip => /\ list \in Seq(X) /\ Coherent(list)
                 /\ \A h \in DOMAIN list : list[h].op = "box" /\ list[h].place = i
    <3>. SUFFICES ASSUME ~skip
                  PROVE  /\ list \in Seq(X) /\ Coherent(list)
                         /\ \A h \in DOMAIN list : list[h].op = "box" /\ list[h].place = i
      OBVIOUS
    <3>1. i \in Places
      BY <1>1
    <3>2. i \notin Won
      BY <3>1, WonAre
    <3>3. Seller \in Pages /\ Seller = BoxOf(i)
      BY <3>2, Constants DEF BoxOf
    <3>. QED  BY <2>1, <3>1, <3>3, BoxOfPlace
  <2>. HIDE DEF skip, X
  <2>4. CASE skip
    <3>1. seqs[i] = << >>
      BY <2>2, <2>4 DEF Unless
    <3>2. << >> \in Seq(X) /\ DOMAIN << >> = {} /\ Coherent(<< >>)
      BY ShortCoherent
    <3>. QED  BY <3>1, <3>2
  <2>5. CASE ~skip
    <3>1. seqs[i] = list
      BY <2>2, <2>5 DEF Unless
    <3>. QED  BY <2>3, <2>5, <3>1
  <2>. QED  BY <2>4, <2>5
<1>. HIDE DEF X
<1>5. seqs \in [1 .. n -> Seq(X)]
  BY <1>2, <1>4
<1>6. ASSUME NEW k \in 1 .. n, NEW l \in 1 .. n, k < l, NEW i \in DOMAIN seqs[k], NEW j \in DOMAIN seqs[l]
      PROVE  Follows(seqs[k][i], seqs[l][j])
  <2>1. PICK t, u : t = seqs[k][i] /\ u = seqs[l][j]
    OBVIOUS
  <2>2. t.op = "box" /\ u.op = "box" /\ t.place = k /\ u.place = l
    BY <1>4, <2>1
  <2>3. k # l
    BY <1>6
  <2>4. Follows(t, u)
    BY <2>2, <2>3 DEF Follows
  <2>. QED  BY <2>1, <2>4
<1>7. FlattenSeq(seqs) \in Seq(X)
  BY <1>5, FlatIs
<1>8. Coherent(FlattenSeq(seqs))
  BY <1>4, <1>5, <1>6, FlatCoherent
<1>. QED  BY <1>3, <1>7, <1>8 DEF X

\* The master is taken behind every edition that is not printed yet.
LastTakes(v, list) ==
  \A j \in DOMAIN list : list[j].op = "take" /\ list[j].number # 1 =>
    \A place \in Won : \A k \in 1 .. Prints[place] : Desired(v, place, k - 1) \notin Taken =>
      \E i \in 1 .. (j - 1) : list[i].op = "print" /\ list[i].number = Desired(v, place, k - 1)

\* What the seller sends: what a page may ask for, nothing in the way of what
\* follows unless it prints for several participants, the master last.
LEMMA ClaimUnusedAsked ==
  ASSUME auction \in Outcomes, NEW v \in Views, NEW parts \in Interleaved(v)
  PROVE  /\ ClaimUnused(v, parts) \in Seq(AskedThen(v))
         /\ Coherent(ClaimUnused(v, parts)) \/ Several(ClaimUnused(v, parts))
         /\ LastTakes(v, ClaimUnused(v, parts))
<1>. DEFINE A == {t \in Asked(v) : t.op \in {"mint", "part"} \/ (t.op = "take" /\ t.number = 1)}
            P == AskedOf(v, {"print"})
            X == AskedOf(v, {"box"})
            Z == {t \in Asked(v) : t.op = "take" /\ t.number # 1}
            take1 == Tx("take", Seller, 0, 1)
            take2 == Tx("take", Seller, 0, 2)
            noPart == "part" \in out
            noMaster == "master" \in out
<1>2. ClaimUnused(v, parts) = Unless(noPart, parts \o <<take1>>) \o Unless(noMaster, AllEditions(v))
                         \o TakeBoxes(v) \o Unless(noMaster, <<take2>>)
  BY DEF ClaimUnused, AllEditions
<1>3. parts \in Seq(AskedOf(v, {"mint", "part"})) /\ (Coherent(parts) \/ Several(parts))
  BY PartsAsked
<1>4. take1.op = "take" /\ take1.number = 1 /\ take2.op = "take" /\ take2.number = 2
  BY DEF Tx
<1>5. (~noPart => take1 \in Asked(v)) /\ (~noMaster => take2 \in Asked(v))
  BY PlainAsked, Constants
<1>. HIDE DEF take1, take2
<1>6. PICK s1 : s1 = Unless(noPart, parts \o <<take1>>)
  OBVIOUS
<1>7. s1 \in Seq(A) /\ (Coherent(s1) \/ Several(s1))
  <2>1. CASE noPart
    <3>1. s1 = << >>
      BY <1>6, <2>1 DEF Unless
    <3>. QED  BY <3>1, ShortCoherent
  <2>2. CASE ~noPart
    <3>. DEFINE B == AskedOf(v, {"mint", "part"})
                D == {t \in Asked(v) : t.op = "take" /\ t.number = 1}
    <3>1. s1 = parts \o <<take1>>
      BY <1>6, <2>2 DEF Unless
    <3>2. take1 \in D
      BY <1>4, <1>5, <2>2
    <3>3. B \cup D \subseteq A
      BY DEF AskedOf
    <3>4. \A a \in B, b \in D : Follows(a, b)
      <4>1. (\A a \in B : a.op \in {"mint", "part"}) /\ (\A b \in D : b.op = "take")
        BY DEF AskedOf
      <4>. HIDE DEF B, D
      <4>. QED  BY <4>1, FollowsByKind
    <3>. HIDE DEF A, B, D, noPart
    <3>5. PICK q : q = <<take1>>
      OBVIOUS
    <3>6. q \in Seq(D) /\ Coherent(q)
      BY <1>4, <3>2, <3>5, OneIs
    <3>7. parts \in Seq(B)
      BY <1>3 DEF B
    <3>8. s1 \in Seq(B \cup D) /\ IsJoined(s1, parts, q) /\ (Coherent(parts) /\ Coherent(q) => Coherent(s1))
      BY <3>1, <3>4, <3>5, <3>6, <3>7, JoinedKinds
    <3>9. s1 \in Seq(A)
      BY <3>3, <3>8, SeqMonotonic
    <3>10. Several(parts) => Several(s1)
      BY <3>8, SeveralJoined
    <3>. QED  BY <1>3, <3>6, <3>8, <3>9, <3>10
  <2>. QED  BY <2>1, <2>2
<1>8. PICK s2 : s2 = Unless(noMaster, AllEditions(v))
  OBVIOUS
<1>9. /\ s2 \in Seq(P) /\ Coherent(s2)
      /\ ~noMaster => s2 = AllEditions(v)
  <2>1. PICK all : all = AllEditions(v)
    OBVIOUS
  <2>2. all \in Seq(P) /\ Coherent(all)
    BY <2>1, EditionsOfAll
  <2>. HIDE DEF P, noMaster
  <2>. QED  BY <1>8, <2>1, <2>2, UnlessList
<1>10. PICK s3 : s3 = TakeBoxes(v)
  OBVIOUS
<1>11. s3 \in Seq(X) /\ Coherent(s3)
  BY <1>10, BoxesAsked
<1>12. PICK s4 : s4 = Unless(noMaster, <<take2>>)
  OBVIOUS
<1>13. s4 \in Seq(Z) /\ Coherent(s4) /\ (noMaster => s4 = << >>)
  <2>1. noMaster \/ take2 \in Z
    BY <1>4, <1>5
  <2>. HIDE DEF Z, noMaster
  <2>2. s4 \in Seq(Z) /\ Coherent(s4)
    BY <1>4, <1>12, <2>1, UnlessOne
  <2>. QED  BY <1>12, <2>2 DEF Unless
<1>14. /\ \A a \in A, b \in P : Follows(a, b)
       /\ \A a \in A \cup P, b \in X : Follows(a, b)
       /\ \A a \in A \cup P \cup X, b \in Z : Follows(a, b)
  <2>1. /\ \A t \in A : t.op \in {"mint", "part"} \/ (t.op = "take" /\ t.number = 1)
        /\ \A t \in P : t.op = "print"
        /\ \A t \in X : t.op = "box"
        /\ \A t \in Z : t.op = "take" /\ t.number # 1
    BY DEF AskedOf
  <2>. HIDE DEF A, P, X, Z
  <2>2. \A a \in A, b \in P : Follows(a, b)
    BY <2>1 DEF Follows
  <2>3. \A a \in A \cup P, b \in X : Follows(a, b)
    BY <2>1 DEF Follows
  <2>4. \A a \in A \cup P \cup X, b \in Z : Follows(a, b)
    BY <2>1 DEF Follows
  <2>. QED  BY <2>2, <2>3, <2>4
<1>15. A \cup P \cup X \cup Z \subseteq AskedThen(v)
  BY DEF AskedOf, AskedThen
<1>16. /\ \A t \in A \cup P \cup X : ~(t.op = "take" /\ t.number # 1)
       /\ \A t \in P : t.op = "print"
  BY DEF AskedOf
<1>. HIDE DEF A, P, X, Z
<1>17. PICK w : w = s1 \o s2
  OBVIOUS
<1>18. w \in Seq(A \cup P) /\ IsJoined(w, s1, s2) /\ (Coherent(s1) => Coherent(w))
  BY <1>7, <1>9, <1>14, <1>17, JoinedKinds
<1>19. PICK x : x = w \o s3
  OBVIOUS
<1>20. x \in Seq(A \cup P \cup X) /\ IsJoined(x, w, s3) /\ (Coherent(w) => Coherent(x))
  BY <1>11, <1>14, <1>18, <1>19, JoinedKinds
<1>21. PICK y : y = x \o s4
  OBVIOUS
<1>22. y \in Seq(A \cup P \cup X \cup Z) /\ IsJoined(y, x, s4) /\ (Coherent(x) => Coherent(y))
  BY <1>13, <1>14, <1>20, <1>21, JoinedKinds
<1>23. y = ClaimUnused(v, parts)
  BY <1>2, <1>6, <1>8, <1>10, <1>12, <1>17, <1>19, <1>21
<1>24. y \in Seq(AskedThen(v))
  BY <1>15, <1>22, SeqMonotonic
<1>25. Coherent(y) \/ Several(y)
  <2>1. Several(s1) => Several(y)
    BY <1>18, <1>20, <1>22, SeveralJoined
  <2>. QED  BY <1>7, <1>18, <1>20, <1>22, <2>1
<1>26. LastTakes(v, y)
  <2>. SUFFICES ASSUME NEW j \in DOMAIN y, y[j].op = "take" /\ y[j].number # 1, NEW place \in Won,
                       NEW k \in 1 .. Prints[place], Desired(v, place, k - 1) \notin Taken
                PROVE  \E i \in 1 .. (j - 1) : y[i].op = "print" /\ y[i].number = Desired(v, place, k - 1)
    BY DEF LastTakes
  <2>0. PICK n \in Nat : n = Len(x)
    BY <1>20 DEF IsJoined
  <2>1. j \notin DOMAIN x
    <3>. SUFFICES ASSUME j \in DOMAIN x PROVE FALSE
      OBVIOUS
    <3>1. y[j] = x[j]
      BY <1>22 DEF IsJoined
    <3>2. x[j] \in A \cup P \cup X
      BY <1>20
    <3>. QED  BY <1>16, <3>1, <3>2
  <2>2. DOMAIN x = 1 .. n /\ j \in Nat /\ j >= 1 /\ j > n
    <3>1. DOMAIN x = 1 .. n /\ DOMAIN y = 1 .. Len(y)
      BY <1>22, <2>0 DEF IsJoined
    <3>. QED  BY <2>0, <2>1, <3>1
  <2>3. ~noMaster
    <3>. SUFFICES ASSUME noMaster PROVE FALSE
      OBVIOUS
    <3>1. DOMAIN s4 = {}
      BY <1>13
    <3>2. j - n \in DOMAIN s4
      BY <1>22, <2>0, <2>1 DEF IsJoined
    <3>. QED  BY <3>1, <3>2
  <2>4. PICK h \in DOMAIN s2 : s2[h].number = Desired(v, place, k - 1)
    BY <1>9, <2>3, EditionsOfAll
  <2>5. s2[h].op = "print"
    BY <1>9, <1>16
  <2>6. PICK g \in DOMAIN w : w[g] = s2[h]
    BY <1>18 DEF IsJoined
  <2>7. g \in DOMAIN x /\ x[g] = s2[h]
    BY <1>20, <2>6 DEF IsJoined
  <2>8. y[g] = s2[h]
    BY <1>22, <2>7 DEF IsJoined
  <2>9. g \in 1 .. (j - 1)
    BY <2>2, <2>7
  <2>. QED  BY <2>4, <2>5, <2>8, <2>9
<1>. QED  BY <1>23, <1>24, <1>25, <1>26

\* Unless it has ended already, the auction is ended first.
EndsFirst(v, list) == ~v.over => 1 \in DOMAIN list /\ list[1].op = "end"

\* The end of the auction goes before such a list.
LEMMA EndedAsked ==
  ASSUME NEW v \in Views, NEW p \in Pages, NEW list \in Seq(AskedThen(v)),
         Coherent(list) \/ Several(list), LastTakes(v, list)
  PROVE  LET all == EndAuction(v, p) \o list
         IN  /\ all \in Seq(Asked(v)) /\ EndsFirst(v, all)
             /\ Coherent(all) \/ Several(all)
             /\ LastTakes(v, all)
             /\ PartLast(list) => PartLast(all)
<1>. DEFINE E == AskedOf(v, {"end"})
            T == AskedThen(v)
            t == Tx("end", p, 0, 0)
<1>1. PICK e : e = EndAuction(v, p)
  OBVIOUS
<1>2. t \in Transactions /\ t.op = "end"
  <2>1. "end" \in Ops /\ 0 \in Nat /\ 0 \in Int
    BY DEF Ops
  <2>. QED  BY <2>1, TxIs
<1>3. ~v.over => t \in E
  <2>. HIDE DEF t
  <2>1. t \in LawfulTxs
    BY <1>2 DEF LawfulTxs, Lawful
  <2>. QED  BY <1>2, <2>1 DEF Asked, AskedOf
<1>4. e = Unless(v.over, <<t>>)
  BY <1>1 DEF EndAuction
<1>. HIDE DEF t, E, T
<1>5. e \in Seq(E) /\ Coherent(e)
  BY <1>2, <1>3, <1>4, UnlessOne
<1>6. ~v.over => 1 \in DOMAIN e /\ e[1].op = "end"
  BY <1>2, <1>4, UnlessOne
<1>7. PICK all : all = e \o list
  OBVIOUS
<1>8. /\ \A a \in E : a.op = "end" /\ a \in Asked(v)
      /\ \A b \in T : b.op # "end" /\ b \in Asked(v)
  BY DEF E, T, AskedOf, AskedThen
<1>9. \A a \in E, b \in T : Follows(a, b)
  BY <1>8, FollowsByKind
<1>10. /\ all \in Seq(E \cup T) /\ IsJoined(all, e, list)
       /\ Coherent(list) => Coherent(all)
  BY <1>5, <1>7, <1>9, JoinedKinds DEF T
<1>11. all \in Seq(Asked(v))
  <2>1. E \cup T \subseteq Asked(v)
    BY <1>8
  <2>. QED  BY <1>10, <2>1, SeqMonotonic
<1>12. PICK n \in Nat, m \in Nat : n = Len(e) /\ m = Len(list)
  BY <1>10 DEF IsJoined
<1>13. /\ Len(all) = n + m /\ DOMAIN e = 1 .. n /\ DOMAIN list = 1 .. m /\ DOMAIN all = 1 .. (n + m)
       /\ \A i \in 1 .. n : all[i] = e[i]
       /\ \A j \in 1 .. m : n + j \in DOMAIN all /\ all[n + j] = list[j]
       /\ \A k \in DOMAIN all : (k \in 1 .. n /\ all[k] = e[k]) \/ (k - n \in 1 .. m /\ all[k] = list[k - n])
  BY <1>10, <1>12 DEF IsJoined
<1>14. \A i \in 1 .. n : e[i].op = "end"
  BY <1>5, <1>8, <1>13
<1>15. EndsFirst(v, all)
  BY <1>6, <1>13 DEF EndsFirst
<1>16. Several(list) => Several(all)
  <2>. SUFFICES ASSUME NEW i \in 1 .. m, NEW j \in 1 .. m, i # j, list[i].op = "part", list[j].op = "part"
                PROVE  Several(all)
    BY <1>13 DEF Several
  <2>1. n + i # n + j
    OBVIOUS
  <2>. QED  BY <1>13, <2>1 DEF Several
<1>17. LastTakes(v, all)
  <2>. SUFFICES ASSUME NEW j \in DOMAIN all, all[j].op = "take" /\ all[j].number # 1, NEW place \in Won,
                       NEW k \in 1 .. Prints[place], Desired(v, place, k - 1) \notin Taken
                PROVE  \E i \in 1 .. (j - 1) : all[i].op = "print" /\ all[i].number = Desired(v, place, k - 1)
    BY DEF LastTakes
  <2>1. j - n \in 1 .. m /\ all[j] = list[j - n]
    BY <1>13, <1>14
  <2>2. PICK i \in 1 .. (j - n - 1) : list[i].op = "print" /\ list[i].number = Desired(v, place, k - 1)
    BY <1>13, <2>1 DEF LastTakes
  <2>3. i \in 1 .. m /\ n + i \in 1 .. (j - 1)
    BY <1>13, <2>1
  <2>4. all[n + i] = list[i]
    BY <1>13, <2>3
  <2>. QED  BY <2>2, <2>3, <2>4
<1>18. ASSUME PartLast(list), NEW k \in DOMAIN all, all[k].op = "part" PROVE k = Len(all) - 1
  <2>1. k - n \in 1 .. m /\ all[k] = list[k - n]
    BY <1>13, <1>14, <1>18
  <2>2. k - n = m - 1
    BY <1>12, <1>13, <1>18, <2>1 DEF PartLast
  <2>. QED  BY <1>13, <2>2
<1>19. PartLast(list) => PartLast(all)
  BY <1>18 DEF PartLast
<1>. QED  BY <1>1, <1>7, <1>10, <1>11, <1>15, <1>16, <1>17, <1>19

\* Whoever clicks, and whatever the page shows.
LEMMA ListAsked ==
  ASSUME auction \in Outcomes, NEW v \in Views, NEW p \in Pages, NEW list \in ListsOf(p, v)
  PROVE  /\ list \in Seq(Asked(v)) /\ EndsFirst(v, list)
         /\ Coherent(list) \/ Several(list)
         /\ LastTakes(v, list)
         /\ p # Seller => PartLast(list)
<1>1. CASE p = Seller
  <2>1. PICK parts \in Interleaved(v) : list = EndAuction(v, p) \o ClaimUnused(v, parts)
    BY <1>1 DEF ListsOf
  <2>2. PICK l : l = ClaimUnused(v, parts)
    OBVIOUS
  <2>3. l \in Seq(AskedThen(v)) /\ (Coherent(l) \/ Several(l)) /\ LastTakes(v, l)
    BY <2>2, ClaimUnusedAsked
  <2>. QED  BY <1>1, <2>1, <2>2, <2>3, EndedAsked
<1>2. CASE p # Seller
  <2>1. p \in Bidders
    BY <1>2 DEF Pages
  <2>2. list = EndAuction(v, p) \o Redeem(v, p)
    BY <1>2 DEF ListsOf
  <2>3. PICK l : l = Redeem(v, p)
    OBVIOUS
  <2>4. l \in Seq(AskedThen(v)) /\ Coherent(l) /\ PartLast(l) /\ \A i \in DOMAIN l : l[i].op # "take"
    BY <2>1, <2>3, RedeemAsked
  <2>5. LastTakes(v, l)
    BY <2>4 DEF LastTakes
  <2>. QED  BY <1>2, <2>2, <2>3, <2>4, <2>5, EndedAsked
<1>. QED  BY <1>1, <1>2

\* Whoever clicks, and whatever the page shows, the list asks for what the
\* auction gives.
LEMMA ListLawful ==
  ASSUME auction \in Outcomes, NEW v \in Views, NEW p \in Pages, NEW list \in ListsOf(p, v)
  PROVE  list \in Lists
<1>1. Asked(v) \subseteq LawfulTxs
  BY DEF Asked
<1>2. list \in Seq(Asked(v))
  BY ListAsked
<1>. QED  BY <1>1, <1>2, SeqMonotonic DEF Lists

\* Who is eligible for anything is a bidder, and no seller.
LEMMA EligibleBids ==
  ASSUME auction \in Outcomes, NEW v, NEW p, EligibleForAnything(v, p)
  PROVE  p # Seller
<1>1. Winners \subseteq Bidders
  BY WonAre, BidsAre DEF Winners
<1>2. Eligible \subseteq Bidders
  BY <1>1, BidsAre DEF Eligible
<1>. QED  BY <1>1, <1>2, Constants DEF EligibleForAnything, IsEligible

\* What a page knows, be it up to date or not.
LEMMA ViewsAre ==
  ASSUME RedeemTyped
  PROVE  Current \in Views /\ Older \subseteq Views
<1>1. SupplyNow \in Int /\ PartSupply \in Int
  <2>1. Cardinality(printed) \in Nat /\ Cardinality(part) \in Nat
    BY FS_CardinalityType DEF RedeemTyped
  <2>. QED  BY <2>1, Constants DEF SupplyNow, PartSupply
<1>2. GivenBox \subseteq Places /\ HasPart \subseteq Pages /\ {b \in Bidders : pot[b] = "refunded"} \subseteq Bidders
  BY DEF GivenBox, HasPart, RedeemTyped
<1>3. ticket \in Int /\ NoTicket \in Int /\ Supply \in Int /\ over \in BOOLEAN
  BY Constants DEF RedeemTyped
<1>4. Current \in Views
  BY <1>1, <1>2, <1>3 DEF Current, Views
<1>. HIDE DEF Current
<1>5. ASSUME NEW v \in Views
      PROVE  /\ [v EXCEPT !.over = FALSE] \in Views
             /\ [v EXCEPT !.ticket = NoTicket] \in Views
             /\ [v EXCEPT !.supply = Supply] \in Views
             /\ [v EXCEPT !.ticket = NoTicket, !.supply = Supply] \in Views
             /\ [v EXCEPT !.given = {}] \in Views
             /\ [v EXCEPT !.part = {}] \in Views
             /\ [v EXCEPT !.partSupply = 0] \in Views
  <2>1. [v EXCEPT !.ticket = NoTicket] \in Views
    BY <1>3 DEF Views
  <2>2. [v EXCEPT !.supply = Supply] \in Views
    BY <1>3 DEF Views
  <2>3. [v EXCEPT !.ticket = NoTicket, !.supply = Supply] \in Views
    BY <1>3 DEF Views
  <2>4. [v EXCEPT !.given = {}] \in Views
    BY DEF Views
  <2>5. [v EXCEPT !.part = {}] \in Views
    BY DEF Views
  <2>6. [v EXCEPT !.partSupply = 0] \in Views
    BY DEF Views
  <2>7. [v EXCEPT !.over = FALSE] \in Views
    BY DEF Views
  <2>. QED  BY <2>1, <2>2, <2>3, <2>4, <2>5, <2>6, <2>7
<1>. DEFINE c == Current
<1>6. c \in Views
  BY <1>4
<1>7. Older = {[c EXCEPT !.over = FALSE],
               [c EXCEPT !.ticket = NoTicket], [c EXCEPT !.supply = Supply],
               [c EXCEPT !.ticket = NoTicket, !.supply = Supply],
               [c EXCEPT !.given = {}], [c EXCEPT !.part = {}], [c EXCEPT !.partSupply = 0]}
  BY DEF Older
<1>. HIDE DEF c
<1>8. Older \subseteq Views
  BY <1>5, <1>6, <1>7
<1>. QED  BY <1>6, <1>8 DEF c

-----------------------------------------------------------------------------
(* The loop.                                                                *)

\* A page that sends nothing.
LEMMA IdleTyped == Idle \in Runs /\ Stands(Idle) /\ Idle.at = 0 /\ ~Idle.retry
<1>1. << >> \in Lists /\ << >> \in Seq(Nat) /\ Len(<< >>) = 0
  BY DEF Lists
<1>2. Idle \in Runs
  BY <1>1 DEF Idle, Runs
<1>3. Idle.at = 0 /\ Idle.list = << >> /\ Idle.failed = << >> /\ ~Idle.retry
  BY DEF Idle
<1>4. DOMAIN << >> = {}
  OBVIOUS
<1>. QED  BY <1>1, <1>2, <1>3, <1>4 DEF Stands

\* The fields of a run.
LEMMA RunFields ==
  ASSUME NEW r \in Runs
  PROVE  /\ r.list \in Lists /\ r.at \in Nat /\ r.failed \in Seq(Nat) /\ r.stop \in Nat
         /\ r.tries \in Nat /\ r.last \in Nat /\ r.minted \subseteq Pages /\ r.retry \in BOOLEAN
         /\ Len(r.list) \in Nat /\ Len(r.failed) \in Nat
BY DEF Runs, Lists

\* A run that starts over with another list.
LEMMA RunWith ==
  ASSUME NEW r \in Runs, NEW left \in Lists, left # << >>, NEW n \in Nat
  PROVE  LET s == [r EXCEPT !.list = left, !.at = 1, !.failed = <<>>, !.last = Len(left), !.tries = n]
         IN  /\ s \in Runs /\ Stands(s)
             /\ s.list = left /\ s.at = 1 /\ s.failed = << >> /\ s.minted = r.minted /\ s.stop = r.stop
             /\ s.retry = r.retry
<1>. DEFINE s == [r EXCEPT !.list = left, !.at = 1, !.failed = <<>>, !.last = Len(left), !.tries = n]
<1>1. << >> \in Seq(Nat) /\ Len(<< >>) = 0 /\ DOMAIN << >> = {} /\ Len(left) \in Nat /\ 1 \in 0 .. Len(left)
  BY DEF Lists
<1>2. s \in Runs
  BY <1>1 DEF Runs
<1>3. /\ s.list = left /\ s.at = 1 /\ s.failed = << >> /\ s.minted = r.minted /\ s.stop = r.stop
      /\ s.retry = r.retry
  BY DEF Runs
<1>. HIDE DEF s
<1>4. Stands(s)
  BY <1>1, <1>3 DEF Stands
<1>. QED  BY <1>2, <1>3, <1>4 DEF s

\* A turn sends what is left of the list, or the loop is over.
LEMMA TurnTyped ==
  ASSUME NEW r \in Runs
  PROVE  Turn(r) \in Runs /\ Stands(Turn(r)) /\ (Turn(r).retry => r.retry)
<1>. DEFINE left == SubSeq(r.list, r.stop + 1, Len(r.list))
            tries == IF Len(left) = r.last THEN r.tries + 1 ELSE 0
<1>1. left \in Lists
  <2>1. r.list \in Seq(LawfulTxs) /\ r.stop + 1 \in Nat /\ r.stop + 1 >= 1 /\ Len(r.list) \in Nat
    BY RunFields DEF Lists
  <2>2. r.stop + 1 \in 1 .. Len(r.list) + 1 \/ r.stop + 1 > Len(r.list)
    BY <2>1
  <2>. QED  BY <2>1, <2>2, SubSeqProperties DEF Lists
<1>2. tries \in Nat
  BY RunFields
<1>. HIDE DEF left, tries
<1>3. CASE left = <<>> \/ r.tries >= MaxTries
  BY <1>3, IdleTyped DEF Turn, left
<1>4. CASE ~(left = <<>> \/ r.tries >= MaxTries)
  <2>. DEFINE s == [r EXCEPT !.list = left, !.at = 1, !.failed = <<>>, !.last = Len(left), !.tries = tries]
  <2>1. s \in Runs /\ Stands(s)
    BY <1>1, <1>2, <1>4, RunWith
  <2>2. s.retry = r.retry
    BY DEF Runs
  <2>3. Turn(r) = s
    BY <1>4 DEF Turn, left, tries
  <2>. QED  BY <2>1, <2>2, <2>3
<1>. QED  BY <1>3, <1>4

\* The end of a turn.
LEMMA EndsTyped ==
  ASSUME NEW r \in Runs
  PROVE  Ends(r) \in Runs /\ Stands(Ends(r)) /\ (Ends(r).retry => r.retry)
BY TurnTyped, IdleTyped DEF Ends

\* An answer takes a run one further, or to the end of its turn.
LEMMA ToldTyped ==
  ASSUME RedeemTyped, NEW p \in Pages, Sending(p), NEW landed \in BOOLEAN, NEW resolved \in BOOLEAN
  PROVE  /\ Told(p, landed, resolved) \in Runs /\ Stands(Told(p, landed, resolved))
         /\ Told(p, landed, resolved).retry => p # Seller
<1>. DEFINE r == run[p]
            t == r.list[r.at]
            failed == IF resolved THEN r.failed ELSE Append(r.failed, r.at)
            minted == IF t.op = "mint" /\ landed THEN r.minted \cup {t.of} ELSE r.minted
            s == [r EXCEPT !.failed = failed, !.minted = minted]
<1>1. r \in Runs /\ Stands(r) /\ r.at # 0 /\ (r.retry => p # Seller)
  BY DEF RedeemTyped, Sending
<1>. HIDE DEF r
<1>2. r.at \in 1 .. Len(r.list) /\ r.at \in Nat
  BY <1>1, RunFields DEF Stands
<1>3. t \in LawfulTxs /\ t.of \in Pages
  <2>1. t \in LawfulTxs
    BY <1>1, <1>2, RunFields DEF Lists
  <2>. HIDE DEF t
  <2>. QED  BY <2>1 DEF LawfulTxs, Transactions
<1>. HIDE DEF t
<1>4. /\ failed \in Seq(Nat) /\ Len(failed) \in Nat /\ Len(failed) <= 2
      /\ \A i \in DOMAIN failed : failed[i] \in 1 .. Len(r.list)
  <2>1. r.failed \in Seq(Nat) /\ Len(r.failed) <= 1 /\ \A i \in DOMAIN r.failed : r.failed[i] \in 1 .. Len(r.list)
    BY <1>1, RunFields DEF Stands
  <2>2. CASE resolved
    BY <2>1, <2>2
  <2>3. CASE ~resolved
    <3>. DEFINE f == Append(r.failed, r.at)
    <3>1. /\ f \in Seq(Nat) /\ Len(f) = Len(r.failed) + 1 /\ f[Len(r.failed) + 1] = r.at
          /\ \A i \in 1 .. Len(r.failed) : f[i] = r.failed[i]
      BY <1>2, <2>1, AppendProperties
    <3>2. failed = f
      BY <2>3
    <3>. HIDE DEF f, failed
    <3>3. DOMAIN f = 1 .. Len(r.failed) + 1 /\ DOMAIN r.failed = 1 .. Len(r.failed) /\ Len(r.failed) \in Nat
      BY <2>1, <3>1
    <3>. QED  BY <1>2, <2>1, <3>1, <3>2, <3>3
  <2>. QED  BY <2>2, <2>3
<1>5. minted \subseteq Pages
  BY <1>1, <1>3, RunFields
<1>. HIDE DEF failed, minted
<1>6. /\ s \in Runs /\ s.list = r.list /\ s.at = r.at /\ s.failed = failed /\ s.minted = minted /\ s.stop = r.stop
      /\ s.retry = r.retry
  <2>1. s \in Runs
    BY <1>1, <1>4, <1>5 DEF Runs
  <2>2. /\ s.list = r.list /\ s.at = r.at /\ s.failed = failed /\ s.minted = minted /\ s.stop = r.stop
        /\ s.retry = r.retry
    BY <1>1 DEF Runs
  <2>. QED  BY <2>1, <2>2
<1>. HIDE DEF s
<1>7. \A n \in Nat : [s EXCEPT !.stop = n] \in Runs /\ [s EXCEPT !.stop = n].retry = r.retry
  BY <1>6 DEF Runs
<1>8. CASE Len(r.list) = 1
  <2>. DEFINE x == IF resolved THEN [s EXCEPT !.stop = 1] ELSE s
  <2>0. x \in Runs /\ x.retry = r.retry
    BY <1>6, <1>7
  <2>. HIDE DEF x
  <2>1. Ends(x) \in Runs /\ Stands(Ends(x)) /\ (Ends(x).retry => p # Seller)
    BY <1>1, <2>0, EndsTyped
  <2>. USE DEF x
  <2>2. Told(p, landed, resolved) = Ends(x)
    BY <1>8 DEF Told, r, t, failed, minted, s
  <2>. QED  BY <2>1, <2>2
<1>9. CASE Len(r.list) # 1 /\ Len(failed) = 2
  <2>. DEFINE x == [s EXCEPT !.stop = failed[1] - 1]
  <2>1. failed[1] - 1 \in Nat
    BY <1>4, <1>9
  <2>2. x \in Runs /\ x.retry = r.retry
    BY <1>7, <2>1
  <2>3. Told(p, landed, resolved) = Ends(x)
    BY <1>9 DEF Told, r, t, failed, minted, s
  <2>. HIDE DEF x
  <2>. QED  BY <1>1, <2>2, <2>3, EndsTyped
<1>10. CASE Len(r.list) # 1 /\ Len(failed) # 2 /\ r.at = Len(r.list)
  <2>. DEFINE x == [s EXCEPT !.stop = Len(r.list)]
  <2>1. x \in Runs /\ x.retry = r.retry
    BY <1>1, <1>7, RunFields
  <2>2. Told(p, landed, resolved) = Ends(x)
    BY <1>10 DEF Told, r, t, failed, minted, s
  <2>. HIDE DEF x
  <2>. QED  BY <1>1, <2>1, <2>2, EndsTyped
<1>11. CASE Len(r.list) # 1 /\ Len(failed) # 2 /\ r.at # Len(r.list)
  <2>. DEFINE n == r.at + 1
              u == [s EXCEPT !.at = n]
  <2>1. n \in Nat /\ n \in 0 .. Len(r.list)
    BY <1>1, <1>2, <1>11, RunFields
  <2>. HIDE DEF n
  <2>2. u \in Runs /\ u.at = n /\ u.list = r.list /\ u.failed = failed /\ u.retry = r.retry
    BY <1>6, <2>1 DEF Runs
  <2>. HIDE DEF u
  <2>3. Stands(u)
    <3>0. PICK m \in Nat : m = Len(failed)
      BY <1>4
    <3>1. Len(failed) <= 1
      <4>1. m <= 2
        BY <1>4, <3>0
      <4>2. m # 2
        BY <1>11, <3>0
      <4>3. m <= 1
        BY <4>1, <4>2
      <4>. QED  BY <3>0, <4>3
    <3>2. u.at \in 0 .. Len(u.list) /\ Len(u.failed) <= 1
      BY <2>1, <2>2, <3>1
    <3>3. \A i \in DOMAIN u.failed : u.failed[i] \in 1 .. Len(u.list)
      BY <1>4, <2>2
    <3>. QED  BY <3>2, <3>3 DEF Stands
  <2>4. Told(p, landed, resolved) = u
    BY <1>11 DEF Told, r, t, failed, minted, s, u, n
  <2>. QED  BY <1>1, <2>2, <2>3, <2>4
<1>. QED  BY <1>8, <1>9, <1>10, <1>11

-----------------------------------------------------------------------------
(* The steps.                                                               *)

\* A step of a page that leaves the chain as it is.
LEMMA PageStepKeeps ==
  ASSUME RedeemInv, NEW p \in Pages, NEW r \in Runs, Stands(r), r.retry => p # Seller,
         run' = [run EXCEPT ![p] = r], UNCHANGED chain
  PROVE  RedeemInv'
<1>1. /\ auction' = auction /\ printed' = printed /\ ticket' = ticket /\ box' = box
      /\ pot' = pot /\ part' = part /\ out' = out /\ over' = over
  BY DEF chain
<1>2. run' \in [Pages -> Runs] /\ \A q \in Pages : Stands(run'[q]) /\ (run'[q].retry => q # Seller)
  BY DEF RedeemInv, RedeemTyped
<1>3. RedeemTyped'
  <2>1. Runs' = Runs
    BY <1>1 DEF Runs, Lists, LawfulTxs, Lawful, BoxOf, Winners, Won
  <2>. QED  BY <1>1, <1>2, <2>1 DEF RedeemInv, RedeemTyped, Stands
<1>4. Won' = Won /\ Winners' = Winners
  BY <1>1 DEF Won, Winners
<1>5. TicketFirst' /\ EditionsByPlace'
  BY <1>1, <1>4 DEF RedeemInv, TicketFirst, EditionsByPlace, Offset
<1>6. BoxesByPlace' /\ PotsByPlace'
  BY <1>1, <1>4 DEF RedeemInv, BoxesByPlace, PotsByPlace
<1>. QED  BY <1>3, <1>5, <1>6 DEF RedeemInv

\* A click makes a lawful list and touches nothing on the chain.
LEMMA ClickKeeps ==
  ASSUME RedeemInv, NEW p \in Pages, NEW v \in Views, Click(p, v)
  PROVE  RedeemInv'
<1>. DEFINE loop == EligibleForAnything(v, p)
<1>1. PICK list \in ListsOf(p, v) :
        run' = [run EXCEPT ![p] = Turn([Idle EXCEPT !.list = list, !.retry = loop])]
  BY DEF Click
<1>2. loop \in BOOLEAN /\ (loop => p # Seller)
  <2>1. loop \in BOOLEAN
    BY DEF EligibleForAnything, IsEligible
  <2>. QED  BY <2>1, EligibleBids DEF RedeemInv, RedeemTyped
<1>. HIDE DEF loop
<1>. DEFINE r == [Idle EXCEPT !.list = list, !.retry = loop]
<1>3. list \in Lists
  BY ListLawful DEF RedeemInv, RedeemTyped
<1>4. r \in Runs /\ r.retry = loop
  BY <1>2, <1>3, IdleTyped DEF Runs
<1>5. run' = [run EXCEPT ![p] = Turn(r)] /\ UNCHANGED chain
  BY <1>1 DEF Click
<1>. HIDE DEF r
<1>6. Turn(r) \in Runs /\ Stands(Turn(r)) /\ (Turn(r).retry => p # Seller)
  BY <1>2, <1>4, TurnTyped
<1>. QED  BY <1>5, <1>6, PageStepKeeps

\* What a page is about to send is lawful.
LEMMA NextTxLawful ==
  ASSUME RedeemTyped, NEW p \in Pages, Sending(p)
  PROVE  NextTx(p) \in LawfulTxs
<1>1. run[p] \in Runs /\ Stands(run[p]) /\ run[p].at # 0
  BY DEF RedeemTyped, Sending
<1>2. run[p].list \in Seq(LawfulTxs) /\ run[p].at \in 1 .. Len(run[p].list)
  BY <1>1, RunFields DEF Stands, Lists
<1>. QED  BY <1>2 DEF NextTx

\* The number that the editions of the places count from.
LEMMA CountsFrom ==
  ASSUME RedeemInv
  PROVE  (IF ticket # NoTicket THEN ticket ELSE SupplyNow) = Supply
<1>1. CASE ticket # NoTicket
  BY <1>1 DEF RedeemInv, RedeemTyped
<1>2. CASE ticket = NoTicket
  <2>1. printed = {} /\ Cardinality({}) = 0
    BY <1>2, FS_EmptySet DEF RedeemInv, TicketFirst
  <2>. QED  BY <1>2, <2>1, Constants DEF SupplyNow
<1>. QED  BY <1>1, <1>2

\* A lawful transaction that is accepted gives what the auction gives.
LEMMA EffectKeeps ==
  ASSUME RedeemInv, NEW p \in Pages, NEW t \in LawfulTxs, Accepted(p, t), Effect(p, t)
  PROVE  /\ printed' \subseteq Editions /\ IsFiniteSet(printed')
         /\ part' \subseteq [of : Pages, number : Int] /\ IsFiniteSet(part')
         /\ ticket' \in {NoTicket, Supply} /\ out' \subseteq {"part", "master"}
         /\ box' \in [Places -> {"vault", "none"} \cup Pages]
         /\ pot' \in [Bidders -> {"none", "full", "claimed", "refunded"}]
         /\ TicketFirst' /\ EditionsByPlace' /\ BoxesByPlace' /\ PotsByPlace'
<1>0. t \in Transactions /\ Lawful(t)
  BY DEF LawfulTxs
<1>1. t.op \in Ops /\ t.of \in Pages /\ t.place \in Nat /\ t.number \in Int
  BY <1>0 DEF Transactions
<1>2. auction' = auction /\ Won' = Won /\ Winners' = Winners
  BY DEF Effect, Won, Winners
<1>3. RedeemTyped
  BY DEF RedeemInv
<1>. DEFINE e == [of |-> t.of, place |-> t.place, number |-> t.number]
            base == IF ticket # NoTicket THEN ticket ELSE SupplyNow
<1>4. base = Supply
  BY CountsFrom
<1>5. CASE t.op = "print"
  <2>1. printed' = printed \cup {e} /\ ticket' = Supply
    BY <1>3, <1>4, <1>5 DEF Effect, RedeemTyped
  <2>2. part' = part /\ out' = out /\ box' = box /\ pot' = pot
    BY <1>5 DEF Effect
  <2>3. e \in Editions
    BY <1>1 DEF Editions
  <2>4. printed' \subseteq Editions /\ IsFiniteSet(printed')
    BY <1>3, <2>1, <2>3, FS_AddElement DEF RedeemTyped
  <2>5. ticket' \in {NoTicket, Supply} /\ TicketFirst'
    BY <2>1, Constants DEF TicketFirst
  <2>6. t.place \in Won /\ t.of = auction.bids[t.place]
    BY <1>0, <1>5 DEF Lawful
  <2>7. PICK k \in 0 .. (Prints[t.place] - 1) : t.number = base + Offset(t.place) + k
    BY <1>5 DEF Accepted
  <2>8. Prints[t.place] \in Nat /\ Offset(t.place) \in Nat /\ Supply \in Nat
    BY <1>3, <2>6, WonAre, Constants, OffsetsAre DEF RedeemTyped
  <2>9. t.number - Supply \in Offset(t.place) .. (Offset(t.place) + Prints[t.place] - 1)
    <3>1. t.number = Supply + Offset(t.place) + k
      BY <1>4, <2>7
    <3>. HIDE DEF base
    <3>. QED  BY <2>8, <3>1
  <2>10. EditionsByPlace'
    <3>1. \A q \in printed : /\ q.place \in Won /\ q.of = auction.bids[q.place]
                             /\ q.number - Supply \in (Offset(q.place)..(Offset(q.place) + Prints[q.place] - 1))
      BY DEF RedeemInv, EditionsByPlace
    <3>2. e.place = t.place /\ e.of = t.of /\ e.number = t.number
      OBVIOUS
    <3>3. \A q \in printed' : q \in printed \/ q = e
      BY <2>1
    <3>4. \A q \in printed' : /\ q.place \in Won /\ q.of = auction.bids[q.place]
                              /\ q.number - Supply \in (Offset(q.place)..(Offset(q.place) + Prints[q.place] - 1))
      BY <2>6, <2>9, <3>1, <3>2, <3>3
    <3>. QED  BY <1>2, <3>4 DEF EditionsByPlace, Offset
  <2>. QED  BY <1>2, <1>3, <2>2, <2>4, <2>5, <2>10 DEF RedeemInv, RedeemTyped, BoxesByPlace, PotsByPlace
<1>6. ASSUME t.op # "print"
      PROVE  /\ printed' = printed /\ ticket' = ticket /\ TicketFirst' /\ EditionsByPlace'
  <2>1. printed' = printed /\ ticket' = ticket
    BY <1>6 DEF Effect
  <2>. QED  BY <1>2, <2>1 DEF RedeemInv, TicketFirst, EditionsByPlace, Offset
<1>7. CASE t.op = "box"
  <2>1. box' = [box EXCEPT ![t.place] = t.of] /\ pot' = pot /\ part' = part /\ out' = out
    BY <1>7 DEF Effect
  <2>2. t.place \in Boxes /\ t.of = BoxOf(t.place)
    BY <1>0, <1>7 DEF Lawful
  <2>3. box' \in [Places -> {"vault", "none"} \cup Pages]
    BY <1>1, <1>3, <2>1 DEF RedeemTyped
  <2>4. BoxesByPlace'
    <3>1. ASSUME NEW i \in Boxes PROVE box'[i] \in {"vault", BoxOf(i)}
      <4>1. i \in Places /\ box[i] \in {"vault", BoxOf(i)}
        BY Constants DEF RedeemInv, BoxesByPlace, BoxOf
      <4>. QED  BY <1>3, <2>1, <2>2, <4>1 DEF RedeemTyped
    <3>. QED  BY <1>2, <3>1 DEF BoxesByPlace, BoxOf
  <2>. QED  BY <1>2, <1>3, <1>6, <1>7, <2>1, <2>3, <2>4 DEF RedeemInv, RedeemTyped, PotsByPlace
<1>8. ASSUME t.op # "box" PROVE box' = box /\ BoxesByPlace'
  <2>1. box' = box
    BY <1>8 DEF Effect
  <2>. QED  BY <1>2, <2>1 DEF RedeemInv, BoxesByPlace
<1>9. ASSUME t.op \notin {"claim", "cancel"} PROVE pot' = pot /\ PotsByPlace'
  <2>1. pot' = pot
    BY <1>9 DEF Effect
  <2>. QED  BY <1>2, <2>1 DEF RedeemInv, PotsByPlace
<1>10. CASE t.op \in {"claim", "cancel"}
  <2>. DEFINE w == IF t.op = "claim" THEN "claimed" ELSE "refunded"
  <2>1. pot' = [pot EXCEPT ![t.of] = w] /\ part' = part /\ out' = out
    BY <1>10 DEF Effect
  <2>2. pot' \in [Bidders -> {"none", "full", "claimed", "refunded"}]
    BY <1>3, <2>1 DEF RedeemTyped
  <2>3. w = IF t.of \in Winners THEN "claimed" ELSE "refunded"
    BY <1>0, <1>10 DEF Lawful
  <2>4. PotsByPlace'
    <3>1. ASSUME NEW b \in ToSet(auction.bids)
          PROVE  pot'[b] \in {"full", IF b \in Winners THEN "claimed" ELSE "refunded"}
      <4>1. b \in Bidders /\ pot[b] \in {"full", IF b \in Winners THEN "claimed" ELSE "refunded"}
        BY <1>3, BidsAre DEF RedeemInv, RedeemTyped, PotsByPlace
      <4>. HIDE DEF w
      <4>. QED  BY <1>3, <2>1, <2>3, <4>1 DEF RedeemTyped
    <3>. QED  BY <1>2, <3>1 DEF PotsByPlace
  <2>5. printed' = printed /\ ticket' = ticket /\ TicketFirst' /\ EditionsByPlace'
    BY <1>6, <1>10
  <2>6. box' = box /\ BoxesByPlace'
    BY <1>8, <1>10
  <2>. HIDE DEF w
  <2>. QED  BY <1>3, <2>1, <2>2, <2>4, <2>5, <2>6 DEF RedeemTyped
<1>11. CASE t.op = "part"
  <2>. DEFINE print == [of |-> t.of, number |-> t.number]
  <2>1. part' = part \cup {print} /\ out' = out
    BY <1>11 DEF Effect
  <2>2. print \in [of : Pages, number : Int]
    BY <1>1
  <2>. HIDE DEF print
  <2>3. part' \subseteq [of : Pages, number : Int]
    BY <1>3, <2>1, <2>2 DEF RedeemTyped
  <2>4. IsFiniteSet(part')
    BY <1>3, <2>1, FS_AddElement DEF RedeemTyped
  <2>. QED  BY <1>3, <1>6, <1>8, <1>9, <1>11, <2>1, <2>3, <2>4 DEF RedeemTyped
<1>12. CASE t.op \notin {"print", "box", "claim", "cancel", "part"}
  <2>1. part' = part /\ out' \subseteq {"part", "master"}
    BY <1>3, <1>12 DEF Effect, RedeemTyped
  <2>. QED  BY <1>3, <1>6, <1>8, <1>9, <1>12, <2>1 DEF RedeemTyped
<1>. QED  BY <1>5, <1>7, <1>10, <1>11, <1>12

\* A transaction that lands, whatever its sender is told.
LEMMA LandsKeeps ==
  ASSUME RedeemInv, NEW p \in Pages, NEW resolved \in BOOLEAN, Sending(p), Accepted(p, NextTx(p)),
         Effect(p, NextTx(p)), run' = [run EXCEPT ![p] = Told(p, TRUE, resolved)]
  PROVE  RedeemInv'
<1>. DEFINE r == Told(p, TRUE, resolved)
            t == NextTx(p)
<1>1. RedeemTyped /\ Sending(p) /\ Accepted(p, NextTx(p)) /\ Effect(p, NextTx(p))
      /\ run' = [run EXCEPT ![p] = r]
  BY DEF RedeemInv
<1>2. r \in Runs /\ Stands(r) /\ (r.retry => p # Seller)
  <2>1. TRUE \in BOOLEAN
    OBVIOUS
  <2>. QED  BY <1>1, <2>1, ToldTyped
<1>3. t \in LawfulTxs
  BY <1>1, NextTxLawful
<1>. HIDE DEF r, t
<1>4. auction' = auction /\ over' \in BOOLEAN
  BY <1>1 DEF Effect, RedeemTyped
<1>5. Runs' = Runs /\ run' \in [Pages -> Runs] /\ \A q \in Pages : Stands(run'[q]) /\ (run'[q].retry => q # Seller)
  <2>1. run' \in [Pages -> Runs]
    BY <1>1, <1>2 DEF RedeemTyped
  <2>2. Runs' = Runs
    BY <1>4 DEF Runs, Lists, LawfulTxs, Lawful, BoxOf, Winners, Won
  <2>3. ASSUME NEW q \in Pages PROVE Stands(run'[q]) /\ (run'[q].retry => q # Seller)
    <3>1. CASE q = p
      <4>1. run'[q] = r
        BY <1>1, <3>1 DEF RedeemTyped
      <4>. QED  BY <1>2, <3>1, <4>1
    <3>2. CASE q # p
      <4>1. run'[q] = run[q]
        BY <1>1, <3>2 DEF RedeemTyped
      <4>. QED  BY <1>1, <4>1 DEF RedeemTyped
    <3>. QED  BY <3>1, <3>2
  <2>. QED  BY <2>1, <2>2, <2>3
<1>6. Accepted(p, t) /\ Effect(p, t)
  BY <1>1 DEF t
<1>7. /\ printed' \subseteq Editions /\ IsFiniteSet(printed')
      /\ part' \subseteq [of : Pages, number : Int] /\ IsFiniteSet(part')
      /\ ticket' \in {NoTicket, Supply} /\ out' \subseteq {"part", "master"}
      /\ box' \in [Places -> {"vault", "none"} \cup Pages]
      /\ pot' \in [Bidders -> {"none", "full", "claimed", "refunded"}]
      /\ TicketFirst' /\ EditionsByPlace' /\ BoxesByPlace' /\ PotsByPlace'
  BY <1>3, <1>6, EffectKeeps
<1>8. RedeemTyped'
  BY <1>1, <1>4, <1>5, <1>7 DEF RedeemTyped, Stands
<1>. QED  BY <1>7, <1>8 DEF RedeemInv

\* The auction has ended and nothing is redeemed.
LEMMA InitKeeps == Init => RedeemInv
<1>. SUFFICES ASSUME Init PROVE RedeemInv
  OBVIOUS
<1>1. RedeemTyped
  <2>1. printed \subseteq Editions /\ IsFiniteSet(printed) /\ part \subseteq [of : Pages, number : Int] /\ IsFiniteSet(part)
    BY FS_EmptySet DEF Init
  <2>2. box \in [Places -> {"vault", "none"} \cup Pages]
    BY DEF Init
  <2>3. pot \in [Bidders -> {"none", "full", "claimed", "refunded"}]
    BY DEF Init
  <2>4. run \in [Pages -> Runs] /\ \A p \in Pages : Stands(run[p]) /\ ~run[p].retry
    BY IdleTyped DEF Init
  <2>5. auction \in Outcomes /\ over \in BOOLEAN /\ ticket = NoTicket /\ out = {}
    BY DEF Init
  <2>. QED  BY <2>1, <2>2, <2>3, <2>4, <2>5 DEF RedeemTyped
<1>2. TicketFirst /\ EditionsByPlace
  BY DEF Init, TicketFirst, EditionsByPlace
<1>3. BoxesByPlace
  BY Constants DEF Init, BoxesByPlace
<1>4. PotsByPlace
  <2>1. ASSUME NEW b \in ToSet(auction.bids) PROVE pot[b] = "full"
    BY <1>1, BidsAre DEF Init, RedeemTyped
  <2>. QED  BY <2>1 DEF PotsByPlace
<1>. QED  BY <1>1, <1>2, <1>3, <1>4 DEF RedeemInv

\* Every step keeps the invariant.
LEMMA NextKeeps == RedeemInv /\ [Next]_vars => RedeemInv'
<1>. SUFFICES ASSUME RedeemInv, [Next]_vars PROVE RedeemInv'
  OBVIOUS
<1>1. ASSUME NEW p \in Pages, ClickFresh(p) PROVE RedeemInv'
  <2>1. Current \in Views
    BY ViewsAre DEF RedeemInv
  <2>. QED  BY <1>1, <2>1, ClickKeeps DEF ClickFresh
<1>2. ASSUME NEW p \in Pages, ClickStale(p) PROVE RedeemInv'
  <2>1. PICK v \in Older : Click(p, v)
    BY <1>2 DEF ClickStale
  <2>2. v \in Views
    BY ViewsAre DEF RedeemInv
  <2>. QED  BY <2>1, <2>2, ClickKeeps
<1>3. ASSUME NEW p \in Pages, Refused(p) \/ Lost(p) PROVE RedeemInv'
  <2>. DEFINE u == Told(p, FALSE, FALSE)
  <2>1. Sending(p) /\ run' = [run EXCEPT ![p] = u] /\ UNCHANGED chain
    BY <1>3 DEF Refused, Lost
  <2>2. u \in Runs /\ Stands(u) /\ (u.retry => p # Seller)
    <3>1. FALSE \in BOOLEAN
      OBVIOUS
    <3>. QED  BY <2>1, <3>1, ToldTyped DEF RedeemInv
  <2>. HIDE DEF u
  <2>. QED  BY <2>1, <2>2, PageStepKeeps
<1>4. CASE UNCHANGED vars
  <2>1. /\ Seller \in Pages /\ run[Seller] \in Runs /\ Stands(run[Seller]) /\ run' = [run EXCEPT ![Seller] = run[Seller]]
        /\ run[Seller].retry => Seller # Seller
    BY <1>4, Constants DEF vars, RedeemInv, RedeemTyped
  <2>2. UNCHANGED chain
    BY <1>4 DEF vars, chain
  <2>. QED  BY <2>1, <2>2, PageStepKeeps
<1>5. ASSUME NEW p \in Pages, Throws(p) PROVE RedeemInv'
  <2>. DEFINE u == Ends(run[p])
  <2>1. run' = [run EXCEPT ![p] = u] /\ UNCHANGED chain
    BY <1>5 DEF Throws
  <2>2. run[p] \in Runs /\ (run[p].retry => p # Seller)
    BY DEF RedeemInv, RedeemTyped
  <2>3. u \in Runs /\ Stands(u) /\ (u.retry => p # Seller)
    BY <2>2, EndsTyped
  <2>. HIDE DEF u
  <2>. QED  BY <2>1, <2>3, PageStepKeeps
<1>6. ASSUME NEW p \in Pages, Lands(p) \/ Unheard(p) PROVE RedeemInv'
  <2>1. PICK resolved \in BOOLEAN : run' = [run EXCEPT ![p] = Told(p, TRUE, resolved)]
    BY <1>6 DEF Lands, Unheard
  <2>2. Sending(p) /\ Accepted(p, NextTx(p)) /\ Effect(p, NextTx(p))
    BY <1>6 DEF Lands, Unheard
  <2>. QED  BY <2>1, <2>2, LandsKeeps
<1>7. Visitors \subseteq Pages
  BY DEF Visitors
<1>. QED  BY <1>1, <1>2, <1>3, <1>4, <1>5, <1>6, <1>7 DEF Next, Send

\* The invariant holds whatever outcome, prizes and faults there are.
THEOREM RedeemInvariance == Spec => []RedeemInv
BY InitKeeps, NextKeeps, PTL DEF Spec

\* Editions, boxes and pots go to whom the auction gives them (PrizesByPlace),
\* from whichever pages, in whichever order, after whatever faults.
THEOREM PrizesComeByPlace == Spec => []PrizesByPlace
<1>1. RedeemInv => PrizesByPlace
  BY DEF RedeemInv, PrizesByPlace, RedeemTyped, TypeOK, Stands
<1>. QED  BY <1>1, RedeemInvariance, PTL

\* An edition's number tells its place, and so its winner: no two winners are
\* given one number, though each page works it out for itself.
NumbersTellPlaces ==
  \A p, q \in printed : p.number = q.number => p.place = q.place /\ p.of = q.of

THEOREM NumbersAlwaysTellPlaces == Spec => []NumbersTellPlaces
<1>1. ASSUME RedeemInv, NEW p \in printed, NEW q \in printed, p.place < q.place
      PROVE  p.number # q.number
  <2>1. p.place \in Places /\ q.place \in Places
    BY <1>1, WonAre DEF RedeemInv, RedeemTyped, EditionsByPlace
  <2>2. /\ p.number - Supply \in Offset(p.place) .. (Offset(p.place) + Prints[p.place] - 1)
        /\ q.number - Supply \in Offset(q.place) .. (Offset(q.place) + Prints[q.place] - 1)
    BY <1>1 DEF RedeemInv, EditionsByPlace
  <2>3. p.number \in Int /\ q.number \in Int /\ Supply \in Nat
    BY <1>1, Constants DEF RedeemInv, RedeemTyped, Editions
  <2>4. Offset(q.place) >= Offset(p.place) + Prints[p.place]
    BY <1>1, <2>1, OffsetsApart
  <2>5. /\ Offset(p.place) \in Nat /\ Offset(q.place) \in Nat
        /\ Prints[p.place] \in Nat /\ Prints[q.place] \in Nat
    BY <2>1, Constants, OffsetsAre
  <2>. QED  BY <2>2, <2>3, <2>4, <2>5
<1>2. RedeemInv => NumbersTellPlaces
  <2>. SUFFICES ASSUME RedeemInv, NEW p \in printed, NEW q \in printed, p.number = q.number
                PROVE  p.place = q.place /\ p.of = q.of
    BY DEF NumbersTellPlaces
  <2>1. p.place \in Nat /\ q.place \in Nat
    BY DEF RedeemInv, RedeemTyped, Editions
  <2>2. ~(p.place < q.place) /\ ~(q.place < p.place)
    BY <1>1
  <2>3. p.place = q.place
    BY <2>1, <2>2
  <2>. QED  BY <2>3 DEF RedeemInv, EditionsByPlace
<1>. QED  BY <1>2, RedeemInvariance, PTL

-----------------------------------------------------------------------------
(* What an answer makes of a run.                                           *)

\* The rejections of a turn, and what is minted, behind an answer.
FailedThen(r, resolved) == IF resolved THEN r.failed ELSE Append(r.failed, r.at)
MintedThen(r, landed) ==
  IF r.list[r.at].op = "mint" /\ landed THEN r.minted \cup {r.list[r.at].of} ELSE r.minted

\* It is over, goes on with the next transaction, or starts another turn: with
\* the list as it is if there is one transaction, or from the first rejection.
GoesOn(r, landed, resolved, u) ==
  /\ Len(r.list) # 1 /\ u.list = r.list /\ u.at = r.at + 1 /\ u.at <= Len(r.list)
  /\ u.failed = FailedThen(r, resolved) /\ u.minted = MintedThen(r, landed)
  /\ Len(FailedThen(r, resolved)) <= 1
Repeats(r, landed, resolved, u) ==
  /\ Len(r.list) = 1 /\ ~resolved
  /\ u.list = r.list /\ u.at = 1 /\ u.failed = << >> /\ u.minted = MintedThen(r, landed)
StartsOver(r, landed, resolved, u) ==
  /\ Len(r.list) # 1 /\ Len(FailedThen(r, resolved)) = 2
  /\ u.list = SubSeq(r.list, FailedThen(r, resolved)[1], Len(r.list))
  /\ u.at = 1 /\ u.failed = << >> /\ u.minted = MintedThen(r, landed)

\* A turn sends what is behind the answer of the last one, or the loop is over.
LEMMA TurnGives ==
  ASSUME NEW r \in Runs, NEW left, left = SubSeq(r.list, r.stop + 1, Len(r.list))
  PROVE  LET u == Turn(r)
         IN  \/ u = Idle
             \/ /\ left # << >> /\ u.list = left /\ u.at = 1 /\ u.failed = << >> /\ u.minted = r.minted
<1>. DEFINE tries == IF Len(left) = r.last THEN r.tries + 1 ELSE 0
            s == [r EXCEPT !.list = left, !.at = 1, !.failed = <<>>, !.last = Len(left), !.tries = tries]
<1>1. Turn(r) = IF left = <<>> \/ r.tries >= MaxTries THEN Idle ELSE s
  BY DEF Turn
<1>2. s.list = left /\ s.at = 1 /\ s.failed = << >> /\ s.minted = r.minted
  BY DEF Runs
<1>. HIDE DEF s
<1>. QED  BY <1>1, <1>2

\* An answer ends the run, moves it on, has it try again, or start over.
LEMMA ToldGives ==
  ASSUME RedeemTyped, NEW p \in Pages, Sending(p), NEW landed \in BOOLEAN, NEW resolved \in BOOLEAN,
         NEW r, r = run[p], NEW u, u = Told(p, landed, resolved)
  PROVE  \/ u = Idle
         \/ GoesOn(r, landed, resolved, u)
         \/ p # Seller /\ (Repeats(r, landed, resolved, u) \/ StartsOver(r, landed, resolved, u))
<1>. DEFINE failed == FailedThen(r, resolved)
            minted == MintedThen(r, landed)
            s == [r EXCEPT !.failed = failed, !.minted = minted]
<1>1. r \in Runs /\ Stands(r) /\ r.at # 0 /\ (r.retry => p # Seller)
  BY DEF RedeemTyped, Sending
<1>2. r.at \in 1 .. Len(r.list) /\ r.at \in Nat /\ Len(r.list) \in Nat /\ r.list \in Seq(LawfulTxs)
  BY <1>1, RunFields DEF Stands, Lists
<1>3. /\ failed \in Seq(Nat) /\ Len(failed) \in Nat /\ Len(failed) <= 2
      /\ \A i \in DOMAIN failed : failed[i] \in 1 .. Len(r.list)
  <2>1. r.failed \in Seq(Nat) /\ Len(r.failed) <= 1 /\ \A i \in DOMAIN r.failed : r.failed[i] \in 1 .. Len(r.list)
    BY <1>1, RunFields DEF Stands
  <2>2. CASE resolved
    BY <2>1, <2>2 DEF FailedThen
  <2>3. CASE ~resolved
    <3>. DEFINE f == Append(r.failed, r.at)
    <3>1. /\ f \in Seq(Nat) /\ Len(f) = Len(r.failed) + 1 /\ f[Len(r.failed) + 1] = r.at
          /\ \A i \in 1 .. Len(r.failed) : f[i] = r.failed[i]
      BY <1>2, <2>1, AppendProperties
    <3>2. failed = f
      BY <2>3 DEF FailedThen
    <3>. HIDE DEF f, failed
    <3>3. DOMAIN f = 1 .. Len(r.failed) + 1 /\ DOMAIN r.failed = 1 .. Len(r.failed) /\ Len(r.failed) \in Nat
      BY <2>1, <3>1
    <3>. QED  BY <1>2, <2>1, <3>1, <3>2, <3>3
  <2>. QED  BY <2>2, <2>3
<1>4. minted \subseteq Pages
  <2>1. r.list[r.at] \in LawfulTxs
    BY <1>2
  <2>2. r.list[r.at].of \in Pages
    BY <2>1 DEF LawfulTxs, Transactions
  <2>. QED  BY <1>1, <2>2, RunFields DEF MintedThen
<1>. DEFINE t == r.list[r.at]
<1>5. Told(p, landed, resolved) =
        IF Len(r.list) = 1 THEN Ends(IF resolved THEN [s EXCEPT !.stop = 1] ELSE s)
        ELSE IF Len(failed) = 2 THEN Ends([s EXCEPT !.stop = failed[1] - 1])
        ELSE IF r.at = Len(r.list) THEN Ends([s EXCEPT !.stop = Len(r.list)])
        ELSE [s EXCEPT !.at = r.at + 1]
  BY DEF Told, FailedThen, MintedThen
<1>. HIDE DEF failed, minted
<1>6. /\ s \in Runs /\ s.list = r.list /\ s.at = r.at /\ s.failed = failed /\ s.minted = minted
      /\ s.stop = r.stop /\ s.retry = r.retry
  <2>1. s \in Runs
    BY <1>1, <1>3, <1>4 DEF Runs
  <2>2. /\ s.list = r.list /\ s.at = r.at /\ s.failed = failed /\ s.minted = minted
        /\ s.stop = r.stop /\ s.retry = r.retry
    BY <1>1 DEF Runs
  <2>. QED  BY <2>1, <2>2
<1>. HIDE DEF s
<1>7. \A n \in Nat : /\ [s EXCEPT !.stop = n] \in Runs
                     /\ [s EXCEPT !.stop = n].list = r.list /\ [s EXCEPT !.stop = n].minted = minted
                     /\ [s EXCEPT !.stop = n].stop = n /\ [s EXCEPT !.stop = n].retry = r.retry
  BY <1>6 DEF Runs
\* The end of a turn that stops behind the first n.
<1>8. ASSUME NEW e \in Runs, e.list = r.list, e.minted = minted, e.retry = r.retry, NEW n \in Nat, e.stop = n,
             u = Ends(e)
      PROVE  \/ u = Idle
             \/ /\ p # Seller /\ u.list = SubSeq(r.list, n + 1, Len(r.list)) /\ u.list # << >>
                /\ u.at = 1 /\ u.failed = << >> /\ u.minted = minted
  <2>1. CASE ~e.retry
    BY <1>8, <2>1 DEF Ends
  <2>2. CASE e.retry
    <3>1. u = Turn(e)
      BY <1>8, <2>2 DEF Ends
    <3>0. p # Seller
      BY <1>1, <1>8, <2>2
    <3>2. PICK left : left = SubSeq(r.list, n + 1, Len(r.list))
      OBVIOUS
    <3>3. left = SubSeq(e.list, e.stop + 1, Len(e.list))
      BY <1>8, <3>2
    <3>4. PICK x : x = Turn(e)
      OBVIOUS
    <3>5. \/ x = Idle
          \/ /\ left # << >> /\ x.list = left /\ x.at = 1 /\ x.failed = << >> /\ x.minted = e.minted
      <4>. HIDE DEF minted, failed
      <4>. QED  BY <1>8, <3>3, <3>4, TurnGives
    <3>6. x = u
      BY <3>1, <3>4
    <3>. QED  BY <1>8, <3>0, <3>2, <3>5, <3>6
  <2>. QED  BY <2>1, <2>2
<1>9. \A n \in Nat : n >= Len(r.list) => SubSeq(r.list, n + 1, Len(r.list)) = << >>
  BY <1>2, SubSeqEmpty
<1>10. CASE Len(r.list) = 1 /\ resolved
  <2>0. PICK n \in Nat : n = 1
    OBVIOUS
  <2>1. PICK e : e = [s EXCEPT !.stop = n]
    OBVIOUS
  <2>2. e \in Runs /\ e.list = r.list /\ e.minted = minted /\ e.stop = n /\ e.retry = r.retry
    BY <1>7, <2>1
  <2>3. u = Ends(e)
    BY <1>5, <1>10, <2>0, <2>1
  <2>4. SubSeq(r.list, n + 1, Len(r.list)) = << >>
    BY <1>9, <1>10, <2>0
  <2>. QED  BY <1>8, <2>2, <2>3, <2>4
<1>11. CASE Len(r.list) = 1 /\ ~resolved
  <2>1. u = Ends(s)
    BY <1>5, <1>11
  <2>2. PICK n \in Nat : n = s.stop
    BY <1>6, RunFields
  <2>3. \/ u = Idle
        \/ /\ p # Seller /\ u.list = SubSeq(r.list, n + 1, Len(r.list)) /\ u.list # << >>
           /\ u.at = 1 /\ u.failed = << >> /\ u.minted = minted
    BY <1>6, <1>8, <2>1, <2>2
  <2>4. n >= 1 => SubSeq(r.list, n + 1, Len(r.list)) = << >>
    BY <1>9, <1>11
  <2>5. n = 0 => SubSeq(r.list, n + 1, Len(r.list)) = r.list
    BY <1>2, SubSeqFull
  <2>6. u = Idle \/ (p # Seller /\ Repeats(r, landed, resolved, u))
    BY <1>11, <2>2, <2>3, <2>4, <2>5 DEF Repeats, minted
  <2>. QED  BY <2>6
<1>12. CASE Len(r.list) # 1 /\ Len(failed) = 2
  <2>1. PICK n \in Nat : n = failed[1] - 1 /\ n + 1 = failed[1]
    BY <1>2, <1>3, <1>12
  <2>2. PICK e : e = [s EXCEPT !.stop = n]
    OBVIOUS
  <2>3. e \in Runs /\ e.list = r.list /\ e.minted = minted /\ e.stop = n /\ e.retry = r.retry
    BY <1>7, <2>2
  <2>4. u = Ends(e)
    BY <1>5, <1>12, <2>1, <2>2
  <2>5. u = Idle \/ (p # Seller /\ StartsOver(r, landed, resolved, u))
    BY <1>8, <1>12, <2>1, <2>3, <2>4 DEF StartsOver, minted, failed
  <2>. QED  BY <2>5
<1>13. CASE Len(r.list) # 1 /\ Len(failed) # 2 /\ r.at = Len(r.list)
  <2>1. PICK n \in Nat : n = Len(r.list)
    BY <1>2
  <2>2. PICK e : e = [s EXCEPT !.stop = n]
    OBVIOUS
  <2>3. e \in Runs /\ e.list = r.list /\ e.minted = minted /\ e.stop = n /\ e.retry = r.retry
    BY <1>7, <2>2
  <2>4. u = Ends(e)
    BY <1>5, <1>13, <2>1, <2>2
  <2>5. SubSeq(r.list, n + 1, Len(r.list)) = << >>
    BY <1>9, <2>1
  <2>. QED  BY <1>8, <2>3, <2>4, <2>5
<1>14. CASE Len(r.list) # 1 /\ Len(failed) # 2 /\ r.at # Len(r.list)
  <2>1. PICK n \in Nat : n = r.at + 1 /\ n <= Len(r.list)
    BY <1>2, <1>14
  <2>2. u = [s EXCEPT !.at = n]
    BY <1>5, <1>14, <2>1
  <2>3. u.at = n /\ u.list = r.list /\ u.failed = failed /\ u.minted = minted
    BY <1>6, <2>2 DEF Runs
  <2>4. Len(failed) <= 1
    <3>1. PICK m \in Nat : m = Len(failed)
      BY <1>3
    <3>2. m <= 2 /\ m # 2
      BY <1>3, <1>14, <3>1
    <3>3. m <= 1
      BY <3>2
    <3>. QED  BY <3>1, <3>3
  <2>5. GoesOn(r, landed, resolved, u)
    BY <1>14, <2>1, <2>3, <2>4 DEF GoesOn, minted, failed
  <2>. QED  BY <2>5
<1>. QED  BY <1>10, <1>11, <1>12, <1>13, <1>14

-----------------------------------------------------------------------------
(* The editions that are printed, and those that are not.                   *)

\* The numbers of a place.
NumbersOf(i) == (Supply + Offset(i)) .. (Supply + Offset(i) + Prints[i] - 1)

\* There are as many of them as the place has prints.
LEMMA NumbersAre ==
  ASSUME NEW i \in Places
  PROVE  /\ IsFiniteSet(NumbersOf(i)) /\ Cardinality(NumbersOf(i)) = Prints[i]
         /\ \A n \in Int : n \in NumbersOf(i) <=> n - Supply \in Offset(i) .. (Offset(i) + Prints[i] - 1)
<1>1. PICK o \in Nat, n \in Nat, s \in Nat : o = Offset(i) /\ n = Prints[i] /\ s = Supply
  BY Constants, OffsetsAre
<1>2. NumbersOf(i) = (s + o) .. (s + o + n - 1)
  BY <1>1 DEF NumbersOf
<1>3. IsFiniteSet((s + o) .. (s + o + n - 1)) /\ Cardinality((s + o) .. (s + o + n - 1)) = n
  <2>1. s + o \in Int /\ s + o + n - 1 \in Int
    OBVIOUS
  <2>2. IsFiniteSet((s + o) .. (s + o + n - 1))
        /\ Cardinality((s + o) .. (s + o + n - 1)) = IF (s + o) > (s + o + n - 1) THEN 0 ELSE (s + o + n - 1) - (s + o) + 1
    BY <2>1, FS_Interval
  <2>. QED  BY <2>2
<1>4. \A m \in Int : m \in (s + o) .. (s + o + n - 1) <=> m - s \in o .. (o + n - 1)
  OBVIOUS
<1>. QED  BY <1>1, <1>2, <1>3, <1>4

\* The places have no number in common.
LEMMA NumbersApart ==
  ASSUME NEW i \in Places, NEW j \in Places, NEW n \in NumbersOf(i), n \in NumbersOf(j)
  PROVE  i = j
<1>1. ASSUME NEW k \in Places, NEW l \in Places, k < l, n \in NumbersOf(k), n \in NumbersOf(l) PROVE FALSE
  <2>1. Offset(l) >= Offset(k) + Prints[k]
    BY <1>1, OffsetsApart
  <2>2. Offset(k) \in Nat /\ Offset(l) \in Nat /\ Prints[k] \in Nat /\ Prints[l] \in Nat /\ Supply \in Nat
    BY Constants, OffsetsAre
  <2>. QED  BY <1>1, <2>1, <2>2 DEF NumbersOf
<1>2. i \in Nat /\ j \in Nat
  BY Constants
<1>3. ~(i < j) /\ ~(j < i)
  BY <1>1
<1>. QED  BY <1>2, <1>3

\* All editions of a place are printed exactly when all of its numbers are taken.
LEMMA PrintedAll ==
  ASSUME RedeemInv, NEW i \in Won
  PROVE  Cardinality(PrintsOf(i)) = Prints[i] <=> NumbersOf(i) \subseteq Taken
<1>. DEFINE f == [q \in PrintsOf(i) |-> q.number]
            S == PrintsOf(i)
            T == NumbersOf(i)
<1>1. i \in Places
  BY WonAre DEF RedeemInv, RedeemTyped
<1>2. IsFiniteSet(T) /\ Cardinality(T) = Prints[i]
  BY <1>1, NumbersAre
<1>3. ASSUME NEW q \in printed
      PROVE  /\ q.place \in Places /\ q.of = auction.bids[q.place] /\ q.number \in NumbersOf(q.place)
             /\ q \in Editions
  <2>1. q.place \in Won /\ q.of = auction.bids[q.place]
        /\ q.number - Supply \in (Offset(q.place)..(Offset(q.place) + Prints[q.place] - 1))
    BY DEF RedeemInv, EditionsByPlace
  <2>2. q \in Editions
    BY DEF RedeemInv, RedeemTyped
  <2>3. q.number \in Int
    BY <2>2 DEF Editions
  <2>4. q.place \in Places
    BY <2>1, WonAre DEF RedeemInv, RedeemTyped
  <2>. QED  BY <2>1, <2>2, <2>3, <2>4, NumbersAre
<1>4. f \in Injection(S, T)
  <2>1. \A q \in S : q.number \in T
    BY <1>3 DEF PrintsOf
  <2>2. ASSUME NEW q \in S, NEW o \in S, q.number = o.number PROVE q = o
    <3>1. q \in Editions /\ o \in Editions /\ q.of = o.of /\ q.place = o.place
      BY <1>3 DEF PrintsOf
    <3>. QED  BY <2>2, <3>1 DEF Editions
  <2>3. f \in [S -> T] /\ \A q, o \in S : f[q] = f[o] => q = o
    BY <2>1, <2>2
  <2>. HIDE DEF f, S, T
  <2>. QED  BY <2>3 DEF Injection, IsInjective
<1>5. Cardinality(S) = Cardinality(T) <=> f \in Surjection(S, T)
  <2>. HIDE DEF f, S, T
  <2>. QED  BY <1>2, <1>4, FS_Injection
<1>6. ASSUME f \in Surjection(S, T) PROVE T \subseteq Taken
  <2>1. \A n \in T : \E q \in S : f[q] = n
    <3>. HIDE DEF f, S, T
    <3>. QED  BY <1>6 DEF Surjection
  <2>2. ASSUME NEW n \in T PROVE n \in Taken
    <3>1. PICK q \in S : f[q] = n
      BY <2>1
    <3>2. q \in printed /\ q.number = n
      BY <3>1 DEF PrintsOf
    <3>. QED  BY <3>2 DEF Taken
  <2>. QED  BY <2>2
<1>7. ASSUME T \subseteq Taken PROVE f \in Surjection(S, T)
  <2>1. ASSUME NEW n \in T PROVE \E q \in S : f[q] = n
    <3>1. n \in Taken
      BY <1>7
    <3>2. PICK q \in printed : q.number = n
      BY <3>1 DEF Taken
    <3>3. q.place = i
      BY <1>1, <1>3, <3>2, NumbersApart
    <3>4. q \in S /\ f[q] = n
      BY <3>2, <3>3 DEF PrintsOf
    <3>. QED  BY <3>4
  <2>2. f \in [S -> T]
    BY <1>4 DEF Injection
  <2>. HIDE DEF f, S, T
  <2>. QED  BY <2>1, <2>2 DEF Surjection
<1>. HIDE DEF f
<1>. QED  BY <1>2, <1>5, <1>6, <1>7

\* An up to date page works out the numbers of the places.
LEMMA CurrentNumbers ==
  ASSUME RedeemInv, NEW i \in Won
  PROVE  NumbersOf(i) = {Desired(Current, i, k - 1) : k \in 1 .. Prints[i]}
<1>1. PICK o \in Nat, n \in Nat, s \in Nat : o = Offset(i) /\ n = Prints[i] /\ s = Supply
  BY WonAre, Constants, OffsetsAre DEF RedeemInv, RedeemTyped
<1>2. \A k \in 1 .. n : Desired(Current, i, k - 1) = s + o + (k - 1)
  <2>1. PICK b : b = IF ticket # NoTicket THEN ticket ELSE SupplyNow
    OBVIOUS
  <2>2. b = s
    BY <1>1, <2>1, CountsFrom
  <2>3. Current.ticket = ticket /\ Current.supply = SupplyNow
    BY DEF Current
  <2>4. \A m : Desired(Current, i, m) = b + Offset(i) + m
    BY <2>1, <2>3 DEF Desired
  <2>. QED  BY <1>1, <2>2, <2>4
<1>3. NumbersOf(i) = (s + o) .. (s + o + n - 1)
  BY <1>1 DEF NumbersOf
<1>4. (s + o) .. (s + o + n - 1) = {s + o + (k - 1) : k \in 1 .. n}
  <2>1. ASSUME NEW m \in (s + o) .. (s + o + n - 1) PROVE \E k \in 1 .. n : m = s + o + (k - 1)
    <3>1. m - s - o + 1 \in 1 .. n /\ m = s + o + ((m - s - o + 1) - 1)
      OBVIOUS
    <3>. QED  BY <3>1
  <2>2. \A k \in 1 .. n : s + o + (k - 1) \in (s + o) .. (s + o + n - 1)
    OBVIOUS
  <2>. QED  BY <2>1, <2>2
<1>5. {Desired(Current, i, k - 1) : k \in 1 .. n} = {s + o + (k - 1) : k \in 1 .. n}
  BY <1>2
<1>. QED  BY <1>1, <1>3, <1>4, <1>5

-----------------------------------------------------------------------------
(* Runs that fit the chain.                                                 *)

\* What of the chain a run depends on.
World == [over |-> over, out |-> out, taken |-> Taken, box |-> box, has |-> HasPart, parts |-> PartSupply, won |-> Won]

\* One of the transactions from the next one to the j-th does it.
Sends(r, j, o, of) == \E i \in r.at .. (j - 1) : r.list[i].op = o /\ r.list[i].of = of
SendsEnd(r, j) == \E i \in r.at .. (j - 1) : r.list[i].op = "end"
SendsPrint(r, j, n) == \E i \in r.at .. (j - 1) : r.list[i].op = "print" /\ r.list[i].number = n

\* The j-th transaction is accepted if those before it are.
Expected(r, j, w) ==
  /\ IF r.list[j].op = "end" THEN ~w.over ELSE w.over \/ SendsEnd(r, j)
  /\ r.list[j].op = "print" => /\ "master" \notin w.out /\ r.list[j].number \notin w.taken
                               /\ r.list[j].number \in NumbersOf(r.list[j].place)
  /\ r.list[j].op = "box" => w.box[r.list[j].place] = "vault"
  /\ r.list[j].op = "cancel" => r.list[j].of \in Bidders
  /\ r.list[j].op = "mint" => r.list[j].of \notin r.minted
  /\ r.list[j].op = "part" => /\ "part" \notin w.out /\ r.list[j].of \notin w.has
                              /\ r.list[j].number = w.parts + 1
                              /\ r.list[j].of \in r.minted \/ Sends(r, j, "mint", r.list[j].of)
  /\ r.list[j].op = "sale" => r.list[j].of \in w.has \/ Sends(r, j, "part", r.list[j].of)
  /\ r.list[j].op = "take" =>
       IF r.list[j].number = 1 THEN "part" \notin w.out
       ELSE "master" \notin w.out /\ \A i \in w.won : \A n \in NumbersOf(i) : n \in w.taken \/ SendsPrint(r, j, n)

\* Nothing on the list stands in the way of what follows, what is left of it is
\* accepted, and nothing was rejected but the claim of a pot that is empty.
Fits(r, w) ==
  /\ \A i, j \in DOMAIN r.list : i < j => Follows(r.list[i], r.list[j])
  /\ \A j \in r.at .. Len(r.list) : Expected(r, j, w)
  /\ \A i \in DOMAIN r.failed : r.list[r.failed[i]].op \in {"claim", "cancel"}

\* The two cases that UndisturbedAccepted leaves out.
HasPrint(list) == \E i \in DOMAIN list : list[i].op = "part"
Escapes(r, w) == Several(r.list) \/ ("part" \in w.out /\ HasPrint(r.list))

\* What a transaction changes of it.
After(w, x, t) ==
  /\ IF t.op = "end" THEN x.over ELSE x.over = w.over
  /\ x.out = w.out \cup (IF t.op = "take" THEN {IF t.number = 1 THEN "part" ELSE "master"} ELSE {})
  /\ x.taken = w.taken \cup (IF t.op = "print" THEN {t.number} ELSE {})
  /\ \A i \in Places : t.op = "box" => (t.place # i => x.box[i] = w.box[i])
  /\ t.op # "box" => x.box = w.box
  /\ x.has = w.has \cup (IF t.op = "part" THEN {t.of} ELSE {})
  /\ t.op # "part" => x.parts = w.parts
  /\ x.won = w.won

\* What is expected stays so while what is before it is answered.
LEMMA ExpectedStays ==
  ASSUME NEW w, NEW x, NEW r, NEW u, NEW t, NEW j, NEW resolved \in BOOLEAN,
         r.at \in Nat, j \in Nat, r.at < j, t = r.list[r.at], After(w, x, t), Follows(t, r.list[j]),
         u.list = r.list, u.at = r.at + 1, u.minted = MintedThen(r, resolved),
         resolved \/ t.op \in {"claim", "cancel"}, r.list[j].op = "box" => r.list[j].place \in Places,
         Expected(r, j, w)
  PROVE  Expected(u, j, x)
<1>. DEFINE v == r.list[j]
<1>0. u.list[j] = v
  OBVIOUS
<1>1. PICK a \in Nat : a = r.at /\ u.at = a + 1 /\ a < j
  OBVIOUS
<1>2. ASSUME NEW o, NEW of, Sends(r, j, o, of) PROVE (t.op = o /\ t.of = of) \/ Sends(u, j, o, of)
  <2>1. PICK i \in a .. (j - 1) : r.list[i].op = o /\ r.list[i].of = of
    BY <1>1, <1>2 DEF Sends
  <2>2. i = a \/ i \in (a + 1) .. (j - 1)
    OBVIOUS
  <2>. QED  BY <1>1, <2>1, <2>2 DEF Sends
<1>3. ASSUME NEW n, SendsPrint(r, j, n) PROVE (t.op = "print" /\ t.number = n) \/ SendsPrint(u, j, n)
  <2>1. PICK i \in a .. (j - 1) : r.list[i].op = "print" /\ r.list[i].number = n
    BY <1>1, <1>3 DEF SendsPrint
  <2>2. i = a \/ i \in (a + 1) .. (j - 1)
    OBVIOUS
  <2>. QED  BY <1>1, <2>1, <2>2 DEF SendsPrint
<1>15. ASSUME SendsEnd(r, j) PROVE t.op = "end" \/ SendsEnd(u, j)
  <2>1. PICK i \in a .. (j - 1) : r.list[i].op = "end"
    BY <1>1, <1>15 DEF SendsEnd
  <2>2. i = a \/ i \in (a + 1) .. (j - 1)
    OBVIOUS
  <2>. QED  BY <1>1, <2>1, <2>2 DEF SendsEnd
<1>16. /\ IF v.op = "end" THEN ~w.over ELSE w.over \/ SendsEnd(r, j)
       /\ IF t.op = "end" THEN x.over ELSE x.over = w.over
  BY DEF Expected, After
<1>4. /\ t.op = v.op => \/ v.op = "print" /\ t.number # v.number
                        \/ v.op = "box" /\ t.place # v.place
                        \/ v.op = "take" /\ v.number # 1
      /\ t.op = "take" => t.number = 1 /\ v.op \notin {"mint", "part", "sale"}
  BY DEF Follows
<1>5. /\ x.out = w.out \cup (IF t.op = "take" THEN {"part"} ELSE {})
      /\ x.taken = w.taken \cup (IF t.op = "print" THEN {t.number} ELSE {})
      /\ \A i \in Places : t.op = "box" => (t.place # i => x.box[i] = w.box[i])
      /\ t.op # "box" => x.box = w.box
      /\ x.has = w.has \cup (IF t.op = "part" THEN {t.of} ELSE {})
      /\ t.op # "part" => x.parts = w.parts
      /\ x.won = w.won
  BY <1>4 DEF After
<1>6. /\ v.op = "print" => "master" \notin w.out /\ v.number \notin w.taken /\ v.number \in NumbersOf(v.place)
      /\ v.op = "box" => w.box[v.place] = "vault"
      /\ v.op = "cancel" => v.of \in Bidders
      /\ v.op = "mint" => v.of \notin r.minted
      /\ v.op = "part" => /\ "part" \notin w.out /\ v.of \notin w.has /\ v.number = w.parts + 1
                          /\ v.of \in r.minted \/ Sends(r, j, "mint", v.of)
      /\ v.op = "sale" => v.of \in w.has \/ Sends(r, j, "part", v.of)
      /\ v.op = "take" =>
           IF v.number = 1 THEN "part" \notin w.out
           ELSE "master" \notin w.out /\ \A i \in w.won : \A n \in NumbersOf(i) : n \in w.taken \/ SendsPrint(r, j, n)
  BY DEF Expected
<1>7. /\ t.op # "mint" => u.minted = r.minted
      /\ t.op = "mint" => u.minted = r.minted \cup {t.of}
  BY DEF MintedThen
<1>14. v.op = "box" => v.place \in Places
  OBVIOUS
<1>. HIDE DEF v
<1>8. v.op = "print" => "master" \notin x.out /\ v.number \notin x.taken /\ v.number \in NumbersOf(v.place)
  BY <1>4, <1>5, <1>6
<1>9. v.op = "box" => x.box[v.place] = "vault"
  <2>1. CASE t.op = "box"
    BY <1>4, <1>5, <1>6, <1>14, <2>1
  <2>2. CASE t.op # "box"
    BY <1>5, <1>6, <2>2
  <2>. QED  BY <2>1, <2>2
<1>10. v.op = "mint" => v.of \notin u.minted
  BY <1>4, <1>6, <1>7
<1>11. v.op = "part" => /\ "part" \notin x.out /\ v.of \notin x.has /\ v.number = x.parts + 1
                        /\ v.of \in u.minted \/ Sends(u, j, "mint", v.of)
  <2>. SUFFICES ASSUME v.op = "part"
                PROVE  /\ "part" \notin x.out /\ v.of \notin x.has /\ v.number = x.parts + 1
                       /\ v.of \in u.minted \/ Sends(u, j, "mint", v.of)
    OBVIOUS
  <2>1. t.op # "part" /\ t.op # "take"
    BY <1>4
  <2>2. "part" \notin x.out /\ v.of \notin x.has /\ v.number = x.parts + 1
    BY <1>5, <1>6, <2>1
  <2>3. v.of \in r.minted => v.of \in u.minted
    BY <1>7
  <2>4. Sends(r, j, "mint", v.of) => v.of \in u.minted \/ Sends(u, j, "mint", v.of)
    BY <1>2, <1>7
  <2>. QED  BY <1>6, <2>2, <2>3, <2>4
<1>12. v.op = "sale" => v.of \in x.has \/ Sends(u, j, "part", v.of)
  <2>1. v.of \in w.has => v.of \in x.has
    BY <1>5
  <2>2. Sends(r, j, "part", v.of) => v.of \in x.has \/ Sends(u, j, "part", v.of)
    BY <1>2, <1>5
  <2>. QED  BY <1>6, <2>1, <2>2
<1>13. v.op = "take" =>
         IF v.number = 1 THEN "part" \notin x.out
         ELSE "master" \notin x.out /\ \A i \in x.won : \A n \in NumbersOf(i) : n \in x.taken \/ SendsPrint(u, j, n)
  <2>1. CASE v.op = "take" /\ v.number = 1
    <3>1. t.op # "take"
      BY <1>4, <2>1
    <3>. QED  BY <1>5, <1>6, <2>1, <3>1
  <2>2. CASE v.op = "take" /\ v.number # 1
    <3>1. "master" \notin x.out
      BY <1>5, <1>6, <2>2
    <3>2. ASSUME NEW i \in x.won, NEW n \in NumbersOf(i) PROVE n \in x.taken \/ SendsPrint(u, j, n)
      <4>1. n \in w.taken \/ SendsPrint(r, j, n)
        BY <1>5, <1>6, <2>2
      <4>2. n \in w.taken => n \in x.taken
        BY <1>5
      <4>3. SendsPrint(r, j, n) => n \in x.taken \/ SendsPrint(u, j, n)
        BY <1>3, <1>5
      <4>. QED  BY <4>1, <4>2, <4>3
    <3>. QED  BY <2>2, <3>1, <3>2
  <2>. QED  BY <2>1, <2>2
<1>17. IF v.op = "end" THEN ~x.over ELSE x.over \/ SendsEnd(u, j)
  <2>1. CASE v.op = "end"
    <3>1. t.op # "end"
      BY <1>4, <2>1
    <3>. QED  BY <1>16, <2>1, <3>1
  <2>2. CASE v.op # "end"
    BY <1>15, <1>16, <2>2
  <2>. QED  BY <2>1, <2>2
<1>. QED  BY <1>0, <1>6, <1>8, <1>9, <1>10, <1>11, <1>12, <1>13, <1>17 DEF Expected

\* A run that fits goes on, over, or once more: it fits what the chain then is.
LEMMA FitsStays ==
  ASSUME NEW w, NEW x, NEW r \in Runs, NEW u, NEW t, NEW resolved \in BOOLEAN,
         Stands(r), r.at # 0, \A i \in DOMAIN r.failed : r.failed[i] < r.at,
         t = r.list[r.at], After(w, x, t), resolved \/ t.op \in {"claim", "cancel"},
         ~resolved => x = w,
         GoesOn(r, resolved, resolved, u) \/ Repeats(r, resolved, resolved, u) \/ StartsOver(r, resolved, resolved, u), Fits(r, w)
  PROVE  Fits(u, x)
<1>0. /\ r.at \in 1 .. Len(r.list) /\ r.at \in Nat /\ Len(r.list) \in Nat /\ DOMAIN r.list = 1 .. Len(r.list)
      /\ r.failed \in Seq(Nat) /\ Len(r.failed) \in Nat /\ Len(r.failed) <= 1
      /\ \A i \in DOMAIN r.failed : r.failed[i] \in 1 .. Len(r.list)
  BY RunFields DEF Stands, Lists
<1>1. CASE GoesOn(r, resolved, resolved, u)
  <2>1. u.list = r.list /\ u.at = r.at + 1 /\ u.failed = FailedThen(r, resolved) /\ u.minted = MintedThen(r, resolved)
    BY <1>1 DEF GoesOn
  <2>2. \A i, j \in DOMAIN u.list : i < j => Follows(u.list[i], u.list[j])
    BY <2>1 DEF Fits
  <2>3. ASSUME NEW j \in u.at .. Len(u.list) PROVE Expected(u, j, x)
    <3>1. j \in Nat /\ r.at < j /\ j \in DOMAIN r.list /\ r.at \in DOMAIN r.list /\ j \in r.at .. Len(r.list)
      BY <1>0, <2>1
    <3>2. Follows(t, r.list[j]) /\ Expected(r, j, w)
      BY <3>1 DEF Fits
    <3>3. r.list[j] \in LawfulTxs
      BY <3>1, RunFields DEF Lists
    <3>4. r.list[j].op = "box" => r.list[j].place \in Places
      BY <3>3, Constants DEF LawfulTxs, Lawful
    <3>. QED  BY <1>0, <2>1, <3>1, <3>2, <3>4, ExpectedStays
  <2>4. \A i \in DOMAIN u.failed : u.list[u.failed[i]].op \in {"claim", "cancel"}
    <3>1. CASE resolved
      <4>1. u.failed = r.failed
        BY <2>1, <3>1 DEF FailedThen
      <4>. QED  BY <2>1, <4>1 DEF Fits
    <3>2. CASE ~resolved
      <4>1. u.failed = Append(r.failed, r.at)
        BY <2>1, <3>2 DEF FailedThen
      <4>2. /\ Len(u.failed) = Len(r.failed) + 1 /\ u.failed[Len(r.failed) + 1] = r.at /\ u.failed \in Seq(Nat)
            /\ \A i \in 1 .. Len(r.failed) : u.failed[i] = r.failed[i]
        BY <1>0, <4>1, AppendProperties
      <4>3. DOMAIN u.failed = 1 .. Len(r.failed) + 1 /\ DOMAIN r.failed = 1 .. Len(r.failed)
        BY <1>0, <4>2
      <4>4. \A i \in DOMAIN r.failed : r.list[r.failed[i]].op \in {"claim", "cancel"}
        BY DEF Fits
      <4>5. ASSUME NEW i \in DOMAIN u.failed PROVE r.list[u.failed[i]].op \in {"claim", "cancel"}
        <5>1. CASE i \in DOMAIN r.failed
          BY <4>2, <4>3, <4>4, <5>1
        <5>2. CASE i = Len(r.failed) + 1
          <6>1. u.failed[i] = r.at
            BY <4>2, <5>2
          <6>. QED  BY <3>2, <6>1
        <5>. QED  BY <1>0, <4>3, <5>1, <5>2
      <4>. QED  BY <2>1, <4>5
    <3>. QED  BY <3>1, <3>2
  <2>. QED  BY <2>2, <2>3, <2>4 DEF Fits
<1>2. CASE Repeats(r, resolved, resolved, u)
  <2>1. Len(r.list) = 1 /\ ~resolved /\ u.list = r.list /\ u.at = 1 /\ u.failed = << >> /\ u.minted = MintedThen(r, resolved)
    BY <1>2 DEF Repeats
  <2>2. r.at = 1 /\ u.minted = r.minted /\ x = w
    BY <1>0, <2>1 DEF MintedThen
  <2>3. \A j \in u.at .. Len(u.list) : Expected(u, j, x)
    BY <2>1, <2>2 DEF Fits, Expected, Sends, SendsEnd, SendsPrint
  <2>4. DOMAIN u.failed = {}
    BY <2>1
  <2>. QED  BY <2>1, <2>3, <2>4 DEF Fits
<1>3. CASE StartsOver(r, resolved, resolved, u)
  <2>1. Len(FailedThen(r, resolved)) = 2
    BY <1>3 DEF StartsOver
  <2>0. PICK m \in Nat : m = Len(r.failed)
    BY <1>0
  <2>8. m <= 1
    BY <1>0, <2>0
  <2>2. ~resolved
    <3>1. resolved => FailedThen(r, resolved) = r.failed
      BY DEF FailedThen
    <3>2. resolved => m = 2
      BY <2>0, <2>1, <3>1
    <3>. QED  BY <2>8, <3>2
  <2>3. Len(Append(r.failed, r.at)) = m + 1
    BY <1>0, <2>0, AppendProperties
  <2>4. Len(r.failed) = 1 /\ 1 \in DOMAIN r.failed
    <3>1. FailedThen(r, resolved) = Append(r.failed, r.at)
      BY <2>2 DEF FailedThen
    <3>2. m + 1 = 2
      BY <2>1, <2>3, <3>1
    <3>3. m = 1
      BY <3>2
    <3>4. Len(r.failed) = 1
      BY <2>0, <3>3
    <3>. QED  BY <1>0, <3>4
  <2>5. PICK f \in 1 .. Len(r.list) : f = r.failed[1] /\ f < r.at
    BY <1>0, <2>4
  <2>6. r.list[f].op \in {"claim", "cancel"}
    BY <2>4, <2>5 DEF Fits
  <2>7. Follows(r.list[f], t)
    BY <1>0, <2>5 DEF Fits
  <2>. QED  BY <2>2, <2>6, <2>7 DEF Follows
<1>. QED  BY <1>1, <1>2, <1>3

\* What is left of a list.
LEMMA SuffixIs ==
  ASSUME NEW T, NEW l \in Seq(T), NEW f \in 1 .. Len(l), NEW s, s = SubSeq(l, f, Len(l))
  PROVE  /\ Len(s) = Len(l) - f + 1 /\ DOMAIN s = 1 .. (Len(l) - f + 1)
         /\ \A i \in 1 .. (Len(l) - f + 1) : f + i - 1 \in DOMAIN l /\ s[i] = l[f + i - 1]
<1>1. PICK n \in Nat : n = Len(l)
  OBVIOUS
<1>2. f \in Int /\ n \in Int /\ f <= n
  BY <1>1
<1>3. \A i \in f .. n : l[i] \in T
  BY <1>1
<1>4. s \in Seq(T) /\ Len(s) = n - f + 1 /\ \A i \in 1 .. (n - f + 1) : s[i] = l[f + i - 1]
  BY <1>1, <1>2, <1>3, SubSeqProperties
<1>5. DOMAIN s = 1 .. (n - f + 1)
  BY <1>4
<1>6. \A i \in 1 .. (n - f + 1) : f + i - 1 \in DOMAIN l
  BY <1>1
<1>. QED  BY <1>1, <1>4, <1>5, <1>6

\* Where another turn starts.
LEMMA StartsWithin ==
  ASSUME NEW r \in Runs, Stands(r), NEW landed, NEW resolved \in BOOLEAN, NEW u, StartsOver(r, landed, resolved, u)
  PROVE  /\ ~resolved /\ 1 \in DOMAIN r.failed
         /\ r.failed[1] \in 1 .. Len(r.list) /\ u.list = SubSeq(r.list, r.failed[1], Len(r.list))
<1>0. /\ r.at \in Nat /\ r.failed \in Seq(Nat) /\ Len(r.failed) \in Nat /\ Len(r.failed) <= 1
      /\ \A i \in DOMAIN r.failed : r.failed[i] \in 1 .. Len(r.list)
  BY RunFields DEF Stands
<1>1. Len(FailedThen(r, resolved)) = 2 /\ u.list = SubSeq(r.list, FailedThen(r, resolved)[1], Len(r.list))
  BY DEF StartsOver
<1>2. PICK m \in Nat : m = Len(r.failed)
  BY <1>0
<1>3. m <= 1
  BY <1>0, <1>2
<1>4. ~resolved
  <2>1. resolved => FailedThen(r, resolved) = r.failed
    BY DEF FailedThen
  <2>2. resolved => m = 2
    BY <1>1, <1>2, <2>1
  <2>. QED  BY <1>3, <2>2
<1>5. FailedThen(r, resolved) = Append(r.failed, r.at)
  BY <1>4 DEF FailedThen
<1>6. /\ Len(Append(r.failed, r.at)) = m + 1
      /\ \A i \in 1 .. m : Append(r.failed, r.at)[i] = r.failed[i]
  BY <1>0, <1>2, AppendProperties
<1>7. m + 1 = 2
  BY <1>1, <1>5, <1>6
<1>8. 1 \in 1 .. m
  BY <1>7
<1>9. 1 \in DOMAIN r.failed
  BY <1>0, <1>2, <1>8
<1>10. FailedThen(r, resolved)[1] = r.failed[1]
  BY <1>5, <1>6, <1>8
<1>. QED  BY <1>0, <1>1, <1>4, <1>9, <1>10

\* Lists get shorter from the front, if at all, and rejections lie behind.
LEMMA OrderStays ==
  ASSUME NEW r \in Runs, Stands(r), r.at # 0, \A i \in DOMAIN r.failed : r.failed[i] < r.at,
         NEW landed, NEW resolved \in BOOLEAN, NEW u,
         GoesOn(r, landed, resolved, u) \/ Repeats(r, landed, resolved, u) \/ StartsOver(r, landed, resolved, u)
  PROVE  /\ \A i \in DOMAIN u.failed : u.failed[i] < u.at
         /\ PartLast(r.list) => PartLast(u.list)
         /\ \A i \in DOMAIN u.list : \E k \in DOMAIN r.list : u.list[i] = r.list[k]
<1>0. /\ r.at \in Nat /\ r.failed \in Seq(Nat) /\ Len(r.failed) \in Nat /\ r.list \in Seq(LawfulTxs)
      /\ \A i \in DOMAIN r.failed : r.failed[i] \in 1 .. Len(r.list)
  BY RunFields DEF Stands, Lists
<1>1. CASE GoesOn(r, landed, resolved, u)
  <2>1. u.list = r.list /\ u.at = r.at + 1 /\ u.failed = FailedThen(r, resolved)
    BY <1>1 DEF GoesOn
  <2>2. ASSUME NEW i \in DOMAIN u.failed PROVE u.failed[i] < r.at + 1
    <3>0. \A k \in DOMAIN r.failed : r.failed[k] \in Nat
      BY <1>0
    <3>1. CASE resolved
      <4>1. u.failed = r.failed
        BY <2>1, <3>1 DEF FailedThen
      <4>. QED  BY <1>0, <3>0, <4>1
    <3>2. CASE ~resolved
      <4>1. u.failed = Append(r.failed, r.at)
        BY <2>1, <3>2 DEF FailedThen
      <4>2. PICK m \in Nat : m = Len(r.failed) /\ DOMAIN r.failed = 1 .. m
        BY <1>0
      <4>3. /\ Len(u.failed) = m + 1 /\ u.failed[m + 1] = r.at /\ u.failed \in Seq(Nat)
            /\ \A k \in 1 .. m : u.failed[k] = r.failed[k]
        BY <1>0, <4>1, <4>2, AppendProperties
      <4>4. i \in 1 .. (m + 1)
        BY <4>3
      <4>5. CASE i \in 1 .. m
        <5>1. i \in DOMAIN r.failed /\ u.failed[i] = r.failed[i]
          BY <4>2, <4>3, <4>5
        <5>2. r.failed[i] < r.at /\ r.failed[i] \in Nat
          BY <3>0, <5>1
        <5>. QED  BY <1>0, <5>1, <5>2
      <4>6. CASE i = m + 1
        <5>1. u.failed[i] = r.at
          BY <4>3, <4>6
        <5>. QED  BY <1>0, <5>1
      <4>. QED  BY <4>4, <4>5, <4>6
    <3>. QED  BY <3>1, <3>2
  <2>. QED  BY <2>1, <2>2
<1>2. CASE Repeats(r, landed, resolved, u)
  <2>1. u.list = r.list /\ u.failed = << >>
    BY <1>2 DEF Repeats
  <2>2. DOMAIN u.failed = {}
    BY <2>1
  <2>. QED  BY <2>1, <2>2
<1>3. CASE StartsOver(r, landed, resolved, u)
  <2>1. u.failed = << >>
    BY <1>3 DEF StartsOver
  <2>2. DOMAIN u.failed = {}
    BY <2>1
  <2>3. PICK f \in 1 .. Len(r.list) : u.list = SubSeq(r.list, f, Len(r.list))
    BY <1>3, StartsWithin
  <2>4. PICK n \in Nat : n = Len(r.list) /\ DOMAIN r.list = 1 .. n
    BY <1>0
  <2>5. /\ Len(u.list) = n - f + 1 /\ DOMAIN u.list = 1 .. (n - f + 1)
        /\ \A i \in 1 .. (n - f + 1) : f + i - 1 \in DOMAIN r.list /\ u.list[i] = r.list[f + i - 1]
    BY <1>0, <2>3, <2>4, SuffixIs
  <2>6. \A i \in DOMAIN u.list : \E k \in DOMAIN r.list : u.list[i] = r.list[k]
    BY <2>5
  <2>7. ASSUME PartLast(r.list), NEW i \in DOMAIN u.list, u.list[i].op = "part" PROVE i = Len(u.list) - 1
    <3>1. f + i - 1 = n - 1
      BY <2>4, <2>5, <2>7 DEF PartLast
    <3>2. i \in Int /\ f \in Int
      BY <2>5
    <3>3. i = n - f
      BY <3>1, <3>2
    <3>. QED  BY <2>5, <3>2, <3>3
  <2>8. PartLast(r.list) => PartLast(u.list)
    BY <2>7 DEF PartLast
  <2>. QED  BY <2>2, <2>6, <2>8
<1>. QED  BY <1>1, <1>2, <1>3

\* A run that is left out stays so until it is over: no retry of a bidder drops
\* the participation print.
LEMMA EscapesStays ==
  ASSUME NEW w, NEW x, NEW r \in Runs, Stands(r), r.at # 0, \A i \in DOMAIN r.failed : r.failed[i] < r.at,
         NEW landed, NEW resolved \in BOOLEAN, NEW u, w.out \subseteq x.out, Escapes(r, w),
         GoesOn(r, landed, resolved, u) \/ (PartLast(r.list) /\ (Repeats(r, landed, resolved, u) \/ StartsOver(r, landed, resolved, u)))
  PROVE  Escapes(u, x)
<1>1. CASE u.list = r.list
  BY <1>1 DEF Escapes, HasPrint, Several
<1>2. CASE PartLast(r.list) /\ StartsOver(r, landed, resolved, u)
  <2>0. r.at \in 0 .. Len(r.list) /\ r.list \in Seq(LawfulTxs) /\ Len(r.list) \in Nat
    BY RunFields DEF Stands, Lists
  <2>1. PICK f \in 1 .. Len(r.list) : f < r.at /\ u.list = SubSeq(r.list, f, Len(r.list))
    BY <1>2, StartsWithin
  <2>2. PICK n \in Nat : n = Len(r.list) /\ DOMAIN r.list = 1 .. n
    BY <2>0
  <2>3. /\ DOMAIN u.list = 1 .. (n - f + 1)
        /\ \A i \in 1 .. (n - f + 1) : u.list[i] = r.list[f + i - 1]
    BY <2>0, <2>1, <2>2, SuffixIs
  <2>4. ~Several(r.list)
    BY <1>2 DEF PartLast, Several
  <2>5. "part" \in w.out /\ HasPrint(r.list)
    BY <2>4 DEF Escapes
  <2>6. PICK k \in DOMAIN r.list : r.list[k].op = "part"
    BY <2>5 DEF HasPrint
  <2>7. k = n - 1
    BY <1>2, <2>2, <2>6 DEF PartLast
  <2>8. f <= n - 1
    BY <2>0, <2>1, <2>2
  <2>9. n - f \in 1 .. (n - f + 1) /\ f + (n - f) - 1 = n - 1
    BY <2>8
  <2>10. u.list[n - f] = r.list[k]
    BY <2>3, <2>7, <2>9
  <2>. QED  BY <2>3, <2>5, <2>6, <2>9, <2>10 DEF Escapes, HasPrint
<1>3. GoesOn(r, landed, resolved, u) \/ Repeats(r, landed, resolved, u) => u.list = r.list
  BY DEF GoesOn, Repeats
<1>. QED  BY <1>1, <1>2, <1>3

-----------------------------------------------------------------------------
(* The inductive invariant of UndisturbedAccepted.                          *)

\* No participation print of the list has a number above n.
PartsUpTo(list, n) == \A i \in DOMAIN list : list[i].op = "part" => list[i].number <= n

\* The numbers of the participation prints do not run ahead of how many there
\* are, on the chain or on any list.
PartsLow ==
  /\ \A q \in part : q.number <= PartSupply
  /\ \A p \in Pages : PartsUpTo(run[p].list, PartSupply + 1)

\* The seller has the master back once its editions are printed.
GoneIsPrinted == "master" \in out => \A i \in Won : NumbersOf(i) \subseteq Taken

\* No pot is claimed but those of winners.
ClaimedByWinners == \A b \in Bidders : pot[b] = "claimed" => b \in Winners

\* Rejections lie behind, and the participation print of a bidder is the last
\* but one on its list.
InOrder(p, r) ==
  /\ \A i \in DOMAIN r.failed : r.failed[i] < r.at
  /\ p # Seller => PartLast(r.list)

\* A page that nothing disturbed sends what fits, or is left out.
AsClicked(r, w) == r.at # 0 => Escapes(r, w) \/ Fits(r, w)

\* The inductive invariant.
AcceptInv ==
  /\ RedeemInv /\ PartsLow /\ GoneIsPrinted /\ ClaimedByWinners
  /\ \A p \in Pages : InOrder(p, run[p])
  /\ \A p \in Pages \ disturbed : AsClicked(run[p], World)

\* A page that sends nothing.
LEMMA IdleOrder ==
  ASSUME NEW p, NEW w
  PROVE  InOrder(p, Idle) /\ AsClicked(Idle, w) /\ \A n : PartsUpTo(Idle.list, n)
<1>1. Idle.list = << >> /\ Idle.failed = << >> /\ Idle.at = 0
  BY DEF Idle
<1>2. DOMAIN << >> = {}
  OBVIOUS
<1>. QED  BY <1>1, <1>2 DEF InOrder, AsClicked, PartLast, PartsUpTo

\* A list that is made from an up to date page fits, or is left out.
LEMMA FreshFits ==
  ASSUME RedeemInv, GoneIsPrinted, NEW r, r.list \in Seq(Asked(Current)), r.at = 1, r.failed = << >>, r.minted = {},
         EndsFirst(Current, r.list), Coherent(r.list) \/ Several(r.list), LastTakes(Current, r.list)
  PROVE  Escapes(r, World) \/ Fits(r, World)
<1>. SUFFICES ASSUME ~Escapes(r, World) PROVE Fits(r, World)
  OBVIOUS
<1>0. /\ World.out = out /\ World.taken = Taken /\ World.box = box /\ World.has = HasPart
      /\ World.parts = PartSupply /\ World.won = Won /\ World.over = over
  BY DEF World
<1>1. Coherent(r.list) /\ ("part" \in out => ~HasPrint(r.list))
  BY <1>0 DEF Escapes
<1>2. DOMAIN r.failed = {}
  OBVIOUS
<1>3. ASSUME NEW j \in 1 .. Len(r.list) PROVE Expected(r, j, World)
  <2>. DEFINE t == r.list[j]
  <2>1. t \in Asked(Current) /\ j \in DOMAIN r.list
    OBVIOUS
  <2>2. /\ t \in LawfulTxs
        /\ t.op = "print" => /\ t.number \notin Taken
                             /\ \E k \in 1 .. Prints[t.place] : t.number = Desired(Current, t.place, k - 1)
        /\ t.op = "box" => t.place \notin Current.given
        /\ t.op = "cancel" => t.of \in Bidders
        /\ t.op = "part" => t.of \in Eligible \ Current.part /\ t.number = Current.partSupply + 1
        /\ t.op = "take" => t.number \in {1, 2} /\ (IF t.number = 1 THEN "part" ELSE "master") \notin out
    BY <2>1 DEF Asked
  <2>3. Current.given = GivenBox /\ Current.part = HasPart /\ Current.partSupply = PartSupply
    BY DEF Current
  <2>4. t.op = "print" => "master" \notin out /\ t.number \notin Taken /\ t.number \in NumbersOf(t.place)
    <3>. SUFFICES ASSUME t.op = "print" PROVE "master" \notin out /\ t.number \notin Taken /\ t.number \in NumbersOf(t.place)
      OBVIOUS
    <3>1. t.place \in Won
      BY <2>2 DEF LawfulTxs, Lawful
    <3>2. t.number \in NumbersOf(t.place)
      BY <2>2, <3>1, CurrentNumbers
    <3>. QED  BY <2>2, <3>1, <3>2 DEF GoneIsPrinted
  <2>5. t.op = "box" => box[t.place] = "vault"
    <3>1. t.op = "box" => t.place \in Places
      BY <2>2, Constants DEF LawfulTxs, Lawful
    <3>. QED  BY <2>2, <2>3, <3>1 DEF GivenBox
  <2>6. t.op = "part" => /\ "part" \notin out /\ t.of \notin HasPart /\ t.number = PartSupply + 1
                         /\ Sends(r, j, "mint", t.of)
    <3>1. t.op = "part" => "part" \notin out
      BY <1>1, <2>1 DEF HasPrint
    <3>2. t.op = "part" => Sends(r, j, "mint", t.of)
      BY <1>1, <2>1 DEF Coherent, Sends
    <3>. QED  BY <2>2, <2>3, <3>1, <3>2
  <2>7. t.op = "sale" => Sends(r, j, "part", t.of)
    BY <1>1, <2>1 DEF Coherent, Sends
  <2>8. t.op = "take" =>
          IF t.number = 1 THEN "part" \notin out
          ELSE "master" \notin out /\ \A i \in Won : \A n \in NumbersOf(i) : n \in Taken \/ SendsPrint(r, j, n)
    <3>1. t.op = "take" => IF t.number = 1 THEN "part" \notin out ELSE "master" \notin out
      BY <2>2
    <3>2. ASSUME t.op = "take", t.number # 1, NEW i \in Won, NEW n \in NumbersOf(i), n \notin Taken
          PROVE  SendsPrint(r, j, n)
      <4>1. PICK k \in 1 .. Prints[i] : n = Desired(Current, i, k - 1)
        BY CurrentNumbers
      <4>2. \E h \in 1 .. (j - 1) : r.list[h].op = "print" /\ r.list[h].number = Desired(Current, i, k - 1)
        BY <2>1, <3>2, <4>1 DEF LastTakes
      <4>. QED  BY <4>1, <4>2 DEF SendsPrint
    <3>. QED  BY <3>1, <3>2
  <2>9. t.of \notin r.minted
    OBVIOUS
  <2>10. IF t.op = "end" THEN ~over ELSE over \/ SendsEnd(r, j)
    <3>1. Current.over = over
      BY DEF Current
    <3>2. t.op = "end" => ~over
      BY <2>1, <3>1 DEF Asked
    <3>3. ASSUME t.op # "end", ~over PROVE SendsEnd(r, j)
      <4>1. 1 \in DOMAIN r.list /\ r.list[1].op = "end"
        BY <3>1, <3>3 DEF EndsFirst
      <4>2. j # 1
        BY <3>3, <4>1
      <4>3. 1 \in 1 .. (j - 1)
        BY <4>2
      <4>. QED  BY <4>1, <4>3 DEF SendsEnd
    <3>. QED  BY <3>2, <3>3
  <2>. HIDE DEF t
  <2>. QED  BY <1>0, <2>2, <2>4, <2>5, <2>6, <2>7, <2>8, <2>9, <2>10 DEF Expected, t
<1>. QED  BY <1>1, <1>2, <1>3 DEF Fits, Coherent

-----------------------------------------------------------------------------
(* The steps, and UndisturbedAccepted.                                      *)

\* What the next transaction of a run is.
LEMMA NextIs ==
  ASSUME RedeemTyped, NEW p \in Pages, Sending(p), NEW r, r = run[p]
  PROVE  /\ r \in Runs /\ Stands(r) /\ r.at # 0 /\ r.at \in 1 .. Len(r.list) /\ r.at \in DOMAIN r.list
         /\ NextTx(p) = r.list[r.at] /\ NextTx(p) \in LawfulTxs
<1>1. r \in Runs /\ Stands(r) /\ r.at # 0
  BY DEF RedeemTyped, Sending
<1>2. r.list \in Seq(LawfulTxs) /\ r.at \in 1 .. Len(r.list)
  BY <1>1, RunFields DEF Stands, Lists
<1>. QED  BY <1>1, <1>2, NextTxLawful DEF NextTx

\* What fits is accepted, and nothing of it is refused but the claim of a pot.
LEMMA FitIsAccepted ==
  ASSUME RedeemInv, PartsLow, ClaimedByWinners, NEW p \in Pages, Sending(p), Fits(run[p], World)
  PROVE  /\ Accepted(p, NextTx(p))
         /\ MayBeRefused(p, NextTx(p)) => NextTx(p).op \in {"claim", "cancel"}
<1>1. PICK r : r = run[p]
  OBVIOUS
<1>2. PICK t : t = NextTx(p)
  OBVIOUS
<1>3. r.at \in 1 .. Len(r.list) /\ t = r.list[r.at] /\ t \in LawfulTxs
  BY <1>1, <1>2, NextIs DEF RedeemInv
<1>4. Expected(r, r.at, World)
  <2>1. r.at \in r.at .. Len(r.list)
    BY <1>3
  <2>. QED  BY <1>1, <2>1 DEF Fits
<1>5. (\A o, of : ~Sends(r, r.at, o, of)) /\ (\A n : ~SendsPrint(r, r.at, n)) /\ ~SendsEnd(r, r.at)
  <2>1. r.at .. (r.at - 1) = {}
    BY <1>3
  <2>. QED  BY <2>1 DEF Sends, SendsEnd, SendsPrint
<1>17. IF t.op = "end" THEN ~over ELSE over
  BY <1>3, <1>4, <1>5 DEF Expected, World
<1>6. /\ t.op = "print" => "master" \notin out /\ t.number \notin Taken /\ t.number \in NumbersOf(t.place)
      /\ t.op = "box" => box[t.place] = "vault"
      /\ t.op = "cancel" => t.of \in Bidders
      /\ t.op = "mint" => t.of \notin r.minted
      /\ t.op = "part" => /\ "part" \notin out /\ t.of \notin HasPart /\ t.number = PartSupply + 1
                          /\ t.of \in r.minted
      /\ t.op = "sale" => t.of \in HasPart
      /\ t.op = "take" => IF t.number = 1 THEN "part" \notin out
                          ELSE "master" \notin out /\ \A i \in Won : NumbersOf(i) \subseteq Taken
  <2>1. /\ World.out = out /\ World.taken = Taken /\ World.box = box /\ World.has = HasPart
        /\ World.parts = PartSupply /\ World.won = Won
    BY DEF World
  <2>. QED  BY <1>3, <1>4, <1>5, <2>1 DEF Expected
<1>7. Lawful(t) /\ t \in Transactions
  BY <1>3 DEF LawfulTxs
<1>8. CASE t.op = "print"
  <2>1. t.place \in Won /\ t.place \in Places
    BY <1>7, <1>8, WonAre DEF Lawful, RedeemInv, RedeemTyped
  <2>2. PICK k \in 0 .. (Prints[t.place] - 1) : t.number = Supply + Offset(t.place) + k
    <3>1. PICK o \in Nat, n \in Nat, s \in Nat : o = Offset(t.place) /\ n = Prints[t.place] /\ s = Supply
      BY <2>1, Constants, OffsetsAre
    <3>2. t.number \in (s + o) .. (s + o + n - 1)
      BY <1>6, <1>8, <3>1 DEF NumbersOf
    <3>3. t.number - s - o \in 0 .. (n - 1) /\ t.number = s + o + (t.number - s - o)
      BY <3>2
    <3>. QED  BY <3>1, <3>3
  <2>3. PICK b : b = IF ticket # NoTicket THEN ticket ELSE SupplyNow
    OBVIOUS
  <2>4. b = Supply
    BY <2>3, CountsFrom
  <2>5. t.number = b + Offset(t.place) + k
    BY <2>2, <2>4
  <2>6. Accepted(p, t)
    BY <1>6, <1>8, <2>3, <2>5 DEF Accepted
  <2>. QED  BY <1>2, <1>8, <1>17, <2>6 DEF MayBeRefused
<1>9. CASE t.op = "box"
  BY <1>2, <1>6, <1>9, <1>17 DEF Accepted, MayBeRefused
<1>10. CASE t.op = "claim"
  <2>1. t.of \in Winners /\ t.of \in ToSet(auction.bids)
    BY <1>7, <1>10, WonAre DEF Lawful, RedeemInv, RedeemTyped
  <2>2. pot[t.of] \in {"full", "claimed"}
    BY <2>1 DEF RedeemInv, PotsByPlace
  <2>. QED  BY <1>2, <1>10, <1>17, <2>2 DEF Accepted
<1>11. CASE t.op = "cancel"
  <2>1. t.of \in Bidders /\ t.of \notin Winners
    BY <1>6, <1>7, <1>11 DEF Lawful
  <2>2. pot[t.of] # "claimed"
    BY <2>1 DEF ClaimedByWinners
  <2>. QED  BY <1>2, <1>11, <2>2 DEF Accepted
<1>12. CASE t.op = "mint"
  BY <1>1, <1>2, <1>6, <1>12, <1>17 DEF Accepted, MayBeRefused
<1>13. CASE t.op = "part"
  <2>1. PartSupply \in Nat
    BY FS_CardinalityType DEF PartSupply, RedeemInv, RedeemTyped
  <2>2. ASSUME NEW q \in part PROVE q.number # t.number
    <3>1. q.number \in Int /\ q.number <= PartSupply
      BY DEF RedeemInv, RedeemTyped, PartsLow
    <3>. QED  BY <1>6, <1>13, <2>1, <3>1
  <2>. QED  BY <1>1, <1>2, <1>6, <1>13, <1>17, <2>2 DEF Accepted, MayBeRefused
<1>14. CASE t.op = "sale"
  BY <1>2, <1>6, <1>14, <1>17 DEF Accepted, MayBeRefused
<1>15. CASE t.op = "take"
  <2>1. t.number # 1 => AllPrinted
    BY <1>6, <1>15, PrintedAll DEF AllPrinted
  <2>. QED  BY <1>2, <1>6, <1>15, <1>17, <2>1 DEF Accepted, MayBeRefused
<1>16. t.op \in Ops
  BY <1>7 DEF Transactions
<1>18. CASE t.op = "end"
  BY <1>2, <1>17, <1>18 DEF Accepted, MayBeRefused
<1>. QED  BY <1>8, <1>9, <1>10, <1>11, <1>12, <1>13, <1>14, <1>15, <1>16, <1>18 DEF Ops

\* What a transaction that is accepted changes of the chain.
LEMMA EffectChanges ==
  ASSUME RedeemTyped, NEW p, NEW t \in LawfulTxs, Effect(p, t)
  PROVE  /\ After(World, World', t) /\ Won' = Won /\ Winners' = Winners
         /\ Taken \subseteq Taken' /\ out \subseteq out' /\ part \subseteq part'
<1>1. /\ World.out = out /\ World.taken = Taken /\ World.box = box /\ World.has = HasPart
      /\ World.parts = PartSupply /\ World.won = Won
      /\ World'.out = out' /\ World'.taken = Taken' /\ World'.box = box' /\ World'.has = HasPart'
      /\ World'.parts = PartSupply' /\ World'.won = Won'
      /\ World.over = over /\ World'.over = over'
  BY DEF World
<1>2. Won' = Won /\ Winners' = Winners
  BY DEF Effect, Won, Winners
<1>3. out' = out \cup (IF t.op = "take" THEN {IF t.number = 1 THEN "part" ELSE "master"} ELSE {})
  BY DEF Effect
<1>4. Taken' = Taken \cup (IF t.op = "print" THEN {t.number} ELSE {})
  <2>1. CASE t.op = "print"
    <3>1. PICK e : e = [of |-> t.of, place |-> t.place, number |-> t.number]
      OBVIOUS
    <3>2. printed' = printed \cup {e} /\ e.number = t.number
      BY <2>1, <3>1 DEF Effect
    <3>3. Taken' = {q.number : q \in printed \cup {e}}
      BY <3>2 DEF Taken
    <3>4. {q.number : q \in printed \cup {e}} = {q.number : q \in printed} \cup {e.number}
      OBVIOUS
    <3>. QED  BY <2>1, <3>2, <3>3, <3>4 DEF Taken
  <2>2. CASE t.op # "print"
    <3>1. printed' = printed
      BY <2>2 DEF Effect
    <3>. QED  BY <2>2, <3>1 DEF Taken
  <2>. QED  BY <2>1, <2>2
<1>5. /\ HasPart' = HasPart \cup (IF t.op = "part" THEN {t.of} ELSE {}) /\ part \subseteq part'
      /\ t.op # "part" => PartSupply' = PartSupply
  <2>1. CASE t.op = "part"
    <3>1. PICK e : e = [of |-> t.of, number |-> t.number]
      OBVIOUS
    <3>2. part' = part \cup {e} /\ e.of = t.of
      BY <2>1, <3>1 DEF Effect
    <3>3. HasPart' = {q.of : q \in part \cup {e}}
      BY <3>2 DEF HasPart
    <3>4. {q.of : q \in part \cup {e}} = {q.of : q \in part} \cup {e.of}
      OBVIOUS
    <3>. QED  BY <2>1, <3>2, <3>3, <3>4 DEF HasPart
  <2>2. CASE t.op # "part"
    <3>1. part' = part
      BY <2>2 DEF Effect
    <3>. QED  BY <2>2, <3>1 DEF HasPart, PartSupply
  <2>. QED  BY <2>1, <2>2
<1>6. /\ \A i \in Places : t.op = "box" => (t.place # i => box'[i] = box[i])
      /\ t.op # "box" => box' = box
  <2>1. t.op = "box" => box' = [box EXCEPT ![t.place] = t.of] /\ t.place \in Places
    BY Constants DEF Effect, LawfulTxs, Lawful
  <2>2. box \in [Places -> {"vault", "none"} \cup Pages]
    BY DEF RedeemTyped
  <2>3. t.op # "box" => box' = box
    BY DEF Effect
  <2>4. ASSUME NEW i \in Places, t.op = "box", t.place # i PROVE box'[i] = box[i]
    BY <2>1, <2>2, <2>4
  <2>. QED  BY <2>3, <2>4
<1>9. IF t.op = "end" THEN over' ELSE over' = over
  BY DEF Effect, RedeemTyped
<1>7. After(World, World', t)
  <2>1. PICK w, x : w = World /\ x = World'
    OBVIOUS
  <2>10. IF t.op = "end" THEN x.over ELSE x.over = w.over
    BY <1>1, <1>9, <2>1
  <2>2. /\ w.out = out /\ w.taken = Taken /\ w.box = box /\ w.has = HasPart /\ w.parts = PartSupply /\ w.won = Won
        /\ x.out = out' /\ x.taken = Taken' /\ x.box = box' /\ x.has = HasPart' /\ x.parts = PartSupply' /\ x.won = Won'
    BY <1>1, <2>1
  <2>3. x.out = w.out \cup (IF t.op = "take" THEN {IF t.number = 1 THEN "part" ELSE "master"} ELSE {})
    BY <1>3, <2>2
  <2>4. x.taken = w.taken \cup (IF t.op = "print" THEN {t.number} ELSE {})
    BY <1>4, <2>2
  <2>5. \A i \in Places : t.op = "box" => (t.place # i => x.box[i] = w.box[i])
    BY <1>6, <2>2
  <2>6. t.op # "box" => x.box = w.box
    BY <1>6, <2>2
  <2>7. x.has = w.has \cup (IF t.op = "part" THEN {t.of} ELSE {})
    BY <1>5, <2>2
  <2>8. (t.op # "part" => x.parts = w.parts) /\ x.won = w.won
    BY <1>2, <1>5, <2>2
  <2>9. After(w, x, t)
    BY <2>3, <2>4, <2>5, <2>6, <2>7, <2>8, <2>10 DEF After
  <2>. QED  BY <2>1, <2>9
<1>8. Taken \subseteq Taken' /\ out \subseteq out'
  BY <1>3, <1>4
<1>. QED  BY <1>2, <1>5, <1>7, <1>8

\* Participation prints are counted, and a new one makes one more.
LEMMA PartsGrow ==
  ASSUME RedeemTyped, NEW p \in Pages, NEW t \in LawfulTxs, Accepted(p, t), Effect(p, t)
  PROVE  /\ PartSupply \in Nat
         /\ t.op # "part" => part' = part /\ PartSupply' = PartSupply
         /\ t.op = "part" => /\ part' = part \cup {[of |-> t.of, number |-> t.number]}
                             /\ PartSupply' = PartSupply + 1
<1>1. IsFiniteSet(part) /\ PartSupply = Cardinality(part) /\ PartSupply' = Cardinality(part')
  BY DEF RedeemTyped, PartSupply
<1>2. Cardinality(part) \in Nat
  BY <1>1, FS_CardinalityType
<1>3. CASE t.op # "part"
  <2>1. part' = part
    BY <1>3 DEF Effect
  <2>. QED  BY <1>1, <1>2, <1>3, <2>1
<1>4. CASE t.op = "part"
  <2>1. PICK e : e = [of |-> t.of, number |-> t.number]
    OBVIOUS
  <2>2. part' = part \cup {e} /\ e.of = t.of
    BY <1>4, <2>1 DEF Effect
  <2>3. t.of \notin HasPart
    BY <1>4 DEF Accepted
  <2>4. e \notin part
    BY <2>2, <2>3 DEF HasPart
  <2>5. Cardinality(part \cup {e}) = Cardinality(part) + 1
    BY <1>1, <2>4, FS_AddElement
  <2>. QED  BY <1>1, <1>2, <1>4, <2>1, <2>2, <2>5
<1>. QED  BY <1>3, <1>4

\* A step of a page that leaves the chain as it is.
LEMMA PageStepAccepts ==
  ASSUME AcceptInv, RedeemInv', UNCHANGED chain, NEW p \in Pages, NEW u, run' = [run EXCEPT ![p] = u],
         InOrder(p, u), PartsUpTo(u.list, PartSupply + 1),
         disturbed \ {p} \subseteq disturbed', p \notin disturbed' => AsClicked(u, World)
  PROVE  AcceptInv'
<1>1. /\ Won' = Won /\ Winners' = Winners /\ PartSupply' = PartSupply /\ World' = World
      /\ Taken' = Taken /\ part' = part /\ out' = out /\ pot' = pot
  BY DEF chain, Won, Winners, PartSupply, World, Taken, HasPart
<1>2. run \in [Pages -> Runs]
  BY DEF AcceptInv, RedeemInv, RedeemTyped
<1>3. \A q \in Pages : q # p => run'[q] = run[q]
  BY <1>2
<1>4. run'[p] = u
  BY <1>2
<1>5. PartsLow'
  <2>1. \A q \in Pages : PartsUpTo(run'[q].list, PartSupply + 1)
    BY <1>3, <1>4 DEF AcceptInv, PartsLow
  <2>2. \A q \in part : q.number <= PartSupply
    BY DEF AcceptInv, PartsLow
  <2>. QED  BY <1>1, <2>1, <2>2 DEF PartsLow
<1>6. GoneIsPrinted' /\ ClaimedByWinners'
  BY <1>1 DEF AcceptInv, GoneIsPrinted, ClaimedByWinners, NumbersOf, Offset
<1>7. \A q \in Pages : InOrder(q, run'[q])
  BY <1>3, <1>4 DEF AcceptInv
<1>8. ASSUME NEW q \in Pages \ disturbed' PROVE AsClicked(run'[q], World)
  <2>1. CASE q = p
    BY <1>4, <1>8, <2>1
  <2>2. CASE q # p
    <3>1. q \in Pages \ disturbed
      BY <1>8, <2>2
    <3>. QED  BY <1>3, <2>2, <3>1 DEF AcceptInv
  <2>. QED  BY <2>1, <2>2
<1>. QED  BY <1>1, <1>5, <1>6, <1>7, <1>8 DEF AcceptInv

\* What a click makes of a page.
LEMMA ClickGives ==
  ASSUME NEW list \in Lists, NEW loop \in BOOLEAN, NEW u, u = Turn([Idle EXCEPT !.list = list, !.retry = loop])
  PROVE  u = Idle \/ (u.list = list /\ u.at = 1 /\ u.failed = << >> /\ u.minted = {})
<1>1. PICK r : r = [Idle EXCEPT !.list = list, !.retry = loop]
  OBVIOUS
<1>2. r \in Runs
  BY <1>1, IdleTyped DEF Runs
<1>3. r.list = list /\ r.stop = 0 /\ r.minted = {}
  BY <1>1 DEF Idle
<1>4. list = SubSeq(r.list, r.stop + 1, Len(r.list))
  <2>1. SubSeq(list, 1, Len(list)) = list
    BY SubSeqFull DEF Lists
  <2>2. r.stop + 1 = 1
    BY <1>3
  <2>. QED  BY <1>3, <2>1, <2>2
<1>5. PICK x : x = Turn(r)
  OBVIOUS
<1>6. x = Idle \/ (x.list = list /\ x.at = 1 /\ x.failed = << >> /\ x.minted = r.minted)
  BY <1>2, <1>4, <1>5, TurnGives
<1>. QED  BY <1>1, <1>3, <1>5, <1>6

\* No list is numbered ahead of the participation prints there are.
LEMMA ClickInOrder ==
  ASSUME RedeemInv, NEW p \in Pages, NEW v \in Views, v.partSupply <= PartSupply, Click(p, v)
  PROVE  \E u : /\ run' = [run EXCEPT ![p] = u] /\ InOrder(p, u) /\ PartsUpTo(u.list, PartSupply + 1)
                /\ \/ u = Idle
                   \/ u.list \in ListsOf(p, v) /\ u.at = 1 /\ u.failed = << >> /\ u.minted = {}
<1>. DEFINE loop == EligibleForAnything(v, p)
<1>1. PICK list \in ListsOf(p, v) :
        run' = [run EXCEPT ![p] = Turn([Idle EXCEPT !.list = list, !.retry = loop])]
  BY DEF Click
<1>0. loop \in BOOLEAN
  BY DEF EligibleForAnything, IsEligible
<1>. HIDE DEF loop
<1>2. list \in Lists
  BY ListLawful DEF RedeemInv, RedeemTyped
<1>3. list \in Seq(Asked(v)) /\ (p # Seller => PartLast(list))
  BY ListAsked DEF RedeemInv, RedeemTyped
<1>4. PICK u : u = Turn([Idle EXCEPT !.list = list, !.retry = loop])
  OBVIOUS
<1>5. run' = [run EXCEPT ![p] = u]
  BY <1>1, <1>4
<1>6. u = Idle \/ (u.list = list /\ u.at = 1 /\ u.failed = << >> /\ u.minted = {})
  BY <1>0, <1>2, <1>4, ClickGives
<1>7. CASE u = Idle
  BY <1>5, <1>7, IdleOrder
<1>8. CASE u.list = list /\ u.at = 1 /\ u.failed = << >> /\ u.minted = {}
  <2>1. DOMAIN u.failed = {}
    BY <1>8
  <2>2. InOrder(p, u)
    BY <1>3, <1>8, <2>1 DEF InOrder
  <2>3. PartSupply \in Nat /\ v.partSupply \in Int
    BY FS_CardinalityType DEF PartSupply, RedeemInv, RedeemTyped, Views
  <2>4. ASSUME NEW i \in DOMAIN list, list[i].op = "part" PROVE list[i].number <= PartSupply + 1
    <3>1. list[i] \in Asked(v)
      BY <1>3
    <3>2. list[i].number = v.partSupply + 1
      BY <2>4, <3>1 DEF Asked
    <3>. QED  BY <2>3, <3>2
  <2>5. PartsUpTo(u.list, PartSupply + 1)
    BY <1>8, <2>4 DEF PartsUpTo
  <2>. QED  BY <1>5, <1>8, <2>2, <2>5
<1>. QED  BY <1>6, <1>7, <1>8

\* A click on a page that is up to date.
LEMMA FreshAccepts ==
  ASSUME AcceptInv, RedeemInv', NEW p \in Pages, ClickFresh(p)
  PROVE  AcceptInv'
<1>1. RedeemInv /\ GoneIsPrinted
  BY DEF AcceptInv
<1>2. Click(p, Current) /\ disturbed' = disturbed \ {p}
  BY DEF ClickFresh
<1>3. PICK v \in Views : v = Current
  BY <1>1, ViewsAre DEF RedeemInv
<1>4. v.partSupply <= PartSupply
  <2>1. PartSupply \in Nat
    BY <1>1, FS_CardinalityType DEF PartSupply, RedeemInv, RedeemTyped
  <2>2. v.partSupply = PartSupply
    BY <1>3 DEF Current
  <2>. QED  BY <2>1, <2>2
<1>5. PICK u : /\ run' = [run EXCEPT ![p] = u] /\ InOrder(p, u) /\ PartsUpTo(u.list, PartSupply + 1)
               /\ \/ u = Idle
                  \/ u.list \in ListsOf(p, v) /\ u.at = 1 /\ u.failed = << >> /\ u.minted = {}
  BY <1>1, <1>2, <1>3, <1>4, ClickInOrder
<1>6. AsClicked(u, World)
  <2>1. CASE u = Idle
    BY <2>1, IdleOrder
  <2>2. CASE u.list \in ListsOf(p, v) /\ u.at = 1 /\ u.failed = << >> /\ u.minted = {}
    <3>1. PICK list \in ListsOf(p, v) : list = u.list
      BY <2>2
    <3>2. list \in Seq(Asked(v)) /\ EndsFirst(v, list) /\ (Coherent(list) \/ Several(list)) /\ LastTakes(v, list)
      BY <1>1, ListAsked DEF RedeemInv, RedeemTyped
    <3>3. u.list = list
      BY <3>1
    <3>4. u.list \in Seq(Asked(Current)) /\ EndsFirst(Current, u.list) /\ (Coherent(u.list) \/ Several(u.list)) /\ LastTakes(Current, u.list)
      BY <1>3, <3>2, <3>3
    <3>5. Escapes(u, World) \/ Fits(u, World)
      BY <1>1, <2>2, <3>4, FreshFits
    <3>. QED  BY <3>5 DEF AsClicked
  <2>. QED  BY <1>5, <2>1, <2>2
<1>7. UNCHANGED chain
  BY <1>2 DEF Click
<1>8. disturbed \ {p} \subseteq disturbed'
  BY <1>2
<1>. QED  BY <1>5, <1>6, <1>7, <1>8, PageStepAccepts

\* A click on a page that shows what was.
LEMMA StaleAccepts ==
  ASSUME AcceptInv, RedeemInv', NEW p \in Pages, ClickStale(p)
  PROVE  AcceptInv'
<1>1. RedeemInv
  BY DEF AcceptInv
<1>2. PICK v \in Older : Click(p, v)
  BY DEF ClickStale
<1>3. v \in Views
  BY <1>1, ViewsAre DEF RedeemInv
<1>4. v.partSupply <= PartSupply
  <2>1. PartSupply \in Nat
    BY <1>1, FS_CardinalityType DEF PartSupply, RedeemInv, RedeemTyped
  <2>2. v.partSupply \in {PartSupply, 0}
    BY DEF Older, Current
  <2>. QED  BY <2>1, <2>2
<1>5. PICK u : run' = [run EXCEPT ![p] = u] /\ InOrder(p, u) /\ PartsUpTo(u.list, PartSupply + 1)
  BY <1>1, <1>2, <1>3, <1>4, ClickInOrder
<1>6. UNCHANGED chain
  BY <1>2 DEF Click
<1>7. disturbed \ {p} \subseteq disturbed' /\ p \in disturbed'
  BY DEF ClickStale
<1>. QED  BY <1>5, <1>6, <1>7, PageStepAccepts

\* What an answer makes of the order of a run.
LEMMA ToldInOrder ==
  ASSUME AcceptInv, NEW p \in Pages, Sending(p), NEW landed \in BOOLEAN, NEW resolved \in BOOLEAN,
         NEW u, u = Told(p, landed, resolved)
  PROVE  InOrder(p, u) /\ PartsUpTo(u.list, PartSupply + 1)
<1>1. PICK r : r = run[p]
  OBVIOUS
<1>2. RedeemTyped /\ InOrder(p, r) /\ PartsUpTo(r.list, PartSupply + 1)
  BY <1>1 DEF AcceptInv, RedeemInv, PartsLow
<1>3. r \in Runs /\ Stands(r) /\ r.at # 0
  BY <1>1, <1>2, NextIs
<1>4. u = Idle \/ GoesOn(r, landed, resolved, u) \/ (p # Seller /\ (Repeats(r, landed, resolved, u) \/ StartsOver(r, landed, resolved, u)))
  BY <1>1, <1>2, ToldGives
<1>5. CASE u = Idle
  BY <1>5, IdleOrder
<1>6. CASE GoesOn(r, landed, resolved, u) \/ Repeats(r, landed, resolved, u) \/ StartsOver(r, landed, resolved, u)
  <2>1. \A i \in DOMAIN r.failed : r.failed[i] < r.at
    BY <1>2 DEF InOrder
  <2>2. /\ \A i \in DOMAIN u.failed : u.failed[i] < u.at
        /\ PartLast(r.list) => PartLast(u.list)
        /\ \A i \in DOMAIN u.list : \E k \in DOMAIN r.list : u.list[i] = r.list[k]
    <3>1. GoesOn(r, landed, resolved, u) \/ Repeats(r, landed, resolved, u) \/ StartsOver(r, landed, resolved, u)
      BY <1>6
    <3>2. \A i \in DOMAIN u.failed : u.failed[i] < u.at
      BY <1>3, <2>1, <3>1, OrderStays
    <3>3. PartLast(r.list) => PartLast(u.list)
      BY <1>3, <2>1, <3>1, OrderStays
    <3>4. \A i \in DOMAIN u.list : \E k \in DOMAIN r.list : u.list[i] = r.list[k]
      BY <1>3, <2>1, <3>1, OrderStays
    <3>. QED  BY <3>2, <3>3, <3>4
  <2>3. InOrder(p, u)
    BY <1>2, <2>2 DEF InOrder
  <2>4. ASSUME NEW i \in DOMAIN u.list, u.list[i].op = "part" PROVE u.list[i].number <= PartSupply + 1
    <3>1. PICK k \in DOMAIN r.list : u.list[i] = r.list[k]
      BY <2>2
    <3>. QED  BY <1>2, <2>4, <3>1 DEF PartsUpTo
  <2>5. PartsUpTo(u.list, PartSupply + 1)
    BY <2>4 DEF PartsUpTo
  <2>. QED  BY <2>3, <2>5
<1>. QED  BY <1>4, <1>5, <1>6

\* What an answer makes of a page that nothing disturbed.
LEMMA ToldAsClicked ==
  ASSUME AcceptInv, NEW p \in Pages, Sending(p), p \notin disturbed, NEW resolved \in BOOLEAN,
         NEW u, u = Told(p, resolved, resolved), NEW x, After(World, x, NextTx(p)),
         ~resolved => x = World /\ MayBeRefused(p, NextTx(p))
  PROVE  AsClicked(u, x)
<1>1. PICK r : r = run[p]
  OBVIOUS
<1>2. PICK t : t = NextTx(p)
  OBVIOUS
<1>3. RedeemInv /\ RedeemTyped /\ InOrder(p, r) /\ PartsLow /\ ClaimedByWinners
  BY <1>1 DEF AcceptInv, RedeemInv
<1>4. r \in Runs /\ Stands(r) /\ r.at # 0 /\ t = r.list[r.at] /\ \A i \in DOMAIN r.failed : r.failed[i] < r.at
  BY <1>1, <1>2, <1>3, NextIs DEF InOrder
<1>5. u = Idle \/ GoesOn(r, resolved, resolved, u) \/ (p # Seller /\ (Repeats(r, resolved, resolved, u) \/ StartsOver(r, resolved, resolved, u)))
  BY <1>1, <1>3, ToldGives
<1>6. PICK w : w = World
  OBVIOUS
<1>7. After(w, x, t) /\ (~resolved => x = w)
  BY <1>2, <1>6
<1>8. Escapes(r, w) \/ Fits(r, w)
  BY <1>1, <1>4, <1>6 DEF AcceptInv, AsClicked
<1>9. CASE u = Idle
  BY <1>9, IdleOrder
<1>10. CASE u # Idle /\ Escapes(r, w)
  <2>1. w.out \subseteq x.out
    BY <1>7 DEF After
  <2>2. p # Seller => PartLast(r.list)
    BY <1>3 DEF InOrder
  <2>3. Escapes(u, x)
    BY <1>4, <1>5, <1>10, <2>1, <2>2, EscapesStays
  <2>. QED  BY <2>3 DEF AsClicked
<1>11. CASE u # Idle /\ Fits(r, w)
  <2>1. resolved \/ t.op \in {"claim", "cancel"}
    <3>1. Fits(run[p], World)
      BY <1>1, <1>6, <1>11
    <3>2. MayBeRefused(p, NextTx(p)) => NextTx(p).op \in {"claim", "cancel"}
      BY <1>3, <3>1, FitIsAccepted
    <3>. QED  BY <1>2, <3>2
  <2>2. GoesOn(r, resolved, resolved, u) \/ Repeats(r, resolved, resolved, u) \/ StartsOver(r, resolved, resolved, u)
    BY <1>5, <1>11
  <2>3. Fits(u, x)
    BY <1>4, <1>7, <1>11, <2>1, <2>2, FitsStays
  <2>. QED  BY <2>3 DEF AsClicked
<1>. QED  BY <1>8, <1>9, <1>10, <1>11

\* A transaction that is refused or lost.
LEMMA RefusedAccepts ==
  ASSUME AcceptInv, RedeemInv', NEW p \in Pages, Refused(p) \/ Lost(p)
  PROVE  AcceptInv'
<1>1. Sending(p) /\ run' = [run EXCEPT ![p] = Told(p, FALSE, FALSE)] /\ UNCHANGED chain
  BY DEF Refused, Lost
<1>2. PICK u : u = Told(p, FALSE, FALSE)
  OBVIOUS
<1>3. InOrder(p, u) /\ PartsUpTo(u.list, PartSupply + 1)
  BY <1>1, <1>2, ToldInOrder
<1>4. run' = [run EXCEPT ![p] = u]
  BY <1>1, <1>2
<1>5. disturbed \ {p} \subseteq disturbed'
  BY DEF Refused, Lost
<1>6. p \notin disturbed' => AsClicked(u, World)
  <2>. SUFFICES ASSUME p \notin disturbed' PROVE AsClicked(u, World)
    OBVIOUS
  <2>1. Refused(p) /\ p \notin disturbed
    BY DEF Refused, Lost
  <2>2. MayBeRefused(p, NextTx(p))
    BY <2>1 DEF Refused
  <2>3. CASE NextTx(p).op \in {"claim", "cancel"}
    <3>1. PICK w, t : w = World /\ t = NextTx(p)
      OBVIOUS
    <3>2. t.op \in {"claim", "cancel"}
      BY <2>3, <3>1
    <3>3. After(w, w, t)
      BY <3>2 DEF After
    <3>4. After(World, World, NextTx(p))
      BY <3>1, <3>3
    <3>. QED  BY <1>1, <1>2, <2>1, <2>2, <3>4, ToldAsClicked
  <2>4. CASE NextTx(p).op \notin {"claim", "cancel"}
    <3>1. PICK r : r = run[p]
      OBVIOUS
    <3>2. RedeemInv /\ RedeemTyped /\ PartsLow /\ ClaimedByWinners /\ InOrder(p, r)
      BY <3>1 DEF AcceptInv, RedeemInv
    <3>3. r \in Runs /\ Stands(r) /\ r.at # 0 /\ \A i \in DOMAIN r.failed : r.failed[i] < r.at
      BY <1>1, <3>1, <3>2, NextIs DEF InOrder
    <3>4. Escapes(r, World) \/ Fits(r, World)
      BY <2>1, <3>1, <3>3 DEF AcceptInv, AsClicked
    <3>5. Escapes(r, World)
      <4>1. ~Fits(run[p], World)
        BY <1>1, <2>2, <2>4, <3>2, FitIsAccepted
      <4>. QED  BY <3>1, <3>4, <4>1
    <3>6. u = Idle \/ GoesOn(r, FALSE, FALSE, u) \/ (p # Seller /\ (Repeats(r, FALSE, FALSE, u) \/ StartsOver(r, FALSE, FALSE, u)))
      BY <1>1, <1>2, <3>1, <3>2, ToldGives
    <3>7. p # Seller => PartLast(r.list)
      BY <3>2 DEF InOrder
    <3>8. CASE u = Idle
      BY <3>8, IdleOrder
    <3>9. CASE u # Idle
      <4>1. Escapes(u, World)
        BY <3>3, <3>5, <3>6, <3>7, <3>9, EscapesStays
      <4>. QED  BY <4>1 DEF AsClicked
    <3>. QED  BY <3>8, <3>9
  <2>. QED  BY <2>3, <2>4
<1>. QED  BY <1>1, <1>3, <1>4, <1>5, <1>6, PageStepAccepts

\* A transaction that lands, whatever its sender is told.
LEMMA LandsAccepts ==
  ASSUME AcceptInv, RedeemInv', NEW p \in Pages, Lands(p) \/ Unheard(p)
  PROVE  AcceptInv'
<1>0. PICK resolved \in BOOLEAN : /\ run' = [run EXCEPT ![p] = Told(p, TRUE, resolved)]
                                  /\ ~resolved => p \in disturbed'
  <2>1. CASE Lands(p)
    BY <2>1 DEF Lands
  <2>2. CASE Unheard(p)
    BY <2>2 DEF Unheard
  <2>. QED  BY <2>1, <2>2
<1>1. /\ Sending(p) /\ Accepted(p, NextTx(p)) /\ Effect(p, NextTx(p))
      /\ run' = [run EXCEPT ![p] = Told(p, TRUE, resolved)]
      /\ disturbed \subseteq disturbed'
      /\ \A q \in Pages \ {p} : ~IsIdle(q) => q \in disturbed'
  <2>1. Sending(p) /\ Accepted(p, NextTx(p)) /\ Effect(p, NextTx(p))
    BY DEF Lands, Unheard
  <2>2. disturbed \cup BusyBeside(p) \subseteq disturbed'
    BY DEF Lands, Unheard
  <2>3. \A q \in Pages \ {p} : ~IsIdle(q) => q \in BusyBeside(p)
    BY DEF BusyBeside
  <2>4. disturbed \subseteq disturbed'
    BY <2>2
  <2>5. \A q \in Pages \ {p} : ~IsIdle(q) => q \in disturbed'
    BY <2>2, <2>3
  <2>6. run' = [run EXCEPT ![p] = Told(p, TRUE, resolved)]
    BY <1>0
  <2>. HIDE DEF Sending, Accepted, Effect, NextTx, IsIdle, Told
  <2>. QED  BY <2>1, <2>4, <2>5, <2>6, ZenonT(30)
<1>2. RedeemInv /\ RedeemTyped
  BY DEF AcceptInv, RedeemInv
<1>3. PICK u : u = Told(p, TRUE, resolved)
  OBVIOUS
<1>4. PICK t \in LawfulTxs : t = NextTx(p)
  BY <1>1, <1>2, NextTxLawful
<1>5. Accepted(p, t) /\ Effect(p, t)
  BY <1>1, <1>4
<1>6. /\ After(World, World', t) /\ Won' = Won /\ Winners' = Winners
      /\ Taken \subseteq Taken' /\ out \subseteq out' /\ part \subseteq part'
  BY <1>2, <1>5, EffectChanges
<1>7. /\ PartSupply \in Nat
      /\ t.op # "part" => part' = part /\ PartSupply' = PartSupply
      /\ t.op = "part" => part' = part \cup {[of |-> t.of, number |-> t.number]} /\ PartSupply' = PartSupply + 1
  BY <1>2, <1>5, PartsGrow
<1>8. InOrder(p, u) /\ PartsUpTo(u.list, PartSupply + 1)
  <2>1. TRUE \in BOOLEAN
    OBVIOUS
  <2>. QED  BY <1>1, <1>3, <2>1, ToldInOrder
<1>9. run'[p] = u /\ \A q \in Pages : q # p => run'[q] = run[q]
  <2>1. run \in [Pages -> Runs]
    BY <1>2 DEF RedeemTyped
  <2>. QED  BY <1>1, <1>3, <2>1
<1>10. PartsLow'
  <2>1. \A q \in Pages : PartsUpTo(run'[q].list, PartSupply + 1)
    BY <1>8, <1>9 DEF AcceptInv, PartsLow
  <2>2. ASSUME NEW q \in Pages PROVE PartsUpTo(run'[q].list, PartSupply' + 1)
    <3>1. PICK l : l = run'[q].list
      OBVIOUS
    <3>2. PartsUpTo(l, PartSupply + 1)
      BY <2>1, <3>1
    <3>3. l \in Lists
      <4>1. run[q] \in Runs /\ run'[q] \in Runs'
        BY <1>2 DEF RedeemTyped, RedeemInv
      <4>2. run[q].list \in Lists
        BY <4>1, RunFields
      <4>3. run'[q] \in Runs
        <5>1. auction' = auction
          BY <1>5 DEF Effect
        <5>2. Runs' = Runs
          BY <5>1 DEF Runs, Lists, LawfulTxs, Lawful, BoxOf, Winners, Won
        <5>. QED  BY <4>1, <5>2
      <4>. QED  BY <3>1, <4>3, RunFields
    <3>4. \A i \in DOMAIN l : l[i].number \in Int
      <4>1. \A i \in DOMAIN l : l[i] \in LawfulTxs
        BY <3>3 DEF Lists
      <4>. QED  BY <4>1 DEF LawfulTxs, Transactions
    <3>5. PartsUpTo(l, PartSupply + 2)
      BY <1>7, <3>2, <3>4 DEF PartsUpTo
    <3>6. CASE t.op = "part"
      <4>1. PartSupply' + 1 = PartSupply + 2
        BY <1>7, <3>6
      <4>. QED  BY <3>1, <3>5, <4>1
    <3>7. CASE t.op # "part"
      <4>1. PartSupply' + 1 = PartSupply + 1
        BY <1>7, <3>7
      <4>. QED  BY <3>1, <3>2, <4>1
    <3>. QED  BY <3>6, <3>7
  <2>3. ASSUME NEW q \in part' PROVE q.number <= PartSupply'
    <3>1. \A o \in part : o.number <= PartSupply /\ o.number \in Int
      BY <1>2 DEF AcceptInv, PartsLow, RedeemTyped
    <3>2. CASE t.op # "part"
      BY <1>7, <2>3, <3>1, <3>2
    <3>3. CASE t.op = "part"
      <4>1. PICK e : e = [of |-> t.of, number |-> t.number]
        OBVIOUS
      <4>2. e.number = t.number /\ (q \in part \/ q = e) /\ PartSupply' = PartSupply + 1
        BY <1>7, <2>3, <3>3, <4>1
      <4>3. t.number <= PartSupply + 1
        <5>1. PICK r : r = run[p]
          OBVIOUS
        <5>2. r.at \in DOMAIN r.list /\ t = r.list[r.at]
          BY <1>1, <1>2, <1>4, <5>1, NextIs
        <5>3. PartsUpTo(r.list, PartSupply + 1)
          BY <5>1 DEF AcceptInv, PartsLow
        <5>. QED  BY <3>3, <5>2, <5>3 DEF PartsUpTo
      <4>4. CASE q \in part
        BY <1>7, <3>1, <4>2, <4>4
      <4>5. CASE q = e
        BY <4>2, <4>3, <4>5
      <4>. QED  BY <4>2, <4>4, <4>5
    <3>. QED  BY <3>2, <3>3
  <2>. QED  BY <2>2, <2>3 DEF PartsLow
<1>11. GoneIsPrinted'
  <2>1. ASSUME "master" \in out', NEW i \in Won PROVE NumbersOf(i) \subseteq Taken'
    <3>1. CASE "master" \in out
      <4>1. NumbersOf(i) \subseteq Taken
        BY <3>1 DEF AcceptInv, GoneIsPrinted
      <4>. QED  BY <1>6, <4>1
    <3>2. CASE "master" \notin out
      <4>1. t.op = "take" /\ t.number # 1
        BY <1>5, <2>1, <3>2 DEF Effect
      <4>2. AllPrinted
        BY <1>5, <4>1 DEF Accepted
      <4>3. NumbersOf(i) \subseteq Taken
        BY <1>2, <4>2, PrintedAll DEF AllPrinted
      <4>. QED  BY <1>6, <4>3
    <3>. QED  BY <3>1, <3>2
  <2>. QED  BY <1>6, <2>1 DEF GoneIsPrinted, NumbersOf, Offset
<1>12. ClaimedByWinners'
  <2>1. ASSUME NEW b \in Bidders, pot'[b] = "claimed" PROVE b \in Winners
    <3>1. pot' = IF t.op = "claim" THEN [pot EXCEPT ![t.of] = "claimed"]
                 ELSE IF t.op = "cancel" THEN [pot EXCEPT ![t.of] = "refunded"] ELSE pot
      BY <1>5 DEF Effect
    <3>2. t.op = "claim" => t.of \in Winners
      BY <1>4 DEF LawfulTxs, Lawful
    <3>3. pot[b] = "claimed" => b \in Winners
      BY DEF AcceptInv, ClaimedByWinners
    <3>4. pot \in [Bidders -> {"none", "full", "claimed", "refunded"}]
      BY <1>2 DEF RedeemTyped
    <3>5. CASE t.op = "claim"
      BY <2>1, <3>1, <3>2, <3>3, <3>4, <3>5
    <3>6. CASE t.op = "cancel"
      BY <2>1, <3>1, <3>3, <3>4, <3>6
    <3>7. CASE t.op \notin {"claim", "cancel"}
      BY <2>1, <3>1, <3>3, <3>7
    <3>. QED  BY <3>5, <3>6, <3>7
  <2>. QED  BY <1>6, <2>1 DEF ClaimedByWinners
<1>13. \A q \in Pages : InOrder(q, run'[q])
  BY <1>8, <1>9 DEF AcceptInv
<1>14. ASSUME NEW q \in Pages \ disturbed' PROVE AsClicked(run'[q], World')
  <2>1. CASE q = p
    <3>1. p \notin disturbed /\ resolved
      BY <1>0, <1>1, <1>14, <2>1
    <3>2. PICK x : x = World'
      OBVIOUS
    <3>3. After(World, x, NextTx(p))
      BY <1>4, <1>6, <3>2
    <3>4. AsClicked(u, x)
      <4>1. resolved = TRUE /\ u = Told(p, resolved, resolved)
        BY <1>3, <3>1
      <4>. QED  BY <1>1, <3>1, <3>3, <4>1, ToldAsClicked
    <3>. QED  BY <1>9, <2>1, <3>2, <3>4
  <2>2. CASE q # p
    <3>1. run[q] = Idle
      BY <1>1, <1>14, <2>2 DEF IsIdle
    <3>2. run'[q] = Idle
      BY <1>9, <2>2, <3>1
    <3>. QED  BY <3>2, IdleOrder
  <2>. QED  BY <2>1, <2>2
<1>. QED  BY <1>10, <1>11, <1>12, <1>13, <1>14 DEF AcceptInv

\* A turn that throws sends what is left behind the answer of the one before.
LEMMA ThrowsAccepts ==
  ASSUME AcceptInv, RedeemInv', NEW p \in Pages, Throws(p)
  PROVE  AcceptInv'
<1>1. run' = [run EXCEPT ![p] = Ends(run[p])] /\ UNCHANGED chain /\ disturbed' = disturbed \cup {p}
  BY DEF Throws
<1>2. PICK r, u : r = run[p] /\ u = Ends(r)
  OBVIOUS
<1>3. r \in Runs /\ InOrder(p, r) /\ PartsUpTo(r.list, PartSupply + 1)
  BY <1>2 DEF AcceptInv, PartsLow, RedeemInv, RedeemTyped
<1>4. r.list \in Seq(LawfulTxs) /\ Len(r.list) \in Nat /\ r.stop \in Nat
  BY <1>3, RunFields DEF Lists
<1>5. PICK left : left = SubSeq(r.list, r.stop + 1, Len(r.list))
  OBVIOUS
<1>6. u = Idle \/ (left # << >> /\ u.list = left /\ u.failed = << >>)
  <2>1. PICK x : x = Turn(r)
    OBVIOUS
  <2>2. x = Idle \/ (left # << >> /\ x.list = left /\ x.at = 1 /\ x.failed = << >> /\ x.minted = r.minted)
    BY <1>3, <1>5, <2>1, TurnGives
  <2>3. u = Idle \/ u = x
    BY <1>2, <2>1 DEF Ends
  <2>. QED  BY <2>2, <2>3
<1>7. InOrder(p, u) /\ PartsUpTo(u.list, PartSupply + 1)
  <2>1. CASE u = Idle
    BY <2>1, IdleOrder
  <2>2. CASE left # << >> /\ u.list = left /\ u.failed = << >>
    <3>1. PICK n \in Nat, f \in Nat : n = Len(r.list) /\ f = r.stop + 1
      BY <1>4
    <3>2. f \in 1 .. n
      <4>1. r.stop >= n => SubSeq(r.list, r.stop + 1, Len(r.list)) = << >>
        BY <1>4, <3>1, SubSeqEmpty
      <4>. QED  BY <1>4, <1>5, <2>2, <3>1, <4>1
    <3>3. /\ Len(left) = n - f + 1 /\ DOMAIN left = 1 .. (n - f + 1)
          /\ \A i \in 1 .. (n - f + 1) : f + i - 1 \in DOMAIN r.list /\ left[i] = r.list[f + i - 1]
      <4>1. f \in 1 .. Len(r.list) /\ left = SubSeq(r.list, f, Len(r.list))
        BY <1>5, <3>1, <3>2
      <4>2. /\ Len(left) = Len(r.list) - f + 1 /\ DOMAIN left = 1 .. (Len(r.list) - f + 1)
            /\ \A i \in 1 .. (Len(r.list) - f + 1) : f + i - 1 \in DOMAIN r.list /\ left[i] = r.list[f + i - 1]
        BY <1>4, <4>1, SuffixIs
      <4>. QED  BY <3>1, <4>2
    <3>4. ASSUME p # Seller, NEW i \in DOMAIN left, left[i].op = "part" PROVE i = Len(left) - 1
      <4>1. f + i - 1 = n - 1
        BY <1>3, <3>1, <3>3, <3>4 DEF InOrder, PartLast
      <4>. QED  BY <3>3, <4>1
    <3>5. ASSUME NEW i \in DOMAIN left, left[i].op = "part" PROVE left[i].number <= PartSupply + 1
      BY <1>3, <3>3, <3>5 DEF PartsUpTo
    <3>6. DOMAIN u.failed = {}
      BY <2>2
    <3>7. InOrder(p, u)
      BY <2>2, <3>4, <3>6 DEF InOrder, PartLast
    <3>8. PartsUpTo(u.list, PartSupply + 1)
      BY <2>2, <3>5 DEF PartsUpTo
    <3>. QED  BY <3>7, <3>8
  <2>. QED  BY <1>6, <2>1, <2>2
<1>8. run' = [run EXCEPT ![p] = u] /\ disturbed \ {p} \subseteq disturbed' /\ p \in disturbed'
  BY <1>1, <1>2
<1>. QED  BY <1>1, <1>7, <1>8, PageStepAccepts

\* Nothing is redeemed and nothing is sent.
LEMMA AcceptInit == Init => AcceptInv
<1>. SUFFICES ASSUME Init PROVE AcceptInv
  OBVIOUS
<1>1. RedeemInv
  BY InitKeeps
<1>2. part = {} /\ out = {} /\ disturbed = {} /\ \A p \in Pages : run[p] = Idle
  BY DEF Init
<1>3. PartsLow
  BY <1>2, IdleOrder DEF PartsLow
<1>4. GoneIsPrinted
  BY <1>2 DEF GoneIsPrinted
<1>5. ClaimedByWinners
  BY DEF Init, ClaimedByWinners
<1>6. \A p \in Pages : InOrder(p, run[p]) /\ AsClicked(run[p], World)
  BY <1>2, IdleOrder
<1>. QED  BY <1>1, <1>3, <1>4, <1>5, <1>6 DEF AcceptInv

\* Every step keeps the invariant.
LEMMA AcceptNext == AcceptInv /\ [Next]_vars => AcceptInv'
<1>. SUFFICES ASSUME AcceptInv, [Next]_vars PROVE AcceptInv'
  OBVIOUS
<1>1. RedeemInv'
  BY NextKeeps DEF AcceptInv
<1>2. CASE UNCHANGED vars
  <2>1. UNCHANGED chain /\ run' = run /\ disturbed' = disturbed
    BY <1>2 DEF vars, chain
  <2>2. PICK u : u = run[Seller]
    OBVIOUS
  <2>3. run \in [Pages -> Runs] /\ Seller \in Pages
    BY Constants DEF AcceptInv, RedeemInv, RedeemTyped
  <2>4. run' = [run EXCEPT ![Seller] = u]
    BY <2>1, <2>2, <2>3
  <2>5. InOrder(Seller, u) /\ PartsUpTo(u.list, PartSupply + 1)
    BY <2>2, <2>3 DEF AcceptInv, PartsLow
  <2>6. disturbed \ {Seller} \subseteq disturbed' /\ (Seller \notin disturbed' => AsClicked(u, World))
    BY <2>1, <2>2, <2>3 DEF AcceptInv
  <2>. QED  BY <1>1, <2>1, <2>3, <2>4, <2>5, <2>6, PageStepAccepts
<1>3. CASE Next
  <2>1. Visitors \subseteq Pages
    BY DEF Visitors
  <2>. QED  BY <1>1, <1>3, <2>1, FreshAccepts, StaleAccepts, RefusedAccepts, LandsAccepts, ThrowsAccepts DEF Next, Send
<1>. QED  BY <1>2, <1>3

\* The invariant holds whatever outcome, prizes and faults there are.
THEOREM AcceptInvariance == Spec => []AcceptInv
BY AcceptInit, AcceptNext, PTL DEF Spec

\* A list that is built from an up to date page is not refused anything while
\* nobody else changes the chain (UndisturbedAccepted), but for the two cases
\* the property names.
THEOREM AcceptsUndisturbed == Spec => []UndisturbedAccepted
<1>1. ASSUME AcceptInv PROVE UndisturbedAccepted
  <2>. SUFFICES ASSUME NEW p \in Pages \ disturbed, Sending(p), ~Accepted(p, NextTx(p))
                PROVE  Cardinality(PrintsFor(p)) > 1 \/ (PrintsFor(p) # {} /\ "part" \in out)
    BY DEF UndisturbedAccepted
  <2>1. RedeemInv /\ RedeemTyped /\ PartsLow /\ ClaimedByWinners /\ AsClicked(run[p], World)
    BY <1>1 DEF AcceptInv, RedeemInv
  <2>2. ~Fits(run[p], World)
    BY <2>1, FitIsAccepted
  <2>3. Escapes(run[p], World)
    BY <2>1, <2>2 DEF AsClicked, Sending
  <2>4. PICK list : list = run[p].list
    OBVIOUS
  <2>5. World.out = out /\ list \in Lists
    <3>1. run[p] \in Runs
      BY <2>1 DEF RedeemTyped
    <3>. QED  BY <2>4, <3>1, RunFields DEF World
  <2>6. PrintsFor(p) = {i \in DOMAIN list : list[i].op = "part"}
    BY <2>4 DEF PrintsFor
  <2>7. CASE Several(list)
    <3>1. PICK i \in PrintsFor(p), j \in PrintsFor(p) : i # j
      BY <2>6, <2>7 DEF Several
    <3>2. IsFiniteSet(PrintsFor(p))
      <4>1. PICK n \in Nat : DOMAIN list = 1 .. n
        BY <2>5 DEF Lists
      <4>2. IsFiniteSet(1 .. n)
        BY FS_Interval
      <4>3. PrintsFor(p) \in SUBSET (1 .. n)
        BY <2>6, <4>1
      <4>. QED  BY <4>2, <4>3, FS_Subset
    <3>3. Cardinality({i}) = 1 /\ IsFiniteSet({i})
      BY FS_Singleton
    <3>4. Cardinality({i} \cup {j}) = 2
      <4>1. Cardinality({i} \cup {j}) = Cardinality({i}) + 1
        BY <3>1, <3>3, FS_AddElement
      <4>. QED  BY <3>3, <4>1
    <3>5. {i} \cup {j} \in SUBSET PrintsFor(p)
      BY <3>1
    <3>6. Cardinality({i} \cup {j}) <= Cardinality(PrintsFor(p)) /\ Cardinality(PrintsFor(p)) \in Nat
      BY <3>2, <3>5, FS_Subset, FS_CardinalityType
    <3>. QED  BY <3>4, <3>6
  <2>8. CASE "part" \in out /\ HasPrint(list)
    BY <2>6, <2>8 DEF HasPrint
  <2>. QED  BY <2>3, <2>4, <2>5, <2>7, <2>8 DEF Escapes
<1>. QED  BY <1>1, AcceptInvariance, PTL

=============================================================================
