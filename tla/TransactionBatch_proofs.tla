----------------------- MODULE TransactionBatch_proofs -----------------------
(***************************************************************************)
(* Proofs about TransactionBatch, for lists of every length, every batch   *)
(* size and every set of calls, and about ManualRetry, the loop around     *)
(* such lists, for lists of any length and all three loops.  The bound on  *)
(* its turns is what keeps the wallet from prompting without end.          *)
(*                                                                         *)
(* Then about SignedTransaction, the send of one transaction that both     *)
(* rest on, for every set of transactions and with or without a lossy      *)
(* websocket; and about PolledTransaction, the tools' copy of the same     *)
(* code, as it runs beside it in MCSenders.                                *)
(***************************************************************************)
EXTENDS TransactionBatch, ManualRetry, MCSenders, WellFoundedInduction,
        FiniteSetTheorems, SequenceTheorems, TLAPS

-----------------------------------------------------------------------------
(* Induction over numbers, in a form without an operator for a parameter.  *)

\* A set of natural numbers that is not empty has a least element.
LEMMA LeastElement ==
  ASSUME NEW T, T \subseteq Nat, T # {}
  PROVE  \E x \in T : \A y \in T : x <= y
<1> DEFINE R == {ss \in Nat \X Nat : ss[1] < ss[2]}
<1>1. IsWellFoundedOn(R, Nat)
  BY NatLessThanWellFounded DEF OpToRel
<1>2. PICK x \in T : \A y \in T : ~(<<y, x>> \in R)
  <2> HIDE DEF R
  <2> QED BY <1>1, WFMin
<1>3. \A y \in T : ~(y < x)
  BY <1>2
<1> QED BY <1>3

\* A set that holds zero and the successor of whatever it holds has all of them.
LEMMA SetInduction ==
  ASSUME NEW S, 0 \in S, \A n \in Nat : n \in S => n + 1 \in S
  PROVE  Nat \subseteq S
<1> SUFFICES ASSUME Nat \ S # {} PROVE FALSE
  OBVIOUS
<1>1. PICK x \in Nat \ S : \A y \in Nat \ S : x <= y
  BY LeastElement
<1>2. x # 0 /\ x - 1 \in Nat /\ x - 1 \notin Nat \ S
  BY <1>1
<1> QED BY <1>1, <1>2

-----------------------------------------------------------------------------
(* The list of transactions that is signed.                                *)

\* The loop over the instruction sets, from the definition of Signable.
Step(from, before, k) ==
  IF k = 0 THEN <<>>
  ELSE IF k > from /\ k \in nonEmpty THEN Append(before, k) ELSE before
Txns(from) == CHOOSE f : f = [k \in 0..N |-> Step(from, f[k - 1], k)]

\* The operator of the model is the function defined here.
LEMMA SignableIsTxns == ASSUME NEW from, NEW to PROVE Signable(from, to) = Txns(from)[to]
  BY DEF Signable, Txns, Step

\* The loop has a result.
LEMMA TxnsDefined ==
  ASSUME NEW from, nonEmpty \subseteq Inputs
  PROVE  \A k \in 0..N : Txns(from)[k] = Step(from, Txns(from)[k - 1], k)
<1> DEFINE IsLoop(f, n) == f = [k \in 0..n |-> Step(from, f[k - 1], k)]
           S == {n \in Nat : \E f : IsLoop(f, n)}
<1>1. 0 \in S
  <2> DEFINE f == [k \in 0..0 |-> <<>>]
  <2>1. IsLoop(f, 0)
    BY DEF Step
  <2> QED BY <2>1
<1>2. ASSUME NEW n \in Nat, n \in S PROVE n + 1 \in S
  <2> PICK f : IsLoop(f, n)
    BY <1>2
  <2> DEFINE g == [k \in 0..(n + 1) |-> IF k = n + 1 THEN Step(from, f[n], k) ELSE f[k]]
  <2>1. ASSUME NEW k \in 0..(n + 1) PROVE g[k] = Step(from, g[k - 1], k)
    <3>1. CASE k = n + 1
      BY <3>1
    <3>2. CASE k # n + 1 /\ k # 0
      <4>1. g[k] = f[k] /\ g[k - 1] = f[k - 1]
        BY <3>2
      <4>2. f[k] = Step(from, f[k - 1], k)
        BY <3>2
      <4> HIDE DEF g, IsLoop
      <4> QED BY <4>1, <4>2
    <3>3. CASE k = 0
      BY <3>3 DEF Step
    <3> QED BY <3>1, <3>2, <3>3
  <2>2. g = [k \in 0..(n + 1) |-> Step(from, g[k - 1], k)]
    BY <2>1
  <2>3. IsLoop(g, n + 1)
    BY <2>2
  <2> HIDE DEF g, IsLoop
  <2> QED BY <2>3
<1>3. N \in S
  <2> HIDE DEF S
  <2> QED BY <1>1, <1>2, SetInduction, BatchAssumption
<1>4. \E f : IsLoop(f, N)
  BY <1>3
<1>5. IsLoop(Txns(from), N)
  BY <1>4 DEF Txns
<1> QED BY <1>5

\* What is known of the transactions made of the first k inputs: they are the
\* inputs with instructions behind `from', in their order.
Picks(txns, from, k) ==
  /\ txns \in Seq(Inputs) /\ Len(txns) <= k
  /\ \A a \in 1..Len(txns) : txns[a] \in nonEmpty /\ from < txns[a] /\ txns[a] <= k
  /\ \A a, b \in 1..Len(txns) : a < b => txns[a] < txns[b]
  /\ \A t \in nonEmpty : from < t /\ t <= k => \E a \in 1..Len(txns) : txns[a] = t

\* One input more.
LEMMA PicksNext ==
  ASSUME NEW txns, NEW from \in Nat, NEW n \in Nat, n + 1 <= N, nonEmpty \subseteq Inputs,
         Picks(txns, from, n)
  PROVE  IF n + 1 > from /\ n + 1 \in nonEmpty
         THEN Picks(Append(txns, n + 1), from, n + 1) ELSE Picks(txns, from, n + 1)
<1>0. N \in Nat /\ nonEmpty \subseteq Nat
  BY BatchAssumption DEF Inputs
<1>a. \A a \in 1..Len(txns) : txns[a] \in nonEmpty /\ from < txns[a] /\ txns[a] <= n
  BY DEF Picks
<1>b. \A a \in 1..Len(txns) : txns[a] \in Nat
  BY <1>0, <1>a
<1>1. CASE n + 1 > from /\ n + 1 \in nonEmpty
  <2> DEFINE u == Append(txns, n + 1)
  <2>1. u \in Seq(Inputs) /\ Len(u) = Len(txns) + 1 /\ Len(txns) \in Nat
    BY <1>0, <1>1 DEF Picks
  <2>2. u[Len(u)] = n + 1 /\ \A a \in 1..Len(txns) : u[a] = txns[a]
    BY <1>0, <1>1 DEF Picks
  <2> HIDE DEF u
  <2>3. \A a \in 1..Len(u) : u[a] \in nonEmpty /\ from < u[a] /\ u[a] <= n + 1
    <3> SUFFICES ASSUME NEW a \in 1..Len(u)
                 PROVE  u[a] \in nonEmpty /\ from < u[a] /\ u[a] <= n + 1
      OBVIOUS
    <3>1. CASE a = Len(u)
      BY <1>1, <2>2, <3>1
    <3>2. CASE a # Len(u)
      <4>1. a \in 1..Len(txns) /\ u[a] = txns[a]
        BY <2>1, <2>2, <3>2
      <4> QED BY <1>a, <1>b, <4>1
    <3> QED BY <3>1, <3>2
  <2>4. \A a, b \in 1..Len(u) : a < b => u[a] < u[b]
    <3> SUFFICES ASSUME NEW a \in 1..Len(u), NEW b \in 1..Len(u), a < b PROVE u[a] < u[b]
      OBVIOUS
    <3>1. a \in 1..Len(txns) /\ u[a] = txns[a] /\ txns[a] <= n /\ txns[a] \in Nat
      BY <1>a, <1>b, <2>1, <2>2
    <3>2. CASE b = Len(u)
      BY <2>2, <3>1, <3>2
    <3>3. CASE b # Len(u)
      <4>1. b \in 1..Len(txns) /\ u[b] = txns[b]
        BY <2>1, <2>2, <3>3
      <4> QED BY <3>1, <4>1 DEF Picks
    <3> QED BY <3>2, <3>3
  <2>5. ASSUME NEW t \in nonEmpty, from < t, t <= n + 1 PROVE \E a \in 1..Len(u) : u[a] = t
    <3>1. CASE t = n + 1
      BY <2>1, <2>2, <3>1
    <3>2. CASE t <= n
      <4> PICK a \in 1..Len(txns) : txns[a] = t
        BY <2>5, <3>2 DEF Picks
      <4> QED BY <2>1, <2>2
    <3> QED BY <1>0, <2>5, <3>1, <3>2
  <2>6. Len(u) <= n + 1
    BY <2>1 DEF Picks
  <2> QED BY <1>1, <2>1, <2>3, <2>4, <2>5, <2>6 DEF Picks, u
<1>2. CASE ~(n + 1 > from /\ n + 1 \in nonEmpty)
  <2>1. \A t \in nonEmpty : from < t /\ t <= n + 1 => t <= n
    BY <1>0, <1>2
  <2>2. \A a \in 1..Len(txns) : txns[a] <= n + 1
    BY <1>a, <1>b
  <2>3. Len(txns) <= n + 1
    BY DEF Picks
  <2> QED BY <1>2, <2>1, <2>2, <2>3 DEF Picks
<1> QED BY <1>1, <1>2

\* The list that is signed consists of inputs of the chunk, in their order.
LEMMA SignablePicks ==
  ASSUME NEW from \in 0..N, NEW to \in 0..N, nonEmpty \subseteq Inputs
  PROVE  Picks(Signable(from, to), from, to)
<1> DEFINE T == Txns(from)
           S == {n \in Nat : n <= N => Picks(T[n], from, n)}
<1>0. \A k \in 0..N : T[k] = Step(from, T[k - 1], k)
  BY TxnsDefined
<1> HIDE DEF T
<1>1. 0 \in S
  <2>1. T[0] = <<>>
    BY <1>0, BatchAssumption DEF Step
  <2>2. Picks(<<>>, from, 0)
    BY BatchAssumption DEF Picks, Inputs
  <2> QED BY <2>1, <2>2
<1>2. ASSUME NEW n \in Nat, n \in S PROVE n + 1 \in S
  <2> SUFFICES ASSUME n + 1 <= N PROVE Picks(T[n + 1], from, n + 1)
    OBVIOUS
  <2>1. Picks(T[n], from, n) /\ N \in Nat
    BY <1>2, BatchAssumption
  <2>2. T[n + 1] = Step(from, T[n], n + 1)
    <3>1. n + 1 \in 0..N /\ (n + 1) - 1 = n
      BY <2>1
    <3> QED BY <1>0, <3>1
  <2>3. from \in Nat /\ n + 1 # 0
    BY BatchAssumption
  <2>4. CASE n + 1 > from /\ n + 1 \in nonEmpty
    BY <2>1, <2>2, <2>3, <2>4, PicksNext DEF Step
  <2>5. CASE ~(n + 1 > from /\ n + 1 \in nonEmpty)
    BY <2>1, <2>2, <2>3, <2>5, PicksNext DEF Step
  <2> QED BY <2>4, <2>5
<1>3. to \in S
  <2> HIDE DEF S
  <2> QED BY <1>1, <1>2, SetInduction
<1> QED BY <1>3, SignableIsTxns DEF T

-----------------------------------------------------------------------------
(* The inductive invariant.                                                *)

HasAnswer(t) == answer[t] \in {"resolved", "rejected"}
Failed(a)   == answer[signed[a]] = "rejected"
Positions   == 1..Len(signed)
JobOf(j, t) == [job |-> j, at |-> t]
PlainCall       == call.fn = "sendTransactions"

\* The chunk being sent: its transactions in their order, everything before it
\* answered, nothing behind it sent, and no input without instructions ever.
\* Only sendTransactionsInChunks has a second chunk.
ChunkInv ==
  /\ \A a \in Positions : signed[a] \in nonEmpty /\ signed[a] <= rest
  /\ \A a, b \in Positions : a < b => signed[a] < signed[b]
  /\ \A t \in nonEmpty : t > rest => answer[t] = "unsent"
  /\ \A t \in Inputs \ nonEmpty : answer[t] = "unsent"
  /\ ~Chunked => rest = IF pc \in {"sending", "returned"} THEN N ELSE 0
  /\ Awaiting =>
       \A t \in nonEmpty : t <= rest =>
         HasAnswer(t) \/ (pc \in {"sending", "returned"} /\ \E a \in Positions : signed[a] = t)

\* The loop: what is before its index is answered, what is behind it not sent,
\* and the callbacks that are waiting are those of the transaction at the
\* index; or, in sendTransactions, the late handler of the one before.
Queue(t) ==
  \/ answer[t] = "sent" /\ microtasks = <<>>
  \/ /\ answer[t] = "sent" /\ PlainCall /\ i > 1 /\ Failed(i - 1)
     /\ microtasks = <<JobOf("recordFailure", signed[i - 1])>>
  \/ answer[t] = "resolved" /\ microtasks = <<JobOf("resume", t)>>
  \/ /\ answer[t] = "rejected" /\ PlainCall
     /\ \/ microtasks = <<JobOf("relay", t), JobOf("resume", t)>>
        \/ microtasks = <<JobOf("resume", t), JobOf("recordFailure", t)>>
  \/ /\ answer[t] = "rejected" /\ ~PlainCall
     /\ \/ microtasks = <<JobOf("recordFailure", t), JobOf("resume", t)>>
        \/ /\ microtasks = <<JobOf("resume", t)>>
           /\ Stopping => breakEarly /\ breakIndex = i - 1

LoopInv ==
  /\ Awaiting =>
       /\ pc = "sending" =>
            /\ i \in Positions /\ Queue(signed[i])
            /\ \A a \in Positions : (a < i => HasAnswer(signed[a]))
                                    /\ (a > i => answer[signed[a]] = "unsent")
       /\ pc # "sending" => \A t \in Inputs : answer[t] # "sent"
       /\ pc \in {"signing", "thrown"} => microtasks = <<>>
       /\ pc = "returned" =>
            microtasks = <<>> \/ \E a \in Positions : microtasks = <<JobOf("recordFailure", signed[a])>>
  /\ ~Awaiting => \A m \in 1..Len(microtasks) : microtasks[m].job # "resume"

\* With the handler attached directly the loop never gets past a rejection.
DirectInv ==
  StopsFor(Direct) =>
    \A t \in nonEmpty : answer[t] = "rejected" =>
      pc = "returned" \/ (pc = "sending" /\ t = signed[i])

\* sendTransactions with StopOnFailure knows of the first rejection one turn
\* late: while its handler waits the loop has gone on.
OneRecorded ==
  \/ ~breakEarly /\ \A a \in 1..(i - 1) : ~Failed(a)
  \/ /\ ~breakEarly /\ i > 1 /\ microtasks = <<JobOf("recordFailure", signed[i - 1])>>
     /\ \A a \in 1..(i - 1) : Failed(a) <=> a = i - 1
  \/ breakEarly /\ \E f \in 1..(i - 1) : /\ breakIndex = f - 1
                                          /\ \A a \in 1..(i - 1) : Failed(a) <=> a = f

SentAll ==
  /\ result = Len(signed) /\ \A a \in Positions : HasAnswer(signed[a])
  /\ \A a, b \in Positions : Failed(a) /\ Failed(b) => a = b
StoppedSecond ==
  \E f, s \in Positions :
    /\ f < s /\ result = f - 1
    /\ \A a \in Positions : /\ Failed(a) <=> a \in {f, s}
                            /\ IF a <= s THEN HasAnswer(signed[a]) ELSE answer[signed[a]] = "unsent"

PlainInv ==
  StopsFor({"sendTransactions"}) =>
    /\ pc = "sending" => OneRecorded
    /\ pc = "returned" => SentAll \/ StoppedSecond

BatchInv ==
  /\ SentUpToFailure
  /\ ChunkInv /\ LoopInv /\ DirectInv /\ PlainInv

-----------------------------------------------------------------------------
(* The steps.                                                              *)

\* The constants.
LEMMA Lengths == N \in Nat /\ N > 0 /\ BatchSize \in Nat /\ BatchSize > 0 /\ Inputs = 1..N
  BY BatchAssumption DEF Inputs

\* A transaction has one place in the list that was signed.
LEMMA PlaceIsIndex ==
  ASSUME TypeOK, ChunkInv, NEW a \in Positions
  PROVE  IndexOf(signed[a]) = a - 1
<1>1. \A b, c \in Positions : signed[b] \in Inputs /\ signed[c] \in Inputs
  BY DEF TypeOK, Positions
<1>2. \A b \in Positions : signed[b] = signed[a] => b = a
  <2> SUFFICES ASSUME NEW b \in Positions, signed[b] = signed[a], b # a PROVE FALSE
    OBVIOUS
  <2>1. signed[a] \in Int /\ (a < b \/ b < a)
    BY <1>1, Lengths DEF Positions
  <2> QED BY <2>1 DEF ChunkInv
<1> QED BY <1>2 DEF IndexOf, Positions

\* The head of the loop, with everything before position k answered: the next
\* transaction is sent, or the loop is left.
LEMMA LoopHead ==
  ASSUME TypeOK, SentInOrder, StopsAtFailure, Awaiting,
         call' = call, nonEmpty' = nonEmpty,
         signed' \in Seq(Inputs), Len(signed') <= N, rest' \in 1..N, ~Chunked => rest' = N,
         NEW k \in 1..(Len(signed') + 1),
         LoopAt(k, signed', rest'),
         \A a \in 1..Len(signed') : signed'[a] \in nonEmpty /\ signed'[a] <= rest',
         \A a, b \in 1..Len(signed') : a < b => signed'[a] < signed'[b],
         \A a \in 1..Len(signed') : (a < k => HasAnswer(signed'[a]))
                                    /\ (a >= k => answer[signed'[a]] = "unsent"),
         \A t \in Inputs : answer[t] # "sent",
         \A t \in nonEmpty : t > rest' => answer[t] = "unsent",
         \A t \in Inputs \ nonEmpty : answer[t] = "unsent",
         \A t \in nonEmpty : t <= rest' =>
            HasAnswer(t) \/ \E a \in 1..Len(signed') : signed'[a] = t,
         StopsFor(Direct) => \A t \in nonEmpty : answer[t] # "rejected"
  PROVE  /\ SentInOrder' /\ StopsAtFailure' /\ ChunkInv' /\ DirectInv'
         /\ pc' \in {"signing", "sending", "returned"} /\ i' \in 0..N
         /\ answer' \in [Inputs -> {"unsent", "sent", "resolved", "rejected"}]
         /\ result' \in {result} \cup (0..N)
         /\ pc' = "sending" =>
              /\ k <= Len(signed') /\ i' = k /\ answer'[signed'[k]] = "sent"
              /\ \A t \in Inputs \ {signed'[k]} : answer'[t] = answer[t]
              /\ \A a \in 1..Len(signed') : a # k => signed'[a] # signed'[k]
         /\ pc' # "sending" => k = Len(signed') + 1 /\ answer' = answer
         /\ pc' = "returned" => result' = FullCount(signed')
         /\ pc' = "signing" => Chunked
<1> DEFINE s == signed'
<1>0. /\ Len(s) \in Nat /\ nonEmpty \subseteq Inputs /\ \A a \in 1..Len(s) : s[a] \in Inputs
      /\ answer \in [Inputs -> {"unsent", "sent", "resolved", "rejected"}]
      /\ (Awaiting' <=> Awaiting) /\ (Chunked' <=> Chunked)
  BY DEF TypeOK, Awaiting, Chunked
<1>1. \A f : StopsFor(f)' <=> StopsFor(f)
  BY DEF StopsFor, Stopping
<1>2. CASE k <= Len(s)
  <2>1. i' = k /\ pc' = "sending" /\ result' = result /\ answer' = [answer EXCEPT ![s[k]] = "sent"]
    BY <1>2 DEF LoopAt
  <2>2. s[k] \in nonEmpty /\ s[k] \in Inputs /\ s[k] <= rest'
    BY <1>0, <1>2
  <2>3. answer'[s[k]] = "sent" /\ \A t \in Inputs \ {s[k]} : answer'[t] = answer[t]
    BY <1>0, <2>1, <2>2
  <2>4. \A a \in 1..Len(s) : a # k => s[a] # s[k]
    <3> SUFFICES ASSUME NEW a \in 1..Len(s), a # k, s[a] = s[k] PROVE FALSE
      OBVIOUS
    <3>1. s[k] \in Int /\ (a < k \/ k < a)
      BY <1>0, <2>2, Lengths
    <3> QED BY <1>2, <3>1
  <2>5. ASSUME NEW t \in nonEmpty, t < s[k] PROVE HasAnswer(t)
    <3>1. t \in Inputs /\ t \in Int /\ s[k] \in Int /\ rest' \in Int
      BY <1>0, <2>2, Lengths
    <3>2. t <= rest'
      BY <2>2, <2>5, <3>1
    <3>3. ASSUME NEW a \in 1..Len(s), s[a] = t PROVE a < k
      <4>1. ~(k < a) /\ a # k
        BY <1>2, <2>5, <3>1, <3>3
      <4> QED BY <4>1
    <3> QED BY <3>2, <3>3
  <2>6. SentInOrder'
    <3> SUFFICES ASSUME NEW t \in nonEmpty, NEW u \in nonEmpty, t < u,
                        answer'[t] \in {"unsent", "sent"}
                 PROVE  answer'[u] = "unsent"
      BY DEF SentInOrder
    <3>0. t \in Inputs /\ u \in Inputs /\ t \in Int /\ u \in Int
      BY <1>0, Lengths
    <3>1. CASE u = s[k]
      <4>1. HasAnswer(t) /\ t # s[k]
        BY <2>5, <3>0, <3>1
      <4> QED BY <2>3, <3>0, <4>1 DEF HasAnswer
    <3>2. CASE t = s[k]
      <4>1. CASE u > rest'
        BY <2>2, <2>3, <3>0, <3>2, <4>1
      <4>2. CASE u <= rest' /\ \E a \in 1..Len(s) : s[a] = u
        <5> PICK a \in 1..Len(s) : s[a] = u
          BY <4>2
        <5>1. ~(a < k) /\ a # k
          BY <1>2, <3>0, <3>2
        <5> QED BY <2>3, <2>4, <3>0, <5>1
      <4>3. CASE u <= rest' /\ HasAnswer(u)
        <5>1. answer[t] = "unsent"
          BY <1>2, <3>2
        <5>2. answer[u] = "unsent"
          BY <3>0, <5>1 DEF SentInOrder
        <5> QED BY <4>3, <5>2 DEF HasAnswer
      <4>4. rest' \in Int
        BY Lengths
      <4> QED BY <3>0, <4>1, <4>2, <4>3, <4>4
    <3>3. CASE t # s[k] /\ u # s[k]
      BY <2>3, <3>0, <3>3 DEF SentInOrder
    <3> QED BY <3>1, <3>2, <3>3
  <2>7. StopsAtFailure' /\ DirectInv'
    <3>1. StopsFor(Direct) => \A t \in nonEmpty : answer'[t] # "rejected"
      BY <1>0, <2>3
    <3> QED BY <1>1, <3>1 DEF StopsAtFailure, DirectInv
  <2>8. ChunkInv'
    <3>1. \A t \in nonEmpty : t > rest' => answer'[t] = "unsent"
      BY <1>0, <2>2, <2>3, Lengths
    <3>2. \A t \in nonEmpty : t <= rest' =>
            (HasAnswer(t))' \/ \E a \in 1..Len(s) : s[a] = t
      BY <1>0, <1>2, <2>3 DEF HasAnswer
    <3>3. \A t \in Inputs \ nonEmpty : answer'[t] = "unsent"
      BY <2>2, <2>3
    <3> QED BY <1>0, <2>1, <3>1, <3>2, <3>3 DEF ChunkInv, Positions
  <2>9. i' \in 0..N /\ k # Len(s) + 1
    BY <1>0, <1>2, <2>1, Lengths
  <2>10. answer' \in [Inputs -> {"unsent", "sent", "resolved", "rejected"}]
    BY <1>0, <2>1, <2>2
  <2>11. result' \in {result} \cup (0..N)
    BY <2>1
  <2> QED BY <1>2, <2>1, <2>3, <2>4, <2>6, <2>7, <2>8, <2>9, <2>10, <2>11
<1>3. CASE k = Len(s) + 1
  <2>1. /\ i' = 0 /\ answer' = answer
        /\ pc' = (IF rest' = N THEN "returned" ELSE "signing")
        /\ result' = (IF rest' = N THEN FullCount(s) ELSE result)
    BY <1>0, <1>3 DEF LoopAt
  <2>2. SentInOrder' /\ StopsAtFailure'
    BY <1>0, <1>1, <2>1 DEF SentInOrder, StopsAtFailure
  <2>3. DirectInv'
    BY <1>1, <2>1 DEF DirectInv
  <2>4. ChunkInv'
    <3>1. \A t \in nonEmpty : t <= rest' => (HasAnswer(t))'
      BY <1>0, <1>3, <2>1 DEF HasAnswer
    <3>2. ~Chunked => pc' = "returned"
      BY <2>1
    <3> QED BY <1>0, <2>1, <3>1, <3>2 DEF ChunkInv, Positions
  <2>5. FullCount(s) \in 0..N /\ i' \in 0..N
    BY <1>0, <2>1, Lengths DEF FullCount
  <2>6. result' \in {result} \cup (0..N) /\ (pc' = "returned" => result' = FullCount(s))
    BY <2>1, <2>5
  <2>7. pc' \in {"signing", "returned"} /\ (pc' = "signing" => Chunked)
    BY <2>1
  <2> QED BY <1>0, <1>3, <2>1, <2>2, <2>3, <2>4, <2>5, <2>6, <2>7
<1> QED BY <1>0, <1>2, <1>3

\* Short queues of callbacks.
LEMMA ShortQueues ==
  ASSUME NEW x, NEW y
  PROVE  /\ <<>> \o <<y>> = <<y>> /\ <<x>> \o <<>> = <<x>> /\ <<x>> \o <<y>> = <<x, y>>
         /\ <<>> \o <<>> = <<>>
         /\ Head(<<x>>) = x /\ Head(<<x, y>>) = x
         /\ Tail(<<x>>) = <<>> /\ Tail(<<x, y>>) = <<y>>
         /\ Append(<<x>>, y) = <<x, y>>
<1>1. <<>> \o <<y>> = <<y>> /\ <<x>> \o <<>> = <<x>> /\ <<>> \o <<>> = <<>>
  OBVIOUS
<1>0. <<x>> \in Seq({x, y}) /\ <<y>> \in Seq({x, y}) /\ <<x, y>> \in Seq({x, y})
  OBVIOUS
<1>2. <<x>> \o <<y>> = <<x, y>>
  <2> DEFINE s == <<x>> \o <<y>>
             t == <<x, y>>
  <2>1. s \in Seq({x, y}) /\ Len(s) = 2 /\ s[1] = x /\ s[2] = y
    BY <1>0, ConcatProperties
  <2>2. t \in Seq({x, y}) /\ Len(t) = 2 /\ t[1] = x /\ t[2] = y
    BY <1>0
  <2> HIDE DEF s, t
  <2>3. \A k \in 1..Len(s) : s[k] = t[k]
    BY <2>1, <2>2
  <2>4. s = t
    BY <2>1, <2>2, <2>3, SeqEqual
  <2> QED BY <2>4 DEF s, t
<1>3. Head(<<x>>) = x /\ Head(<<x, y>>) = x
  OBVIOUS
<1>4. Tail(<<x>>) = <<>>
  OBVIOUS
<1>5. Tail(<<x, y>>) = <<y>>
  OBVIOUS
<1>6. Append(<<x>>, y) = <<x, y>>
  <2> DEFINE s == Append(<<x>>, y)
             t == <<x, y>>
  <2>1. s \in Seq({x, y}) /\ Len(s) = 2 /\ s[1] = x /\ s[2] = y
    BY <1>0, AppendProperties
  <2>2. t \in Seq({x, y}) /\ Len(t) = 2 /\ t[1] = x /\ t[2] = y
    BY <1>0
  <2> HIDE DEF s, t
  <2>3. \A k \in 1..Len(s) : s[k] = t[k]
    BY <2>1, <2>2
  <2>4. s = t
    BY <2>1, <2>2, <2>3, SeqEqual
  <2> QED BY <2>4 DEF s, t
<1> QED BY <1>1, <1>2, <1>3, <1>4, <1>5, <1>6

\* No callback is waiting.
LEMMA EmptyQueue == <<>> \in Seq(Jobs) /\ Len(<<>>) <= 2
  OBVIOUS

\* The call keeps its kind.
LEMMA CallKept ==
  ASSUME call' = call
  PROVE  /\ (Awaiting' <=> Awaiting) /\ (Stopping' <=> Stopping) /\ (Chunked' <=> Chunked)
         /\ (PlainCall' <=> PlainCall)
         /\ \A f : StopsFor(f)' <=> StopsFor(f)
  BY DEF Awaiting, Stopping, Chunked, PlainCall, StopsFor

\* A Parallel sendTransactions promises nothing of the order.
LEMMA ParallelCall ==
  ASSUME call' = call, ~Awaiting
  PROVE  /\ ~Stopping /\ ~Chunked /\ PlainCall
         /\ SentInOrder' /\ StopsAtFailure' /\ RecentBlockReturnsFailure' /\ DirectInv' /\ PlainInv'
<1>1. call.fn = "sendTransactions" /\ call.sequenceType = "Parallel"
  BY DEF Awaiting
<1>2. ~Stopping /\ ~Chunked /\ PlainCall
  BY <1>1 DEF Stopping, Chunked, PlainCall
<1>3. \A f : ~StopsFor(f)'
  BY <1>2, CallKept DEF StopsFor
<1>4. SentInOrder' /\ StopsAtFailure' /\ DirectInv' /\ PlainInv'
  BY <1>3, CallKept DEF SentInOrder, StopsAtFailure, DirectInv, PlainInv
<1>5. RecentBlockReturnsFailure'
  BY <1>1 DEF RecentBlockReturnsFailure
<1> QED BY <1>2, <1>4, <1>5

\* The call begins in the invariant.
LEMMA InitBatch == Init => BatchInv
<1> SUFFICES ASSUME Init PROVE BatchInv
  OBVIOUS
<1> USE Lengths DEF Init
<1>1. TypeOK
  <2>1. answer \in [Inputs -> {"unsent", "sent", "resolved", "rejected"}]
    OBVIOUS
  <2>2. signed \in Seq(Inputs) /\ Len(signed) <= N
    OBVIOUS
  <2>3. microtasks \in Seq(Jobs) /\ Len(microtasks) <= 2
    BY EmptyQueue
  <2>4. call \in Calls /\ nonEmpty \subseteq Inputs /\ pc = "signing" /\ breakEarly = FALSE
    OBVIOUS
  <2>5. rest = 0 /\ i = 0 /\ breakIndex = 0 /\ result = 0 /\ 0 \in 0..N
    OBVIOUS
  <2> HIDE DEF Init
  <2> QED BY <2>1, <2>2, <2>3, <2>4, <2>5 DEF TypeOK
<1>2. SentInOrder /\ StopsAtFailure /\ RecentBlockReturnsFailure
  BY DEF SentInOrder, StopsAtFailure, RecentBlockReturnsFailure
<1>3. ChunkInv
  BY DEF ChunkInv, Positions
<1>4. LoopInv
  BY DEF LoopInv
<1>5. DirectInv /\ PlainInv
  BY DEF DirectInv, PlainInv
<1> QED BY <1>1, <1>2, <1>3, <1>4, <1>5 DEF BatchInv, SentUpToFailure

\* A signed chunk: the loop begins, or in Parallel runs through at once.
LEMMA SignStep == ASSUME BatchInv, Sign PROVE BatchInv'
<1> DEFINE s == signed'
<1>0. /\ TypeOK /\ SentInOrder /\ StopsAtFailure /\ ChunkInv /\ LoopInv /\ DirectInv
      /\ pc = "signing" /\ microtasks = <<>> /\ microtasks' = <<>>
      /\ call' = call /\ nonEmpty' = nonEmpty /\ breakEarly' = FALSE /\ breakIndex' = 0
      /\ rest' = ChunkEnd /\ s = Signable(rest, ChunkEnd)
  BY DEF BatchInv, SentUpToFailure, Sign
<1>1. rest \in 0..N /\ rest' \in 1..N /\ rest <= rest' /\ (~Chunked => rest' = N)
  BY <1>0, Lengths DEF ChunkEnd, TypeOK
<1>2. Picks(s, rest, rest') /\ nonEmpty \subseteq Inputs
  BY <1>0, <1>1, SignablePicks DEF TypeOK
<1>3. s \in Seq(Inputs) /\ Len(s) \in Nat /\ Len(s) <= N
  BY <1>1, <1>2, Lengths DEF Picks
<1>4. /\ \A a \in 1..Len(s) : s[a] \in nonEmpty /\ rest < s[a] /\ s[a] <= rest' /\ s[a] \in Inputs
      /\ \A a, b \in 1..Len(s) : a < b => s[a] < s[b]
  BY <1>2 DEF Picks
<1>5. \A t \in nonEmpty : t \in Int
  BY <1>2, Lengths
<1>6. CASE Awaiting
  <2>1. LoopAt(1, s, rest')
    BY <1>0, <1>6 DEF Sign
  <2>2. \A a \in 1..Len(s) : answer[s[a]] = "unsent"
    BY <1>0, <1>4 DEF ChunkInv
  <2>3. \A t \in nonEmpty : t > rest' => answer[t] = "unsent"
    <3>1. \A t \in nonEmpty : t > rest' => t > rest
      BY <1>1, <1>5, Lengths
    <3> QED BY <1>0, <3>1 DEF ChunkInv
  <2>4. \A t \in nonEmpty : t <= rest' => HasAnswer(t) \/ \E a \in 1..Len(s) : s[a] = t
    <3> SUFFICES ASSUME NEW t \in nonEmpty, t <= rest'
                 PROVE  HasAnswer(t) \/ \E a \in 1..Len(s) : s[a] = t
      OBVIOUS
    <3>1. t <= rest \/ rest < t
      BY <1>1, <1>5, Lengths
    <3>2. t <= rest => HasAnswer(t)
      BY <1>0, <1>6 DEF ChunkInv
    <3>3. rest < t => \E a \in 1..Len(s) : s[a] = t
      BY <1>2 DEF Picks
    <3> QED BY <3>1, <3>2, <3>3
  <2>5. /\ \A t \in Inputs : answer[t] # "sent"
        /\ \A t \in Inputs \ nonEmpty : answer[t] = "unsent"
        /\ StopsFor(Direct) => \A t \in nonEmpty : answer[t] # "rejected"
    BY <1>0, <1>6 DEF LoopInv, ChunkInv, DirectInv
  <2>6. 1 \in 1..(Len(s) + 1) /\ \A a \in 1..Len(s) : ~(a < 1)
    BY <1>3
  <2>h. /\ SentInOrder' /\ StopsAtFailure' /\ ChunkInv' /\ DirectInv'
        /\ pc' \in {"signing", "sending", "returned"} /\ i' \in 0..N
        /\ answer' \in [Inputs -> {"unsent", "sent", "resolved", "rejected"}]
        /\ result' \in {result} \cup (0..N)
        /\ pc' = "sending" =>
             /\ 1 <= Len(s) /\ i' = 1 /\ answer'[s[1]] = "sent"
             /\ \A t \in Inputs \ {s[1]} : answer'[t] = answer[t]
             /\ \A a \in 1..Len(s) : a # 1 => s[a] # s[1]
        /\ pc' # "sending" => 1 = Len(s) + 1 /\ answer' = answer
        /\ pc' = "returned" => result' = FullCount(s)
        /\ pc' = "signing" => Chunked
    BY <1>0, <1>1, <1>3, <1>4, <1>6, <2>1, <2>2, <2>3, <2>4, <2>5, <2>6, LoopHead
  <2>7. TypeOK'
    <3>1. result' \in 0..N
      BY <1>0, <2>h DEF TypeOK
    <3>2. microtasks' \in Seq(Jobs) /\ Len(microtasks') <= 2
      BY <1>0, EmptyQueue
    <3>3. /\ call' \in Calls /\ nonEmpty' \subseteq Inputs /\ rest' \in 0..N
          /\ breakEarly' \in BOOLEAN /\ breakIndex' \in 0..N
          /\ pc' \in {"signing", "sending", "returned", "thrown"}
      <4>1. call' \in Calls /\ nonEmpty' \subseteq Inputs
        BY <1>0 DEF TypeOK
      <4>2. rest' \in 0..N /\ breakIndex' \in 0..N
        BY <1>0, <1>1, Lengths
      <4> QED BY <1>0, <2>h, <4>1, <4>2
    <3> QED BY <1>3, <2>h, <3>1, <3>2, <3>3 DEF TypeOK
  <2>8. LoopInv'
    <3>1. CASE pc' = "sending"
      <4>1. i' \in 1..Len(s) /\ i' = 1
        BY <1>3, <2>h, <3>1
      <4>2. Queue(signed[i])'
        BY <1>0, <2>h, <3>1 DEF Queue
      <4>3. \A a \in 1..Len(s) : ~(a < 1) /\ (a > 1 => answer'[s[a]] = "unsent")
        BY <1>4, <2>2, <2>h, <3>1
      <4> QED BY <1>0, <1>6, <3>1, <4>1, <4>2, <4>3, CallKept DEF LoopInv, Positions
    <3>2. CASE pc' # "sending"
      BY <1>0, <1>6, <2>5, <2>h, <3>2, CallKept DEF LoopInv
    <3> QED BY <3>1, <3>2
  <2>9. RecentBlockReturnsFailure'
    <3> SUFFICES ASSUME call.fn = "sendTransactionsWithRecentBlock", pc' = "returned"
                 PROVE  Len(s) = 0 /\ result' = 0
      BY <1>0 DEF RecentBlockReturnsFailure
    <3> QED BY <1>3, <2>h DEF FullCount, Chunked
  <2>10. PlainInv'
    <3>1. pc' = "sending" => OneRecorded'
      BY <1>0, <2>h DEF OneRecorded
    <3>2. PlainCall /\ pc' = "returned" => SentAll'
      <4>1. PlainCall /\ pc' = "returned" => result' = Len(s) /\ Len(s) = 0
        BY <1>3, <2>h DEF FullCount, Chunked, PlainCall
      <4> QED BY <4>1 DEF SentAll, Positions
    <3> QED BY <1>0, <3>1, <3>2 DEF PlainInv, StopsFor, PlainCall
  <2> QED BY <2>h, <2>7, <2>8, <2>9, <2>10 DEF BatchInv, SentUpToFailure
<1>7. CASE ~Awaiting
  <2>0. /\ SentInOrder' /\ StopsAtFailure' /\ RecentBlockReturnsFailure' /\ DirectInv' /\ PlainInv'
        /\ ~Chunked /\ ~Chunked' /\ ~Awaiting'
    BY <1>0, <1>7, ParallelCall, CallKept
  <2>1. /\ pc' = "returned" /\ result' = Len(s) /\ i' = 0
        /\ answer' = [t \in Inputs |-> IF t \in nonEmpty THEN "sent" ELSE answer[t]]
    BY <1>0, <1>7 DEF Sign
  <2>2. TypeOK'
    <3>1. answer' \in [Inputs -> {"unsent", "sent", "resolved", "rejected"}]
      BY <1>0, <2>1 DEF TypeOK
    <3>2. result' \in 0..N /\ i' \in 0..N
      BY <1>3, <2>1, Lengths
    <3>3. microtasks' \in Seq(Jobs) /\ Len(microtasks') <= 2
      BY <1>0, EmptyQueue
    <3>4. /\ call' \in Calls /\ nonEmpty' \subseteq Inputs /\ rest' \in 0..N
          /\ breakEarly' \in BOOLEAN /\ breakIndex' \in 0..N
          /\ pc' \in {"signing", "sending", "returned", "thrown"}
      <4>1. call' \in Calls /\ nonEmpty' \subseteq Inputs
        BY <1>0 DEF TypeOK
      <4>2. rest' \in 0..N /\ breakIndex' \in 0..N
        BY <1>0, <1>1, Lengths
      <4> QED BY <1>0, <2>1, <4>1, <4>2
    <3> QED BY <1>3, <3>1, <3>2, <3>3, <3>4 DEF TypeOK
  <2>3. ChunkInv'
    <3>1. \A t \in nonEmpty : ~(t > rest')
      BY <1>1, <1>2, <2>0, Lengths
    <3>2. \A t \in Inputs \ nonEmpty : answer'[t] = "unsent"
      BY <1>0, <2>1 DEF ChunkInv
    <3> QED BY <1>0, <1>1, <1>4, <2>0, <2>1, <3>1, <3>2 DEF ChunkInv, Positions
  <2>4. LoopInv'
    BY <1>0, <2>0 DEF LoopInv
  <2> QED BY <2>0, <2>2, <2>3, <2>4 DEF BatchInv, SentUpToFailure
<1> QED BY <1>6, <1>7

\* The wallet declines between two chunks.
LEMMA SignThrowsStep == ASSUME BatchInv, SignThrows PROVE BatchInv'
<1>0. /\ TypeOK /\ SentInOrder /\ StopsAtFailure /\ ChunkInv /\ LoopInv /\ DirectInv
      /\ pc = "signing" /\ microtasks = <<>> /\ pc' = "thrown"
      /\ call' = call /\ nonEmpty' = nonEmpty /\ rest' = rest /\ signed' = signed /\ i' = i
      /\ answer' = answer /\ microtasks' = microtasks /\ breakEarly' = breakEarly
      /\ breakIndex' = breakIndex /\ result' = result
  BY DEF BatchInv, SentUpToFailure, SignThrows
<1>1. TypeOK'
  BY <1>0 DEF TypeOK
<1>2. SentInOrder' /\ StopsAtFailure' /\ RecentBlockReturnsFailure'
  BY <1>0, CallKept DEF SentInOrder, StopsAtFailure, RecentBlockReturnsFailure
<1>3. ChunkInv'
  BY <1>0, CallKept DEF ChunkInv, Positions, HasAnswer
<1>4. LoopInv'
  BY <1>0, CallKept DEF LoopInv
<1>5. DirectInv' /\ PlainInv'
  BY <1>0, CallKept DEF DirectInv, PlainInv
<1> QED BY <1>1, <1>2, <1>3, <1>4, <1>5 DEF BatchInv, SentUpToFailure

\* While the loop waits, the transaction at its index is the only one pending.
LEMMA OnePending ==
  ASSUME TypeOK, ChunkInv, LoopInv, Awaiting, NEW t \in Inputs, answer[t] = "sent"
  PROVE  pc = "sending" /\ t = signed[i]
<1>1. pc = "sending"
  BY DEF LoopInv
<1>2. t \in nonEmpty /\ t <= rest
  <2>1. t \in nonEmpty /\ ~(t > rest)
    BY DEF ChunkInv
  <2> QED BY <2>1, Lengths DEF TypeOK
<1>3. PICK a \in Positions : signed[a] = t
  BY <1>2 DEF ChunkInv, HasAnswer
<1>4. ~(a < i) /\ ~(a > i)
  BY <1>1, <1>3 DEF LoopInv, HasAnswer
<1>5. a = i
  BY <1>4 DEF Positions, TypeOK
<1> QED BY <1>1, <1>3, <1>5

\* Two places hold two transactions.
LEMMA PlacesDiffer ==
  ASSUME TypeOK, ChunkInv, NEW a \in Positions, NEW b \in Positions, signed[a] = signed[b]
  PROVE  a = b
<1>1. signed[a] \in Inputs
  BY DEF TypeOK, Positions
<1> SUFFICES ASSUME a # b PROVE FALSE
  OBVIOUS
<1>2. signed[a] \in Int /\ (a < b \/ b < a)
  BY <1>1, Lengths DEF Positions
<1> QED BY <1>2 DEF ChunkInv

\* A transaction is answered; its callbacks queue up.
LEMMA AnswerStep == ASSUME BatchInv, NEW t \in Inputs, Answer(t) PROVE BatchInv'
<1>0. /\ TypeOK /\ SentInOrder /\ StopsAtFailure /\ ChunkInv /\ LoopInv /\ DirectInv /\ PlainInv
      /\ answer[t] = "sent" /\ microtasks = <<>>
      /\ call' = call /\ nonEmpty' = nonEmpty /\ pc' = pc /\ rest' = rest /\ signed' = signed
      /\ i' = i /\ breakEarly' = breakEarly /\ breakIndex' = breakIndex /\ result' = result
  BY DEF BatchInv, SentUpToFailure, Answer
<1>1. PICK verdict \in {"resolved", "rejected"} :
        answer' = [answer EXCEPT ![t] = verdict] /\ microtasks' = Callbacks(t, verdict)
  BY DEF Answer
<1>2. answer'[t] = verdict /\ \A u \in Inputs \ {t} : answer'[u] = answer[u]
  BY <1>0, <1>1 DEF TypeOK
<1>3. microtasks' = IF verdict = "resolved"
                    THEN IF Awaiting THEN <<JobOf("resume", t)>> ELSE <<>>
                    ELSE IF Awaiting
                    THEN IF PlainCall THEN <<JobOf("relay", t), JobOf("resume", t)>>
                                  ELSE <<JobOf("recordFailure", t), JobOf("resume", t)>>
                    ELSE IF PlainCall THEN <<JobOf("relay", t)>>
                                  ELSE <<JobOf("recordFailure", t)>>
  BY <1>1, ShortQueues DEF Callbacks, JobOf, PlainCall
<1>4. t \in nonEmpty /\ nonEmpty \subseteq Inputs
  BY <1>0 DEF ChunkInv, TypeOK
<1>5. TypeOK'
  <2>1. answer' \in [Inputs -> {"unsent", "sent", "resolved", "rejected"}]
    BY <1>0, <1>1 DEF TypeOK
  <2>2. \A j \in {"relay", "resume", "recordFailure"} : JobOf(j, t) \in Jobs
    BY DEF JobOf, Jobs
  <2>3. microtasks' \in Seq(Jobs) /\ Len(microtasks') <= 2
    BY <1>3, <2>2
  <2> QED BY <1>0, <2>1, <2>3 DEF TypeOK
<1>6. ChunkInv'
  <2>1. \A u \in nonEmpty : u > rest => u # t
    BY <1>0, <1>4 DEF ChunkInv
  <2>2. \A u \in nonEmpty : HasAnswer(u) => (HasAnswer(u))'
    BY <1>0, <1>1, <1>2, <1>4 DEF HasAnswer
  <2> QED BY <1>0, <1>2, <1>4, <2>1, <2>2, CallKept DEF ChunkInv, Positions
<1>7. CASE Awaiting
  <2>1. pc = "sending" /\ t = signed[i] /\ i \in Positions
    BY <1>0, <1>7, OnePending DEF LoopInv
  <2>2. \A a \in Positions : a # i => signed[a] # t /\ answer'[signed[a]] = answer[signed[a]]
    BY <1>0, <1>2, <2>1, PlacesDiffer DEF Positions, TypeOK
  <2>3. SentInOrder'
    BY <1>0, <1>1, <1>2, <1>4, <1>7, CallKept DEF SentInOrder
  <2>4. StopsAtFailure'
    <3>1. \A u \in nonEmpty : t < u => answer[u] = "unsent"
      BY <1>0, <1>4, <1>7 DEF SentInOrder
    <3>2. \A u \in nonEmpty : ~(u < u)
      BY <1>4, Lengths
    <3>3. SUFFICES ASSUME StopsFor(Direct), NEW u \in nonEmpty, NEW v \in nonEmpty, u < v,
                          answer'[u] = "rejected"
                   PROVE  answer'[v] = "unsent"
      BY <1>0, CallKept DEF StopsAtFailure
    <3>4. CASE u = t
      BY <1>2, <1>4, <3>1, <3>2, <3>3, <3>4
    <3>5. CASE u # t
      <4>1. answer[v] = "unsent"
        BY <1>0, <1>2, <1>4, <3>3, <3>5 DEF StopsAtFailure
      <4> QED BY <1>0, <1>2, <1>4, <4>1
    <3> QED BY <3>4, <3>5
  <2>5. RecentBlockReturnsFailure'
    BY <1>0, <2>1 DEF RecentBlockReturnsFailure
  <2>6. LoopInv'
    <3>1. Queue(t)'
      BY <1>0, <1>2, <1>3, <1>7 DEF Queue, JobOf, PlainCall
    <3>2. \A a \in Positions : (a < i => (HasAnswer(signed[a]))')
                               /\ (a > i => answer'[signed[a]] = "unsent")
      BY <1>0, <1>7, <2>1, <2>2 DEF LoopInv, HasAnswer, Positions
    <3> QED BY <1>0, <1>7, <2>1, <3>1, <3>2, CallKept DEF LoopInv, Positions
  <2>7. DirectInv'
    BY <1>0, <1>2, <1>4, <2>1, CallKept DEF DirectInv
  <2>8. PlainInv'
    <3>1. \A a \in 1..(i - 1) : a \in Positions /\ (Failed(a)' <=> Failed(a))
      BY <1>0, <2>1, <2>2 DEF Failed, Positions
    <3>2. OneRecorded => OneRecorded'
      BY <1>0, <3>1 DEF OneRecorded
    <3> QED BY <1>0, <2>1, <3>2, CallKept DEF PlainInv
  <2> QED BY <1>5, <1>6, <2>3, <2>4, <2>5, <2>6, <2>7, <2>8 DEF BatchInv, SentUpToFailure
<1>8. CASE ~Awaiting
  <2>1. LoopInv'
    BY <1>0, <1>3, <1>8, CallKept DEF LoopInv, JobOf
  <2> QED BY <1>0, <1>5, <1>6, <1>8, <2>1, ParallelCall DEF BatchInv, SentUpToFailure
<1> QED BY <1>7, <1>8

\* What the callbacks in the queue can be.
LEMMA QueueOf ==
  ASSUME TypeOK, LoopInv, microtasks # <<>>
  PROVE  /\ Head(microtasks).job = "relay" =>
              \/ ~Awaiting
              \/ /\ pc = "sending" /\ i \in Positions /\ answer[signed[i]] = "rejected" /\ PlainCall
                 /\ microtasks = <<JobOf("relay", signed[i]), JobOf("resume", signed[i])>>
         /\ Head(microtasks).job = "recordFailure" =>
              \/ ~Awaiting
              \/ /\ pc = "sending" /\ i \in Positions /\ answer[signed[i]] = "sent"
                 /\ PlainCall /\ i > 1 /\ Failed(i - 1)
                 /\ microtasks = <<JobOf("recordFailure", signed[i - 1])>>
              \/ /\ pc = "sending" /\ i \in Positions /\ answer[signed[i]] = "rejected" /\ ~PlainCall
                 /\ microtasks = <<JobOf("recordFailure", signed[i]), JobOf("resume", signed[i])>>
              \/ /\ pc = "returned"
                 /\ \E a \in Positions : microtasks = <<JobOf("recordFailure", signed[a])>>
         /\ Head(microtasks).job = "resume" =>
              /\ Awaiting /\ pc = "sending" /\ i \in Positions
              /\ \/ /\ answer[signed[i]] = "resolved" /\ microtasks = <<JobOf("resume", signed[i])>>
                 \/ /\ answer[signed[i]] = "rejected" /\ PlainCall
                    /\ microtasks = <<JobOf("resume", signed[i]), JobOf("recordFailure", signed[i])>>
                 \/ /\ answer[signed[i]] = "rejected" /\ ~PlainCall
                    /\ microtasks = <<JobOf("resume", signed[i])>>
                    /\ Stopping => breakEarly /\ breakIndex = i - 1
<1>1. CASE ~Awaiting
  <2>1. Len(microtasks) \in Nat /\ Len(microtasks) >= 1 /\ Head(microtasks) = microtasks[1]
    BY DEF TypeOK
  <2>2. Head(microtasks).job # "resume"
    BY <1>1, <2>1 DEF LoopInv
  <2> QED BY <1>1, <2>2
<1>2. CASE Awaiting /\ pc = "sending"
  <2>1. i \in Positions /\ Queue(signed[i])
    BY <1>2 DEF LoopInv
  <2> QED BY <1>2, <2>1 DEF Queue, JobOf
<1>3. CASE Awaiting /\ pc # "sending"
  <2>1. pc = "returned" /\ \E a \in Positions : microtasks = <<JobOf("recordFailure", signed[a])>>
    BY <1>3 DEF LoopInv, TypeOK
  <2>2. PICK a \in Positions : microtasks = <<JobOf("recordFailure", signed[a])>>
    BY <2>1
  <2>3. Head(microtasks).job = "recordFailure"
    BY <2>2 DEF JobOf
  <2> QED BY <2>1, <2>3
<1> QED BY <1>1, <1>2, <1>3

\* A handler that runs changes neither the answers nor where the loop is.
LEMMA HandlerKeeps ==
  ASSUME SentInOrder, StopsAtFailure, RecentBlockReturnsFailure, ChunkInv, DirectInv,
         UNCHANGED <<call, nonEmpty, pc, rest, signed, i, answer, result>>
  PROVE  SentInOrder' /\ StopsAtFailure' /\ RecentBlockReturnsFailure' /\ ChunkInv' /\ DirectInv'
<1>1. SentInOrder' /\ StopsAtFailure' /\ DirectInv'
  BY CallKept DEF SentInOrder, StopsAtFailure, DirectInv
<1>2. RecentBlockReturnsFailure'
  BY DEF RecentBlockReturnsFailure
<1>3. ChunkInv'
  BY CallKept DEF ChunkInv, Positions, HasAnswer
<1> QED BY <1>1, <1>2, <1>3

\* What a call returned stays true of the answers it returned on.
LEMMA EndKept ==
  ASSUME UNCHANGED <<signed, answer, result>>
  PROVE  (SentAll' <=> SentAll) /\ (StoppedSecond' <=> StoppedSecond)
<1>1. /\ Positions' = Positions
      /\ \A a \in Positions : /\ Failed(a)' <=> Failed(a)
                              /\ (HasAnswer(signed[a]))' <=> HasAnswer(signed[a])
  BY DEF Positions, Failed, HasAnswer
<1>2. SentAll' <=> SentAll
  BY <1>1 DEF SentAll
<1>3. StoppedSecond' <=> StoppedSecond
  BY <1>1 DEF StoppedSecond
<1> QED BY <1>2, <1>3

\* The rejection passes through the promise in between, behind the await.
LEMMA RelayStep == ASSUME BatchInv, Relay PROVE BatchInv'
<1>0. /\ TypeOK /\ SentInOrder /\ StopsAtFailure /\ RecentBlockReturnsFailure
      /\ ChunkInv /\ LoopInv /\ DirectInv /\ PlainInv
      /\ microtasks # <<>> /\ Head(microtasks).job = "relay"
      /\ microtasks' = Append(Tail(microtasks), [Head(microtasks) EXCEPT !.job = "recordFailure"])
      /\ call' = call /\ nonEmpty' = nonEmpty /\ pc' = pc /\ rest' = rest /\ signed' = signed
      /\ i' = i /\ answer' = answer /\ breakEarly' = breakEarly /\ breakIndex' = breakIndex
      /\ result' = result
  BY DEF BatchInv, SentUpToFailure, Relay
<1>1. SentInOrder' /\ StopsAtFailure' /\ RecentBlockReturnsFailure' /\ ChunkInv' /\ DirectInv'
  BY <1>0, HandlerKeeps
<1>2. Head(microtasks) \in Jobs /\ Tail(microtasks) \in Seq(Jobs)
      /\ Len(Tail(microtasks)) = Len(microtasks) - 1
  BY <1>0 DEF TypeOK
<1>3. TypeOK'
  <2>1. [Head(microtasks) EXCEPT !.job = "recordFailure"] \in Jobs
    BY <1>2 DEF Jobs
  <2>2. microtasks' \in Seq(Jobs) /\ Len(microtasks') <= 2
    BY <1>0, <1>2, <2>1 DEF TypeOK
  <2> QED BY <1>0, <2>2 DEF TypeOK
<1>4. CASE Awaiting
  <2>1. /\ pc = "sending" /\ i \in Positions /\ answer[signed[i]] = "rejected" /\ PlainCall
        /\ microtasks = <<JobOf("relay", signed[i]), JobOf("resume", signed[i])>>
    BY <1>0, <1>4, QueueOf
  <2>2. microtasks' = <<JobOf("resume", signed[i]), JobOf("recordFailure", signed[i])>>
    <3>1. Tail(microtasks) = <<JobOf("resume", signed[i])>>
          /\ Head(microtasks) = JobOf("relay", signed[i])
      BY <2>1, ShortQueues
    <3>2. [JobOf("relay", signed[i]) EXCEPT !.job = "recordFailure"] = JobOf("recordFailure", signed[i])
      BY DEF JobOf
    <3>3. microtasks' = Append(<<JobOf("resume", signed[i])>>, JobOf("recordFailure", signed[i]))
      BY <1>0, <3>1, <3>2
    <3> QED BY <3>3, ShortQueues
  <2>3. LoopInv'
    <3>1. Queue(signed[i])'
      BY <1>0, <2>1, <2>2 DEF Queue, PlainCall, JobOf
    <3> QED BY <1>0, <1>4, <2>1, <3>1, CallKept DEF LoopInv, Positions, HasAnswer
  <2>4. PlainInv'
    <3>1. ~ microtasks = <<JobOf("recordFailure", signed[i - 1])>>
      BY <2>1 DEF JobOf
    <3>2. OneRecorded => OneRecorded'
      BY <1>0, <3>1 DEF OneRecorded, Failed
    <3> QED BY <1>0, <2>1, <3>2, CallKept DEF PlainInv
  <2> QED BY <1>1, <1>3, <2>3, <2>4 DEF BatchInv, SentUpToFailure
<1>5. CASE ~Awaiting
  <2>1. \A m \in 1..Len(microtasks') : microtasks'[m].job # "resume"
    <3>1. \A m \in 1..Len(Tail(microtasks)) : /\ Tail(microtasks)[m] = microtasks[m + 1]
                                               /\ m + 1 \in 1..Len(microtasks)
      BY <1>0, <1>2 DEF TypeOK
    <3>2. \A m \in 1..Len(microtasks) : microtasks[m].job # "resume"
      BY <1>0, <1>5 DEF LoopInv
    <3>3. [Head(microtasks) EXCEPT !.job = "recordFailure"].job = "recordFailure"
      BY <1>2 DEF Jobs
    <3> QED BY <1>0, <1>2, <3>1, <3>2, <3>3
  <2>2. LoopInv'
    BY <1>0, <1>5, <2>1, CallKept DEF LoopInv
  <2> QED BY <1>0, <1>1, <1>3, <1>5, <2>2, ParallelCall DEF BatchInv, SentUpToFailure
<1> QED BY <1>4, <1>5

\* The catch handler sets breakEarlyObject, or only counts the failure.
LEMMA RecordFailureStep == ASSUME BatchInv, RecordFailure PROVE BatchInv'
<1>0. /\ TypeOK /\ SentInOrder /\ StopsAtFailure /\ RecentBlockReturnsFailure
      /\ ChunkInv /\ LoopInv /\ DirectInv /\ PlainInv
      /\ microtasks # <<>> /\ Head(microtasks).job = "recordFailure"
      /\ microtasks' = Tail(microtasks)
      /\ call' = call /\ nonEmpty' = nonEmpty /\ pc' = pc /\ rest' = rest /\ signed' = signed
      /\ i' = i /\ answer' = answer /\ result' = result
      /\ Stopping => breakEarly' = TRUE /\ breakIndex' = IndexOf(Head(microtasks).at)
      /\ ~Stopping => breakEarly' = breakEarly /\ breakIndex' = breakIndex
  BY DEF BatchInv, SentUpToFailure, RecordFailure
<1>1. SentInOrder' /\ StopsAtFailure' /\ RecentBlockReturnsFailure' /\ ChunkInv' /\ DirectInv'
  BY <1>0, HandlerKeeps
<1>2. Tail(microtasks) \in Seq(Jobs) /\ Len(Tail(microtasks)) = Len(microtasks) - 1
      /\ Len(microtasks) \in Nat
  BY <1>0 DEF TypeOK
<1>3. \A a \in Positions : /\ JobOf("recordFailure", signed[a]).at = signed[a]
                           /\ IndexOf(signed[a]) = a - 1 /\ a - 1 \in 0..N
  BY <1>0, PlaceIsIndex, Lengths DEF JobOf, Positions, TypeOK
<1>4. breakEarly' \in BOOLEAN /\ breakIndex' \in 0..N => TypeOK'
  BY <1>0, <1>2 DEF TypeOK
<1>5. CASE Awaiting
  <2>1. CASE pc = "returned" /\ \E a \in Positions : microtasks = <<JobOf("recordFailure", signed[a])>>
    <3> PICK a \in Positions : microtasks = <<JobOf("recordFailure", signed[a])>>
      BY <2>1
    <3>1. microtasks' = <<>> /\ Head(microtasks).at = signed[a]
      BY <1>0, <1>3
    <3>2. TypeOK'
      BY <1>0, <1>3, <1>4, <3>1 DEF TypeOK
    <3>3. LoopInv'
      BY <1>0, <1>5, <2>1, <3>1, CallKept DEF LoopInv
    <3>4. PlainInv'
      BY <1>0, <2>1, CallKept, EndKept DEF PlainInv
    <3> QED BY <1>1, <3>2, <3>3, <3>4 DEF BatchInv, SentUpToFailure
  <2>2. CASE /\ pc = "sending" /\ i \in Positions /\ answer[signed[i]] = "sent"
             /\ PlainCall /\ i > 1 /\ Failed(i - 1)
             /\ microtasks = <<JobOf("recordFailure", signed[i - 1])>>
    <3>1. i - 1 \in Positions /\ i \in Nat
      BY <1>0, <2>2 DEF Positions, TypeOK
    <3>2. microtasks' = <<>> /\ (Stopping => breakEarly' = TRUE /\ breakIndex' = (i - 1) - 1)
      BY <1>0, <1>3, <2>2, <3>1
    <3>3. TypeOK'
      BY <1>0, <1>3, <1>4, <3>1, <3>2 DEF TypeOK
    <3>4. LoopInv'
      <4>1. Queue(signed[i])'
        BY <1>0, <2>2, <3>2 DEF Queue
      <4> QED BY <1>0, <1>5, <2>2, <4>1, CallKept DEF LoopInv, Positions, HasAnswer
    <3>5. PlainInv'
      <4> SUFFICES ASSUME StopsFor({"sendTransactions"}) PROVE OneRecorded'
        BY <1>0, <2>2, CallKept DEF PlainInv
      <4>1. OneRecorded /\ Stopping
        BY <1>0, <2>2 DEF PlainInv, StopsFor
      <4>2. \A a \in 1..(i - 1) : Failed(a) <=> a = i - 1
        <5>1. i - 1 \in 1..(i - 1)
          BY <2>2, <3>1
        <5> QED BY <2>2, <4>1, <5>1 DEF OneRecorded
      <4>3. breakEarly' /\ breakIndex' = (i - 1) - 1 /\ i - 1 \in 1..(i - 1)
        BY <2>2, <3>1, <3>2, <4>1
      <4> QED BY <1>0, <4>2, <4>3 DEF OneRecorded, Failed
    <3> QED BY <1>1, <3>3, <3>4, <3>5 DEF BatchInv, SentUpToFailure
  <2>3. CASE /\ pc = "sending" /\ i \in Positions /\ answer[signed[i]] = "rejected" /\ ~PlainCall
             /\ microtasks = <<JobOf("recordFailure", signed[i]), JobOf("resume", signed[i])>>
    <3>1. /\ microtasks' = <<JobOf("resume", signed[i])>>
          /\ Stopping => breakEarly' = TRUE /\ breakIndex' = i - 1
      BY <1>0, <1>3, <2>3
    <3>2. TypeOK'
      BY <1>0, <1>3, <1>4, <2>3, <3>1 DEF TypeOK
    <3>3. LoopInv'
      <4>1. Queue(signed[i])'
        BY <1>0, <2>3, <3>1, CallKept DEF Queue, PlainCall, JobOf
      <4> QED BY <1>0, <1>5, <2>3, <4>1, CallKept DEF LoopInv, Positions, HasAnswer
    <3>4. PlainInv'
      BY <1>0, <2>3, CallKept DEF PlainInv, StopsFor, PlainCall
    <3> QED BY <1>1, <3>2, <3>3, <3>4 DEF BatchInv, SentUpToFailure
  <2> QED BY <1>0, <1>5, <2>1, <2>2, <2>3, QueueOf
<1>6. CASE ~Awaiting
  <2>1. ~Stopping
    BY <1>0, <1>6, ParallelCall
  <2>2. TypeOK'
    BY <1>0, <1>4, <2>1 DEF TypeOK
  <2>3. LoopInv'
    <3>1. \A m \in 1..Len(Tail(microtasks)) : /\ Tail(microtasks)[m] = microtasks[m + 1]
                                               /\ m + 1 \in 1..Len(microtasks)
      BY <1>0, <1>2 DEF TypeOK
    <3> QED BY <1>0, <1>6, <3>1, CallKept DEF LoopInv
  <2> QED BY <1>0, <1>1, <1>6, <2>2, <2>3, ParallelCall DEF BatchInv, SentUpToFailure
<1> QED BY <1>5, <1>6

\* The await goes on to the next transaction, or the call returns.
LEMMA ResumeStep == ASSUME BatchInv, Resume PROVE BatchInv'
<1>0. /\ TypeOK /\ SentInOrder /\ StopsAtFailure /\ RecentBlockReturnsFailure
      /\ ChunkInv /\ LoopInv /\ DirectInv /\ PlainInv
      /\ microtasks # <<>> /\ Head(microtasks).job = "resume"
      /\ microtasks' = Tail(microtasks)
      /\ call' = call /\ nonEmpty' = nonEmpty /\ rest' = rest /\ signed' = signed
      /\ breakEarly' = breakEarly /\ breakIndex' = breakIndex
  BY DEF BatchInv, SentUpToFailure, Resume
<1>1. /\ Awaiting /\ pc = "sending" /\ i \in Positions
      /\ \/ /\ answer[signed[i]] = "resolved" /\ microtasks = <<JobOf("resume", signed[i])>>
         \/ /\ answer[signed[i]] = "rejected" /\ PlainCall
            /\ microtasks = <<JobOf("resume", signed[i]), JobOf("recordFailure", signed[i])>>
         \/ /\ answer[signed[i]] = "rejected" /\ ~PlainCall
            /\ microtasks = <<JobOf("resume", signed[i])>>
            /\ Stopping => breakEarly /\ breakIndex = i - 1
  BY <1>0, QueueOf
<1>2. /\ Head(microtasks).at = signed[i]
      /\ microtasks' = IF answer[signed[i]] = "rejected" /\ PlainCall
                       THEN <<JobOf("recordFailure", signed[i])>> ELSE <<>>
  <2>1. JobOf("resume", signed[i]).at = signed[i]
    BY DEF JobOf
  <2>2. CASE microtasks = <<JobOf("resume", signed[i])>>
    <3>1. Head(microtasks) = JobOf("resume", signed[i]) /\ Tail(microtasks) = <<>>
      BY <2>2, ShortQueues
    <3>2. ~(answer[signed[i]] = "rejected" /\ PlainCall)
      <4>1. Len(microtasks) # 2
        BY <2>2
      <4> QED BY <1>1, <4>1
    <3> QED BY <1>0, <2>1, <3>1, <3>2
  <2>3. CASE /\ answer[signed[i]] = "rejected" /\ PlainCall
             /\ microtasks = <<JobOf("resume", signed[i]), JobOf("recordFailure", signed[i])>>
    <3>1. /\ Head(microtasks) = JobOf("resume", signed[i])
          /\ Tail(microtasks) = <<JobOf("recordFailure", signed[i])>>
      BY <2>3, ShortQueues
    <3> QED BY <1>0, <2>1, <2>3, <3>1
  <2> QED BY <1>1, <2>2, <2>3
<1>3. Len(signed) \in Nat /\ Len(signed) <= N /\ i \in 1..Len(signed) /\ i \in Nat
  BY <1>0, <1>1 DEF TypeOK, Positions
<1>4. \A a \in Positions : signed[a] \in nonEmpty /\ signed[a] \in Inputs /\ signed[a] <= rest
  BY <1>0 DEF ChunkInv, TypeOK
<1>5. \A t \in Inputs : answer[t] # "sent"
  BY <1>0, <1>1, OnePending
<1>6. HasAnswer(signed[i])
  BY <1>1 DEF HasAnswer
<1>7. \A a \in Positions : (a <= i => HasAnswer(signed[a])) /\ (a > i => answer[signed[a]] = "unsent")
  <2> SUFFICES ASSUME NEW a \in Positions
               PROVE  (a <= i => HasAnswer(signed[a])) /\ (a > i => answer[signed[a]] = "unsent")
    OBVIOUS
  <2>1. (a < i => HasAnswer(signed[a])) /\ (a > i => answer[signed[a]] = "unsent")
    BY <1>0, <1>1 DEF LoopInv
  <2>2. a <= i => a < i \/ a = i
    BY <1>3 DEF Positions
  <2> QED BY <1>6, <2>1, <2>2
<1>8. StopsFor(Direct) => \A a \in Positions : a # i => ~Failed(a)
  <2> SUFFICES ASSUME StopsFor(Direct), NEW a \in Positions, a # i, Failed(a) PROVE FALSE
    OBVIOUS
  <2>1. signed[a] = signed[i]
    BY <1>0, <1>1, <1>4 DEF DirectInv, Failed
  <2> QED BY <1>0, <1>1, <2>1, PlacesDiffer
<1>9. StopsFor({"sendTransactions"}) => OneRecorded /\ PlainCall
  BY <1>0, <1>1 DEF PlainInv, StopsFor, PlainCall
<1>10. microtasks' \in Seq(Jobs) /\ Len(microtasks') <= 2
  <2>1. Tail(microtasks) \in Seq(Jobs) /\ Len(Tail(microtasks)) = Len(microtasks) - 1
    BY <1>0 DEF TypeOK
  <2> QED BY <1>0, <2>1 DEF TypeOK
<1>11. CASE answer[signed[i]] = "rejected" /\ breakEarly
  <2>1. pc' = "returned" /\ result' = breakIndex /\ i' = i /\ answer' = answer
    BY <1>0, <1>2, <1>11 DEF Resume
  <2>2. TypeOK'
    BY <1>0, <1>10, <2>1 DEF TypeOK
  <2>3. SentInOrder' /\ StopsAtFailure' /\ DirectInv'
    BY <1>0, <2>1, CallKept DEF SentInOrder, StopsAtFailure, DirectInv
  <2>4. ChunkInv'
    BY <1>0, <1>1, <2>1, CallKept DEF ChunkInv, Positions, HasAnswer
  <2>5. LoopInv'
    BY <1>0, <1>1, <1>2, <1>5, <2>1, CallKept DEF LoopInv, Positions
  <2>6. RecentBlockReturnsFailure'
    <3> SUFFICES ASSUME call.fn = "sendTransactionsWithRecentBlock"
                 PROVE  /\ \A k \in 1..breakIndex : answer[signed[k]] = "resolved"
                        /\ breakIndex < Len(signed) => answer[signed[breakIndex + 1]] = "rejected"
      BY <1>0, <2>1 DEF RecentBlockReturnsFailure
    <3>1. StopsFor(Direct) /\ Stopping /\ ~PlainCall
      BY DEF StopsFor, Direct, Stopping, PlainCall
    <3>2. breakIndex = i - 1
      BY <1>1, <1>11, <3>1
    <3>3. ASSUME NEW k \in 1..breakIndex PROVE answer[signed[k]] = "resolved"
      <4>1. k \in Positions /\ k # i /\ k <= i
        BY <1>3, <3>2 DEF Positions
      <4> QED BY <1>7, <1>8, <3>1, <4>1 DEF HasAnswer, Failed
    <3>4. breakIndex + 1 = i
      BY <1>3, <3>2
    <3> QED BY <1>11, <3>3, <3>4
  <2>7. PlainInv'
    <3> SUFFICES ASSUME StopsFor({"sendTransactions"}) PROVE StoppedSecond'
      BY <1>0, <2>1, CallKept DEF PlainInv
    <3>1. PICK f \in 1..(i - 1) : /\ breakIndex = f - 1
                                  /\ \A a \in 1..(i - 1) : Failed(a) <=> a = f
      BY <1>9, <1>11 DEF OneRecorded
    <3>2. f \in Positions /\ f < i /\ i \in Positions
      BY <1>3, <3>1 DEF Positions
    <3>3. ASSUME NEW a \in Positions
          PROVE  /\ Failed(a) <=> a \in {f, i}
                 /\ IF a <= i THEN HasAnswer(signed[a]) ELSE answer[signed[a]] = "unsent"
      <4>1. a \in Nat /\ (a \in 1..(i - 1) \/ a = i \/ a > i)
        BY <1>3, <3>3 DEF Positions
      <4>2. a > i => ~(a <= i) /\ ~Failed(a) /\ a # f /\ a # i
        BY <1>3, <1>7, <3>2, <4>1 DEF Failed
      <4>3. a = i => Failed(a)
        BY <1>11 DEF Failed
      <4>4. a \in 1..(i - 1) => a # i /\ (Failed(a) <=> a = f)
        BY <1>3, <3>1
      <4>5. IF a <= i THEN HasAnswer(signed[a]) ELSE answer[signed[a]] = "unsent"
        BY <1>3, <1>7, <4>1
      <4> QED BY <4>1, <4>2, <4>3, <4>4, <4>5
    <3> QED BY <1>0, <2>1, <3>1, <3>2, <3>3 DEF StoppedSecond, Positions, HasAnswer, Failed
  <2> QED BY <2>2, <2>3, <2>4, <2>5, <2>6, <2>7 DEF BatchInv, SentUpToFailure
<1>12. CASE ~(answer[signed[i]] = "rejected" /\ breakEarly)
  <2>1. LoopAt(i + 1, signed', rest')
    BY <1>0, <1>2, <1>12 DEF Resume
  <2>2. /\ rest' \in 1..N /\ (~Chunked => rest' = N)
    <3>1. signed[i] \in Inputs /\ signed[i] <= rest /\ rest \in 0..N
      BY <1>0, <1>1, <1>4 DEF TypeOK
    <3>2. rest \in 1..N
      BY <3>1, Lengths
    <3> QED BY <1>0, <1>1, <3>2 DEF ChunkInv
  <2>3. /\ \A t \in nonEmpty : t > rest' => answer[t] = "unsent"
        /\ \A t \in Inputs \ nonEmpty : answer[t] = "unsent"
        /\ \A t \in nonEmpty : t <= rest' =>
             HasAnswer(t) \/ \E a \in 1..Len(signed') : signed'[a] = t
        /\ \A a, b \in 1..Len(signed') : a < b => signed'[a] < signed'[b]
    BY <1>0, <1>1 DEF ChunkInv, Positions
  <2>4. StopsFor(Direct) => \A t \in nonEmpty : answer[t] # "rejected"
    <3>1. StopsFor(Direct) => Stopping /\ ~PlainCall
      BY DEF StopsFor, Direct, PlainCall
    <3>2. StopsFor(Direct) => answer[signed[i]] # "rejected"
      BY <1>1, <1>12, <3>1
    <3> QED BY <1>0, <1>1, <3>2 DEF DirectInv
  <2>5. i + 1 \in 1..(Len(signed') + 1)
    BY <1>0, <1>3
  <2>6. \A a \in 1..Len(signed') :
          /\ signed'[a] \in nonEmpty /\ signed'[a] <= rest'
          /\ (a < i + 1 => HasAnswer(signed'[a])) /\ (a >= i + 1 => answer[signed'[a]] = "unsent")
    <3> SUFFICES ASSUME NEW a \in Positions
                 PROVE  /\ signed[a] \in nonEmpty /\ signed[a] <= rest
                        /\ (a < i + 1 => HasAnswer(signed[a]))
                        /\ (a >= i + 1 => answer[signed[a]] = "unsent")
      BY <1>0 DEF Positions
    <3>1. (a < i + 1 => a <= i) /\ (a >= i + 1 => a > i)
      BY <1>3 DEF Positions
    <3> QED BY <1>4, <1>7, <3>1
  <2>h. /\ SentInOrder' /\ StopsAtFailure' /\ ChunkInv' /\ DirectInv'
        /\ pc' \in {"signing", "sending", "returned"} /\ i' \in 0..N
        /\ answer' \in [Inputs -> {"unsent", "sent", "resolved", "rejected"}]
        /\ result' \in {result} \cup (0..N)
        /\ pc' = "sending" =>
             /\ i + 1 <= Len(signed') /\ i' = i + 1 /\ answer'[signed'[i + 1]] = "sent"
             /\ \A t \in Inputs \ {signed'[i + 1]} : answer'[t] = answer[t]
             /\ \A a \in 1..Len(signed') : a # i + 1 => signed'[a] # signed'[i + 1]
        /\ pc' # "sending" => i + 1 = Len(signed') + 1 /\ answer' = answer
        /\ pc' = "returned" => result' = FullCount(signed')
        /\ pc' = "signing" => Chunked
    <3>1. signed' \in Seq(Inputs) /\ Len(signed') <= N
      BY <1>0 DEF TypeOK
    <3> QED BY <1>0, <1>1, <1>5, <2>1, <2>2, <2>3, <2>4, <2>5, <2>6, <3>1, LoopHead
  <2>7. TypeOK'
    <3>1. result' \in 0..N
      BY <1>0, <2>h DEF TypeOK
    <3>2. pc' \in {"signing", "sending", "returned", "thrown"} /\ signed' \in Seq(Inputs)
          /\ Len(signed') <= N
      BY <1>0, <2>h DEF TypeOK
    <3> QED BY <1>0, <1>10, <2>h, <3>1, <3>2 DEF TypeOK
  <2>8. CASE pc' = "sending"
    <3>1. /\ i' = i + 1 /\ i + 1 \in Positions /\ answer'[signed[i + 1]] = "sent"
          /\ \A a \in Positions : a # i + 1 => answer'[signed[a]] = answer[signed[a]]
      BY <1>0, <1>3, <1>4, <2>h, <2>8 DEF Positions
    <3>2. LoopInv'
      <4>1. Queue(signed[i])'
        <5>1. i' > 1 /\ i' - 1 = i /\ i # i + 1 /\ i' = i + 1
          BY <1>3, <3>1
        <5>2. answer'[signed[i]] = answer[signed[i]] /\ answer'[signed'[i']] = "sent"
          BY <1>0, <1>1, <3>1, <5>1
        <5>3. CASE answer[signed[i]] = "rejected" /\ PlainCall
          <6>1. microtasks' = <<JobOf("recordFailure", signed[i])>>
            BY <1>2, <5>3
          <6>2. (Failed(i - 1))'
            BY <1>0, <5>1, <5>2, <5>3 DEF Failed
          <6>3. microtasks' = <<JobOf("recordFailure", signed[i - 1])>>'
            BY <1>0, <5>1, <6>1 DEF JobOf
          <6> QED BY <1>0, <5>1, <5>2, <5>3, <6>2, <6>3, CallKept DEF Queue
        <5>4. CASE ~(answer[signed[i]] = "rejected" /\ PlainCall)
          <6>1. microtasks' = <<>>
            BY <1>2, <5>4
          <6> QED BY <5>2, <6>1 DEF Queue
        <5> QED BY <5>3, <5>4
      <4>2. \A a \in Positions : (a < i + 1 => (HasAnswer(signed[a]))')
                                 /\ (a > i + 1 => answer'[signed[a]] = "unsent")
        <5> SUFFICES ASSUME NEW a \in Positions, a # i + 1
                     PROVE  (a < i + 1 => (HasAnswer(signed[a]))')
                            /\ (a > i + 1 => answer'[signed[a]] = "unsent")
          BY <1>3 DEF Positions
        <5>1. (a < i + 1 => a <= i) /\ (a > i + 1 => a > i) /\ answer'[signed[a]] = answer[signed[a]]
          BY <1>3, <3>1 DEF Positions
        <5> QED BY <1>0, <1>7, <5>1 DEF HasAnswer
      <4> QED BY <1>0, <1>1, <2>8, <3>1, <4>1, <4>2, CallKept DEF LoopInv, Positions
    <3>3. RecentBlockReturnsFailure'
      BY <2>8 DEF RecentBlockReturnsFailure
    <3>4. PlainInv'
      <4> SUFFICES ASSUME StopsFor({"sendTransactions"}) PROVE OneRecorded'
        BY <1>0, <2>8, CallKept DEF PlainInv
      <4>1. OneRecorded /\ PlainCall
        BY <1>9
      <4>2. i' - 1 = i /\ i' > 1 /\ i \in 1..i
        BY <1>3, <3>1
      <4>3. \A a \in 1..i : a \in Positions /\ (Failed(a)' <=> Failed(a))
        BY <1>0, <1>3, <3>1 DEF Positions, Failed
      <4>4. \A a \in 1..i : a \in 1..(i - 1) \/ a = i
        BY <1>3
      <4>5. ~ microtasks = <<JobOf("recordFailure", signed[i - 1])>>
        BY <1>0 DEF JobOf
      <4>6. CASE answer[signed[i]] = "rejected"
        <5>1. ~breakEarly /\ \A a \in 1..(i - 1) : ~Failed(a)
          BY <1>12, <4>1, <4>5, <4>6 DEF OneRecorded
        <5>2. \A a \in 1..i : Failed(a) <=> a = i
          BY <1>3, <4>4, <4>6, <5>1 DEF Failed
        <5>3. microtasks' = <<JobOf("recordFailure", signed[i])>>
          BY <1>2, <4>1, <4>6
        <5> QED BY <1>0, <4>2, <4>3, <5>1, <5>2, <5>3 DEF OneRecorded
      <4>7. CASE answer[signed[i]] # "rejected"
        <5>1. CASE ~breakEarly /\ \A a \in 1..(i - 1) : ~Failed(a)
          <6>1. \A a \in 1..i : ~Failed(a)
            BY <4>4, <4>7, <5>1 DEF Failed
          <6> QED BY <1>0, <4>2, <4>3, <5>1, <6>1 DEF OneRecorded
        <5>2. CASE breakEarly /\ \E f \in 1..(i - 1) : /\ breakIndex = f - 1
                                          /\ \A a \in 1..(i - 1) : Failed(a) <=> a = f
          <6> PICK f \in 1..(i - 1) : /\ breakIndex = f - 1
                                      /\ \A a \in 1..(i - 1) : Failed(a) <=> a = f
            BY <5>2
          <6>1. f \in 1..i /\ f # i
            BY <1>3
          <6>2. \A a \in 1..i : Failed(a) <=> a = f
            BY <4>4, <4>7, <6>1 DEF Failed
          <6> QED BY <1>0, <4>2, <4>3, <5>2, <6>1, <6>2 DEF OneRecorded
        <5> QED BY <4>1, <4>5, <5>1, <5>2 DEF OneRecorded
      <4> QED BY <4>6, <4>7
    <3> QED BY <2>h, <2>7, <3>2, <3>3, <3>4 DEF BatchInv, SentUpToFailure
  <2>9. CASE pc' # "sending"
    <3>1. /\ pc' \in {"signing", "returned"} /\ i = Len(signed) /\ answer' = answer
          /\ pc' = "returned" => result' = FullCount(signed)
      BY <1>0, <1>3, <2>h, <2>9
    <3>2. \A a \in Positions : HasAnswer(signed[a])
      BY <1>3, <1>7, <3>1 DEF Positions
    <3>3. LoopInv'
      <4>1. pc' = "signing" => ~PlainCall
        BY <2>h DEF Chunked, PlainCall
      <4>2. pc' = "signing" => microtasks' = <<>>
        BY <1>2, <4>1
      <4> QED BY <1>0, <1>1, <1>2, <1>5, <3>1, <4>2, CallKept DEF LoopInv, Positions
    <3>4. RecentBlockReturnsFailure'
      <4> SUFFICES ASSUME call.fn = "sendTransactionsWithRecentBlock", pc' = "returned"
                   PROVE  /\ \A k \in 1..result' : answer[signed[k]] = "resolved"
                          /\ ~(result' < Len(signed))
        BY <1>0, <3>1 DEF RecentBlockReturnsFailure
      <4>1. StopsFor(Direct) /\ ~Chunked
        BY DEF StopsFor, Direct, Stopping, Chunked
      <4>2. result' = Len(signed)
        BY <3>1, <4>1 DEF FullCount
      <4>3. \A k \in Positions : answer[signed[k]] = "resolved"
        BY <1>4, <2>4, <3>2, <4>1 DEF HasAnswer
      <4> QED BY <1>3, <4>2, <4>3 DEF Positions
    <3>5. PlainInv'
      <4> SUFFICES ASSUME StopsFor({"sendTransactions"}), pc' = "returned" PROVE SentAll'
        BY <1>0, <2>9, CallKept DEF PlainInv
      <4>1. OneRecorded /\ PlainCall /\ result' = Len(signed)
        BY <1>9, <3>1 DEF FullCount, Chunked, PlainCall
      <4>2. \A a \in Positions : a \in 1..(i - 1) \/ a = i
        BY <1>3, <3>1 DEF Positions
      <4>3. ~ microtasks = <<JobOf("recordFailure", signed[i - 1])>>
        BY <1>0 DEF JobOf
      <4>4. \A a, b \in Positions : Failed(a) /\ Failed(b) => a = b
        <5>1. CASE answer[signed[i]] = "rejected"
          <6>1. \A a \in 1..(i - 1) : ~Failed(a)
            BY <1>12, <4>1, <4>3, <5>1 DEF OneRecorded
          <6> QED BY <4>2, <6>1
        <5>2. CASE answer[signed[i]] # "rejected"
          <6>1. ~Failed(i)
            BY <5>2 DEF Failed
          <6>2. \A a, b \in 1..(i - 1) : Failed(a) /\ Failed(b) => a = b
            BY <4>1, <4>3 DEF OneRecorded
          <6> QED BY <4>2, <6>1, <6>2
        <5> QED BY <5>1, <5>2
      <4> QED BY <1>0, <3>1, <3>2, <4>1, <4>4 DEF SentAll, Positions, HasAnswer, Failed
    <3> QED BY <2>h, <2>7, <3>3, <3>4, <3>5 DEF BatchInv, SentUpToFailure
  <2> QED BY <2>8, <2>9
<1> QED BY <1>11, <1>12

\* Every step keeps the invariant.
LEMMA BatchNext == BatchInv /\ [Next]_vars => BatchInv'
<1> SUFFICES ASSUME BatchInv, [Next]_vars PROVE BatchInv'
  OBVIOUS
<1>1. CASE Sign
  BY <1>1, SignStep
<1>2. CASE SignThrows
  BY <1>2, SignThrowsStep
<1>3. CASE \E t \in Inputs : Answer(t)
  BY <1>3, AnswerStep
<1>4. CASE Relay
  BY <1>4, RelayStep
<1>5. CASE RecordFailure
  BY <1>5, RecordFailureStep
<1>6. CASE Resume
  BY <1>6, ResumeStep
<1>7. CASE UNCHANGED vars
  <2>0. /\ TypeOK /\ SentInOrder /\ StopsAtFailure /\ RecentBlockReturnsFailure
        /\ ChunkInv /\ LoopInv /\ DirectInv /\ PlainInv
        /\ UNCHANGED <<call, nonEmpty, pc, rest, signed, i, answer, result, microtasks,
                       breakEarly, breakIndex>>
    BY <1>7 DEF BatchInv, SentUpToFailure, vars
  <2>1. SentInOrder' /\ StopsAtFailure' /\ RecentBlockReturnsFailure' /\ ChunkInv' /\ DirectInv'
    BY <2>0, HandlerKeeps
  <2>2. TypeOK'
    BY <2>0 DEF TypeOK
  <2>3. LoopInv'
    <3>1. \A t : Queue(t) => Queue(t)'
      BY <2>0, CallKept DEF Queue, JobOf, Failed
    <3> QED BY <2>0, <3>1, CallKept DEF LoopInv, Positions, HasAnswer, JobOf
  <2>4. PlainInv'
    <3>1. OneRecorded => OneRecorded'
      <4>1. \A a : Failed(a)' <=> Failed(a)
        BY <2>0 DEF Failed
      <4> QED BY <2>0, <4>1 DEF OneRecorded, JobOf
    <3> QED BY <2>0, <3>1, CallKept, EndKept DEF PlainInv
  <2> QED BY <2>1, <2>2, <2>3, <2>4 DEF BatchInv, SentUpToFailure
<1> QED BY <1>1, <1>2, <1>3, <1>4, <1>5, <1>6, <1>7 DEF Next

\* The inductive invariant holds in every state of every call.
THEOREM BatchInvariance == Spec => []BatchInv
<1> QED BY InitBatch, BatchNext, PTL DEF Spec

\* A list is sent in order, is not sent on behind a failure, and what the call
\* returns is where it failed (connection.tsx:332-355, 415-453, 503-525).
THEOREM ListSentUpToFailure == Spec => []SentUpToFailure
<1>1. BatchInv => SentUpToFailure
  BY DEF BatchInv
<1> QED BY <1>1, BatchInvariance, PTL

\* Cardinality of an initial segment.
LEMMA CountOf == ASSUME NEW n \in Nat PROVE Cardinality(1..n) = n
<1>1. Cardinality(1..n) = IF 1 > n THEN 0 ELSE n - 1 + 1
  BY FS_Interval
<1> QED BY <1>1

\* What a returned StopOnFailure call leaves is one of the outcomes that module
\* ManualRetry takes as one step.
LEMMA ReturnsAnOutcome == BatchInv => StopsAtSecondFailure
<1> SUFFICES ASSUME BatchInv, StopsFor({"sendTransactions"}), Awaiting, Finished
             PROVE  /\ Outcome(Cardinality({k \in DOMAIN signed : answer[signed[k]] # "unsent"}),
                               {k \in DOMAIN signed : signed[k] \in Failures},
                               result) \in StopOnFailureOutcomes(Len(signed))
                    /\ \A k \in 2..Len(signed) :
                         answer[signed[k]] # "unsent" => answer[signed[k - 1]] # "unsent"
  BY DEF StopsAtSecondFailure
<1> DEFINE Sent == {k \in DOMAIN signed : answer[signed[k]] # "unsent"}
           Rejected == {k \in DOMAIN signed : signed[k] \in Failures}
<1>1. SentAll \/ StoppedSecond
  BY DEF BatchInv, PlainInv, Finished
<1>2. Len(signed) \in Nat /\ DOMAIN signed = Positions /\ Positions = 1..Len(signed)
  BY DEF BatchInv, SentUpToFailure, TypeOK, Positions
<1>3. Rejected = {k \in Positions : Failed(k)}
  BY <1>2 DEF BatchInv, ChunkInv, Failures, Failed
<1>4. CASE SentAll
  <2>1. Sent = 1..Len(signed)
    BY <1>2, <1>4 DEF SentAll, HasAnswer
  <2>2. Cardinality(Sent) = Len(signed)
    BY <1>2, <2>1, CountOf
  <2>3. Rejected = {} \/ \E f \in 1..Len(signed) : Rejected = {f}
    BY <1>2, <1>3, <1>4 DEF SentAll
  <2>4. Outcome(Len(signed), Rejected, Len(signed)) \in StopOnFailureOutcomes(Len(signed))
    BY <2>3 DEF StopOnFailureOutcomes
  <2>5. \A k \in 2..Len(signed) : k - 1 \in Sent
    BY <1>2, <2>1
  <2> QED BY <1>4, <2>2, <2>4, <2>5 DEF SentAll
<1>5. CASE StoppedSecond
  <2> PICK f \in Positions, s \in Positions :
        /\ f < s /\ result = f - 1
        /\ \A a \in Positions : /\ Failed(a) <=> a \in {f, s}
                                /\ IF a <= s THEN HasAnswer(signed[a]) ELSE answer[signed[a]] = "unsent"
    BY <1>5 DEF StoppedSecond
  <2>1. Sent = 1..s
    <3>1. \A a \in Positions : a \in Sent <=> a <= s
      BY <1>2 DEF HasAnswer
    <3>2. 1..s \subseteq Positions /\ \A a \in Positions : a <= s <=> a \in 1..s
      BY <1>2
    <3> QED BY <1>2, <3>1, <3>2
  <2>2. Cardinality(Sent) = s
    <3>1. s \in Nat
      BY <1>2
    <3>2. Cardinality(1..s) = s
      BY <3>1, CountOf
    <3> HIDE DEF Sent
    <3> QED BY <2>1, <3>2
  <2>3. Rejected = {f, s}
    BY <1>3
  <2>4. Outcome(s, {f, s}, f - 1) \in StopOnFailureOutcomes(Len(signed))
    <3> DEFINE p == <<f, s>>
    <3>1. p \in {q \in (1..Len(signed)) \X (1..Len(signed)) : q[1] < q[2]}
      BY <1>2
    <3>2. Outcome(s, {f, s}, f - 1) = Outcome(p[2], {p[1], p[2]}, p[1] - 1)
      OBVIOUS
    <3> HIDE DEF p
    <3> QED BY <3>1, <3>2 DEF StopOnFailureOutcomes
  <2>5. \A k \in 2..Len(signed) : k \in Sent => k - 1 \in Sent
    BY <1>2, <2>1
  <2>6. \A k \in 2..Len(signed) : k \in Positions /\ k - 1 \in Positions
    BY <1>2
  <2> QED BY <1>2, <2>2, <2>3, <2>4, <2>5, <2>6
<1> QED BY <1>1, <1>4, <1>5

\* sendTransactions with StopOnFailure runs on through its first failure, stops
\* at the second and returns the index of the first (connection.tsx:416-453).
THEOREM StopsOneFailureLate == Spec => []StopsAtSecondFailure
<1> QED BY ReturnsAnOutcome, BatchInvariance, PTL

-----------------------------------------------------------------------------
(* The retry loop around such lists, module ManualRetry.                    *)

\* The list is not empty.
LEMMA LengthPositive == Length \in Nat \ {0}
  BY RetryAssumption

\* Arithmetic behind the bound on the turns.
LEMMA TurnArithmetic ==
  ASSUME NEW n \in Nat \ {0}, NEW b \in 0..(n - 1), NEW t \in 0..3, NEW u \in Nat,
         u <= 4 * b + t + 1
  PROVE  u <= 4 * n
  OBVIOUS

\* What a call of sendTransactions may report: a full count, or the position
\* of a rejected transaction with everything before it resolved.
LEMMA OutcomeShape ==
  ASSUME NEW len \in Nat, NEW out \in StopOnFailureOutcomes(len)
  PROVE  /\ out.sent \in 0..len
         /\ out.answer \in 0..len
         /\ out.rejected \subseteq 1..len
         /\ out.answer < len => /\ out.answer + 1 \in out.rejected
                                /\ out.answer + 1 <= out.sent
                                /\ \A k \in 1..out.answer : k \notin out.rejected
<1>1. CASE out = Outcome(len, {}, len)
  BY <1>1 DEF Outcome
<1>2. CASE \E f \in 1..len : out = Outcome(len, {f}, len)
  BY <1>2 DEF Outcome
<1>3. CASE \E f, s \in 1..len : f < s /\ out = Outcome(s, {f, s}, f - 1)
  BY <1>3 DEF Outcome
<1> QED
  BY <1>1, <1>2, <1>3 DEF StopOnFailureOutcomes

\* The initial states satisfy the inductive invariant.
LEMMA RetryStarts == RetryInit => RetryInv
<1> SUFFICES ASSUME RetryInit PROVE RetryInv
  OBVIOUS
<1>1. RetryTypeOK
  <2>1. threw \in BOOLEAN
    BY DEF RetryInit
  <2>2. last \in [Entries -> {"unsent", "resolved", "rejected"}] /\ applied \subseteq Entries
    BY DEF RetryInit
  <2> QED
    BY LengthPositive, <2>1, <2>2 DEF RetryInit, RetryTypeOK, MaxTries
<1>2. LengthKnown /\ UiNeverSlices /\ NextStartResolved /\ PrefixResolved
  BY RetryAssumption DEF RetryInit, LengthKnown, UiNeverSlices, NextStartResolved,
     PrefixResolved
<1>3. RestartsAtRejected /\ BoundedTurns
  BY RetryAssumption DEF RetryInit, RestartsAtRejected, BoundedTurns
<1> QED BY <1>1, <1>2, <1>3 DEF RetryInv

\* The counters after the top of the loop, whatever the turn then does.
LEMMA TurnCounters ==
  ASSUME RetryInv, Turn
  PROVE  /\ base' \in 0..(Length - 1) /\ base' >= base
         /\ tries' \in 0..MaxTries /\ lastLength' = Length - base' /\ turns' \in Nat /\ turns' > 0
         /\ loop' = loop /\ stage' = stage
         /\ turns' <= 4 * base' + tries' + 1 /\ turns' <= 4 * Length
         /\ ~threw => \A t \in 1..base' : last[t] = "resolved"
<1> USE LengthPositive DEF RetryInv, RetryTypeOK, MaxTries
<1>1. /\ base' \in 0..(Length - 1) /\ base' >= base
      /\ tries' \in 0..MaxTries /\ lastLength' = Length - base' /\ turns' \in Nat /\ turns' > 0
      /\ loop' = loop /\ stage' = stage
  BY DEF Turn
<1>2. turns' <= 4 * base' + tries' + 1
  BY <1>1 DEF Turn, LengthKnown, BoundedTurns
<1>3. turns' <= 4 * Length
  <2> HIDE DEF RetryInv, RetryTypeOK
  <2>1. base' \in 0..(Length - 1) /\ tries' \in 0..3 /\ turns' \in Nat
    BY <1>1
  <2> QED BY <1>2, <2>1, LengthPositive, TurnArithmetic
<1>4. ~threw => \A t \in 1..base' : last[t] = "resolved"
  BY DEF Turn, NextStartResolved
<1> QED BY <1>1, <1>2, <1>3, <1>4

\* Every step keeps the inductive invariant.
LEMMA RetryStep == RetryInv /\ [RetryNext]_retryVars => RetryInv'
<1> USE LengthPositive DEF Entries, MaxTries
<1> SUFFICES ASSUME RetryInv, [RetryNext]_retryVars PROVE RetryInv'
  OBVIOUS
<1>1. CASE TurnThrows
  <2>1. Turn
    BY <1>1 DEF TurnThrows
  <2> QED
    BY <1>1, <2>1, TurnCounters DEF TurnThrows, Turn, RetryInv, RetryTypeOK,
       LengthKnown, UiNeverSlices, NextStartResolved, PrefixResolved,
       RestartsAtRejected, BoundedTurns
<1>2. CASE TurnSingle
  <2>1. Turn
    BY <1>2 DEF TurnSingle
  <2>2. base' = Length - 1
    BY <1>2, <2>1, TurnCounters DEF TurnSingle
  <2>3. CASE Send(base', 1, {}) /\ stopPoint' = 1 /\ UNCHANGED threw
    <3>1. last' = [t \in Entries |-> IF t = Length THEN "resolved" ELSE last[t]]
      BY <2>2, <2>3 DEF Send
    <3>2. applied' \subseteq Entries
      BY <2>3 DEF Send, RetryInv, RetryTypeOK
    <3> QED
      BY <2>1, <2>2, <2>3, <3>1, <3>2, TurnCounters DEF Turn, RetryInv, RetryTypeOK,
         LengthKnown, UiNeverSlices, NextStartResolved, PrefixResolved,
         RestartsAtRejected, BoundedTurns
  <2>4. CASE Send(base', 1, {1}) /\ threw' = TRUE /\ UNCHANGED stopPoint
    <3>1. last' = [t \in Entries |-> IF t = Length THEN "rejected" ELSE last[t]]
      BY <2>2, <2>4 DEF Send
    <3>2. applied' \subseteq Entries
      BY <2>4 DEF Send, RetryInv, RetryTypeOK
    <3> QED
      BY <2>1, <2>2, <2>4, <3>1, <3>2, TurnCounters DEF Turn, RetryInv, RetryTypeOK,
         LengthKnown, UiNeverSlices, NextStartResolved, PrefixResolved,
         RestartsAtRejected, BoundedTurns
  <2> QED BY <1>2, <2>3, <2>4 DEF TurnSingle
<1>3. CASE TurnBatch
  <2>1. Turn /\ loop # "candyMachineUi" /\ threw' = threw
    BY <1>3 DEF TurnBatch
  <2>2. PICK out \in StopOnFailureOutcomes(Length - base') :
          Send(base', out.sent, out.rejected) /\ stopPoint' = out.answer
    BY <1>3 DEF TurnBatch
  <2>3. base' \in 0..(Length - 1) /\ Length - base' \in Nat
    BY <2>1, TurnCounters
  <2> DEFINE b == base'
             bad == {b + k : k \in out.rejected}
  <2>4. /\ out.sent \in 0..(Length - b)
        /\ out.answer \in 0..(Length - b)
        /\ out.rejected \subseteq Int
        /\ out.answer < Length - b => /\ out.answer + 1 \in out.rejected
                                     /\ out.answer + 1 <= out.sent
                                     /\ \A k \in 1..out.answer : k \notin out.rejected
    BY <2>2, <2>3, OutcomeShape
  <2>5. last' = [t \in Entries |-> IF t \notin (b + 1)..(b + out.sent) THEN last[t]
                              ELSE IF t \in bad THEN "rejected" ELSE "resolved"]
    BY <2>2 DEF Send
  <2>6. applied' \subseteq Entries
    BY <2>2 DEF Send, RetryInv, RetryTypeOK
  <2>7. last' \in [Entries -> {"unsent", "resolved", "rejected"}]
    BY <2>5 DEF RetryInv, RetryTypeOK
  <2>8. \A t \in 1..b : last'[t] = last[t]
    <3> SUFFICES ASSUME NEW t \in 1..b PROVE last'[t] = last[t]
      OBVIOUS
    <3>1. b \in 0..(Length - 1) /\ out.sent \in Nat
      BY <2>3, <2>4
    <3>2. t \in Entries /\ t \notin (b + 1)..(b + out.sent)
      <4> HIDE DEF b
      <4> QED BY <3>1
    <3> QED BY <2>5, <3>2
  <2>9. out.answer < Length - b => last'[b + out.answer + 1] = "rejected"
    <3> SUFFICES ASSUME out.answer < Length - b PROVE last'[b + out.answer + 1] = "rejected"
      OBVIOUS
    <3>1. b + out.answer + 1 \in Entries /\ b + out.answer + 1 \in (b + 1)..(b + out.sent)
      BY <2>3, <2>4
    <3>2. b + out.answer + 1 \in bad
      BY <2>3, <2>4
    <3> QED BY <2>5, <3>1, <3>2
  <2>10. out.answer < Length - b => \A t \in (b + 1)..(b + out.answer) : last'[t] = "resolved"
    <3> SUFFICES ASSUME out.answer < Length - b, NEW t \in (b + 1)..(b + out.answer)
                 PROVE  last'[t] = "resolved"
      OBVIOUS
    <3>0. /\ b \in 0..(Length - 1) /\ out.sent \in Nat /\ out.answer \in Nat
          /\ out.answer + 1 <= out.sent /\ out.sent <= Length - b
      BY <2>3, <2>4
    <3>1. t \in Entries /\ t \in (b + 1)..(b + out.sent)
      <4> HIDE DEF b
      <4> QED BY <3>0
    <3>2. t \notin bad
      <4> SUFFICES ASSUME NEW k \in out.rejected, t = b + k PROVE FALSE
        OBVIOUS
      <4>1. k \in 1..out.answer
        BY <2>3, <2>4
      <4> QED BY <2>4, <4>1
    <3> QED BY <2>5, <3>1, <3>2
  <2> HIDE DEF b, bad
  <2>11. RetryTypeOK'
    <3>1. b \in 0..(Length - 1)
      BY <2>3 DEF b
    <3>2. out.answer \in 0..Length
      BY <2>4, <3>1
    <3>3. stopPoint' \in 0..Length
      BY <2>2, <3>2
    <3>4. /\ loop' \in Callers /\ stage' \in {"loop", "returned", "thrown"} /\ threw' \in BOOLEAN
          /\ base' \in 0..(Length - 1) /\ tries' \in 0..MaxTries /\ turns' \in Nat
      BY <2>1, TurnCounters DEF RetryInv, RetryTypeOK
    <3>5. lastLength' \in 0..Length
      <4>1. lastLength' = Length - b
        BY <2>1, TurnCounters DEF b
      <4>. QED  BY <3>1, <4>1
    <3>. QED  BY <2>6, <2>7, <3>3, <3>4, <3>5 DEF RetryTypeOK
  <2>12. LengthKnown' /\ UiNeverSlices' /\ BoundedTurns'
    BY <2>1, TurnCounters DEF LengthKnown, UiNeverSlices, BoundedTurns
  <2>13. PrefixResolved'
    BY <2>1, <2>8, TurnCounters DEF b, PrefixResolved
  <2>14. NextStartResolved'
    <3> SUFFICES ASSUME ~threw', stopPoint' < Length - base', NEW t \in 1..(base' + stopPoint')
                 PROVE  last'[t] = "resolved"
      BY DEF NextStartResolved
    <3>1. CASE t \in 1..b
      BY <2>1, <2>8, <3>1, TurnCounters DEF b
    <3>2. CASE t \in (b + 1)..(b + out.answer)
      BY <2>2, <2>10, <3>2 DEF b
    <3>3. t \in 1..(b + out.answer) /\ b \in Nat /\ out.answer \in Nat
      BY <2>2, <2>3, <2>4 DEF b
    <3> HIDE DEF NextStartResolved
    <3>4. t \in 1..b \/ t \in (b + 1)..(b + out.answer)
      BY <3>3
    <3> QED BY <3>1, <3>2, <3>4
  <2>15. RestartsAtRejected'
    BY <2>1, <2>2, <2>9, TurnCounters DEF b, RestartsAtRejected
  <2> QED BY <2>11, <2>12, <2>13, <2>14, <2>15 DEF RetryInv
<1>4. CASE TurnBatchUi
  <2>1. Turn /\ loop = "candyMachineUi" /\ stopPoint' = stopPoint /\ threw' = threw
    BY <1>4 DEF TurnBatchUi
  <2>2. base' = 0 /\ stopPoint = 0
    BY <2>1 DEF Turn, RetryInv, RetryTypeOK, UiNeverSlices
  <2>3. last' \in [Entries -> {"unsent", "resolved", "rejected"}] /\ applied' \subseteq Entries
    <3>1. PICK n \in Nat : Send(base', n, {n}) \/ Send(base', n, {})
      BY <1>4, <2>2 DEF TurnBatchUi
    <3>2. applied' \subseteq Entries
      BY <3>1 DEF Send, RetryInv, RetryTypeOK
    <3>3. \E bad : last' = [t \in Entries |-> IF t \notin (base' + 1)..(base' + n) THEN last[t]
                                       ELSE IF t \in bad THEN "rejected" ELSE "resolved"]
      BY <3>1 DEF Send
    <3>4. last' \in [Entries -> {"unsent", "resolved", "rejected"}]
      BY <3>3 DEF RetryInv, RetryTypeOK
    <3> QED BY <3>2, <3>4
  <2> QED
    BY <2>1, <2>2, <2>3, TurnCounters DEF RetryInv, RetryTypeOK, LengthKnown,
       UiNeverSlices, NextStartResolved, PrefixResolved, RestartsAtRejected,
       BoundedTurns
<1>5. CASE Return \/ ReturnOrFailToCreate \/ UNCHANGED retryVars
  BY <1>5 DEF Return, ReturnOrFailToCreate, retryVars, RetryInv, RetryTypeOK, LengthKnown,
     UiNeverSlices, NextStartResolved, PrefixResolved, RestartsAtRejected, BoundedTurns
<1> QED BY <1>1, <1>2, <1>3, <1>4, <1>5 DEF RetryNext

\* The inductive invariant holds in every reachable state.
THEOREM RetryInvariance == RetrySpec => []RetryInv
  BY RetryStarts, RetryStep, PTL DEF RetrySpec

\* The loop makes at most four turns for each transaction, and so prompts the
\* wallet no more often.
THEOREM RetryBounded == RetrySpec => []BoundedTurns
<1>1. RetryInv => BoundedTurns
  BY DEF RetryInv
<1> QED BY <1>1, RetryInvariance, PTL

\* Without a throw, the loop slices off only what resolved.
THEOREM SlicesOnlyResolved == RetrySpec => []PrefixResolved
<1>1. RetryInv => PrefixResolved
  BY DEF RetryInv
<1> QED BY <1>1, RetryInvariance, PTL

\* Without a throw, every retry starts at a rejected transaction.
THEOREM RestartsCorrectly == RetrySpec => []RestartsAtRejected
<1>1. RetryInv => RestartsAtRejected
  BY DEF RetryInv
<1> QED BY <1>1, RetryInvariance, PTL

-----------------------------------------------------------------------------
(* The send of one transaction, in the storefront and in the tools.        *)

\* The initial states satisfy the inductive invariant.
LEMMA InitIInv == SendInit => IInv
  BY DEF SendInit, IInv, SendTypeOK, NoticeTruthful, VerdictBehindAnswer, WaitingSubscribed,
         Subscribed, Answered, PlainResolvedLanded, RejectedByWaitFailed, Txs, LedgerStates,
         CallerStates, NoticeStates, TimerStates

\* Every step keeps the inductive invariant: the cluster never changes its mind
\* about an executed transaction, and a caller settles on a truthful notice, or
\* without a subscription on none.
LEMMA StepIInv == IInv /\ [SendNext]_sendVars => IInv'
<1> USE TxAssumption DEF Txs, LedgerStates, CallerStates, NoticeStates, TimerStates
<1> SUFFICES ASSUME IInv, [SendNext]_sendVars PROVE IInv'
  OBVIOUS
<1> USE DEF IInv, SendTypeOK, NoticeTruthful, VerdictBehindAnswer, WaitingSubscribed,
            Subscribed, Answered, Executed, PlainResolvedLanded, RejectedByWaitFailed
<1>1. ASSUME NEW t \in Txs, Receive(t) PROVE IInv'
  BY <1>1 DEF Receive
<1>2. ASSUME NEW t \in Txs, Drop(t) PROVE IInv'
  BY <1>2 DEF Drop
<1>3. ASSUME NEW t \in Txs, Execute(t) PROVE IInv'
  BY <1>3 DEF Execute
<1>4. ASSUME NEW t \in Txs, Expire(t) PROVE IInv'
  BY <1>4 DEF Expire
<1>5. ASSUME NEW t \in Txs, Notify(t) PROVE IInv'
  BY <1>5 DEF Notify
<1>6. ASSUME NEW t \in Txs, Broadcast(t) PROVE IInv'
  BY <1>6 DEF Broadcast
<1>7. ASSUME NEW t \in Txs, BroadcastThrows(t) PROVE IInv'
  BY <1>7 DEF BroadcastThrows
<1>8. ASSUME NEW t \in Txs, Subscribe(t) PROVE IInv'
  BY <1>8 DEF Subscribe
<1>9. ASSUME NEW t \in Txs, SetupFails(t) PROVE IInv'
  BY <1>9 DEF SetupFails, WithoutStatus
<1>10. ASSUME NEW t \in Txs, Resend(t) PROVE IInv'
  BY <1>10 DEF Resend
<1>11. ASSUME NEW t \in Txs, TimerFires(t) PROVE IInv'
  BY <1>11 DEF TimerFires
<1>12. ASSUME NEW t \in Txs, NoticeOk(t) PROVE IInv'
  BY <1>12 DEF NoticeOk
<1>13. ASSUME NEW t \in Txs, NoticeErr(t) PROVE IInv'
  BY <1>13 DEF NoticeErr, WithoutStatus
<1>14. ASSUME NEW t \in Txs, SimulationErr(t) PROVE IInv'
  BY <1>14 DEF SimulationErr
<1>15. ASSUME NEW t \in Txs, SimulationOkOrUnreachable(t) PROVE IInv'
  BY <1>15 DEF SimulationOkOrUnreachable
<1>16. CASE UNCHANGED sendVars
  BY <1>16 DEF sendVars
<1> QED
  BY <1>1, <1>2, <1>3, <1>4, <1>5, <1>6, <1>7, <1>8, <1>9, <1>10, <1>11, <1>12, <1>13,
     <1>14, <1>15, <1>16
     DEF SendNext, Cluster, Client

\* The inductive invariant holds in every reachable state.
THEOREM Invariance == SendSpec => []IInv
  BY InitIInv, StepIInv, PTL DEF SendSpec

\* sendTransaction returns only for a transaction that landed.
THEOREM PlainSound == SendSpec => []PlainResolvedLanded
<1>1. IInv => PlainResolvedLanded
  BY DEF IInv
<1> QED BY <1>1, Invariance, PTL

\* A rejection out of a wait that had its subscription means that the
\* transaction failed on the ledger; one out of a wait whose subscription could
\* not be opened (connection.tsx:817-820) is not among them.
THEOREM RejectionSound == SendSpec => []RejectedByWaitFailed
<1>1. IInv => RejectedByWaitFailed
  BY DEF IInv
<1> QED BY <1>1, Invariance, PTL

\* Nothing lands, fails or expires behind the answer of a caller that had its
\* subscription, whatever copies of the resend loop are still on their way.
THEOREM NothingLandsLate == SendSpec => NothingLandsBehindAnswer
<1> DEFINE Quiet == \A t \in Txs : Answered(t) /\ Subscribed(t) => ledger'[t] = ledger[t]
<1>1. IInv /\ [SendNext]_sendVars => [Quiet]_sendVars
  <2> SUFFICES ASSUME IInv, SendNext PROVE Quiet
    BY DEF sendVars
  <2> USE DEF IInv, SendTypeOK
  <2>1. \A t \in Txs : Answered(t) /\ Subscribed(t) => Executed(t)
    BY DEF VerdictBehindAnswer
  <2>2. ASSUME NEW t \in Txs, Receive(t) \/ Drop(t) \/ Execute(t) \/ Expire(t)
        PROVE  \A u \in Txs : Executed(u) => ledger'[u] = ledger[u]
    BY <2>2 DEF Receive, Drop, Execute, Expire, Executed
  <2>3. ASSUME NEW t \in Txs, Notify(t) \/ Client(t)
        PROVE  ledger' = ledger
    BY <2>3 DEF Notify, Client, Broadcast, BroadcastThrows, Subscribe, SetupFails, Resend,
                TimerFires, NoticeOk, NoticeErr, SimulationErr, SimulationOkOrUnreachable
  <2> QED BY <2>1, <2>2, <2>3 DEF SendNext, Cluster
<1> QED BY <1>1, Invariance, PTL DEF SendSpec, NothingLandsBehindAnswer

\* The steps of the system, seen through the refinement mapping, are steps of
\* the abstract promise; those of a call of sendSignedTransaction are not seen.
LEMMA StepPromise ==
  ASSUME IInv, [SendNext]_sendVars
  PROVE  [Promise!Next]_(Promise!vars)
<1> DEFINE V == [t \in Plain |-> IF Executed(t) THEN ledger[t] ELSE "open"]
           H == [t \in Plain |-> Subscribed(t)]
           A == [t \in Plain |-> IF Answered(t) THEN caller[t] ELSE "none"]
<1> USE DEF IInv, SendTypeOK, LedgerStates, CallerStates, Executed, Answered, Subscribed
<1>0. Plain \subseteq Txs /\ Plain \cap Resent = {}
  BY TxAssumption DEF Txs
<1>1. ASSUME NEW t \in Plain, Execute(t) PROVE Promise!Decide(t)
  <2>1. A' = A /\ H' = H
    BY <1>1 DEF Execute
  <2>2. V[t] = "open" /\ \E v \in {"landed", "failed"} : V' = [V EXCEPT ![t] = v]
    BY <1>0, <1>1 DEF Execute
  <2> QED BY <2>1, <2>2 DEF Promise!Decide
<1>2. ASSUME NEW t \in Plain, Subscribe(t) PROVE Promise!Listen(t)
  <2>1. V' = V /\ A' = A /\ A[t] = "none"
    BY <1>0, <1>2 DEF Subscribe
  <2>2. H' = [H EXCEPT ![t] = TRUE]
    BY <1>0, <1>2 DEF Subscribe
  <2> QED BY <2>1, <2>2 DEF Promise!Listen
<1>3. ASSUME NEW t \in Plain, NoticeOk(t) PROVE Promise!Resolve(t)
  <2>1. V' = V /\ V[t] = "landed"
    BY <1>0, <1>3 DEF NoticeOk, NoticeTruthful
  <2>2. H' = H /\ H[t]
    BY <1>0, <1>3 DEF NoticeOk
  <2>3. A[t] = "none" /\ A' = [A EXCEPT ![t] = "resolved"]
    BY <1>0, <1>3 DEF NoticeOk
  <2> QED BY <2>1, <2>2, <2>3 DEF Promise!Resolve
<1>4. ASSUME NEW t \in Plain, NoticeErr(t) PROVE Promise!Reject(t)
  <2>1. V' = V /\ V[t] = "failed"
    BY <1>0, <1>4 DEF NoticeErr, NoticeTruthful
  <2>2. H' = H
    BY <1>0, <1>4 DEF NoticeErr
  <2>3. A[t] = "none" /\ A' = [A EXCEPT ![t] = "rejected"]
    BY <1>0, <1>4 DEF NoticeErr, WithoutStatus
  <2> QED BY <2>1, <2>2, <2>3 DEF Promise!Reject
<1>5. ASSUME NEW t \in Plain, BroadcastThrows(t) \/ SetupFails(t) PROVE Promise!Reject(t)
  <2>1. V' = V
    BY <1>0, <1>5 DEF BroadcastThrows, SetupFails
  <2>2. H' = H /\ ~H[t]
    <3>1. t \in Txs /\ caller[t] = "sending" /\ notice' = notice
      BY <1>0, <1>5 DEF BroadcastThrows, SetupFails
    <3>2. ~Subscribed(t)
      BY <3>1 DEF VerdictBehindAnswer
    <3> QED BY <3>1, <3>2
  <2>3. A[t] = "none" /\ A' = [A EXCEPT ![t] = "rejected"]
    BY <1>0, <1>5 DEF BroadcastThrows, SetupFails, WithoutStatus
  <2> QED BY <2>1, <2>2, <2>3 DEF Promise!Reject
<1>6. ASSUME NEW t \in Txs,
             Receive(t) \/ Drop(t) \/ Expire(t) \/ Notify(t) \/ Broadcast(t) \/ TimerFires(t)
               \/ Resend(t) \/ SimulationErr(t) \/ SimulationOkOrUnreachable(t)
      PROVE  UNCHANGED <<V, H, A>>
  <2>1. \A u \in Txs : Executed(u)' = Executed(u) /\ (Executed(u) => ledger'[u] = ledger[u])
    BY <1>6 DEF Receive, Drop, Expire, Notify, Broadcast, TimerFires, Resend, SimulationErr,
                SimulationOkOrUnreachable
  <2>2. \A u \in Txs : Subscribed(u)' = Subscribed(u)
    BY <1>6 DEF Receive, Drop, Expire, Notify, Broadcast, TimerFires, Resend, SimulationErr,
                SimulationOkOrUnreachable
  <2>3. \A u \in Plain : Answered(u)' = Answered(u) /\ (Answered(u) => caller'[u] = caller[u])
    BY <1>0, <1>6 DEF Receive, Drop, Expire, Notify, Broadcast, TimerFires, Resend, SimulationErr,
                SimulationOkOrUnreachable
  <2>4. V' = V
    BY <1>0, <2>1
  <2>5. H' = H
    BY <1>0, <2>2
  <2>6. A' = A
    BY <2>3
  <2> QED BY <2>4, <2>5, <2>6
<1>7. ASSUME NEW t \in Resent,
             Execute(t) \/ Subscribe(t) \/ NoticeOk(t) \/ NoticeErr(t) \/ BroadcastThrows(t)
               \/ SetupFails(t)
      PROVE  UNCHANGED <<V, H, A>>
  <2>1. \A u \in Plain : /\ ledger'[u] = ledger[u]
                         /\ caller'[u] = caller[u]
                         /\ notice'[u] = notice[u]
    BY <1>0, <1>7 DEF Execute, Subscribe, NoticeOk, NoticeErr, BroadcastThrows, SetupFails
  <2> QED BY <2>1
<1>8. UNCHANGED sendVars => UNCHANGED <<V, H, A>>
  BY DEF sendVars
<1>9. UNCHANGED <<V, H, A>> => UNCHANGED Promise!vars
  BY DEF Promise!vars
<1> QED
  BY <1>1, <1>2, <1>3, <1>4, <1>5, <1>6, <1>7, <1>8, <1>9
     DEF SendNext, Cluster, Client, Txs, Promise!Next

\* Calls of sendTransaction implement the abstract promise, the wait that ends
\* because its subscription could not be opened among them.
THEOREM PlainImplementsPromise == SendSpec => ImplementsPromise
<1>1. SendInit => Promise!Init
  BY DEF SendInit, Promise!Init, Executed, Answered, Subscribed, Txs
<1> QED BY <1>1, StepPromise, Invariance, PTL DEF SendSpec, ImplementsPromise, Promise!Spec

-----------------------------------------------------------------------------
(* The two copies side by side.                                            *)

\* The storefront's copy does in the composition what it does alone, and so
\* does the tools' copy: neither sees the other.
THEOREM SendersCompose == MCSpec => SendSpec /\ Tool!Spec
<1>1. MCInit => SendInit /\ Tool!Init
  BY DEF MCInit
<1>2. [MCNext]_<<sendVars, toolVars>> => [SendNext]_sendVars
  BY DEF MCNext, sendVars, toolVars
<1>3. [MCNext]_<<sendVars, toolVars>> => [Tool!Next]_(Tool!vars)
  BY DEF MCNext, sendVars, toolVars, Tool!vars
<1> QED BY <1>1, <1>2, <1>3, PTL DEF MCSpec, SendSpec, Tool!Spec

\* The initial states satisfy the inductive invariant of the tools' copy.
LEMMA ToolInitIInv == Tool!Init => Tool!IInv
  BY DEF Tool!Init, Tool!IInv, Tool!VerdictTruthful, Tool!AnswersTruthful, Tool!TypeOK,
         Tool!Landed, Tool!LedgerStates, Tool!CallerStates

\* Every step keeps it: whichever of the websocket, the timer and the queries
\* answers first, the answer is one the ledger has given.
LEMMA ToolStepIInv == Tool!IInv /\ [Tool!Next]_(Tool!vars) => Tool!IInv'
<1> USE DEF Tool!LedgerStates, Tool!CallerStates, Tool!Landed
<1> SUFFICES ASSUME Tool!IInv, [Tool!Next]_(Tool!vars) PROVE Tool!IInv'
  OBVIOUS
<1> USE DEF Tool!IInv, Tool!VerdictTruthful, Tool!AnswersTruthful, Tool!TypeOK
<1>1. ASSUME NEW t \in ToolTxs, Tool!LedgerStep(t) PROVE Tool!IInv'
  BY <1>1 DEF Tool!LedgerStep
<1>2. ASSUME NEW t \in ToolTxs, Tool!Notify(t) PROVE Tool!IInv'
  BY <1>2 DEF Tool!Notify
<1>3. ASSUME NEW t \in ToolTxs, Tool!Broadcast(t) PROVE Tool!IInv'
  BY <1>3 DEF Tool!Broadcast
<1>4. ASSUME NEW t \in ToolTxs, Tool!BroadcastThrows(t) PROVE Tool!IInv'
  BY <1>4 DEF Tool!BroadcastThrows
<1>5. ASSUME NEW t \in ToolTxs, Tool!Arrive(t) PROVE Tool!IInv'
  BY <1>5 DEF Tool!Arrive
<1>6. ASSUME NEW t \in ToolTxs, Tool!TimerFires(t) PROVE Tool!IInv'
  BY <1>6 DEF Tool!TimerFires
<1>7. ASSUME NEW t \in ToolTxs, Tool!NoticeArrives(t) PROVE Tool!IInv'
  BY <1>7 DEF Tool!NoticeArrives
<1>8. ASSUME NEW t \in ToolTxs, Tool!Query(t) PROVE Tool!IInv'
  BY <1>8 DEF Tool!Query
<1>9. ASSUME NEW t \in ToolTxs, Tool!ReplyArrives(t) PROVE Tool!IInv'
  <2> PICK r \in toolReplies[t] :
        /\ toolReplies' = [toolReplies EXCEPT ![t] = @ \ {r}]
        /\ IF toolDone[t] THEN UNCHANGED <<toolCaller, toolDone>>
           ELSE /\ toolDone' = [toolDone EXCEPT ![t] = TRUE]
                /\ toolCaller' = [toolCaller EXCEPT ![t] = IF r = "err" THEN "simulating" ELSE "resolved"]
    BY <1>9 DEF Tool!ReplyArrives
  <2>0. r \in {"confirmed", "err"} /\ UNCHANGED <<toolLedger, toolNotice, toolTimer>>
    BY <1>9 DEF Tool!ReplyArrives
  <2>1. Tool!TypeOK'
    <3>1. toolReplies' \in [ToolTxs -> SUBSET {"confirmed", "err"}]
      OBVIOUS
    <3>2. CASE toolDone[t]
      BY <2>0, <3>1, <3>2
    <3>3. CASE ~toolDone[t]
      <4>1. toolDone' \in [ToolTxs -> BOOLEAN] /\ toolDone' = [toolDone EXCEPT ![t] = TRUE]
        BY <3>3
      <4>2. PICK s \in {"simulating", "resolved"} : toolCaller' = [toolCaller EXCEPT ![t] = s]
        BY <3>3
      <4>3. toolCaller' \in [ToolTxs -> Tool!CallerStates]
        BY <4>2
      <4>4. \A u \in ToolTxs : ~toolDone'[u] => toolCaller'[u] \in {"idle", "sending", "waiting", "threw"}
        BY <4>1, <4>2
      <4>. QED  BY <2>0, <3>1, <4>1, <4>3, <4>4
    <3>. QED  BY <3>2, <3>3
  <2>2. Tool!AnswersTruthful'
    BY <2>0
  <2>3. CASE toolDone[t]
    BY <2>0, <2>1, <2>2, <2>3
  <2>4. CASE ~toolDone[t] /\ r = "err"
    BY <2>0, <2>1, <2>2, <2>4
  <2>5. CASE ~toolDone[t] /\ r = "confirmed"
    BY <2>0, <2>1, <2>2, <2>5
  <2> QED BY <2>0, <2>3, <2>4, <2>5
<1>10. ASSUME NEW t \in ToolTxs, Tool!Simulated(t) PROVE Tool!IInv'
  BY <1>10 DEF Tool!Simulated
<1>11. ASSUME NEW t \in ToolTxs, Tool!Subscribe(t) PROVE Tool!IInv'
  BY <1>11 DEF Tool!Subscribe
<1>12. ASSUME NEW t \in ToolTxs, Tool!SetupFails(t) PROVE Tool!IInv'
  BY <1>12 DEF Tool!SetupFails
<1>13. CASE UNCHANGED Tool!vars
  BY <1>13 DEF Tool!vars
<1> QED
  BY <1>1, <1>2, <1>3, <1>4, <1>5, <1>6, <1>7, <1>8, <1>9, <1>10, <1>11, <1>12, <1>13
     DEF Tool!Next

\* In the tools a rejection other than the timeout is final, and a wait that
\* resolves has a verdict of the ledger behind it (transactions.ts:131-245).
THEOREM ToolVerdictTruthful == MCSpec => []VerdictTruthful
<1>1. Tool!IInv => VerdictTruthful
  BY DEF Tool!IInv, VerdictTruthful
<1> QED
  BY <1>1, ToolInitIInv, ToolStepIInv, SendersCompose, PTL DEF Tool!Spec
=============================================================================
