--------------------------- MODULE FairLaunch_proofs ---------------------------
(***************************************************************************)
(* What is proved of the fair launch tool, for every finite set of buyers, *)
(* every set of prices, every number of tokens, size of an update, modulus *)
(* and number of tries, any number of calls lost: FairOutcome, AllServed,  *)
(* PaysMedian and RefundsLosersOnly.                                       *)
(*                                                                         *)
(* A call about one ticket (TicketStep) only moves that ticket forward: it *)
(* is numbered once, and once punched or withdrawn it stays so.  A draw    *)
(* made of all tickets, each with its sequence account, is fair when it is *)
(* made, and stays fair as tickets move: a winner who is paid takes one    *)
(* token of those left and one place of those won.  The command that       *)
(* serves everyone works from tickets it read before: each ticket it has   *)
(* not come to is still as it was read, or was brought down to the median, *)
(* or is settled.  A ticket it gives up was tried as often as a loop tries,*)
(* and each of those tries lost a call, unless it was an adjustment paid   *)
(* for in tokens, which is refused as such.  What an update writes, byte by*)
(* byte, is the bits of its own tickets and of no others (OverlaidIs), for *)
(* every size of a byte, of an update and of the header.                   *)
(***************************************************************************)
EXTENDS FairLaunch, FiniteSetTheorems, WellFoundedInduction, TLAPS

-----------------------------------------------------------------------------
(* The inductive invariant.                                                 *)

Ticket == [state : {"none", "noseq", "unpunched", "punched", "withdrawn"},
           amount : Prices \cup {0}, seq : Seqs, gotten : BOOLEAN]
Client == [at : {"idle", "poll", "seq", "adjust", "nft", "punch"}, snap : Ticket,
           median : Prices \cup {0}, tries : 0 .. (MaxTries - 1)]
Drawing == {"bitmap", "read", "write"}
Stages == {"refund", "adjust", "punch"}
Serving == {"nft"} \cup Stages
OpPlaces == {"idle", "missing", "tickets", "served"} \cup Drawing \cup Serving
\* The bytes of an account.
Data == [Cells -> SUBSET Bits]

Op == [at : OpPlaces, upTo : Nat, median : Prices \cup {0}, round : Nat,
       data : Data, drawn : SUBSET Seqs, snap : [Buyers -> Ticket],
       todo : SUBSET (Buyers \cup Nat), tries : 0 .. (MaxTries - 1), failed : BOOLEAN]

LaunchTyped ==
  /\ treasury \in {"SOL", "tokens"}
  /\ phase \in {"sale", "closed", "three"} /\ round \in Nat
  /\ ticket \in [Buyers -> Ticket]
  /\ sold \in Nat /\ supply \in Nat /\ median \in Prices \cup {0}
  /\ bitmap \in [exists : BOOLEAN, data : Data]
  /\ client \in [Buyers -> Client]
  /\ op \in Op
  /\ faults \in Nat /\ result \in [ok : BOOLEAN, round : Nat]

\* Tickets are numbered from zero in the order they were bought.
Sold(t) == {b \in Buyers : t[b].state # "none"}
TicketsNumbered ==
  /\ sold = Cardinality(Sold(ticket))
  /\ \A b \in Buyers : ticket[b].state # "none" => ticket[b].seq < sold
  /\ \A b, c \in Buyers : /\ ticket[b].state # "none" /\ ticket[c].state # "none"
                          /\ ticket[b].seq = ticket[c].seq
                          => b = c

\* No bit is set, or drawn, beyond the last ticket.
BitsNumbered == \A s \in Marks(bitmap.data) \cup op.drawn : s < sold

\* A ticket that stands offers something, the median is of the tickets that stand, and
\* nobody has a token of the sale before phase three.
Offers ==
  /\ \A b \in Buyers : ticket[b].state \in {"noseq", "unpunched", "punched"} => ticket[b].amount # 0
  /\ median = 0 => Live(ticket) = {}
  /\ phase # "three" => supply <= Tokens /\ \A b \in Buyers : ticket[b].state # "punched"

\* A buyer's command that has come past the adjustment holds a ticket that offers the
\* median at most.
ClientOK(c, ph, t, m) ==
  c.at \in {"adjust", "nft", "punch"} =>
    /\ ph = "three" /\ t.state # "none"
    /\ c.at = "adjust" => c.median = m
    /\ c.at # "adjust" => t.amount <= m
Clients == \A b \in Buyers : ClientOK(client[b], phase, ticket[b], median)

NoneLate(t) == \A b \in Buyers : t[b].state # "noseq"

\* What the command that serves everyone knows of a ticket it has not come to: it has
\* stayed as it was read, was brought down to the median, or is settled.
Follows(job, t, m, b) ==
  /\ job.snap[b].seq = t[b].seq
  /\ job.snap[b].state \in {"unpunched", "punched", "withdrawn"}
  /\ t[b].state = "unpunched" =>
       /\ job.snap[b].state = "unpunched"
       /\ \/ t[b].amount = job.snap[b].amount
          \/ t[b].amount = m /\ m <= job.snap[b].amount

FirstOf(job) == CHOOSE b \in job.todo : \A c \in job.todo : job.snap[b].seq <= job.snap[c].seq

Settled(B, t, f) == \A b \in B : t[b].state = "unpunched" => f >= MaxTries

Waits(job, t, m, f) ==
  /\ job.todo \subseteq Buyers
  /\ \A b \in job.todo : /\ Follows(job, t, m, b)
                         /\ NftDue(job.snap[b]) \/ Stage(job, job.snap[b]) # "next"
  /\ Settled(Buyers \ job.todo, t, f)

\* An adjustment that is paid for in tokens is always refused.
Refused(k, job) == k = "tokens" /\ job.at = "adjust"

\* The ticket whose turn it is: it has been tried no more often than calls were lost, if
\* the call is not refused as such.
OnTurn(k, job, t, f, b) ==
  /\ Stage(job, job.snap[b]) \in (IF job.at = "punch" THEN {"adjust", "punch"} ELSE {job.at})
  /\ t[b].state = "unpunched" => Refused(k, job) \/ job.tries <= f
  /\ job.at = "punch" /\ t[b].state = "unpunched" =>
       t[b].amount <= job.median \/ f >= MaxTries \/ k = "tokens"

Serves(k, job, t, m, f) ==
  /\ job.todo # {}
  /\ Waits(job, t, m, f)
  /\ job.at \in Stages => OnTurn(k, job, t, f, FirstOf(job))

OpInv ==
  /\ op.at \in {"tickets", "served"} \cup Serving => phase = "three"
  /\ op.at \in {"tickets"} \cup Serving => op.median = median /\ op.data = bitmap.data /\ op.upTo = sold
  /\ op.at \in {"served"} \cup Serving => NoneLate(ticket)
  /\ op.at = "served" => Settled(Buyers, ticket, faults)
  /\ op.at \in Serving => Serves(treasury, op, ticket, median, faults)
  /\ op.at = "missing" => op.todo \subseteq Buyers

MedianPaid(k, t, m, f) ==
  k = "SOL" /\ f < MaxTries => \A b \in Buyers : t[b].state = "punched" => t[b].amount = m

\* A fair draw, of a set of sequence numbers.
Winning(s, t) == {b \in Buyers : t[b].state # "none" /\ t[b].seq \in s}
Hoping(s, t) == {b \in Winning(s, t) : t[b].state = "unpunched"}
Unpaid(s, t) == {b \in Winning(s, t) : t[b].state # "punched"}
Lost(s, t, m, b) == t[b].state = "unpunched" /\ t[b].amount >= m /\ t[b].seq \notin s
FairDraw(s, t, m, k) ==
  /\ \/ k + Cardinality(Hoping(s, t)) <= Tokens
     \/ Winning(s, t) \subseteq Whitelist
  /\ \A b \in Hoping(s, t) : t[b].amount >= m
  /\ (\E b \in Buyers : Lost(s, t, m, b)) => k + Cardinality(Unpaid(s, t)) >= Tokens

\* What a lottery under way has come to when nothing has changed since it was read.
Written ==
  /\ NoneLate(ticket) /\ FairDraw(op.drawn, ticket, median, supply)
  /\ ~op.failed => \A s \in 0 .. (sold - 1) :
        s \div ChunkSize \notin op.todo => (s \in Marks(bitmap.data) <=> s \in op.drawn)

ClosedIn == IF phase = "closed" THEN round ELSE round - 1
DrawInv ==
  /\ op.at \in Drawing => op.round <= round /\ (phase = "three" => op.round = round)
  /\ phase = "closed" /\ op.at \in Drawing /\ op.round = round => op.upTo = sold /\ op.median = median
  /\ op.at = "write" => op.todo \subseteq Chunks(op.upTo)
  /\ phase = "closed" /\ op.at = "write" /\ op.round = round => Written
ResultInv ==
  /\ result.round <= round
  /\ result.ok /\ phase # "sale" /\ result.round = ClosedIn =>
       NoneLate(ticket) /\ FairDraw(Marks(bitmap.data), ticket, median, supply)

LaunchInv ==
  /\ LaunchTyped /\ TicketsNumbered /\ BitsNumbered /\ Offers /\ Clients /\ OpInv
  /\ MedianPaid(treasury, ticket, median, faults) /\ DrawInv /\ ResultInv

-----------------------------------------------------------------------------
(* The operators.                                                           *)

\* The assumption, one constant at a time.
LEMMA Constants ==
  /\ IsFiniteSet(Buyers) /\ Cardinality(Buyers) \in Nat
  /\ Prices \subseteq Nat /\ 0 \notin Prices /\ Whitelist \subseteq Buyers
  /\ Tokens \in Nat /\ Modulo \in Nat \ {0} /\ MaxTries \in Nat \ {0}
BY LaunchAssumption, FS_CardinalityType DEF LaunchAssumption

\* Multiples of a number keep their distance.
LEMMA Multiples ==
  ASSUME NEW r \in Nat \ {0}, NEW j \in Nat, NEW k \in Nat, j < k
  PROVE  j * r \in Nat /\ k * r \in Nat /\ j * r + r <= k * r
<1>. DEFINE d == k - j - 1
<1>1. d \in Nat /\ k = (j + 1) + d
  OBVIOUS
<1>. HIDE DEF d
<1>2. k * r = (j + 1) * r + d * r
  BY <1>1
<1>3. d * r \in Nat /\ j * r \in Nat /\ (j + 1) * r = j * r + r
  BY <1>1
<1>. QED  BY <1>2, <1>3

\* A number is made of its quotient and its remainder, in one way only.
LEMMA Division ==
  ASSUME NEW r \in Nat \ {0}
  PROVE  /\ \A a \in Nat : a \div r \in Nat /\ a % r \in 0 .. (r - 1) /\ a = (a \div r) * r + (a % r)
         /\ \A q \in Nat, i \in 0 .. (r - 1) :
              q * r + i \in Nat /\ (q * r + i) \div r = q /\ (q * r + i) % r = i
<1>1. ASSUME NEW a \in Nat
      PROVE  a \div r \in Nat /\ a % r \in 0 .. (r - 1) /\ a = (a \div r) * r + (a % r)
  <2>1. a \div r \in Nat
    OBVIOUS
  <2>2. a % r \in 0 .. (r - 1)
    OBVIOUS
  <2>3. a = (a \div r) * r + (a % r)
    OBVIOUS
  <2>. QED  BY <2>1, <2>2, <2>3
<1>2. ASSUME NEW q \in Nat, NEW i \in 0 .. (r - 1)
      PROVE  q * r + i \in Nat /\ (q * r + i) \div r = q /\ (q * r + i) % r = i
  <2>. DEFINE n == q * r + i
              x == n \div r
              y == n % r
  <2>1. n \in Nat /\ q * r \in Nat /\ i \in Nat /\ i < r
    OBVIOUS
  <2>2. x \in Nat /\ y \in 0 .. (r - 1) /\ n = x * r + y
    <3>. HIDE DEF n
    <3>. QED  BY <1>1, <2>1
  <2>3. y \in Nat /\ y < r /\ x * r \in Nat
    <3>. HIDE DEF x, y
    <3>. QED  BY <2>2
  <2>4. q * r + i = x * r + y
    BY <2>2 DEF n
  <2>. HIDE DEF x, y
  <2>5. ~(q < x)
    <3>. SUFFICES ASSUME q < x PROVE FALSE
      OBVIOUS
    <3>1. q * r + r <= x * r
      BY <2>2, Multiples
    <3>. QED  BY <3>1, <2>1, <2>3, <2>4
  <2>6. ~(x < q)
    <3>. SUFFICES ASSUME x < q PROVE FALSE
      OBVIOUS
    <3>1. x * r + r <= q * r
      BY <2>2, Multiples
    <3>. QED  BY <3>1, <2>1, <2>3, <2>4
  <2>7. x = q
    BY <2>2, <2>5, <2>6
  <2>8. y = i
    BY <2>1, <2>3, <2>4, <2>7
  <2>. QED  BY <2>1, <2>7, <2>8 DEF x, y
<1>. QED  BY <1>1, <1>2

\* The constants of the bitmap.
LEMMA ByteConstants ==
  /\ ByteSize \in Nat \ {0} /\ ChunkBytes \in Nat \ {0} /\ Header \in Nat
  /\ ChunkSize \in Nat \ {0} /\ ChunkSize = ByteSize * ChunkBytes /\ Cardinality(Buyers) \in Nat
<1>1. /\ ByteSize \in Nat \ {0} /\ ChunkBytes \in Nat \ {0} /\ Header \in Nat /\ Cardinality(Buyers) \in Nat
  BY LaunchAssumption, FS_CardinalityType DEF LaunchAssumption
<1>2. ByteSize * ChunkBytes \in Nat \ {0}
  <2>. DEFINE a == ByteSize
              c == ChunkBytes
  <2>1. a \in Nat \ {0} /\ c \in Nat \ {0}
    BY <1>1
  <2>. HIDE DEF a, c
  <2>2. a * c \in Nat \ {0}
    <3>1. c - 1 \in Nat /\ c = (c - 1) + 1
      BY <2>1
    <3>2. a * c = a * (c - 1) + a /\ a * (c - 1) \in Nat
      BY <2>1, <3>1
    <3>. QED  BY <2>1, <3>2
  <2>. QED  BY <2>2 DEF a, c
<1>. QED  BY <1>1, <1>2 DEF ChunkSize

\* The byte of a ticket, and the place in it: which update they belong to.
LEMMA ByteOf ==
  ASSUME NEW s \in Nat, NEW chunk \in Nat, NEW j \in Nat, j < ChunkBytes
  PROVE  /\ (chunk * ChunkSize) \div ByteSize = chunk * ChunkBytes
         /\ chunk * ChunkBytes \in Nat
         /\ s \div ByteSize = chunk * ChunkBytes + j =>
              s = chunk * ChunkSize + (j * ByteSize + (s % ByteSize)) /\ s \div ChunkSize = chunk
         /\ (j * ByteSize + (s % ByteSize)) \in 0 .. (ChunkSize - 1)
         /\ (j * ByteSize + (s % ByteSize)) \div ByteSize = j
         /\ (j * ByteSize + (s % ByteSize)) % ByteSize = s % ByteSize
<1>. DEFINE r == ByteSize
            c == ChunkBytes
            i == s % ByteSize
            n == j * r + i
<1>1. r \in Nat \ {0} /\ c \in Nat \ {0} /\ ChunkSize = r * c /\ ChunkSize \in Nat \ {0}
      /\ j < c
  BY ByteConstants
<1>2. i \in 0 .. (r - 1) /\ s = (s \div r) * r + i /\ i \in Nat /\ i < r
  <2>1. i \in 0 .. (r - 1) /\ s = (s \div r) * r + i
    BY <1>1, Division
  <2>. HIDE DEF i
  <2>. QED  BY <1>1, <2>1
<1>. HIDE DEF r, c, i
<1>3. n \in Nat /\ n \div r = j /\ n % r = i
  BY <1>1, <1>2, Division
<1>4. chunk * ChunkSize = (chunk * c) * r + 0 /\ chunk * c \in Nat /\ 0 \in 0 .. (r - 1)
  BY <1>1
<1>5. (chunk * ChunkSize) \div r = chunk * c
  <2>. DEFINE q == chunk * c
  <2>1. q \in Nat /\ 0 \in 0 .. (r - 1)
    BY <1>4
  <2>2. (q * r + 0) \div r = q
    <3>. HIDE DEF q
    <3>. QED  BY <1>1, <2>1, Division
  <2>. QED  BY <2>2, <1>4
<1>6. n \in 0 .. (ChunkSize - 1)
  <2>1. j * r + r <= c * r /\ c * r \in Nat /\ j * r \in Nat
    BY <1>1, Multiples
  <2>2. c * r = ChunkSize
    BY <1>1
  <2>3. n = j * r + i
    OBVIOUS
  <2>. HIDE DEF n
  <2>. QED  BY <1>1, <1>2, <1>3, <2>1, <2>2, <2>3
<1>7. ASSUME s \div r = chunk * c + j
      PROVE  s = chunk * ChunkSize + n /\ s \div ChunkSize = chunk
  <2>1. s = (chunk * c + j) * r + i
    BY <1>2, <1>7
  <2>2. (chunk * c + j) * r = chunk * (r * c) + j * r
    BY <1>1
  <2>3. s = chunk * ChunkSize + n
    <3>1. chunk * ChunkSize \in Nat /\ j * r \in Nat
      BY <1>1
    <3>. QED  BY <1>1, <1>2, <2>1, <2>2, <3>1
  <2>. HIDE DEF n
  <2>4. (chunk * ChunkSize + n) \div ChunkSize = chunk
    BY <1>1, <1>6, Division
  <2>. QED  BY <2>3, <2>4
<1>8. s \div r = chunk * c + j => s = chunk * ChunkSize + n /\ s \div ChunkSize = chunk
  BY <1>7
<1>. HIDE DEF n
<1>9. n = j * r + i
  BY DEF n
<1>10. chunk * c \in Nat
  BY <1>4
<1>11. n = j * ByteSize + (s % ByteSize)
  BY <1>9 DEF r, i
<1>12. /\ (chunk * ChunkSize) \div ByteSize = chunk * ChunkBytes /\ chunk * ChunkBytes \in Nat
       /\ s \div ByteSize = chunk * ChunkBytes + j => s = chunk * ChunkSize + n /\ s \div ChunkSize = chunk
       /\ n \div ByteSize = j /\ n % ByteSize = s % ByteSize
  BY <1>3, <1>5, <1>8, <1>10 DEF r, c, i
<1>. QED  BY <1>6, <1>11, <1>12

\* The byte of a ticket is a cell of the account.
LEMMA CellOf ==
  ASSUME NEW s \in Seqs
  PROVE  /\ s \in Nat /\ s \div ByteSize \in Nat /\ Header + s \div ByteSize \in Cells
         /\ s % ByteSize \in 0 .. (ByteSize - 1)
<1>1. s \in Nat /\ s < Cardinality(Buyers) /\ ByteSize \in Nat \ {0} /\ Header \in Nat
      /\ Cardinality(Buyers) \in Nat
  BY ByteConstants DEF Seqs
<1>. DEFINE q == s \div ByteSize
            r == ByteSize
<1>2. q \in Nat /\ s % r \in 0 .. (r - 1) /\ s = q * r + (s % r)
  BY <1>1, Division
<1>3. q <= s
  <2>. DEFINE y == s % r
  <2>1. y \in Nat /\ s = q * r + y /\ r \in Nat \ {0}
    BY <1>1, <1>2
  <2>. HIDE DEF q, y, r
  <2>2. q * r = q + q * (r - 1) /\ q * (r - 1) \in Nat
    BY <1>2, <2>1
  <2>. QED  BY <1>2, <2>1, <2>2
<1>. HIDE DEF q
<1>4. Header + q \in Cells
  BY <1>1, <1>2, <1>3 DEF Cells
<1>. QED  BY <1>1, <1>2, <1>4 DEF q

\* What an update makes of the bits: those of its tickets are the winners', the others
\* stay, and no bit is set of a ticket that is not there.
LEMMA OverlaidIs ==
  ASSUME NEW data \in Data, NEW chunk \in Nat, NEW n \in Nat, NEW won
  PROVE  /\ Overlaid(data, chunk, n, won) \in Data
         /\ \A s \in Seqs :
              /\ s < n /\ s \div ChunkSize = chunk => (s \in Marks(Overlaid(data, chunk, n, won)) <=> s \in won)
              /\ s \div ChunkSize # chunk => (s \in Marks(Overlaid(data, chunk, n, won)) <=> s \in Marks(data))
              /\ s \in Marks(Overlaid(data, chunk, n, won)) => s \in Marks(data) \/ s \in won
<1>. DEFINE new == Overlaid(data, chunk, n, won)
            bytes == Packed(chunk, n, won)
            off == (chunk * ChunkSize) \div ByteSize
            entries == {i \in 0 .. (ChunkSize - 1) : chunk * ChunkSize + i < n}
            places == {i \div ByteSize : i \in entries}
            Set(j) == {ByteSize - 1 - (i % ByteSize) : i \in {e \in entries :
                          e \div ByteSize = j /\ chunk * ChunkSize + e \in won}}
<1>1. /\ ByteSize \in Nat \ {0} /\ ChunkBytes \in Nat \ {0} /\ Header \in Nat
      /\ ChunkSize \in Nat \ {0} /\ ChunkSize = ByteSize * ChunkBytes
  BY ByteConstants
<1>2. DOMAIN bytes = places /\ \A j \in places : bytes[j] = Set(j)
  BY DEF Packed
<1>3. \A c \in Cells : new[c] = IF c - Header - off \in DOMAIN bytes THEN bytes[c - Header - off] ELSE data[c]
  BY DEF Overlaid
<1>4. \A i \in entries : /\ i \in Nat /\ i \div ByteSize \in Nat /\ i % ByteSize \in 0 .. (ByteSize - 1)
                          /\ i = (i \div ByteSize) * ByteSize + (i % ByteSize) /\ i \in 0 .. (ChunkSize - 1)
  <2>. TAKE i \in entries
  <2>1. i \in Nat /\ i \in 0 .. (ChunkSize - 1)
    BY <1>1
  <2>. QED  BY <1>1, <2>1, Division
<1>5. off = chunk * ChunkBytes /\ off \in Nat
  BY <1>1, ByteOf
<1>6. \A j \in places : Set(j) \subseteq Bits
  <2>. SUFFICES ASSUME NEW i \in entries PROVE ByteSize - 1 - (i % ByteSize) \in Bits
    OBVIOUS
  <2>. DEFINE y == i % ByteSize
  <2>1. y \in 0 .. (ByteSize - 1)
    BY <1>4
  <2>. HIDE DEF y
  <2>2. ByteSize - 1 - y \in Bits
    BY <1>1, <2>1 DEF Bits
  <2>. QED  BY <2>2 DEF y
<1>7. new \in Data
  <2>1. \A c \in Cells : new[c] \in SUBSET Bits
    <3>. HIDE DEF new, bytes, places, Set, off
    <3>. QED  BY <1>2, <1>3, <1>6 DEF Data
  <2>2. new = [c \in Cells |-> new[c]]
    BY DEF Overlaid
  <2>. HIDE DEF new
  <2>. QED  BY <2>1, <2>2 DEF Data
<1>8. ASSUME NEW s \in Seqs
      PROVE  /\ s < n /\ s \div ChunkSize = chunk => (s \in Marks(new) <=> s \in won)
             /\ s \div ChunkSize # chunk => (s \in Marks(new) <=> s \in Marks(data))
             /\ s \in Marks(new) => s \in Marks(data) \/ s \in won
  <2>. DEFINE q == s \div ByteSize
              c == Header + q
              j == c - Header - off
              y == s % ByteSize
              bit == ByteSize - 1 - y
  <2>1. s \in Nat /\ q \in Nat /\ c \in Cells /\ y \in 0 .. (ByteSize - 1)
    BY CellOf
  <2>2. s \in Marks(new) <=> bit \in new[c]
    <3>. HIDE DEF new
    <3>. QED  BY DEF Marks
  <2>3. s \in Marks(data) <=> bit \in data[c]
    BY DEF Marks
  <2>4. j = q - off /\ j \in Int
    BY <1>1, <1>5, <2>1
  <2>5. ASSUME j \in places
        PROVE  /\ j \in Nat /\ j < ChunkBytes /\ s = chunk * ChunkSize + (j * ByteSize + y)
               /\ s \div ChunkSize = chunk
    <3>1. PICK i \in entries : j = i \div ByteSize
      BY <2>5
    <3>2. i \in Nat /\ j \in Nat /\ i \in 0 .. (ChunkSize - 1) /\ i = j * ByteSize + (i % ByteSize)
          /\ i % ByteSize \in 0 .. (ByteSize - 1)
      BY <1>4, <3>1
    <3>3. j < ChunkBytes
      <4>. DEFINE z == i % ByteSize
                  x == j
      <4>1. i \in Nat /\ x \in Nat /\ i < ChunkSize /\ i = x * ByteSize + z /\ z \in Nat
        BY <1>1, <3>2
      <4>. HIDE DEF z, x
      <4>. SUFFICES ASSUME ~(x < ChunkBytes) PROVE FALSE
        BY DEF x
      <4>2. ChunkBytes <= x
        BY <1>1, <4>1
      <4>3. ChunkBytes * ByteSize <= x * ByteSize
        <5>1. CASE ChunkBytes = x
          <6>1. x * ByteSize \in Nat
            BY <1>1, <4>1
          <6>. QED  BY <5>1, <6>1
        <5>2. CASE ChunkBytes < x
          <6>1. /\ ChunkBytes * ByteSize \in Nat /\ x * ByteSize \in Nat
                /\ ChunkBytes * ByteSize + ByteSize <= x * ByteSize
            BY <1>1, <4>1, <5>2, Multiples
          <6>. QED  BY <1>1, <6>1
        <5>. QED  BY <1>1, <4>1, <4>2, <5>1, <5>2
      <4>4. ChunkSize = ChunkBytes * ByteSize /\ x * ByteSize \in Nat
        BY <1>1, <4>1
      <4>. QED  BY <1>1, <4>1, <4>3, <4>4
    <3>4. q = chunk * ChunkBytes + j
      <4>. HIDE DEF q, j, off
      <4>. QED  BY <1>5, <2>1, <2>4, <3>2
    <3>5. s = chunk * ChunkSize + (j * ByteSize + y) /\ s \div ChunkSize = chunk
      <4>. DEFINE x == j
      <4>1. x \in Nat /\ x < ChunkBytes /\ q = chunk * ChunkBytes + x
        BY <3>2, <3>3, <3>4
      <4>2. s = chunk * ChunkSize + (x * ByteSize + y) /\ s \div ChunkSize = chunk
        <5>. HIDE DEF x
        <5>. QED  BY <2>1, <4>1, ByteOf
      <4>. QED  BY <4>2
    <3>. QED  BY <3>2, <3>3, <3>5
  <2>. HIDE DEF new, bytes
  <2>6. ASSUME j \notin places
        PROVE  s \in Marks(new) <=> s \in Marks(data)
    <3>1. new[c] = data[c]
      <4>. HIDE DEF places, c
      <4>. QED  BY <1>2, <1>3, <2>1, <2>6
    <3>. QED  BY <2>2, <2>3, <3>1
  <2>7. ASSUME j \in places
        PROVE  s \in Marks(new) <=> s < n /\ s \in won
    <3>1. new[c] = Set(j)
      <4>. HIDE DEF places, c, Set
      <4>. QED  BY <1>2, <1>3, <2>1, <2>7
    <3>2. /\ j \in Nat /\ j < ChunkBytes /\ s = chunk * ChunkSize + (j * ByteSize + y)
      BY <2>5, <2>7
    <3>. DEFINE x == j
                e == x * ByteSize + y
    <3>3. x \in Nat /\ x < ChunkBytes /\ s = chunk * ChunkSize + e
      BY <3>2
    <3>4. e \in 0 .. (ChunkSize - 1) /\ e \div ByteSize = x /\ e % ByteSize = y
      <4>. HIDE DEF x
      <4>. QED  BY <2>1, <3>3, ByteOf
    <3>5. ASSUME s < n, s \in won
          PROVE  bit \in Set(j)
      <4>1. e \in entries
        <5>. HIDE DEF e
        <5>. QED  BY <3>3, <3>4, <3>5
      <4>2. e \div ByteSize = j /\ chunk * ChunkSize + e \in won /\ bit = ByteSize - 1 - (e % ByteSize)
        <5>1. chunk * ChunkSize + e \in won
          <6>. HIDE DEF e
          <6>. QED  BY <3>3, <3>5
        <5>2. e \div ByteSize = j
          BY <3>4
        <5>3. bit = ByteSize - 1 - (e % ByteSize)
          <6>. HIDE DEF e
          <6>. QED  BY <3>4
        <5>. QED  BY <5>1, <5>2, <5>3
      <4>. HIDE DEF e, entries, bit, j
      <4>. QED  BY <4>1, <4>2
    <3>6. ASSUME bit \in Set(j)
          PROVE  s < n /\ s \in won
      <4>1. PICK i \in entries : /\ i \div ByteSize = j /\ chunk * ChunkSize + i \in won
                                 /\ bit = ByteSize - 1 - (i % ByteSize)
        <5>. HIDE DEF entries, j, bit
        <5>. QED  BY <3>6
      <4>2. i % ByteSize = y
        <5>. DEFINE z == i % ByteSize
        <5>1. z \in 0 .. (ByteSize - 1) /\ ByteSize - 1 - y = ByteSize - 1 - z
          BY <1>4, <4>1
        <5>. HIDE DEF z, y
        <5>2. z = y
          BY <1>1, <2>1, <5>1
        <5>. QED  BY <5>2 DEF z
      <4>3. i = x * ByteSize + y
        <5>1. i = (i \div ByteSize) * ByteSize + (i % ByteSize)
          BY <1>4
        <5>. HIDE DEF j
        <5>. QED  BY <4>1, <4>2, <5>1
      <4>4. chunk * ChunkSize + i < n /\ chunk * ChunkSize + i = s
        <5>1. i = e
          BY <4>3
        <5>. HIDE DEF e
        <5>. QED  BY <3>3, <5>1
      <4>. QED  BY <4>1, <4>4
    <3>. QED  BY <2>2, <3>1, <3>5, <3>6
  <2>8. ASSUME s < n, s \div ChunkSize = chunk
        PROVE  j \in places
    <3>. DEFINE i == s - chunk * ChunkSize
                z == s % ChunkSize
    <3>1. s = chunk * ChunkSize + z /\ z \in 0 .. (ChunkSize - 1) /\ chunk * ChunkSize \in Nat
      <4>1. s = (s \div ChunkSize) * ChunkSize + (s % ChunkSize) /\ z \in 0 .. (ChunkSize - 1)
        BY <1>1, <2>1, Division
      <4>2. chunk * ChunkSize \in Nat
        BY <1>1
      <4>3. s = chunk * ChunkSize + z
        BY <4>1, <2>8
      <4>. QED  BY <4>1, <4>2, <4>3
    <3>2. z \in entries
      <4>. HIDE DEF z
      <4>. QED  BY <2>8, <3>1
    <3>3. z = (z \div ByteSize) * ByteSize + (z % ByteSize) /\ z \div ByteSize \in Nat
          /\ z % ByteSize \in 0 .. (ByteSize - 1)
      BY <1>4, <3>2
    <3>. HIDE DEF z
    <3>. DEFINE g == z \div ByteSize
                h == z % ByteSize
    <3>4. s = (chunk * ChunkBytes + g) * ByteSize + h
      <4>1. z = g * ByteSize + h /\ g \in Nat /\ h \in Nat
        BY <1>1, <3>3
      <4>. HIDE DEF g, h
      <4>2. (chunk * ChunkBytes + g) * ByteSize = chunk * (ByteSize * ChunkBytes) + g * ByteSize
        BY <1>1, <4>1
      <4>3. chunk * ChunkSize \in Nat /\ g * ByteSize \in Nat /\ (chunk * ChunkBytes + g) * ByteSize \in Nat
        BY <1>1, <4>1
      <4>. QED  BY <1>1, <3>1, <4>1, <4>2, <4>3
    <3>5. q = chunk * ChunkBytes + g
      <4>1. h \in 0 .. (ByteSize - 1) /\ chunk * ChunkBytes + g \in Nat
        BY <1>1, <3>3
      <4>. DEFINE w == chunk * ChunkBytes + g
      <4>2. w \in Nat /\ h \in 0 .. (ByteSize - 1) /\ s = w * ByteSize + h
        BY <3>4, <4>1
      <4>3. (w * ByteSize + h) \div ByteSize = w
        <5>. HIDE DEF w, h
        <5>. QED  BY <1>1, <4>2, Division
      <4>. HIDE DEF w, h
      <4>4. q = w
        BY <4>2, <4>3
      <4>. QED  BY <4>4 DEF w
    <3>6. j = g
      <4>1. g \in Nat /\ chunk * ChunkBytes \in Nat
        BY <1>1, <3>3
      <4>. HIDE DEF g, q, j, off
      <4>. QED  BY <1>5, <2>4, <3>5, <4>1
    <3>7. g \in places
      BY <3>2
    <3>. HIDE DEF j, g, places
    <3>. QED  BY <3>6, <3>7
  <2>. HIDE DEF j, places
  <2>. QED  BY <2>5, <2>6, <2>7, <2>8
<1>. HIDE DEF new
<1>9. new \in Data /\ \A s \in Seqs :
        /\ s < n /\ s \div ChunkSize = chunk => (s \in Marks(new) <=> s \in won)
        /\ s \div ChunkSize # chunk => (s \in Marks(new) <=> s \in Marks(data))
        /\ s \in Marks(new) => s \in Marks(data) \/ s \in won
  BY <1>7, <1>8
<1>. QED  BY <1>9 DEF new

\* A new account: no bit of a ticket is set in it.
LEMMA BlankIs == Blank \in Data /\ Marks(Blank) = {}
<1>1. Blank \in Data
  <2>1. \A c \in Cells : (IF c < Header THEN Bits ELSE {}) \in SUBSET Bits
    OBVIOUS
  <2>. QED  BY <2>1 DEF Blank, Data
<1>2. ASSUME NEW s \in Seqs PROVE s \notin Marks(Blank)
  <2>. DEFINE c == Header + s \div ByteSize
  <2>1. c \in Cells /\ ~(c < Header)
    <3>1. s \div ByteSize \in Nat /\ c \in Cells /\ Header \in Nat
      BY CellOf, ByteConstants
    <3>. QED  BY <3>1
  <2>2. Blank[c] = {}
    <3>. HIDE DEF c
    <3>. QED  BY <2>1 DEF Blank
  <2>. QED  BY <2>2 DEF Marks
<1>. QED  BY <1>1, <1>2 DEF Marks

\* What a ticket offers is a natural number.
LEMMA OfferNat == ASSUME NEW p \in Prices \cup {0} PROVE p \in Nat
BY Constants

\* The ticket of a buyer who has not bought yet is a ticket.
LEMMA NoTicketTyped == ASSUME Buyers # {} PROVE NoTicket \in Ticket
<1>1. Cardinality(Buyers) \in Nat \ {0}
  BY Constants, FS_EmptySet
<1>. QED  BY <1>1 DEF NoTicket, Ticket, Seqs

\* The authority at rest, and at the end of its command, has drawn nothing it still means to write.
LEMMA Resting ==
  /\ AtRest \in Op /\ [AtRest EXCEPT !.at = "served"] \in Op
  /\ AtRest.at = "idle" /\ AtRest.drawn = {}
<1>1. [b \in Buyers |-> NoTicket] \in [Buyers -> Ticket]
  BY NoTicketTyped
<1>2. 0 \in 0 .. (MaxTries - 1)
  BY Constants
<1>. DEFINE s == [b \in Buyers |-> NoTicket]
<1>. HIDE DEF s
<1>3. s \in [Buyers -> Ticket] /\ AtRest = [at |-> "idle", upTo |-> 0, median |-> 0, round |-> 0, data |-> Blank, drawn |-> {},
           snap |-> s, todo |-> {}, tries |-> 0, failed |-> FALSE]
  BY <1>1 DEF s, AtRest
<1>. QED  BY <1>2, <1>3, BlankIs DEF Op, OpPlaces, Drawing, Serving, Stages

\* A set of natural numbers that is not empty has a least element.
LEMMA LeastElement ==
  ASSUME NEW T, T \subseteq Nat, T # {}
  PROVE  \E x \in T : \A y \in T : x <= y
<1>. DEFINE R == {ss \in Nat \X Nat : ss[1] < ss[2]}
<1>1. IsWellFoundedOn(R, Nat)
  BY NatLessThanWellFounded DEF OpToRel
<1>2. PICK x \in T : \A y \in T : ~(<<y, x>> \in R)
  <2>. HIDE DEF R
  <2>. QED  BY <1>1, WFMin
<1>3. \A y \in T : ~(y < x)
  BY <1>2
<1>. QED  BY <1>3

\* The least element of a set of naturals that is not empty is one of them.
LEMMA MinIs ==
  ASSUME NEW T, T \subseteq Nat, T # {}
  PROVE  Min(T) \in T
BY LeastElement DEF Min

\* Of a finite set, one element with the greatest value of a function.
LEMMA GreatestOf ==
  ASSUME NEW S, IsFiniteSet(S), S # {}, NEW f \in [S -> Nat]
  PROVE  \E x \in S : \A y \in S : f[y] <= f[x]
<1>. DEFINE Below(x) == {y \in S : f[y] <= f[x]}
            above == [x \in S |-> Cardinality(S) - Cardinality(Below(x))]
<1>1. ASSUME NEW x \in S
      PROVE  IsFiniteSet(Below(x)) /\ Cardinality(Below(x)) \in Nat /\ above[x] \in Nat
  BY FS_Subset, FS_CardinalityType, Below(x) \in SUBSET S
<1>2. PICK n \in {above[x] : x \in S} : \A k \in {above[x] : x \in S} : n <= k
  <2>. DEFINE V == {above[x] : x \in S}
  <2>1. V \subseteq Nat /\ V # {}
    <3>. HIDE DEF above
    <3>. QED  BY <1>1
  <2>2. \E n \in V : \A k \in V : n <= k
    <3>. HIDE DEF V
    <3>. QED  BY <2>1, LeastElement
  <2>. QED  BY <2>2
<1>3. PICK x \in S : n = above[x]
  BY <1>2
<1>4. SUFFICES ASSUME NEW y \in S, f[y] > f[x]
               PROVE  FALSE
  BY <1>3
<1>5. Below(x) \in SUBSET Below(y) /\ y \in Below(y) /\ y \notin Below(x)
  BY <1>4
<1>6. Cardinality(Below(x)) < Cardinality(Below(y))
  <2>. HIDE DEF Below
  <2>. QED  BY <1>1, <1>5, FS_Subset
<1>7. above[x] <= above[y]
  BY <1>2, <1>3
<1>8. Cardinality(S) \in Nat
  BY FS_CardinalityType
<1>9. above[x] = Cardinality(S) - Cardinality(Below(x)) /\ above[y] = Cardinality(S) - Cardinality(Below(y))
  OBVIOUS
<1>. HIDE DEF Below, above
<1>. QED  BY <1>1, <1>4, <1>6, <1>7, <1>8, <1>9

\* The median is an offer of a ticket that stands, and zero when none does.
LEMMA MedianIs ==
  ASSUME NEW t \in [Buyers -> Ticket],
         \A b \in Buyers : t[b].state \in {"noseq", "unpunched", "punched"} => t[b].amount # 0
  PROVE  MedianOf(t) \in Prices \cup {0} /\ (MedianOf(t) = 0 => Live(t) = {})
<1>1. CASE Live(t) = {}
  BY <1>1 DEF MedianOf
<1>2. CASE Live(t) # {}
  <2>. DEFINE Below(c) == {d \in Live(t) : t[d].amount <= t[c].amount}
              Half == {c \in Live(t) : 2 * Cardinality(Below(c)) >= Cardinality(Live(t))}
              Offered == {t[b].amount : b \in Half}
  <2>1. IsFiniteSet(Live(t)) /\ Cardinality(Live(t)) \in Nat
    BY Constants, FS_Subset, FS_CardinalityType, Live(t) \in SUBSET Buyers DEF Live
  <2>2. \A b \in Live(t) : b \in Buyers /\ t[b].amount \in Prices /\ t[b].amount \in Nat /\ t[b].amount # 0
    <3>. TAKE b \in Live(t)
    <3>1. b \in Buyers /\ t[b] \in Ticket /\ t[b].state \in {"noseq", "unpunched"}
      BY DEF Live
    <3>2. t[b].amount \in Prices \cup {0} /\ t[b].amount # 0
      BY <3>1 DEF Ticket
    <3>. QED  BY <3>1, <3>2, Constants
  <2>3. [b \in Live(t) |-> t[b].amount] \in [Live(t) -> Nat]
    BY <2>2
  <2>4. PICK x \in Live(t) : \A y \in Live(t) : t[y].amount <= t[x].amount
    <3>. DEFINE g == [b \in Live(t) |-> t[b].amount]
    <3>1. \E x \in Live(t) : \A y \in Live(t) : g[y] <= g[x]
      <4>. HIDE DEF g
      <4>. QED  BY <1>2, <2>1, <2>3, GreatestOf DEF g
    <3>. QED  BY <3>1
  <2>5. Below(x) = Live(t)
    BY <2>4
  <2>6. x \in Half
    <3>. HIDE DEF Below
    <3>. QED  BY <2>1, <2>5
  <2>7. Offered \subseteq Nat /\ Offered # {} /\ Offered \subseteq Prices /\ 0 \notin Offered
    <3>. HIDE DEF Below
    <3>. QED  BY <2>2, <2>6
  <2>8. Min(Offered) \in Offered
    <3>. HIDE DEF Offered
    <3>. QED  BY <2>7, MinIs
  <2>9. MedianOf(t) = Min(Offered)
    BY <1>2 DEF MedianOf
  <2>. HIDE DEF Offered
  <2>. QED  BY <1>2, <2>7, <2>8, <2>9
<1>. QED  BY <1>1, <1>2

\* The ticket whose turn it is is one of those that wait.
LEMMA FirstIs ==
  ASSUME NEW S, S # {}, NEW f \in [S -> Nat]
  PROVE  \E b \in S : \A c \in S : f[b] <= f[c]
<1>. DEFINE V == {f[b] : b \in S}
<1>1. V \subseteq Nat /\ V # {}
  OBVIOUS
<1>2. \E n \in V : \A k \in V : n <= k
  <2>. HIDE DEF V
  <2>. QED  BY <1>1, LeastElement
<1>. QED  BY <1>2

\* The ticket on turn is one of those still to be served.
LEMMA FirstOfIs ==
  ASSUME NEW job \in Op, job.todo # {}, job.todo \subseteq Buyers
  PROVE  FirstOf(job) \in job.todo /\ FirstOf(job) \in Buyers
<1>. DEFINE f == [b \in job.todo |-> job.snap[b].seq]
<1>1. f \in [job.todo -> Nat]
  BY DEF Op, Ticket, Seqs
<1>2. \E b \in job.todo : \A c \in job.todo : f[b] <= f[c]
  <2>. HIDE DEF f
  <2>. QED  BY <1>1, FirstIs
<1>3. \E b \in job.todo : \A c \in job.todo : job.snap[b].seq <= job.snap[c].seq
  BY <1>2
<1>. QED  BY <1>3 DEF FirstOf
-----------------------------------------------------------------------------
(* Calls about one ticket.                                                  *)

\* What a call may make of a ticket that has been bought.
Moves(ph, m, old, new) ==
  /\ new \in Ticket /\ new.seq = old.seq
  /\ \/ new.state = old.state /\ new.amount = old.amount
     \/ old.state = "noseq" /\ new.state = "unpunched" /\ new.amount = old.amount
     \/ old.state = "unpunched" /\ ph # "closed" /\ new.state = "withdrawn" /\ new.amount = 0
     \/ /\ old.state = "unpunched" /\ ph # "closed" /\ new.state = "unpunched" /\ new.amount # 0
        /\ ph = "three" => new.amount = m /\ m <= old.amount
     \/ /\ old.state = "unpunched" /\ ph = "three" /\ new.state = "punched"
        /\ new.amount = old.amount /\ m <= old.amount

\* The ticket of b becomes t.
Becomes(b, t) ==
  /\ ticket' = [ticket EXCEPT ![b] = t]
  /\ median' = IF phase = "sale" THEN MedianOf(ticket') ELSE median
  /\ bitmap' = bitmap /\ sold' = sold

\* A token is paid for.
Pays(b, t) == /\ phase = "three" /\ ticket[b].state = "unpunched" /\ ticket[b].seq \in Marks(bitmap.data)
              /\ t.state = "punched" /\ supply' = supply + 1
Keeps(b, t) == supply' = supply /\ (t.state = "punched" <=> ticket[b].state = "punched")

\* A call about a ticket takes effect, or nothing happens.
TicketStep ==
  /\ phase' = phase
  /\ \/ UNCHANGED program
     \/ \E b \in Buyers, t \in Ticket : /\ Moves(phase, median, ticket[b], t) /\ Becomes(b, t)
                                        /\ Pays(b, t) \/ Keeps(b, t)

\* The fields of a ticket.
LEMMA TicketFields ==
  ASSUME NEW t \in Ticket
  PROVE  /\ t.state \in {"none", "noseq", "unpunched", "punched", "withdrawn"}
         /\ t.amount \in Prices \cup {0} /\ t.amount \in Nat /\ t.seq \in Seqs /\ t.seq \in Nat
         /\ t.gotten \in BOOLEAN
<1>1. /\ t.state \in {"none", "noseq", "unpunched", "punched", "withdrawn"}
      /\ t.amount \in Prices \cup {0} /\ t.seq \in Seqs /\ t.gotten \in BOOLEAN
  BY DEF Ticket
<1>2. t.amount \in Nat
  <2>. DEFINE a == t.amount
  <2>1. a \in Prices \cup {0} /\ Prices \subseteq Nat
    BY <1>1, Constants
  <2>. HIDE DEF a
  <2>2. a \in Nat
    BY <2>1
  <2>. QED  BY <2>2 DEF a
<1>3. t.seq \in Nat
  BY <1>1, Constants DEF Seqs
<1>. QED  BY <1>1, <1>2, <1>3

\* A ticket after an adjustment.
LEMMA TicketWith ==
  ASSUME NEW t \in Ticket, NEW st \in {"none", "noseq", "unpunched", "punched", "withdrawn"},
         NEW am \in Prices \cup {0}
  PROVE  LET new == [t EXCEPT !.amount = am, !.state = st]
         IN  /\ new \in Ticket /\ new.seq = t.seq /\ new.state = st /\ new.amount = am
BY DEF Ticket

\* A ticket after a call that moves it and leaves its offer alone.
LEMMA TicketState ==
  ASSUME NEW t \in Ticket, NEW st \in {"none", "noseq", "unpunched", "punched", "withdrawn"}
  PROVE  LET new == [t EXCEPT !.state = st]
         IN  /\ new \in Ticket /\ new.seq = t.seq /\ new.state = st /\ new.amount = t.amount
BY DEF Ticket

\* A ticket after its holder got the token of the sale.
LEMMA TicketGotten ==
  ASSUME NEW t \in Ticket
  PROVE  LET new == [t EXCEPT !.gotten = TRUE]
         IN  /\ new \in Ticket /\ new.seq = t.seq /\ new.state = t.state /\ new.amount = t.amount
BY DEF Ticket

\* Making a sequence account moves one ticket.
LEMMA SequenceStep ==
  ASSUME LaunchTyped, NEW b \in Buyers, CanSequence(b), SequenceEffect(b), phase' = phase
  PROVE  TicketStep
<1>. DEFINE t == [ticket[b] EXCEPT !.state = "unpunched"]
<1>1. t \in Ticket /\ t.seq = ticket[b].seq /\ t.state = "unpunched" /\ t.amount = ticket[b].amount
  BY TicketState DEF LaunchTyped
<1>2. Becomes(b, t) /\ supply' = supply
  BY DEF SequenceEffect, Put, Becomes
<1>3. ticket[b].state = "noseq"
  BY DEF CanSequence
<1>. HIDE DEF t
<1>. QED  BY <1>1, <1>2, <1>3 DEF TicketStep, Moves, Keeps

\* Getting the token of the sale moves one ticket.
LEMMA NftStep ==
  ASSUME LaunchTyped, NEW b \in Buyers, NftEffect(b), phase' = phase
  PROVE  TicketStep
<1>. DEFINE t == [ticket[b] EXCEPT !.gotten = TRUE]
<1>1. t \in Ticket /\ t.seq = ticket[b].seq /\ t.state = ticket[b].state /\ t.amount = ticket[b].amount
  BY TicketGotten DEF LaunchTyped
<1>2. Becomes(b, t) /\ supply' = supply
  BY DEF NftEffect, Put, Becomes
<1>. HIDE DEF t
<1>. QED  BY <1>1, <1>2 DEF TicketStep, Moves, Keeps

\* Punching moves one ticket.
LEMMA PunchStep ==
  ASSUME LaunchTyped, NEW b \in Buyers, CanPunch(b), PunchEffect(b), phase' = phase
  PROVE  TicketStep
<1>. DEFINE t == [ticket[b] EXCEPT !.state = "punched"]
<1>1. t \in Ticket /\ t.seq = ticket[b].seq /\ t.state = "punched" /\ t.amount = ticket[b].amount
  BY TicketState DEF LaunchTyped
<1>2. Becomes(b, t) /\ supply' = supply + 1
  BY DEF PunchEffect, Put, Becomes
<1>3. /\ ticket[b].state = "unpunched" /\ phase = "three" /\ ticket[b].seq \in Marks(bitmap.data)
      /\ median <= ticket[b].amount
  <2>1. ticket[b].amount >= median
    BY DEF CanPunch
  <2>2. ticket[b].amount \in Nat /\ median \in Nat
    BY TicketFields, Constants DEF LaunchTyped
  <2>. QED  BY <2>1, <2>2 DEF CanPunch
<1>. HIDE DEF t
<1>. QED  BY <1>1, <1>2, <1>3 DEF TicketStep, Moves, Pays

\* With a ticket that stands the median is not zero: lowering it to the median withdraws
\* nothing.
LEMMA AdjustStep ==
  ASSUME LaunchTyped, Offers, NEW b \in Buyers, NEW amount \in Prices \cup {0},
         CanAdjust(b, amount), AdjustEffect(b, amount), phase' = phase
  PROVE  TicketStep
<1>. DEFINE st == IF amount = 0 THEN "withdrawn" ELSE "unpunched"
            t == [ticket[b] EXCEPT !.amount = amount, !.state = st]
<1>1. t \in Ticket /\ t.seq = ticket[b].seq /\ t.state = st /\ t.amount = amount
  <2>1. st \in {"none", "noseq", "unpunched", "punched", "withdrawn"} /\ ticket[b] \in Ticket
    BY DEF LaunchTyped
  <2>. HIDE DEF st
  <2>. QED  BY <2>1 DEF Ticket
<1>2. ticket[b].state = "unpunched"
  BY DEF CanAdjust
<1>3. t = [ticket[b] EXCEPT !.amount = amount, !.state = IF amount = 0 THEN "withdrawn" ELSE @]
  BY <1>2
<1>4. Becomes(b, t) /\ supply' = supply
  <2>. DEFINE u == [ticket[b] EXCEPT !.amount = amount, !.state = IF amount = 0 THEN "withdrawn" ELSE @]
  <2>1. Becomes(b, u) /\ supply' = supply
    BY DEF AdjustEffect, Put, Becomes
  <2>. HIDE DEF t, u
  <2>. QED  BY <2>1, <1>3 DEF u
<1>5. Keeps(b, t)
  <2>. HIDE DEF t
  <2>. QED  BY <1>1, <1>2, <1>4 DEF Keeps
<1>6. Moves(phase, median, ticket[b], t)
  <2>1. phase = "sale" \/ (phase = "three" /\ amount \in {0, median} /\ amount <= ticket[b].amount)
    BY DEF CanAdjust
  <2>. HIDE DEF t
  <2>2. CASE amount = 0
    BY <1>1, <1>2, <2>1, <2>2 DEF Moves
  <2>3. CASE amount # 0
    BY <1>1, <1>2, <2>1, <2>3 DEF Moves
  <2>. QED  BY <2>2, <2>3
<1>. HIDE DEF t
<1>. QED  BY <1>1, <1>4, <1>5, <1>6 DEF TicketStep

\* A call about one ticket moves every ticket forward or leaves it as it was.
LEMMA Evolves ==
  ASSUME LaunchTyped, TicketStep
  PROVE  /\ ticket' \in [Buyers -> Ticket] /\ supply' \in Nat
         /\ phase' = phase /\ sold' = sold /\ bitmap' = bitmap
         /\ \A b \in Buyers : Moves(phase, median, ticket[b], ticket'[b])
         /\ phase # "sale" => median' = median
<1>1. CASE UNCHANGED program
  <2>1. ticket' = ticket /\ ticket \in [Buyers -> Ticket] /\ supply' = supply /\ supply \in Nat
        /\ sold' = sold /\ bitmap' = bitmap /\ median' = median
    BY <1>1 DEF LaunchTyped, program
  <2>2. \A b \in Buyers : Moves(phase, median, ticket[b], ticket'[b])
    BY <2>1 DEF Moves
  <2>. QED  BY <2>1, <2>2 DEF TicketStep
<1>2. ASSUME NEW b \in Buyers, NEW t \in Ticket, Moves(phase, median, ticket[b], t), Becomes(b, t),
             Pays(b, t) \/ Keeps(b, t)
      PROVE  /\ ticket' \in [Buyers -> Ticket] /\ supply' \in Nat
             /\ sold' = sold /\ bitmap' = bitmap
             /\ \A c \in Buyers : Moves(phase, median, ticket[c], ticket'[c])
             /\ phase # "sale" => median' = median
  <2>1. ticket \in [Buyers -> Ticket] /\ supply \in Nat
    BY DEF LaunchTyped
  <2>2. ticket' = [ticket EXCEPT ![b] = t]
    BY <1>2 DEF Becomes
  <2>3. ticket' \in [Buyers -> Ticket]
    BY <2>1, <2>2, <1>2
  <2>4. supply' \in Nat
    BY <2>1, <1>2 DEF Pays, Keeps
  <2>5. ASSUME NEW c \in Buyers
        PROVE  Moves(phase, median, ticket[c], ticket'[c])
    <3>1. CASE c = b
      BY <2>1, <2>2, <3>1, <1>2
    <3>2. CASE c # b
      <4>1. ticket'[c] = ticket[c] /\ ticket[c] \in Ticket
        BY <2>1, <2>2, <3>2
      <4>. QED  BY <4>1 DEF Moves
    <3>. QED  BY <3>1, <3>2
  <2>6. phase # "sale" => median' = median
    BY <1>2 DEF Becomes
  <2>. QED  BY <1>2, <2>3, <2>4, <2>5, <2>6 DEF Becomes
<1>. QED  BY <1>1, <1>2 DEF TicketStep

\* A call about one ticket keeps what standing tickets offer, and the median with them.
LEMMA OffersKept ==
  ASSUME LaunchTyped, Offers, TicketStep
  PROVE  Offers' /\ median' \in Prices \cup {0}
<1>1. /\ ticket' \in [Buyers -> Ticket] /\ supply' \in Nat /\ phase' = phase
      /\ \A b \in Buyers : Moves(phase, median, ticket[b], ticket'[b])
      /\ phase # "sale" => median' = median
  BY Evolves
<1>2. \A b \in Buyers : ticket'[b].state \in {"noseq", "unpunched", "punched"} => ticket'[b].amount # 0
  <2>. TAKE b \in Buyers
  <2>1. Moves(phase, median, ticket[b], ticket'[b])
    BY <1>1
  <2>2. ticket[b].state \in {"noseq", "unpunched", "punched"} => ticket[b].amount # 0
    BY DEF Offers
  <2>. QED  BY <2>1, <2>2 DEF Moves
<1>3. (median' = 0 => Live(ticket') = {}) /\ median' \in Prices \cup {0}
  <2>1. CASE UNCHANGED program
    BY <2>1 DEF Offers, LaunchTyped, program
  <2>2. CASE median' = MedianOf(ticket')
    BY <1>1, <1>2, <2>2, MedianIs
  <2>3. CASE phase # "sale"
    <3>1. median' = median /\ median \in Prices \cup {0} /\ (median = 0 => Live(ticket) = {})
      BY <1>1, <2>3 DEF Offers, LaunchTyped
    <3>2. \A b \in Buyers : b \in Live(ticket') => b \in Live(ticket)
      <4>. TAKE b \in Buyers
      <4>1. Moves(phase, median, ticket[b], ticket'[b])
        BY <1>1
      <4>. QED  BY <4>1 DEF Moves, Live
    <3>. QED  BY <3>1, <3>2 DEF Live
  <2>. QED  BY <2>1, <2>2, <2>3 DEF TicketStep, Becomes
<1>4. phase # "three" => supply' <= Tokens /\ \A b \in Buyers : ticket'[b].state # "punched"
  <2>. HAVE phase # "three"
  <2>1. supply <= Tokens /\ \A b \in Buyers : ticket[b].state # "punched"
    BY DEF Offers
  <2>2. supply' = supply
    BY DEF TicketStep, Pays, Keeps, program
  <2>3. ASSUME NEW b \in Buyers PROVE ticket'[b].state # "punched"
    <3>1. Moves(phase, median, ticket[b], ticket'[b]) /\ ticket[b].state # "punched"
      BY <1>1, <2>1
    <3>. QED  BY <3>1 DEF Moves
  <2>. QED  BY <2>1, <2>2, <2>3
<1>. QED  BY <1>1, <1>2, <1>3, <1>4 DEF Offers

\* A call about one ticket renumbers none.
LEMMA NumberedKept ==
  ASSUME LaunchTyped, TicketsNumbered, TicketStep
  PROVE  TicketsNumbered'
<1>1. /\ sold' = sold
      /\ \A b \in Buyers : Moves(phase, median, ticket[b], ticket'[b])
  BY Evolves
<1>2. \A b \in Buyers : /\ ticket'[b].seq = ticket[b].seq
                        /\ (ticket'[b].state # "none" <=> ticket[b].state # "none")
  <2>. TAKE b \in Buyers
  <2>1. Moves(phase, median, ticket[b], ticket'[b])
    BY <1>1
  <2>. QED  BY <2>1 DEF Moves
<1>3. Sold(ticket') = Sold(ticket)
  BY <1>2 DEF Sold
<1>. QED  BY <1>1, <1>2, <1>3 DEF TicketsNumbered

\* Once every ticket has its sequence account, every ticket keeps it.
LEMMA NoneLateKept ==
  ASSUME LaunchTyped, TicketStep, NoneLate(ticket)
  PROVE  NoneLate(ticket')
<1>. SUFFICES ASSUME NEW b \in Buyers PROVE ticket'[b].state # "noseq"
  BY DEF NoneLate
<1>1. Moves(phase, median, ticket[b], ticket'[b]) /\ ticket[b].state # "noseq"
  BY Evolves DEF NoneLate
<1>. QED  BY <1>1 DEF Moves

\* A buyer's command that runs on is not disturbed.
LEMMA ClientStays ==
  ASSUME NEW c \in Client, NEW ph, NEW t \in Ticket, NEW u \in Ticket, NEW m \in Prices \cup {0},
         ClientOK(c, ph, t, m), Moves(ph, m, t, u)
  PROVE  ClientOK(c, ph, u, m)
<1>. DEFINE a == t.amount
            n == u.amount
<1>1. a \in Nat /\ n \in Nat /\ m \in Nat
  BY TicketFields, Constants
<1>2. CASE c.at \in {"adjust", "nft", "punch"}
  <2>1. ph = "three" /\ t.state # "none" /\ (c.at = "adjust" => c.median = m)
        /\ (c.at # "adjust" => a <= m)
    BY <1>2 DEF ClientOK
  <2>2. u.state # "none"
    BY <2>1 DEF Moves
  <2>3. n = a \/ n = 0 \/ n = m
    BY <2>1 DEF Moves
  <2>4. c.at # "adjust" => n <= m
    <3>. HIDE DEF a, n
    <3>. QED  BY <1>1, <2>1, <2>3
  <2>. QED  BY <2>1, <2>2, <2>4 DEF ClientOK
<1>. QED  BY <1>2 DEF ClientOK

\* A call about one ticket disturbs no other buyer's command.
LEMMA ClientsKept ==
  ASSUME LaunchTyped, Clients, TicketStep,
         \A b \in Buyers : client'[b] = client[b] \/ ClientOK(client'[b], phase, ticket'[b], median)
  PROVE  Clients'
<1>1. /\ ticket' \in [Buyers -> Ticket] /\ phase' = phase
      /\ \A b \in Buyers : Moves(phase, median, ticket[b], ticket'[b])
      /\ phase # "sale" => median' = median
  BY Evolves
<1>. SUFFICES ASSUME NEW b \in Buyers PROVE ClientOK(client'[b], phase', ticket'[b], median')
  BY DEF Clients
<1>2. ClientOK(client'[b], phase, ticket'[b], median)
  <2>1. CASE client'[b] = client[b]
    <3>1. client[b] \in Client /\ ticket[b] \in Ticket /\ ticket'[b] \in Ticket /\ median \in Prices \cup {0}
          /\ ClientOK(client[b], phase, ticket[b], median) /\ Moves(phase, median, ticket[b], ticket'[b])
      BY <1>1 DEF LaunchTyped, Clients
    <3>. DEFINE t == ticket[b]
                u == ticket'[b]
                c == client[b]
    <3>2. t = ticket[b] /\ u = ticket'[b] /\ c = client[b]
      OBVIOUS
    <3>. HIDE DEF t, u, c
    <3>3. ClientOK(c, phase, u, median)
      BY <3>1, <3>2, ClientStays
    <3>. QED  BY <3>2, <3>3, <2>1
  <2>. QED  BY <2>1
<1>3. phase' # "three" => client'[b].at \notin {"adjust", "nft", "punch"}
  BY <1>1, <1>2 DEF ClientOK
<1>. QED  BY <1>1, <1>2, <1>3 DEF ClientOK

-----------------------------------------------------------------------------
(* The draw.                                                                *)

\* One token more is paid for, by a winner, or none.
Paid(s, t, u, k, l) ==
  \/ l = k /\ \A b \in Buyers : u[b].state = "punched" <=> t[b].state = "punched"
  \/ /\ l = k + 1
     /\ \E b \in Buyers : /\ t[b].state = "unpunched" /\ t[b].seq \in s
                          /\ u[b].state = "punched" /\ \A c \in Buyers \ {b} : u[c] = t[c]

\* A set of buyers is finite.
LEMMA BuyerSets ==
  ASSUME NEW S \in SUBSET Buyers
  PROVE  IsFiniteSet(S) /\ Cardinality(S) \in Nat
BY Constants, FS_Subset, FS_CardinalityType

\* What a ticket with a sequence account may become out of the sale.
LEMMA MoveOf ==
  ASSUME NEW ph \in {"closed", "three"}, NEW m \in Prices \cup {0}, NEW t \in Ticket, NEW u \in Ticket,
         Moves(ph, m, t, u), t.state # "noseq"
  PROVE  /\ u.seq = t.seq /\ (u.state = "none" <=> t.state = "none")
         /\ u.state = "unpunched" => /\ t.state = "unpunched"
                                     /\ (t.amount >= m => u.amount >= m)
                                     /\ (u.amount >= m => t.amount >= m)
<1>. DEFINE a == t.amount
            n == u.amount
<1>1. a \in Nat /\ n \in Nat /\ m \in Nat
  BY TicketFields, Constants
<1>2. u.seq = t.seq /\ (u.state = "none" <=> t.state = "none") /\ (u.state = "unpunched" => t.state = "unpunched")
  BY DEF Moves
<1>3. u.state = "unpunched" => n = a \/ (n = m /\ m <= a)
  BY DEF Moves
<1>4. u.state = "unpunched" => (a >= m <=> n >= m)
  <2>. HIDE DEF a, n
  <2>. QED  BY <1>1, <1>3
<1>. QED  BY <1>2, <1>4

\* The heart of FairOutcome: a draw that is fair stays fair while tickets move forward, as each
\* winner who is paid takes one token and no loser comes to hope.
LEMMA FairMoves ==
  ASSUME NEW ph \in {"closed", "three"}, NEW m \in Prices \cup {0}, NEW s, NEW k \in Nat, NEW l \in Nat,
         NEW t \in [Buyers -> Ticket], NEW u \in [Buyers -> Ticket],
         \A b \in Buyers : Moves(ph, m, t[b], u[b]),
         NoneLate(t), Paid(s, t, u, k, l), FairDraw(s, t, m, k)
  PROVE  FairDraw(s, u, m, l)
<1>1. ASSUME NEW b \in Buyers
      PROVE  /\ u[b].seq = t[b].seq /\ (u[b].state = "none" <=> t[b].state = "none")
             /\ u[b].state = "unpunched" => /\ t[b].state = "unpunched"
                                            /\ (t[b].amount >= m => u[b].amount >= m)
                                            /\ (u[b].amount >= m => t[b].amount >= m)
  <2>. DEFINE x == t[b]
              y == u[b]
  <2>1. x \in Ticket /\ y \in Ticket /\ Moves(ph, m, x, y) /\ x.state # "noseq"
    BY DEF NoneLate
  <2>. HIDE DEF x, y
  <2>2. /\ y.seq = x.seq /\ (y.state = "none" <=> x.state = "none")
        /\ y.state = "unpunched" => /\ x.state = "unpunched"
                                    /\ (x.amount >= m => y.amount >= m)
                                    /\ (y.amount >= m => x.amount >= m)
    BY <2>1, MoveOf
  <2>. QED  BY <2>2 DEF x, y
<1>2. Winning(s, u) = Winning(s, t)
  BY <1>1 DEF Winning
<1>3. Hoping(s, u) \subseteq Hoping(s, t)
  BY <1>1, <1>2 DEF Hoping, Winning
<1>. DEFINE H == Hoping(s, t)
            I == Hoping(s, u)
            U == Unpaid(s, t)
            V == Unpaid(s, u)
<1>4. /\ IsFiniteSet(H) /\ Cardinality(H) \in Nat /\ IsFiniteSet(I) /\ Cardinality(I) \in Nat
      /\ IsFiniteSet(U) /\ Cardinality(U) \in Nat /\ IsFiniteSet(V) /\ Cardinality(V) \in Nat
  <2>1. H \in SUBSET Buyers /\ I \in SUBSET Buyers /\ U \in SUBSET Buyers /\ V \in SUBSET Buyers
    BY DEF Hoping, Unpaid, Winning
  <2>. HIDE DEF H, I, U, V
  <2>. QED  BY <2>1, BuyerSets
<1>5. \A b \in I : u[b].amount >= m
  <2>. TAKE b \in I
  <2>1. b \in H /\ b \in Buyers /\ u[b].state = "unpunched"
    BY <1>3 DEF Hoping, Winning
  <2>2. t[b].amount >= m
    BY <2>1 DEF FairDraw
  <2>. QED  BY <1>1, <2>1, <2>2
<1>6. (\E b \in Buyers : Lost(s, u, m, b)) => (\E b \in Buyers : Lost(s, t, m, b))
  BY <1>1 DEF Lost
<1>7. CASE l = k /\ \A b \in Buyers : u[b].state = "punched" <=> t[b].state = "punched"
  <2>1. V = U
    BY <1>2, <1>7 DEF Unpaid, Winning
  <2>2. Cardinality(I) <= Cardinality(H)
    <3>. I \in SUBSET H
      BY <1>3
    <3>. HIDE DEF I, H
    <3>. QED  BY <1>4, FS_Subset
  <2>3. k + Cardinality(H) <= Tokens => l + Cardinality(I) <= Tokens
    <3>. HIDE DEF I, H
    <3>. QED  BY <1>4, <1>7, <2>2, Constants
  <2>4. \/ l + Cardinality(I) <= Tokens
        \/ Winning(s, u) \subseteq Whitelist
    BY <2>3, <1>2 DEF FairDraw
  <2>5. (\E b \in Buyers : Lost(s, u, m, b)) => l + Cardinality(V) >= Tokens
    BY <1>6, <2>1, <1>7 DEF FairDraw
  <2>. QED  BY <2>4, <2>5, <1>5 DEF FairDraw
<1>8. ASSUME l = k + 1, NEW b \in Buyers, t[b].state = "unpunched", t[b].seq \in s,
             u[b].state = "punched", \A c \in Buyers \ {b} : u[c] = t[c]
      PROVE  FairDraw(s, u, m, l)
  <2>1. I = H \ {b} /\ b \in H
    <3>1. b \in H /\ b \notin I
      BY <1>8 DEF Hoping, Winning
    <3>2. \A c \in H \ {b} : c \in I
      BY <1>8 DEF Hoping, Winning
    <3>. QED  BY <3>1, <3>2, <1>3
  <2>2. V = U \ {b} /\ b \in U
    <3>1. b \in U /\ b \notin V
      BY <1>8 DEF Unpaid, Winning
    <3>2. \A c \in Buyers \ {b} : c \in V <=> c \in U
      BY <1>8 DEF Unpaid, Winning
    <3>. QED  BY <3>1, <3>2 DEF Unpaid, Winning
  <2>3. Cardinality(I) = Cardinality(H) - 1 /\ Cardinality(V) = Cardinality(U) - 1
    <3>. HIDE DEF I, H, U, V
    <3>. QED  BY <1>4, <2>1, <2>2, FS_RemoveElement
  <2>4. l + Cardinality(I) = k + Cardinality(H) /\ l + Cardinality(V) = k + Cardinality(U)
    <3>. HIDE DEF I, H, U, V
    <3>. QED  BY <1>4, <1>8, <2>3
  <2>5. \/ l + Cardinality(I) <= Tokens
        \/ Winning(s, u) \subseteq Whitelist
    BY <2>4, <1>2 DEF FairDraw
  <2>6. (\E c \in Buyers : Lost(s, u, m, c)) => l + Cardinality(V) >= Tokens
    BY <1>6, <2>4 DEF FairDraw
  <2>. QED  BY <2>5, <2>6, <1>5 DEF FairDraw
<1>. QED  BY <1>7, <1>8 DEF Paid

\* What a ticket step pays, for the set the bitmap holds.
LEMMA PaidBy ==
  ASSUME LaunchTyped, TicketStep, NEW s, phase = "closed" \/ s = Marks(bitmap.data)
  PROVE  Paid(s, ticket, ticket', supply, supply')
<1>1. CASE UNCHANGED program
  BY <1>1 DEF program, Paid
<1>2. ASSUME NEW b \in Buyers, NEW t \in Ticket, Moves(phase, median, ticket[b], t), Becomes(b, t),
             Pays(b, t) \/ Keeps(b, t)
      PROVE  Paid(s, ticket, ticket', supply, supply')
  <2>1. ticket' = [ticket EXCEPT ![b] = t] /\ ticket \in [Buyers -> Ticket]
    BY <1>2 DEF Becomes, LaunchTyped
  <2>2. ticket'[b] = t /\ \A c \in Buyers \ {b} : ticket'[c] = ticket[c]
    BY <2>1
  <2>3. CASE Keeps(b, t)
    BY <2>2, <2>3 DEF Keeps, Paid
  <2>4. CASE Pays(b, t)
    BY <2>2, <2>4 DEF Pays, Paid
  <2>. QED  BY <1>2, <2>3, <2>4
<1>. QED  BY <1>1, <1>2 DEF TicketStep

\* The same of a call of the program.
LEMMA FairKept ==
  ASSUME LaunchTyped, TicketStep, phase # "sale", NoneLate(ticket),
         NEW s, phase = "closed" \/ s = Marks(bitmap.data), FairDraw(s, ticket, median, supply)
  PROVE  FairDraw(s, ticket', median', supply')
<1>1. /\ ticket' \in [Buyers -> Ticket] /\ supply' \in Nat /\ median' = median
      /\ \A b \in Buyers : Moves(phase, median, ticket[b], ticket'[b])
  BY Evolves
<1>2. Paid(s, ticket, ticket', supply, supply')
  BY PaidBy
<1>3. phase \in {"closed", "three"} /\ ticket \in [Buyers -> Ticket] /\ supply \in Nat
      /\ median \in Prices \cup {0}
  BY DEF LaunchTyped
<1>4. FairDraw(s, ticket', median, supply')
  <2>. DEFINE t == ticket
              u == ticket'
              k == supply
              l == supply'
  <2>1. t \in [Buyers -> Ticket] /\ u \in [Buyers -> Ticket] /\ k \in Nat /\ l \in Nat
        /\ (\A b \in Buyers : Moves(phase, median, t[b], u[b]))
        /\ NoneLate(t) /\ Paid(s, t, u, k, l) /\ FairDraw(s, t, median, k)
    BY <1>1, <1>2, <1>3
  <2>2. FairDraw(s, u, median, l)
    <3>. HIDE DEF t, u, k, l
    <3>. QED  BY <2>1, <1>3, FairMoves
  <2>. QED  BY <2>2
<1>. QED  BY <1>1, <1>4

\* Whoever wins was eligible, there are no more winners than tokens, the whitelist apart,
\* and when someone eligible lost, every token was won.
LEMMA DrawsAre ==
  ASSUME NEW K, K \subseteq Buyers, NEW E, E \subseteq K, NEW left \in Int, NEW won \in Draws(K, E, left)
  PROVE  /\ won \subseteq K
         /\ left \in Nat => /\ won \subseteq E
                            /\ Cardinality(won) <= left \/ won \subseteq Whitelist
                            /\ won = E \/ Cardinality(won) >= left
<1>. DEFINE n == IF left < Cardinality(E) THEN left ELSE Cardinality(E)
            listed == E \cap Whitelist
            others == n - Cardinality(listed)
            r == IF others < 0 THEN 0 ELSE others
<1>1. /\ IsFiniteSet(K) /\ Cardinality(K) \in Nat /\ IsFiniteSet(E) /\ Cardinality(E) \in Nat
      /\ IsFiniteSet(listed) /\ Cardinality(listed) \in Nat /\ IsFiniteSet(E \ listed)
  <2>1. K \in SUBSET Buyers /\ E \in SUBSET Buyers /\ listed \in SUBSET Buyers /\ E \ listed \in SUBSET Buyers
    OBVIOUS
  <2>. HIDE DEF listed
  <2>. QED  BY <2>1, BuyerSets
<1>2. /\ n \in Int /\ n <= left /\ n <= Cardinality(E) /\ (left \in Nat => n \in Nat)
      /\ n = left \/ n = Cardinality(E)
  BY <1>1
<1>3. won \in (IF n >= Cardinality(K) THEN {K} ELSE {listed \cup rest : rest \in kSubset(r, E \ listed)})
  BY DEF Draws
<1>4. CASE n >= Cardinality(K)
  <2>1. won = K
    BY <1>3, <1>4
  <2>2. E = K
    <3>1. E \in SUBSET K
      OBVIOUS
    <3>2. Cardinality(E) <= Cardinality(K) /\ (Cardinality(K) = Cardinality(E) => K = E)
      BY <3>1, <1>1, FS_Subset
    <3>3. Cardinality(E) >= Cardinality(K)
      <4>. HIDE DEF n
      <4>. QED  BY <1>1, <1>2, <1>4
    <3>. QED  BY <3>2, <3>3, <1>1
  <2>3. Cardinality(won) <= left
    <3>. HIDE DEF n
    <3>. QED  BY <2>1, <1>1, <1>2, <1>4
  <2>. QED  BY <2>1, <2>2, <2>3
<1>5. CASE ~(n >= Cardinality(K))
  <2>1. PICK rest \in kSubset(r, E \ listed) : won = listed \cup rest
    <3>. HIDE DEF n, listed, r
    <3>. QED  BY <1>3, <1>5
  <2>2. rest \in SUBSET (E \ listed) /\ Cardinality(rest) = r
    <3>. HIDE DEF r, listed
    <3>. QED  BY <2>1 DEF kSubset
  <2>3. won \subseteq E /\ listed \cap rest = {}
    BY <2>1, <2>2
  <2>4. IsFiniteSet(rest)
    <3>. HIDE DEF listed
    <3>. QED  BY <1>1, <2>2, FS_Subset
  <2>5. Cardinality(won) = Cardinality(listed) + Cardinality(rest) - Cardinality(listed \cap rest)
        /\ IsFiniteSet(won)
    <3>. HIDE DEF listed, r
    <3>. QED  BY <1>1, <2>1, <2>4, FS_Union
  <2>6. Cardinality(listed \cap rest) = 0
    BY <2>3, FS_EmptySet
  <2>7. others \in Int /\ r \in Nat /\ (others < 0 => r = 0) /\ (others >= 0 => r = others)
    <3>. HIDE DEF n, listed
    <3>. QED  BY <1>1, <1>2
  <2>8. Cardinality(won) = Cardinality(listed) + r
    <3>. HIDE DEF n, listed, r, others
    <3>. QED  BY <1>1, <2>2, <2>5, <2>6, <2>7
  <2>9. others = n - Cardinality(listed)
    OBVIOUS
  <2>10. Cardinality(won) >= n
    <3>. HIDE DEF n, listed, r, others
    <3>. QED  BY <1>1, <1>2, <2>7, <2>8, <2>9
  <2>11. Cardinality(won) <= left \/ won \subseteq Whitelist
    <3>1. CASE others >= 0
      <4>. HIDE DEF n, listed, r, others
      <4>. QED  BY <3>1, <1>1, <1>2, <2>7, <2>8, <2>9
    <3>2. CASE others < 0
      <4>1. Cardinality(rest) = 0
        <5>. HIDE DEF n, listed, r, others
        <5>. QED  BY <3>2, <2>2, <2>7
      <4>2. rest = {}
        BY <4>1, <2>4, FS_EmptySet
      <4>. QED  BY <4>2, <2>1
    <3>. HIDE DEF n, listed, r, others
    <3>. QED  BY <3>1, <3>2, <2>7
  <2>12. won = E \/ Cardinality(won) >= left
    <3>1. won \in SUBSET E
      BY <2>3
    <3>2. Cardinality(won) <= Cardinality(E) /\ (Cardinality(E) = Cardinality(won) => E = won)
      BY <3>1, <1>1, FS_Subset
    <3>3. Cardinality(won) \in Nat
      BY <2>5, FS_CardinalityType
    <3>. HIDE DEF n, listed, r, others
    <3>. QED  BY <3>2, <3>3, <1>1, <1>2, <2>10
  <2>. QED  BY <2>3, <2>11, <2>12
<1>. QED  BY <1>4, <1>5

\* The numbers of the tickets of some buyers stand for those buyers.
LEMMA WinnersOf ==
  ASSUME LaunchTyped, TicketsNumbered, NEW won, won \subseteq Sold(ticket)
  PROVE  /\ Winning({ticket[b].seq : b \in won}, ticket) = won
         /\ {ticket[b].seq : b \in won} \subseteq Seqs
         /\ \A s \in {ticket[b].seq : b \in won} : s < sold
<1>1. Winning({ticket[b].seq : b \in won}, ticket) \subseteq won
  <2>. SUFFICES ASSUME NEW b \in Buyers, ticket[b].state # "none", NEW c \in won, ticket[b].seq = ticket[c].seq
                PROVE  b \in won
    BY DEF Winning
  <2>1. c \in Buyers /\ ticket[c].state # "none"
    BY DEF Sold
  <2>2. b = c
    BY <2>1 DEF TicketsNumbered
  <2>. QED  BY <2>2
<1>2. won \subseteq Winning({ticket[b].seq : b \in won}, ticket)
  BY DEF Winning, Sold
<1>3. \A b \in won : ticket[b].seq \in Seqs /\ ticket[b].seq < sold
  <2>. TAKE b \in won
  <2>1. b \in Buyers /\ ticket[b] \in Ticket /\ ticket[b].state # "none"
    BY DEF Sold, LaunchTyped
  <2>2. ticket[b].seq \in Seqs
    BY <2>1 DEF Ticket
  <2>. QED  BY <2>1, <2>2 DEF TicketsNumbered
<1>. QED  BY <1>1, <1>2, <1>3

\* The tickets a lottery has read have been sold.
LEMMA KnownAre ==
  ASSUME LaunchTyped, NEW n \in Nat, NEW m \in Nat
  PROVE  /\ Known(n) \subseteq Sold(ticket) /\ Known(n) \subseteq Buyers
         /\ Eligible(n, m) \subseteq Known(n)
BY DEF Known, Eligible, Sold

\* A lottery goes on only when every ticket sold has its sequence account.
LEMMA AllSequencedIs ==
  ASSUME TicketsNumbered, AllSequenced(sold)
  PROVE  NoneLate(ticket) /\ Known(sold) = Sold(ticket)
BY DEF TicketsNumbered, AllSequenced, Known, NoneLate, Sold

\* A draw from tickets that are all known and all have their sequence account is fair.
LEMMA DrawFair ==
  ASSUME LaunchTyped, TicketsNumbered, Offers, phase = "closed", AllSequenced(sold),
         NEW won \in Draws(Known(sold), Eligible(sold, median), Tokens - supply)
  PROVE  FairDraw({ticket[b].seq : b \in won}, ticket, median, supply)
<1>. DEFINE E == Eligible(sold, median)
            s == {ticket[b].seq : b \in won}
<1>1. median \in Nat /\ supply \in Nat /\ Tokens \in Nat /\ supply <= Tokens /\ Tokens - supply \in Nat
      /\ sold \in Nat
  BY Constants DEF LaunchTyped, Offers
<1>2. Known(sold) = Sold(ticket) /\ Known(sold) \subseteq Buyers /\ E \subseteq Known(sold)
  BY <1>1, AllSequencedIs, KnownAre
<1>3. /\ won \subseteq E /\ won \subseteq Known(sold)
      /\ Cardinality(won) <= Tokens - supply \/ won \subseteq Whitelist
      /\ won = E \/ Cardinality(won) >= Tokens - supply
  <2>. HIDE DEF E
  <2>. QED  BY <1>1, <1>2, DrawsAre DEF E
<1>4. Winning(s, ticket) = won
  BY <1>2, <1>3, WinnersOf
<1>5. \A b \in won : b \in Buyers /\ ticket[b].state = "unpunched" /\ ticket[b].amount >= median
  BY <1>2, <1>3 DEF Eligible
<1>6. Hoping(s, ticket) = won /\ Unpaid(s, ticket) = won
  <2>. HIDE DEF s
  <2>. QED  BY <1>4, <1>5 DEF Hoping, Unpaid
<1>7. IsFiniteSet(won) /\ Cardinality(won) \in Nat
  BY <1>2, <1>3, BuyerSets
<1>8. ASSUME NEW b \in Buyers, Lost(s, ticket, median, b)
      PROVE  supply + Cardinality(won) >= Tokens
  <2>1. b \in E
    <3>1. ticket[b].state = "unpunched" /\ ticket[b].amount >= median
      BY <1>8 DEF Lost
    <3>2. b \in Known(sold)
      BY <1>2, <3>1 DEF Sold
    <3>. QED  BY <3>1, <3>2 DEF Eligible
  <2>2. b \notin won
    BY <1>8 DEF Lost
  <2>. HIDE DEF E
  <2>3. Cardinality(won) >= Tokens - supply
    BY <2>1, <2>2, <1>3
  <2>. QED  BY <2>3, <1>1, <1>7
<1>9. supply + Cardinality(won) <= Tokens \/ won \subseteq Whitelist
  <2>1. ASSUME Cardinality(won) <= Tokens - supply
        PROVE  supply + Cardinality(won) <= Tokens
    <3>. DEFINE c == Cardinality(won)
    <3>1. c \in Nat /\ c <= Tokens - supply
      BY <2>1, <1>7
    <3>2. supply + c <= Tokens
      <4>. HIDE DEF c
      <4>. QED  BY <3>1, <1>1
    <3>. QED  BY <3>2
  <2>. HIDE DEF E
  <2>. QED  BY <1>3, <2>1
<1>10. FairDraw(s, ticket, median, supply)
  <2>. HIDE DEF s
  <2>. QED  BY <1>4, <1>5, <1>6, <1>8, <1>9 DEF FairDraw
<1>. QED  BY <1>10

-----------------------------------------------------------------------------
(* The command that serves everyone.                                        *)

\* What is done with a ticket.
LEMMA StageIs ==
  ASSUME NEW job, NEW t
  PROVE  /\ Stage(job, t) \in {"next"} \cup Stages
         /\ Stage(job, t) = "next" <=> t.state # "unpunched"
         /\ Stage(job, t) \in {"adjust", "punch"} => t.state = "unpunched" /\ ~(t.amount < job.median)
         /\ Stage(job, t) = "punch" => ~(t.amount > job.median)
BY DEF Stage, Stages

\* The bit that decides on it is the one the program honours.
LEMMA StageOfBit ==
  ASSUME NEW job, NEW t, t.seq \in Seqs
  PROVE  /\ Stage(job, t) = "refund" =>
              t.state = "unpunched" /\ (t.amount < job.median \/ t.seq \notin Marks(job.data))
         /\ Stage(job, t) \in {"adjust", "punch"} => t.seq \in Marks(job.data)
<1>1. IsWinner(job, t.seq) <=> t.seq \in Marks(job.data)
  BY DEF IsWinner, Marks
<1>. QED  BY <1>1 DEF Stage

\* The fields of the authority's command.
LEMMA OpFields ==
  ASSUME NEW job \in Op
  PROVE  /\ job.at \in OpPlaces /\ job.upTo \in Nat /\ job.median \in Prices \cup {0} /\ job.round \in Nat
         /\ job.data \in Data /\ job.drawn \subseteq Seqs /\ job.snap \in [Buyers -> Ticket]
         /\ job.todo \subseteq Buyers \cup Nat /\ job.tries \in 0 .. (MaxTries - 1)
         /\ job.tries \in Nat /\ job.failed \in BOOLEAN
<1>1. /\ job.at \in OpPlaces /\ job.upTo \in Nat /\ job.median \in Prices \cup {0} /\ job.round \in Nat
      /\ job.data \in Data /\ job.drawn \subseteq Seqs /\ job.snap \in [Buyers -> Ticket]
      /\ job.todo \subseteq Buyers \cup Nat /\ job.tries \in 0 .. (MaxTries - 1)
      /\ job.failed \in BOOLEAN
  BY DEF Op
<1>2. job.tries \in Nat
  BY <1>1, Constants
<1>. QED  BY <1>1, <1>2

\* The place and the count of tries of a job, with the rest as it was.
Same(j, job) ==
  /\ j.upTo = job.upTo /\ j.median = job.median /\ j.round = job.round /\ j.data = job.data
  /\ j.drawn = job.drawn /\ j.snap = job.snap /\ j.todo = job.todo /\ j.failed = job.failed

\* A command that comes to another place, at some try.
LEMMA JobAt ==
  ASSUME NEW job \in Op, NEW X \in OpPlaces, NEW n \in 0 .. (MaxTries - 1)
  PROVE  LET j == [job EXCEPT !.at = X, !.tries = n]
         IN  j \in Op /\ Same(j, job) /\ j.at = X /\ j.tries = n
BY DEF Op, Same

\* A command with one ticket less to serve.
LEMMA JobLess ==
  ASSUME NEW job \in Op, NEW b
  PROVE  LET j == [job EXCEPT !.todo = @ \ {b}]
         IN  /\ j \in Op /\ j.todo = job.todo \ {b} /\ j.at = job.at /\ j.tries = job.tries
             /\ j.upTo = job.upTo /\ j.median = job.median /\ j.round = job.round /\ j.data = job.data
             /\ j.drawn = job.drawn /\ j.snap = job.snap /\ j.failed = job.failed
BY DEF Op

\* Where a command stands has no bearing on what it still has to serve.
LEMMA SameServes ==
  ASSUME NEW job, NEW j, Same(j, job)
  PROVE  /\ FirstOf(j) = FirstOf(job)
         /\ \A t : Stage(j, t) = Stage(job, t)
         /\ \A t, m, f : Waits(job, t, m, f) => Waits(j, t, m, f)
<1>1. FirstOf(j) = FirstOf(job)
  BY DEF Same, FirstOf
<1>2. \A t : Stage(j, t) = Stage(job, t)
  BY DEF Same, Stage, IsWinner
<1>3. ASSUME NEW t, NEW m, NEW f, Waits(job, t, m, f)
      PROVE  Waits(j, t, m, f)
  <2>1. j.todo = job.todo /\ j.snap = job.snap
    BY DEF Same
  <2>2. job.todo \subseteq Buyers /\ Settled(Buyers \ job.todo, t, f)
    BY <1>3 DEF Waits
  <2>3. ASSUME NEW b \in j.todo
        PROVE  Follows(j, t, m, b) /\ (NftDue(j.snap[b]) \/ Stage(j, j.snap[b]) # "next")
    <3>1. Follows(job, t, m, b) /\ (NftDue(job.snap[b]) \/ Stage(job, job.snap[b]) # "next")
      BY <2>1, <2>3, <1>3 DEF Waits
    <3>2. Follows(j, t, m, b)
      BY <3>1, <2>1 DEF Follows
    <3>. QED  BY <3>1, <3>2, <2>1, <1>2
  <2>. QED  BY <2>1, <2>2, <2>3 DEF Waits
<1>. QED  BY <1>1, <1>2, <1>3

\* The turn of a ticket begins.
LEMMA TurnBegins ==
  ASSUME NEW k, NEW job \in Op, NEW t \in [Buyers -> Ticket], NEW m \in Prices \cup {0}, NEW f \in Nat,
         Waits(job, t, m, f), job.median = m, job.todo # {},
         NEW j \in Op, Same(j, job), j.tries = 0, j.at \in Serving,
         j.at # "nft" => j.at = Stage(job, job.snap[FirstOf(job)])
  PROVE  Serves(k, j, t, m, f)
<1>. DEFINE b == FirstOf(job)
<1>1. b \in job.todo /\ b \in Buyers
  BY FirstOfIs DEF Waits
<1>2. Waits(j, t, m, f) /\ FirstOf(j) = b /\ Stage(j, j.snap[b]) = Stage(job, job.snap[b])
      /\ j.todo # {} /\ j.snap = job.snap /\ j.median = m
  BY SameServes DEF Same
<1>3. ASSUME j.at \in Stages
      PROVE  OnTurn(k, j, t, f, b)
  <2>1. j.at = Stage(job, job.snap[b])
    BY <1>3 DEF Stages
  <2>2. Stage(j, j.snap[b]) \in (IF j.at = "punch" THEN {"adjust", "punch"} ELSE {j.at})
    <3>. HIDE DEF b
    <3>. QED  BY <2>1, <1>2
  <2>3. ASSUME j.at = "punch", t[b].state = "unpunched"
        PROVE  t[b].amount <= j.median
    <3>1. Follows(job, t, m, b) /\ Stage(job, job.snap[b]) = "punch"
      BY <2>1, <2>3, <1>1 DEF Waits
    <3>2. ~(job.snap[b].amount > m) /\ (t[b].amount = job.snap[b].amount \/ t[b].amount = m)
      <4>. HIDE DEF b
      <4>. QED  BY <3>1, <2>3, StageIs DEF Follows
    <3>3. job.snap[b] \in Ticket /\ t[b] \in Ticket
      BY <1>1, OpFields
    <3>4. job.snap[b].amount \in Nat /\ t[b].amount \in Nat /\ m \in Nat
      BY <3>3, TicketFields, Constants
    <3>. DEFINE x == job.snap[b].amount
                y == t[b].amount
    <3>5. y <= m
      <4>1. x \in Nat /\ y \in Nat /\ m \in Nat /\ ~(x > m) /\ (y = x \/ y = m)
        BY <3>2, <3>4
      <4>. HIDE DEF x, y
      <4>. QED  BY <4>1
    <3>. QED  BY <3>5, <1>2
  <2>. HIDE DEF b
  <2>. QED  BY <2>2, <2>3 DEF OnTurn
<1>. HIDE DEF b
<1>. QED  BY <1>2, <1>3 DEF Serves

\* Serve takes the command to the next ticket that asks for something, or to its end.
LEMMA ServeIs ==
  ASSUME NEW k, NEW job \in Op, NEW t \in [Buyers -> Ticket], NEW m \in Prices \cup {0}, NEW f \in Nat,
         Waits(job, t, m, f), job.median = m
  PROVE  /\ Serve(job) \in Op
         /\ job.todo = {} => /\ Serve(job).at = "served" /\ Serve(job).drawn = {}
                             /\ Settled(Buyers, t, f)
         /\ job.todo # {} => /\ Serve(job).at \in Serving /\ Same(Serve(job), job)
                             /\ Serves(k, Serve(job), t, m, f)
<1>1. CASE job.todo = {}
  <2>1. Serve(job) = [AtRest EXCEPT !.at = "served"]
    BY <1>1 DEF Serve
  <2>2. [AtRest EXCEPT !.at = "served"].at = "served" /\ [AtRest EXCEPT !.at = "served"].drawn = {}
    BY DEF AtRest
  <2>3. Settled(Buyers, t, f)
    BY <1>1 DEF Waits, Settled
  <2>. QED  BY <1>1, <2>1, <2>2, <2>3, Resting
<1>2. CASE job.todo # {}
  <2>. DEFINE b == FirstOf(job)
              X == IF NftDue(job.snap[b]) THEN "nft" ELSE Stage(job, job.snap[b])
              j == [job EXCEPT !.at = X, !.tries = 0]
  <2>1. Serve(job) = j
    <3>1. Serve(job) = [job EXCEPT !.tries = 0, !.at = X]
      BY <1>2 DEF Serve, FirstOf
    <3>. HIDE DEF X
    <3>. QED  BY <3>1 DEF Op
  <2>2. b \in job.todo
    BY <1>2, FirstOfIs DEF Waits
  <2>3. X \in Serving /\ X \in OpPlaces /\ (X # "nft" => X = Stage(job, job.snap[b]))
    <3>1. NftDue(job.snap[b]) \/ Stage(job, job.snap[b]) # "next"
      BY <2>2 DEF Waits
    <3>2. Stage(job, job.snap[b]) \in {"next"} \cup Stages
      BY StageIs
    <3>. HIDE DEF b
    <3>. QED  BY <3>1, <3>2 DEF Serving, OpPlaces
  <2>4. 0 \in 0 .. (MaxTries - 1)
    BY Constants
  <2>5. j \in Op /\ Same(j, job) /\ j.at = X /\ j.tries = 0
    <3>. HIDE DEF X
    <3>. QED  BY <2>3, <2>4 DEF Op, Same
  <2>6. Serves(k, j, t, m, f)
    <3>. HIDE DEF X, j
    <3>. QED  BY <1>2, <2>3, <2>5, TurnBegins DEF b
  <2>. HIDE DEF j, X
  <2>. QED  BY <1>2, <2>1, <2>3, <2>5, <2>6
<1>. QED  BY <1>1, <1>2

\* What is known of a ticket stays true, whoever changes it.
LEMMA FollowsMoves ==
  ASSUME NEW job \in Op, NEW t, NEW u, NEW m \in Prices \cup {0}, NEW b \in Buyers,
         t[b] \in Ticket, u[b] \in Ticket,
         Moves("three", m, t[b], u[b]), t[b].state # "noseq", Follows(job, t, m, b)
  PROVE  Follows(job, u, m, b)
<1>1. u[b].seq = t[b].seq
  BY DEF Moves
<1>2. CASE u[b].state = "unpunched"
  <2>1. t[b].state = "unpunched" /\ (u[b].amount = t[b].amount \/ (u[b].amount = m /\ m <= t[b].amount))
    BY <1>2 DEF Moves
  <2>2. /\ job.snap[b].seq = t[b].seq /\ job.snap[b].state = "unpunched"
        /\ \/ t[b].amount = job.snap[b].amount
           \/ t[b].amount = m /\ m <= job.snap[b].amount
    BY <2>1 DEF Follows
  <2>3. \/ u[b].amount = job.snap[b].amount
        \/ u[b].amount = m /\ m <= job.snap[b].amount
    BY <2>1, <2>2
  <2>. QED  BY <1>1, <2>2, <2>3 DEF Follows
<1>3. CASE u[b].state # "unpunched"
  BY <1>1, <1>3 DEF Follows
<1>. QED  BY <1>2, <1>3

\* A ticket that is settled stays settled.
LEMMA SettledMoves ==
  ASSUME NEW B \in SUBSET Buyers, NEW t, NEW u, NEW m, NEW f \in Nat, NEW g \in Nat, f <= g,
         \A b \in Buyers : Moves("three", m, t[b], u[b]), NoneLate(t), Settled(B, t, f)
  PROVE  Settled(B, u, g)
<1>. SUFFICES ASSUME NEW b \in B, u[b].state = "unpunched" PROVE g >= MaxTries
  BY DEF Settled
<1>1. Moves("three", m, t[b], u[b]) /\ t[b].state # "noseq"
  BY DEF NoneLate
<1>2. t[b].state = "unpunched"
  BY <1>1 DEF Moves
<1>3. f >= MaxTries
  BY <1>2 DEF Settled
<1>. QED  BY <1>3, Constants

\* What the command read of the tickets it has not come to stays good as they move.
LEMMA WaitsMoves ==
  ASSUME NEW job \in Op, NEW t \in [Buyers -> Ticket], NEW u \in [Buyers -> Ticket],
         NEW m \in Prices \cup {0}, NEW f \in Nat, NEW g \in Nat, f <= g,
         \A b \in Buyers : Moves("three", m, t[b], u[b]), NoneLate(t), Waits(job, t, m, f)
  PROVE  Waits(job, u, m, g)
<1>1. job.todo \subseteq Buyers /\ Settled(Buyers \ job.todo, t, f)
  BY DEF Waits
<1>2. Settled(Buyers \ job.todo, u, g)
  <2>. DEFINE B == Buyers \ job.todo
  <2>1. B \in SUBSET Buyers /\ Settled(B, t, f)
    BY <1>1
  <2>2. Settled(B, u, g)
    <3>. HIDE DEF B
    <3>. QED  BY <2>1, SettledMoves
  <2>. QED  BY <2>2
<1>3. ASSUME NEW b \in job.todo
      PROVE  Follows(job, u, m, b) /\ (NftDue(job.snap[b]) \/ Stage(job, job.snap[b]) # "next")
  <2>1. b \in Buyers /\ Follows(job, t, m, b) /\ (NftDue(job.snap[b]) \/ Stage(job, job.snap[b]) # "next")
    BY <1>1, <1>3 DEF Waits
  <2>2. t[b] \in Ticket /\ u[b] \in Ticket /\ Moves("three", m, t[b], u[b]) /\ t[b].state # "noseq"
    BY <2>1 DEF NoneLate
  <2>3. Follows(job, u, m, b)
    BY <2>1, <2>2, FollowsMoves
  <2>. QED  BY <2>1, <2>3
<1>. QED  BY <1>1, <1>2, <1>3 DEF Waits

\* So does what it knows of the ticket on turn.
LEMMA TurnMoves ==
  ASSUME NEW k, NEW job \in Op, NEW b \in Buyers, NEW t, NEW u, NEW m \in Prices \cup {0},
         t[b] \in Ticket, u[b] \in Ticket,
         NEW f \in Nat, NEW g \in Nat, f <= g, job.median = m,
         Moves("three", m, t[b], u[b]), t[b].state # "noseq", OnTurn(k, job, t, f, b)
  PROVE  OnTurn(k, job, u, g, b)
<1>1. Stage(job, job.snap[b]) \in (IF job.at = "punch" THEN {"adjust", "punch"} ELSE {job.at})
  BY DEF OnTurn
<1>2. ASSUME u[b].state = "unpunched"
      PROVE  /\ Refused(k, job) \/ job.tries <= g
             /\ job.at = "punch" => u[b].amount <= job.median \/ g >= MaxTries \/ k = "tokens"
  <2>1. t[b].state = "unpunched" /\ (u[b].amount = t[b].amount \/ u[b].amount = m)
    BY <1>2 DEF Moves
  <2>2. /\ Refused(k, job) \/ job.tries <= f
        /\ job.at = "punch" => t[b].amount <= m \/ f >= MaxTries \/ k = "tokens"
    BY <2>1 DEF OnTurn
  <2>3. job.tries \in Nat /\ m \in Nat /\ MaxTries \in Nat
    BY OpFields, Constants
  <2>4. (job.tries <= f => job.tries <= g) /\ (f >= MaxTries => g >= MaxTries)
    BY <2>3
  <2>. DEFINE x == t[b].amount
              y == u[b].amount
  <2>5. y = x \/ y = m
    BY <2>1
  <2>6. x <= m => y <= m
    <3>. HIDE DEF x, y
    <3>. QED  BY <2>3, <2>5
  <2>. QED  BY <2>2, <2>4, <2>6
<1>. QED  BY <1>1, <1>2 DEF OnTurn

\* Both together.
LEMMA ServesMoves ==
  ASSUME NEW k, NEW job \in Op, NEW t \in [Buyers -> Ticket], NEW u \in [Buyers -> Ticket],
         NEW m \in Prices \cup {0}, NEW f \in Nat, NEW g \in Nat, f <= g, job.median = m,
         \A b \in Buyers : Moves("three", m, t[b], u[b]), NoneLate(t), Serves(k, job, t, m, f)
  PROVE  Serves(k, job, u, m, g)
<1>1. job.todo # {} /\ Waits(job, t, m, f) /\ job.todo \subseteq Buyers
  BY DEF Serves, Waits
<1>2. Waits(job, u, m, g)
  BY <1>1, WaitsMoves
<1>3. FirstOf(job) \in Buyers
  BY <1>1, FirstOfIs
<1>4. ASSUME job.at \in Stages
      PROVE  OnTurn(k, job, u, g, FirstOf(job))
  <2>. DEFINE b == FirstOf(job)
  <2>1. b \in Buyers /\ t[b] \in Ticket /\ u[b] \in Ticket /\ Moves("three", m, t[b], u[b])
        /\ t[b].state # "noseq" /\ OnTurn(k, job, t, f, b)
    BY <1>3, <1>4 DEF Serves, NoneLate
  <2>2. OnTurn(k, job, u, g, b)
    <3>. HIDE DEF b
    <3>. QED  BY <2>1, TurnMoves
  <2>. QED  BY <2>2
<1>. QED  BY <1>1, <1>2, <1>4 DEF Serves

\* One ticket is done with.
LEMMA OneLess ==
  ASSUME NEW job \in Op, NEW t, NEW m, NEW f, NEW b \in Buyers, Waits(job, t, m, f),
         t[b].state = "unpunched" => f >= MaxTries
  PROVE  LET j == [job EXCEPT !.todo = @ \ {b}]
         IN  j \in Op /\ Waits(j, t, m, f) /\ j.todo = job.todo \ {b} /\ j.drawn = job.drawn
             /\ j.median = job.median /\ j.data = job.data /\ j.upTo = job.upTo
<1>. DEFINE j == [job EXCEPT !.todo = @ \ {b}]
<1>1. /\ j \in Op /\ j.todo = job.todo \ {b} /\ j.drawn = job.drawn
      /\ j.median = job.median /\ j.data = job.data /\ j.upTo = job.upTo /\ j.snap = job.snap
  BY DEF Op
<1>. HIDE DEF j
<1>2. j.todo \subseteq Buyers
  BY <1>1 DEF Waits
<1>3. Settled(Buyers \ j.todo, t, f)
  BY <1>1 DEF Waits, Settled
<1>4. ASSUME NEW c \in j.todo
      PROVE  Follows(j, t, m, c) /\ (NftDue(j.snap[c]) \/ Stage(j, j.snap[c]) # "next")
  <2>1. Follows(job, t, m, c) /\ (NftDue(job.snap[c]) \/ Stage(job, job.snap[c]) # "next")
    BY <1>1, <1>4 DEF Waits
  <2>2. Follows(j, t, m, c)
    BY <2>1, <1>1 DEF Follows
  <2>3. Stage(j, j.snap[c]) = Stage(job, job.snap[c])
    BY <1>1 DEF Stage, IsWinner
  <2>. QED  BY <2>1, <2>2, <2>3, <1>1
<1>5. Waits(j, t, m, f)
  BY <1>2, <1>3, <1>4 DEF Waits
<1>. QED  BY <1>1, <1>5 DEF j

\* A command's step ends outside of the lottery.
OpGoesOn == op' \in Op /\ OpInv' /\ op'.at \notin Drawing /\ op'.drawn \subseteq op.drawn

\* The places of the command are told apart.
LEMMA Places ==
  /\ \A x \in Serving : x \notin Drawing /\ x \notin {"idle", "missing", "tickets", "served"}
  /\ Stages \subseteq Serving /\ "nft" \in Serving /\ "nft" \notin Stages /\ Serving \subseteq OpPlaces
BY DEF Serving, Stages, Drawing, OpPlaces

\* What the command relies on while it serves, before a call about a ticket and after it.
LEMMA ServingNow ==
  ASSUME LaunchTyped, OpInv, op.at \in Serving, TicketStep, faults' \in Nat, faults' >= faults
  PROVE  /\ phase = "three" /\ phase' = "three" /\ ticket' \in [Buyers -> Ticket]
         /\ median' = median /\ median \in Prices \cup {0} /\ bitmap' = bitmap /\ sold' = sold
         /\ NoneLate(ticket') /\ op \in Op
         /\ op.median = median /\ op.data = bitmap.data /\ op.upTo = sold /\ op.todo # {}
         /\ Waits(op, ticket, median, faults) /\ Waits(op, ticket', median, faults')
         /\ Serves(treasury, op, ticket, median, faults) /\ Serves(treasury, op, ticket', median, faults')
         /\ First = FirstOf(op) /\ First \in Buyers /\ First \in op.todo
<1>1. /\ phase = "three" /\ NoneLate(ticket) /\ Serves(treasury, op, ticket, median, faults)
      /\ op.median = median /\ op.data = bitmap.data /\ op.upTo = sold
  BY DEF OpInv
<1>2. /\ op \in Op /\ median \in Prices \cup {0} /\ ticket \in [Buyers -> Ticket] /\ faults \in Nat
  BY DEF LaunchTyped
<1>3. /\ ticket' \in [Buyers -> Ticket] /\ phase' = phase /\ sold' = sold /\ bitmap' = bitmap
      /\ \A b \in Buyers : Moves(phase, median, ticket[b], ticket'[b])
      /\ phase # "sale" => median' = median
  BY Evolves
<1>4. NoneLate(ticket')
  BY <1>1, NoneLateKept
<1>5. Waits(op, ticket, median, faults) /\ op.todo # {} /\ op.todo \subseteq Buyers
  BY <1>1 DEF Serves, Waits
<1>6. First = FirstOf(op)
  BY DEF First, FirstOf
<1>7. FirstOf(op) \in op.todo /\ FirstOf(op) \in Buyers
  BY <1>2, <1>5, FirstOfIs
<1>8. faults <= faults' /\ \A b \in Buyers : Moves("three", median, ticket[b], ticket'[b])
  BY <1>1, <1>2, <1>3
<1>9. Serves(treasury, op, ticket', median, faults')
  <2>. DEFINE t == ticket
              u == ticket'
              f == faults
              g == faults'
  <2>1. t \in [Buyers -> Ticket] /\ u \in [Buyers -> Ticket] /\ f \in Nat /\ g \in Nat /\ f <= g
        /\ (\A b \in Buyers : Moves("three", median, t[b], u[b])) /\ NoneLate(t)
        /\ Serves(treasury, op, t, median, f)
    BY <1>1, <1>2, <1>3, <1>8
  <2>2. Serves(treasury, op, u, median, g)
    <3>. HIDE DEF t, u, f, g
    <3>. QED  BY <1>1, <1>2, <2>1, ServesMoves
  <2>. QED  BY <2>2
<1>10. Waits(op, ticket', median, faults')
  BY <1>9 DEF Serves
<1>. QED  BY <1>1, <1>2, <1>3, <1>4, <1>5, <1>6, <1>7, <1>9, <1>10

\* It goes on with a ticket.
LEMMA GoesOn ==
  ASSUME treasury' = treasury, LaunchTyped, OpInv, op.at \in Serving, TicketStep, faults' \in Nat, faults' >= faults,
         op' \in Op, op'.at \in Serving, op'.median = op.median, op'.data = op.data, op'.upTo = op.upTo,
         op'.drawn = op.drawn, Serves(treasury, op', ticket', median, faults')
  PROVE  OpGoesOn
<1>1. /\ phase' = "three" /\ median' = median /\ bitmap' = bitmap /\ sold' = sold /\ NoneLate(ticket')
      /\ op.median = median /\ op.data = bitmap.data /\ op.upTo = sold
  BY ServingNow
<1>2. op'.at \notin Drawing /\ op'.at \notin {"idle", "missing", "tickets", "served"}
  BY Places
<1>. QED  BY <1>1, <1>2 DEF OpInv, OpGoesOn

\* It goes on to the next ticket.
LEMMA GoesNext ==
  ASSUME treasury' = treasury, LaunchTyped, OpInv, op.at \in Serving, TicketStep, faults' \in Nat, faults' >= faults,
         op' = NextTicket, ticket'[First].state = "unpunched" => faults' >= MaxTries
  PROVE  OpGoesOn
<1>1. /\ phase' = "three" /\ ticket' \in [Buyers -> Ticket]
      /\ median' = median /\ median \in Prices \cup {0} /\ bitmap' = bitmap /\ sold' = sold
      /\ NoneLate(ticket') /\ op \in Op
      /\ op.median = median /\ op.data = bitmap.data /\ op.upTo = sold
      /\ Waits(op, ticket', median, faults') /\ First \in Buyers
  BY ServingNow
<1>. DEFINE j == [op EXCEPT !.todo = @ \ {First}]
<1>2. /\ j \in Op /\ Waits(j, ticket', median, faults') /\ j.drawn = op.drawn
      /\ j.median = op.median /\ j.data = op.data /\ j.upTo = op.upTo
  <2>. DEFINE b == First
              u == ticket'
              g == faults'
  <2>1. b \in Buyers /\ Waits(op, u, median, g) /\ (u[b].state = "unpunched" => g >= MaxTries)
    BY <1>1
  <2>2. LET i == [op EXCEPT !.todo = @ \ {b}]
        IN  i \in Op /\ Waits(i, u, median, g) /\ i.todo = op.todo \ {b} /\ i.drawn = op.drawn
             /\ i.median = op.median /\ i.data = op.data /\ i.upTo = op.upTo
    <3>. HIDE DEF b, u, g
    <3>. QED  BY <1>1, <2>1, OneLess
  <2>. QED  BY <2>2
<1>3. op' = Serve(j)
  BY DEF NextTicket
<1>. HIDE DEF j
<1>4. /\ Serve(j) \in Op
      /\ j.todo = {} => /\ Serve(j).at = "served" /\ Serve(j).drawn = {}
                        /\ Settled(Buyers, ticket', faults')
      /\ j.todo # {} => /\ Serve(j).at \in Serving /\ Same(Serve(j), j)
                        /\ Serves(treasury, Serve(j), ticket', median, faults')
  <2>. DEFINE u == ticket'
              g == faults'
  <2>1. j \in Op /\ u \in [Buyers -> Ticket] /\ median \in Prices \cup {0} /\ g \in Nat
        /\ Waits(j, u, median, g) /\ j.median = median
    BY <1>1, <1>2
  <2>2. /\ Serve(j) \in Op
        /\ j.todo = {} => /\ Serve(j).at = "served" /\ Serve(j).drawn = {}
                          /\ Settled(Buyers, u, g)
        /\ j.todo # {} => /\ Serve(j).at \in Serving /\ Same(Serve(j), j)
                          /\ Serves(treasury, Serve(j), u, median, g)
    <3>. HIDE DEF u, g
    <3>. QED  BY <2>1, ServeIs
  <2>. QED  BY <2>2
<1>5. CASE j.todo = {}
  <2>1. op' \in Op /\ op'.at = "served" /\ op'.drawn = {} /\ Settled(Buyers, ticket', faults')
    BY <1>3, <1>4, <1>5
  <2>2. "served" \notin Drawing /\ "served" \notin Serving
    BY DEF Drawing, Serving, Stages
  <2>. QED  BY <1>1, <2>1, <2>2 DEF OpInv, OpGoesOn
<1>6. CASE j.todo # {}
  <2>1. /\ op' \in Op /\ op'.at \in Serving /\ op'.median = op.median /\ op'.data = op.data
        /\ op'.upTo = op.upTo /\ op'.drawn = op.drawn /\ Serves(treasury, op', ticket', median, faults')
    BY <1>2, <1>3, <1>4, <1>6 DEF Same
  <2>. QED  BY <2>1, GoesOn
<1>. QED  BY <1>5, <1>6

\* It tries once more.
LEMMA GoesAgain ==
  ASSUME treasury' = treasury, LaunchTyped, OpInv, op.at \in Serving, TicketStep, faults' \in Nat, faults' >= faults,
         op.tries + 1 < MaxTries, op' = [op EXCEPT !.tries = @ + 1],
         op.at \in Stages /\ ticket'[First].state = "unpunched" =>
           Refused(treasury, op) \/ faults' = faults + 1
  PROVE  OpGoesOn
<1>1. /\ phase = "three" /\ ticket' \in [Buyers -> Ticket] /\ median' = median
      /\ median \in Prices \cup {0} /\ op \in Op /\ op.median = median
      /\ Serves(treasury, op, ticket, median, faults) /\ Serves(treasury, op, ticket', median, faults')
      /\ First = FirstOf(op) /\ First \in Buyers /\ op.todo # {}
  BY ServingNow
<1>. DEFINE n == op.tries + 1
            j == [op EXCEPT !.at = op.at, !.tries = n]
<1>2. n \in 0 .. (MaxTries - 1) /\ op.at \in OpPlaces
  BY <1>1, OpFields, Constants
<1>3. op' = j
  <2>. HIDE DEF n
  <2>1. op' = [op EXCEPT !.tries = n]
    BY DEF n
  <2>. QED  BY <2>1, <1>1 DEF Op
<1>4. j \in Op /\ Same(j, op) /\ j.at = op.at /\ j.tries = n
  <2>. HIDE DEF n
  <2>. QED  BY <1>1, <1>2 DEF Op, Same
<1>. HIDE DEF j
<1>5. FirstOf(j) = First /\ Waits(j, ticket', median, faults') /\ \A t : Stage(j, t) = Stage(op, t)
  <2>1. Waits(op, ticket', median, faults')
    BY <1>1 DEF Serves
  <2>. QED  BY <2>1, <1>1, <1>4, SameServes
<1>6. ASSUME j.at \in Stages
      PROVE  OnTurn(treasury, j, ticket', faults', First)
  <2>1. OnTurn(treasury, op, ticket', faults', First) /\ OnTurn(treasury, op, ticket, faults, First)
    BY <1>1, <1>4, <1>6 DEF Serves
  <2>2. ASSUME ticket'[First].state = "unpunched"
        PROVE  Refused(treasury, j) \/ n <= faults'
    <3>. SUFFICES ASSUME ~Refused(treasury, j) PROVE n <= faults'
      OBVIOUS
    <3>0. ~Refused(treasury, op)
      BY <1>4 DEF Refused
    <3>1. faults' = faults + 1
      BY <2>2, <1>4, <1>6, <3>0
    <3>2. ticket[First].state = "unpunched"
      <4>1. Moves(phase, median, ticket[First], ticket'[First]) /\ ticket[First].state # "noseq"
        BY <1>1, Evolves DEF OpInv, NoneLate
      <4>. QED  BY <4>1, <2>2 DEF Moves
    <3>3. op.tries <= faults
      BY <2>1, <3>0, <3>2 DEF OnTurn
    <3>4. op.tries \in Nat /\ faults \in Nat
      BY <1>1, OpFields DEF LaunchTyped
    <3>. QED  BY <3>1, <3>3, <3>4
  <2>3. j.snap = op.snap /\ j.median = op.median
    BY <1>4 DEF Same
  <2>. HIDE DEF n
  <2>. QED  BY <2>1, <2>2, <2>3, <1>4, <1>5 DEF OnTurn
<1>7. Serves(treasury, j, ticket', median, faults')
  BY <1>1, <1>4, <1>5, <1>6 DEF Serves, Same
<1>. HIDE DEF n
<1>. QED  BY <1>3, <1>4, <1>7, GoesOn DEF Same

\* A ticket given up after its last try has cost a fault per try.
LEMMA LastTry ==
  ASSUME LaunchTyped, OpInv, op.at \in Stages, TicketStep, faults' \in Nat, faults' >= faults,
         ~(op.tries + 1 < MaxTries), ~Refused(treasury, op),
         ticket'[First].state = "unpunched" => faults' = faults + 1
  PROVE  ticket'[First].state = "unpunched" => faults' >= MaxTries
<1>. HAVE ticket'[First].state = "unpunched"
<1>1. op.at \in Serving
  BY Places
<1>2. /\ op \in Op /\ Serves(treasury, op, ticket, median, faults) /\ First = FirstOf(op) /\ First \in Buyers
  BY <1>1, ServingNow
<1>3. ticket[First].state = "unpunched"
  <2>1. Moves(phase, median, ticket[First], ticket'[First]) /\ ticket[First].state # "noseq"
    BY <1>1, <1>2, Evolves DEF OpInv, NoneLate
  <2>. QED  BY <2>1 DEF Moves
<1>4. op.tries <= faults
  BY <1>2, <1>3 DEF Serves, OnTurn
<1>5. op.tries \in Nat /\ faults \in Nat /\ MaxTries \in Nat
  BY <1>2, OpFields, Constants DEF LaunchTyped
<1>. QED  BY <1>4, <1>5

\* What is known at the turn of a ticket.
LEMMA TurnFacts ==
  ASSUME LaunchTyped, OpInv, op.at \in Serving
  PROVE  /\ phase = "three" /\ NoneLate(ticket) /\ First \in Buyers /\ First \in op.todo /\ First = FirstOf(op)
         /\ op.median = median /\ op.data = bitmap.data
         /\ Follows(op, ticket, median, First)
         /\ op.at \in Stages => OnTurn(treasury, op, ticket, faults, First)
         /\ ticket[First] \in Ticket /\ op.snap[First] \in Ticket
         /\ ticket[First].amount \in Nat /\ op.snap[First].amount \in Nat /\ median \in Nat
<1>1. /\ phase = "three" /\ NoneLate(ticket) /\ Serves(treasury, op, ticket, median, faults)
      /\ op.median = median /\ op.data = bitmap.data
  BY DEF OpInv
<1>2. /\ op \in Op /\ median \in Prices \cup {0} /\ ticket \in [Buyers -> Ticket] /\ faults \in Nat
  BY DEF LaunchTyped
<1>3. Waits(op, ticket, median, faults) /\ op.todo # {} /\ op.todo \subseteq Buyers
  BY <1>1 DEF Serves, Waits
<1>4. First = FirstOf(op) /\ FirstOf(op) \in op.todo /\ FirstOf(op) \in Buyers
  BY <1>2, <1>3, FirstOfIs DEF First, FirstOf
<1>5. Follows(op, ticket, median, First) /\ (op.at \in Stages => OnTurn(treasury, op, ticket, faults, First))
  BY <1>1, <1>3, <1>4 DEF Waits, Serves
<1>6. ticket[First] \in Ticket /\ op.snap[First] \in Ticket
  BY <1>2, <1>4, OpFields
<1>7. ticket[First].amount \in Nat /\ op.snap[First].amount \in Nat
  BY <1>6, TicketFields
<1>8. median \in Nat
  BY <1>2, Constants
<1>. QED  BY <1>1, <1>4, <1>5, <1>6, <1>7, <1>8

\* Replacing one ticket.
LEMMA PutIs ==
  ASSUME LaunchTyped, NEW b \in Buyers, NEW t, Put(b, t)
  PROVE  ticket'[b] = t /\ \A c \in Buyers : c # b => ticket'[c] = ticket[c]
BY DEF Put, LaunchTyped

\* Whoever is given a token has paid the median, or a call had to be given up; and the
\* authority gives back what did not win.
PaysRight ==
  \A b \in Buyers : ticket[b].state # "punched" /\ ticket'[b].state = "punched" =>
    ticket[b].amount <= median \/ faults' >= MaxTries \/ treasury = "tokens"
RefundsRight ==
  \A b \in Buyers : ticket[b].state = "unpunched" /\ ticket'[b].state = "withdrawn" =>
    ticket[b].amount < median \/ ~Marked(b)

\* What an adjustment does to the tickets.
LEMMA AdjustIs ==
  ASSUME LaunchTyped, NEW b \in Buyers, NEW amount, CanAdjust(b, amount), AdjustEffect(b, amount)
  PROVE  /\ ticket'[b].state = (IF amount = 0 THEN "withdrawn" ELSE "unpunched")
         /\ ticket'[b].amount = amount /\ ticket'[b].seq = ticket[b].seq
         /\ \A c \in Buyers : c # b => ticket'[c] = ticket[c]
<1>. DEFINE t == [ticket[b] EXCEPT !.amount = amount, !.state = IF amount = 0 THEN "withdrawn" ELSE @]
<1>1. ticket[b].state = "unpunched" /\ ticket[b] \in Ticket
  BY DEF CanAdjust, LaunchTyped
<1>2. t.state = (IF amount = 0 THEN "withdrawn" ELSE "unpunched") /\ t.amount = amount /\ t.seq = ticket[b].seq
  BY <1>1 DEF Ticket
<1>3. Put(b, t)
  BY DEF AdjustEffect
<1>. HIDE DEF t
<1>. QED  BY <1>2, <1>3, PutIs

\* What a punch does to the tickets.
LEMMA PunchIs ==
  ASSUME LaunchTyped, NEW b \in Buyers, PunchEffect(b)
  PROVE  /\ ticket'[b].state = "punched"
         /\ \A c \in Buyers : c # b => ticket'[c] = ticket[c]
<1>. DEFINE t == [ticket[b] EXCEPT !.state = "punched"]
<1>1. t.state = "punched"
  BY DEF LaunchTyped, Ticket
<1>2. Put(b, t)
  BY DEF PunchEffect
<1>. HIDE DEF t
<1>. QED  BY <1>1, <1>2, PutIs

\* What getting the token of the sale does to the tickets.
LEMMA NftIs ==
  ASSUME LaunchTyped, NEW b \in Buyers, NftEffect(b)
  PROVE  /\ ticket'[b].state = ticket[b].state /\ ticket'[b].amount = ticket[b].amount
         /\ \A c \in Buyers : c # b => ticket'[c] = ticket[c]
<1>. DEFINE t == [ticket[b] EXCEPT !.gotten = TRUE]
<1>1. t.state = ticket[b].state /\ t.amount = ticket[b].amount
  BY TicketGotten DEF LaunchTyped
<1>2. Put(b, t)
  BY DEF NftEffect
<1>. HIDE DEF t
<1>. QED  BY <1>1, <1>2, PutIs

\* What making a sequence account does to the tickets.
LEMMA SequenceIs ==
  ASSUME LaunchTyped, NEW b \in Buyers, SequenceEffect(b)
  PROVE  /\ ticket'[b].state = "unpunched"
         /\ \A c \in Buyers : c # b => ticket'[c] = ticket[c]
<1>. DEFINE t == [ticket[b] EXCEPT !.state = "unpunched"]
<1>1. t.state = "unpunched"
  BY TicketState DEF LaunchTyped
<1>2. Put(b, t)
  BY DEF SequenceEffect
<1>. HIDE DEF t
<1>. QED  BY <1>1, <1>2, PutIs

\* What every action of the tool does to tickets, calls and faults.
CallDone == TicketStep /\ faults' \in Nat /\ faults' >= faults /\ PaysRight

\* A call that is refused, or lost on its way there.
LEMMA Unchanged ==
  ASSUME LaunchTyped, UNCHANGED program, phase' = phase, faults' \in {faults, faults + 1}
  PROVE  CallDone /\ RefundsRight /\ ticket' = ticket
<1>1. ticket' = ticket
  BY DEF program
<1>2. TicketStep
  BY DEF TicketStep
<1>. QED  BY <1>1, <1>2 DEF CallDone, PaysRight, RefundsRight, LaunchTyped

\* A call that adjusts a ticket.
LEMMA Adjusted ==
  ASSUME LaunchTyped, Offers, NEW b \in Buyers, NEW amount \in Prices \cup {0},
         CanAdjust(b, amount), AdjustEffect(b, amount), phase' = phase, faults' \in {faults, faults + 1}
  PROVE  CallDone
<1>1. TicketStep
  BY AdjustStep
<1>2. \A c \in Buyers : ticket'[c].state = "punched" => ticket[c].state = "punched"
  <2>1. ticket'[b].state # "punched" /\ \A c \in Buyers : c # b => ticket'[c] = ticket[c]
    BY AdjustIs
  <2>. QED  BY <2>1
<1>. QED  BY <1>1, <1>2 DEF CallDone, PaysRight, LaunchTyped

\* A call that gets the token of the sale.
LEMMA Gotten ==
  ASSUME LaunchTyped, NEW b \in Buyers, NftEffect(b), phase' = phase, faults' \in {faults, faults + 1}
  PROVE  CallDone /\ RefundsRight
<1>1. TicketStep
  BY NftStep
<1>2. \A c \in Buyers : ticket'[c].state = ticket[c].state
  BY NftIs
<1>. QED  BY <1>1, <1>2 DEF CallDone, PaysRight, RefundsRight, LaunchTyped

\* A call that makes a sequence account.
LEMMA Sequenced ==
  ASSUME LaunchTyped, NEW b \in Buyers, CanSequence(b), SequenceEffect(b), phase' = phase,
         faults' \in {faults, faults + 1}
  PROVE  CallDone /\ RefundsRight
<1>1. TicketStep
  BY SequenceStep
<1>2. ticket'[b].state = "unpunched" /\ \A c \in Buyers : c # b => ticket'[c] = ticket[c]
  BY SequenceIs
<1>. QED  BY <1>1, <1>2 DEF CallDone, PaysRight, RefundsRight, LaunchTyped

\* A call that punches a ticket which offers the median at most.
LEMMA Punched ==
  ASSUME LaunchTyped, NEW b \in Buyers, CanPunch(b), PunchEffect(b), phase' = phase,
         faults' \in {faults, faults + 1},
         ticket[b].amount <= median \/ faults' >= MaxTries \/ treasury = "tokens"
  PROVE  CallDone /\ RefundsRight
<1>1. TicketStep
  BY PunchStep
<1>2. ticket'[b].state = "punched" /\ \A c \in Buyers : c # b => ticket'[c] = ticket[c]
  BY PunchIs
<1>. QED  BY <1>1, <1>2 DEF CallDone, PaysRight, RefundsRight, LaunchTyped

\* A call of the loop, thrown: the same again, or what comes after the last.
LEMMA Thrown ==
  ASSUME treasury' = treasury, LaunchTyped, OpInv, op.at \in Stages, CallDone, NEW next, op' = Again(op, next),
         ~Refused(treasury, op),
         ticket'[First].state = "unpunched" => faults' = faults + 1
  PROVE  \/ OpGoesOn
         \/ op' = next /\ (ticket'[First].state = "unpunched" => faults' >= MaxTries)
<1>1. op.at \in Serving
  BY Places
<1>2. CASE op.tries + 1 < MaxTries
  <2>1. op' = [op EXCEPT !.tries = @ + 1]
    BY <1>2 DEF Again
  <2>. QED  BY <1>1, <1>2, <2>1, GoesAgain DEF CallDone
<1>3. CASE ~(op.tries + 1 < MaxTries)
  <2>1. op' = next
    BY <1>3 DEF Again
  <2>. QED  BY <1>3, <2>1, LastTry DEF CallDone
<1>. QED  BY <1>2, <1>3

\* The command refunds the ticket on turn.
LEMMA ServeRefundStep ==
  ASSUME treasury' = treasury, LaunchTyped, Offers, OpInv, ServeRefund
  PROVE  CallDone /\ RefundsRight /\ OpGoesOn
<1>. DEFINE b == First
<1>1. /\ op.at = "refund" /\ phase' = phase /\ op.at \in Stages /\ op.at \in Serving
      /\ ~Refused(treasury, op)
  BY DEF ServeRefund, Tries, opFrame, Stages, Serving, Refused
<1>2. /\ phase = "three" /\ b \in Buyers /\ op.median = median /\ op.data = bitmap.data
      /\ Follows(op, ticket, median, b) /\ OnTurn(treasury, op, ticket, faults, b)
      /\ ticket[b].amount \in Nat /\ op.snap[b].amount \in Nat /\ median \in Nat
  BY <1>1, TurnFacts
<1>3. \/ CanAdjust(b, 0) /\ AdjustEffect(b, 0) /\ op' = NextTicket /\ faults' = faults
      \/ ~CanAdjust(b, 0) /\ UNCHANGED <<program, faults>> /\ op' = Again(op, NextTicket)
      \/ /\ CanAdjust(b, 0) /\ faults' = faults + 1 /\ op' = Again(op, NextTicket)
         /\ AdjustEffect(b, 0) \/ UNCHANGED program
  <2>1. Adjusts(b, 0) <=> CanAdjust(b, 0)
    BY DEF Adjusts
  <2>. QED  BY <2>1 DEF ServeRefund, Tries, Call
<1>4. ticket[b].state = "unpunched" => CanAdjust(b, 0)
  BY <1>2 DEF CanAdjust
<1>5. ASSUME CanAdjust(b, 0), AdjustEffect(b, 0), faults' \in {faults, faults + 1}
      PROVE  CallDone /\ RefundsRight /\ ticket'[b].state = "withdrawn"
  <2>1. CallDone
    BY <1>1, <1>2, <1>5, Adjusted
  <2>2. ticket'[b].state = "withdrawn" /\ \A c \in Buyers : c # b => ticket'[c] = ticket[c]
    BY <1>2, <1>5, AdjustIs
  <2>3. ASSUME ticket[b].state = "unpunched"
        PROVE  ticket[b].amount < median \/ ~Marked(b)
    <3>1. Stage(op, op.snap[b]) = "refund"
      BY <1>1, <1>2 DEF OnTurn
    <3>2. op.snap[b].amount < median \/ op.snap[b].seq \notin Marks(bitmap.data)
      <4>1. op.snap[b].seq \in Seqs
        BY <1>1, TurnFacts, TicketFields
      <4>. QED  BY <3>1, <4>1, <1>2, StageOfBit
    <3>3. /\ op.snap[b].seq = ticket[b].seq
          /\ \/ ticket[b].amount = op.snap[b].amount
             \/ ticket[b].amount = median /\ median <= op.snap[b].amount
      BY <1>2, <2>3 DEF Follows
    <3>. DEFINE x == op.snap[b].amount
                y == ticket[b].amount
    <3>4. x < median => y < median
      <4>1. x \in Nat /\ y \in Nat /\ median \in Nat /\ (y = x \/ (y = median /\ median <= x))
        BY <1>2, <3>3
      <4>. HIDE DEF x, y
      <4>. QED  BY <4>1
    <3>. QED  BY <3>2, <3>3, <3>4 DEF Marked
  <2>. QED  BY <2>1, <2>2, <2>3 DEF RefundsRight
<1>6. ASSUME UNCHANGED program, faults' \in {faults, faults + 1}
      PROVE  CallDone /\ RefundsRight /\ ticket' = ticket
  BY <1>1, <1>6, Unchanged
<1>7. CASE CanAdjust(b, 0) /\ AdjustEffect(b, 0) /\ op' = NextTicket /\ faults' = faults
  <2>1. CallDone /\ RefundsRight /\ ticket'[b].state = "withdrawn"
    BY <1>5, <1>7
  <2>. QED  BY <1>1, <1>7, <2>1, GoesNext DEF CallDone
<1>8. ASSUME CallDone, RefundsRight, op' = Again(op, NextTicket),
             ticket'[b].state = "unpunched" => faults' = faults + 1
      PROVE  OpGoesOn
  <2>1. \/ OpGoesOn
        \/ op' = NextTicket /\ (ticket'[First].state = "unpunched" => faults' >= MaxTries)
    BY <1>1, <1>8, Thrown
  <2>. QED  BY <1>1, <1>8, <2>1, GoesNext DEF CallDone
<1>9. CASE ~CanAdjust(b, 0) /\ UNCHANGED <<program, faults>> /\ op' = Again(op, NextTicket)
  <2>1. CallDone /\ RefundsRight /\ ticket' = ticket
    BY <1>6, <1>9
  <2>2. ticket'[b].state # "unpunched"
    BY <1>4, <1>9, <2>1
  <2>. QED  BY <1>8, <1>9, <2>1, <2>2
<1>10. CASE /\ CanAdjust(b, 0) /\ faults' = faults + 1 /\ op' = Again(op, NextTicket)
            /\ AdjustEffect(b, 0) \/ UNCHANGED program
  <2>1. CallDone /\ RefundsRight
    BY <1>5, <1>6, <1>10
  <2>. QED  BY <1>8, <1>10, <2>1
<1>. QED  BY <1>3, <1>7, <1>9, <1>10

\* The median is adjusted to while the ticket offers more.
LEMMA MedianStands ==
  ASSUME LaunchTyped, Offers, NEW b \in Buyers, ticket[b].state = "unpunched"
  PROVE  median # 0
BY DEF Offers, Live

\* The command brings the ticket on turn down to the median.
LEMMA ServeAdjustStep ==
  ASSUME treasury' = treasury, LaunchTyped, Offers, OpInv, ServeAdjust
  PROVE  CallDone /\ RefundsRight /\ OpGoesOn
<1>. DEFINE b == First
            next == [op EXCEPT !.at = "punch", !.tries = 0]
<1>1. op.at = "adjust" /\ phase' = phase /\ op.at \in Stages /\ op.at \in Serving
  BY DEF ServeAdjust, Tries, opFrame, Stages, Serving
<1>2. /\ phase = "three" /\ b \in Buyers /\ op.median = median /\ op.data = bitmap.data
      /\ Follows(op, ticket, median, b) /\ OnTurn(treasury, op, ticket, faults, b)
      /\ ticket[b].amount \in Nat /\ op.snap[b].amount \in Nat /\ median \in Nat
      /\ median \in Prices \cup {0} /\ op \in Op
  BY <1>1, TurnFacts DEF LaunchTyped
<1>3. \/ CanAdjust(b, median) /\ AdjustEffect(b, median) /\ op' = next /\ faults' = faults
      \/ /\ ~CanAdjust(b, median) \/ treasury = "tokens"
         /\ UNCHANGED <<program, faults>> /\ op' = Again(op, next)
      \/ /\ treasury # "tokens"
         /\ CanAdjust(b, median) /\ faults' = faults + 1 /\ op' = Again(op, next)
         /\ AdjustEffect(b, median) \/ UNCHANGED program
  <2>. HIDE DEF next
  <2>1. ServeAdjust => Tries("adjust", Adjusts(b, median), AdjustEffect(b, median), next)
    BY <1>2 DEF ServeAdjust, next
  <2>2. Adjusts(b, median) => CanAdjust(b, median) /\ treasury # "tokens"
    <3>1. CanAdjust(b, median) => ticket[b].state = "unpunched"
      BY DEF CanAdjust
    <3>2. CanAdjust(b, median) => median # 0
      BY <1>2, <3>1, MedianStands
    <3>. QED  BY <3>2 DEF Adjusts
  <2>3. ~Adjusts(b, median) => ~CanAdjust(b, median) \/ treasury = "tokens"
    BY DEF Adjusts
  <2>. QED  BY <2>1, <2>2, <2>3 DEF Tries, Call
<1>4. Stage(op, op.snap[b]) = "adjust"
  BY <1>1, <1>2 DEF OnTurn
<1>5. ticket[b].state = "unpunched" => CanAdjust(b, median)
  <2>. HAVE ticket[b].state = "unpunched"
  <2>1. /\ ~(op.snap[b].amount < median)
        /\ \/ ticket[b].amount = op.snap[b].amount
           \/ ticket[b].amount = median /\ median <= op.snap[b].amount
    BY <1>2, <1>4, StageIs DEF Follows
  <2>. DEFINE x == op.snap[b].amount
              y == ticket[b].amount
  <2>2. median <= y
    <3>1. x \in Nat /\ y \in Nat /\ median \in Nat /\ ~(x < median) /\ (y = x \/ y = median)
      BY <1>2, <2>1
    <3>. HIDE DEF x, y
    <3>. QED  BY <3>1
  <2>. QED  BY <1>2, <2>2 DEF CanAdjust
<1>6. ASSUME CanAdjust(b, median), AdjustEffect(b, median), faults' \in {faults, faults + 1}
      PROVE  CallDone /\ RefundsRight /\ ticket'[b].amount = median
  <2>1. CallDone
    BY <1>1, <1>2, <1>6, Adjusted
  <2>2. median # 0
    <3>1. ticket[b].state = "unpunched"
      BY <1>6 DEF CanAdjust
    <3>. QED  BY <3>1, <1>2, MedianStands
  <2>3. ticket'[b].state = "unpunched" /\ ticket'[b].amount = median
        /\ \A c \in Buyers : c # b => ticket'[c] = ticket[c]
    BY <1>2, <1>6, <2>2, AdjustIs
  <2>. QED  BY <2>1, <2>3 DEF RefundsRight
<1>7. ASSUME UNCHANGED program, faults' \in {faults, faults + 1}
      PROVE  CallDone /\ RefundsRight /\ ticket' = ticket
  BY <1>1, <1>7, Unchanged
<1>8. ASSUME CallDone, op' = next,
             ticket'[b].state = "unpunched" =>
               ticket'[b].amount <= median \/ faults' >= MaxTries \/ treasury = "tokens"
      PROVE  OpGoesOn
  <2>1. /\ ticket' \in [Buyers -> Ticket] /\ op.todo # {} /\ First = FirstOf(op)
        /\ Waits(op, ticket', median, faults') /\ median' = median
    BY <1>1, <1>8, ServingNow DEF CallDone
  <2>2. 0 \in 0 .. (MaxTries - 1) /\ "punch" \in OpPlaces /\ "punch" \in Serving /\ "punch" \in Stages
    BY Constants DEF OpPlaces, Serving, Stages
  <2>3. next \in Op /\ Same(next, op) /\ next.at = "punch" /\ next.tries = 0
    BY <1>2, <2>2 DEF Op, Same
  <2>. HIDE DEF next
  <2>4. FirstOf(next) = b /\ Waits(next, ticket', median, faults') /\ Stage(next, op.snap[b]) = "adjust"
    BY <1>4, <2>1, <2>3, SameServes
  <2>5. OnTurn(treasury, next, ticket', faults', b)
    <3>1. next.snap = op.snap /\ next.median = median
      BY <1>2, <2>3 DEF Same
    <3>2. 0 <= faults'
      BY <1>8 DEF CallDone
    <3>. QED  BY <1>8, <2>3, <2>4, <3>1, <3>2 DEF OnTurn
  <2>6. Serves(treasury, next, ticket', median, faults')
    BY <2>1, <2>3, <2>4, <2>5 DEF Serves, Same
  <2>. QED  BY <1>1, <1>8, <2>2, <2>3, <2>6, GoesOn DEF Same, CallDone
<1>9. ASSUME CallDone, op' = Again(op, next), treasury # "tokens",
             ticket'[b].state = "unpunched" => faults' = faults + 1
      PROVE  OpGoesOn
  <2>. HIDE DEF next
  <2>1. \/ OpGoesOn
        \/ op' = next /\ (ticket'[First].state = "unpunched" => faults' >= MaxTries)
    <3>1. ~Refused(treasury, op)
      BY <1>9 DEF Refused
    <3>. QED  BY <1>1, <1>9, <3>1, Thrown
  <2>. QED  BY <1>8, <1>9, <2>1
<1>. HIDE DEF next
<1>10. CASE CanAdjust(b, median) /\ AdjustEffect(b, median) /\ op' = next /\ faults' = faults
  <2>1. CallDone /\ RefundsRight /\ ticket'[b].amount = median
    BY <1>6, <1>10
  <2>. QED  BY <1>2, <1>8, <1>10, <2>1
<1>11. CASE /\ ~CanAdjust(b, median) \/ treasury = "tokens"
            /\ UNCHANGED <<program, faults>> /\ op' = Again(op, next)
  <2>1. CallDone /\ RefundsRight /\ ticket' = ticket
    BY <1>7, <1>11
  <2>2. CASE treasury # "tokens"
    <3>1. ticket'[b].state # "unpunched"
      BY <1>5, <1>11, <2>1, <2>2
    <3>. QED  BY <1>9, <1>11, <2>1, <2>2, <3>1
  <2>3. CASE treasury = "tokens"
    <3>1. Refused(treasury, op)
      BY <1>1, <2>3 DEF Refused
    <3>2. CASE op.tries + 1 < MaxTries
      <4>1. op' = [op EXCEPT !.tries = @ + 1]
        BY <1>11, <3>2 DEF Again
      <4>2. OpGoesOn
        BY <1>1, <2>1, <3>1, <3>2, <4>1, GoesAgain DEF CallDone
      <4>. QED  BY <2>1, <4>2
    <3>3. CASE ~(op.tries + 1 < MaxTries)
      <4>1. op' = next
        BY <1>11, <3>3 DEF Again
      <4>2. OpGoesOn
        BY <1>8, <2>1, <2>3, <4>1
      <4>. QED  BY <2>1, <4>2
    <3>. QED  BY <3>2, <3>3
  <2>. QED  BY <2>2, <2>3
<1>12. CASE /\ treasury # "tokens"
            /\ CanAdjust(b, median) /\ faults' = faults + 1 /\ op' = Again(op, next)
            /\ AdjustEffect(b, median) \/ UNCHANGED program
  <2>1. CallDone /\ RefundsRight
    BY <1>6, <1>7, <1>12
  <2>. QED  BY <1>9, <1>12, <2>1
<1>. QED  BY <1>3, <1>10, <1>11, <1>12

\* The command punches the ticket on turn.
LEMMA ServePunchStep ==
  ASSUME treasury' = treasury, LaunchTyped, Offers, OpInv, ServePunch
  PROVE  CallDone /\ RefundsRight /\ OpGoesOn
<1>. DEFINE b == First
<1>1. /\ op.at = "punch" /\ phase' = phase /\ op.at \in Stages /\ op.at \in Serving
      /\ ~Refused(treasury, op)
  BY DEF ServePunch, Tries, opFrame, Stages, Serving, Refused
<1>2. /\ phase = "three" /\ b \in Buyers /\ op.median = median /\ op.data = bitmap.data
      /\ Follows(op, ticket, median, b) /\ OnTurn(treasury, op, ticket, faults, b)
      /\ ticket[b].amount \in Nat /\ op.snap[b].amount \in Nat /\ median \in Nat
  BY <1>1, TurnFacts
<1>3. \/ CanPunch(b) /\ PunchEffect(b) /\ op' = NextTicket /\ faults' = faults
      \/ ~CanPunch(b) /\ UNCHANGED <<program, faults>> /\ op' = Again(op, NextTicket)
      \/ /\ CanPunch(b) /\ faults' = faults + 1 /\ op' = Again(op, NextTicket)
         /\ PunchEffect(b) \/ UNCHANGED program
  BY DEF ServePunch, Tries, Call
<1>4. ticket[b].state = "unpunched" => CanPunch(b)
  <2>. HAVE ticket[b].state = "unpunched"
  <2>1. Stage(op, op.snap[b]) \in {"adjust", "punch"}
    BY <1>1, <1>2 DEF OnTurn
  <2>2. ~(op.snap[b].amount < median) /\ op.snap[b].seq \in Marks(bitmap.data)
    <3>1. op.snap[b].seq \in Seqs
      BY <1>1, TurnFacts, TicketFields
    <3>. QED  BY <2>1, <3>1, <1>2, StageIs, StageOfBit
  <2>3. /\ op.snap[b].seq = ticket[b].seq
        /\ \/ ticket[b].amount = op.snap[b].amount
           \/ ticket[b].amount = median /\ median <= op.snap[b].amount
    BY <1>2 DEF Follows
  <2>. DEFINE x == op.snap[b].amount
              y == ticket[b].amount
  <2>4. y >= median
    <3>1. x \in Nat /\ y \in Nat /\ median \in Nat /\ ~(x < median) /\ (y = x \/ y = median)
      BY <1>2, <2>2, <2>3
    <3>. HIDE DEF x, y
    <3>. QED  BY <3>1
  <2>. QED  BY <1>2, <2>2, <2>3, <2>4 DEF CanPunch
<1>5. ASSUME CanPunch(b), PunchEffect(b), faults' \in {faults, faults + 1}
      PROVE  CallDone /\ RefundsRight /\ ticket'[b].state = "punched"
  <2>1. ticket[b].amount <= median \/ faults >= MaxTries \/ treasury = "tokens"
    BY <1>1, <1>2, <1>5 DEF OnTurn, CanPunch
  <2>2. ticket[b].amount <= median \/ faults' >= MaxTries \/ treasury = "tokens"
    <3>1. faults \in Nat /\ MaxTries \in Nat
      BY Constants DEF LaunchTyped
    <3>2. faults >= MaxTries => faults' >= MaxTries
      BY <3>1, <1>5
    <3>. QED  BY <2>1, <3>2
  <2>3. CallDone /\ RefundsRight
    BY <1>1, <1>2, <1>5, <2>2, Punched
  <2>. QED  BY <1>2, <1>5, <2>3, PunchIs
<1>6. ASSUME UNCHANGED program, faults' \in {faults, faults + 1}
      PROVE  CallDone /\ RefundsRight /\ ticket' = ticket
  BY <1>1, <1>6, Unchanged
<1>7. CASE CanPunch(b) /\ PunchEffect(b) /\ op' = NextTicket /\ faults' = faults
  <2>1. CallDone /\ RefundsRight /\ ticket'[b].state = "punched"
    BY <1>5, <1>7
  <2>. QED  BY <1>1, <1>7, <2>1, GoesNext DEF CallDone
<1>8. ASSUME CallDone, RefundsRight, op' = Again(op, NextTicket),
             ticket'[b].state = "unpunched" => faults' = faults + 1
      PROVE  OpGoesOn
  <2>1. \/ OpGoesOn
        \/ op' = NextTicket /\ (ticket'[First].state = "unpunched" => faults' >= MaxTries)
    BY <1>1, <1>8, Thrown
  <2>. QED  BY <1>1, <1>8, <2>1, GoesNext DEF CallDone
<1>9. CASE ~CanPunch(b) /\ UNCHANGED <<program, faults>> /\ op' = Again(op, NextTicket)
  <2>1. CallDone /\ RefundsRight /\ ticket' = ticket
    BY <1>6, <1>9
  <2>2. ticket'[b].state # "unpunched"
    BY <1>4, <1>9, <2>1
  <2>. QED  BY <1>8, <1>9, <2>1, <2>2
<1>10. CASE /\ CanPunch(b) /\ faults' = faults + 1 /\ op' = Again(op, NextTicket)
            /\ PunchEffect(b) \/ UNCHANGED program
  <2>1. CallDone /\ RefundsRight
    BY <1>5, <1>6, <1>10
  <2>. QED  BY <1>8, <1>10, <2>1
<1>. QED  BY <1>3, <1>7, <1>9, <1>10

\* The command gets the token of the sale for the ticket on turn.
LEMMA ServeNftStep ==
  ASSUME treasury' = treasury, LaunchTyped, Offers, OpInv, ServeNft
  PROVE  CallDone /\ RefundsRight /\ OpGoesOn
<1>. DEFINE b == First
            at == Stage(op, op.snap[b])
            next == IF at = "next" THEN NextTicket ELSE [op EXCEPT !.at = at, !.tries = 0]
<1>1. op.at = "nft" /\ phase' = phase /\ op.at \in Serving /\ op.at \notin Stages
  BY DEF ServeNft, Tries, opFrame, Stages, Serving
<1>2. /\ phase = "three" /\ b \in Buyers /\ op.median = median
      /\ Follows(op, ticket, median, b) /\ median \in Prices \cup {0} /\ op \in Op
  BY <1>1, TurnFacts DEF LaunchTyped
<1>3. \/ NftEffect(b) /\ op' = next /\ faults' = faults
      \/ UNCHANGED <<program, faults>> /\ op' = Again(op, next)
      \/ /\ faults' = faults + 1 /\ op' = Again(op, next)
         /\ NftEffect(b) \/ UNCHANGED program
  <2>. HIDE DEF next
  <2>1. ServeNft => Tries("nft", CanGetNft(b), NftEffect(b), next)
    BY DEF ServeNft, next
  <2>. QED  BY <2>1 DEF Tries, Call
<1>4. ASSUME NftEffect(b) \/ UNCHANGED program, faults' \in {faults, faults + 1}
      PROVE  CallDone /\ RefundsRight /\ ticket'[b].state = ticket[b].state
  <2>1. CASE NftEffect(b)
    BY <1>1, <1>2, <1>4, <2>1, Gotten, NftIs
  <2>2. CASE UNCHANGED program
    BY <1>1, <1>4, <2>2, Unchanged
  <2>. QED  BY <1>4, <2>1, <2>2
<1>5. ASSUME CallDone, ticket'[b].state = ticket[b].state, op' = next
      PROVE  OpGoesOn
  <2>1. /\ ticket' \in [Buyers -> Ticket] /\ op.todo # {} /\ First = FirstOf(op)
        /\ Waits(op, ticket', median, faults') /\ median' = median
    BY <1>1, <1>5, ServingNow DEF CallDone
  <2>2. CASE at = "next"
    <3>1. op.snap[b].state # "unpunched"
      BY <2>2, StageIs
    <3>2. ticket'[b].state # "unpunched"
      BY <3>1, <1>2, <1>5 DEF Follows
    <3>. QED  BY <1>1, <1>5, <2>2, <3>2, GoesNext DEF CallDone
  <2>3. CASE at # "next"
    <3>1. at \in Stages /\ at \in Serving /\ at \in OpPlaces
      BY <2>3, StageIs, Places
    <3>. DEFINE j == [op EXCEPT !.at = at, !.tries = 0]
    <3>2. 0 \in 0 .. (MaxTries - 1)
      BY Constants
    <3>3. j \in Op /\ Same(j, op) /\ j.at = at /\ j.tries = 0
      <4>. HIDE DEF at
      <4>. QED  BY <1>2, <3>1, <3>2 DEF Op, Same
    <3>4. op' = j
      BY <1>5, <2>3
    <3>5. j.at # "nft" => j.at = Stage(op, op.snap[FirstOf(op)])
      BY <2>1, <3>3
    <3>6. Serves(treasury, j, ticket', median, faults')
      <4>. DEFINE u == ticket'
                  g == faults'
      <4>1. u \in [Buyers -> Ticket] /\ g \in Nat /\ Waits(op, u, median, g)
        BY <1>5, <2>1 DEF CallDone
      <4>2. Serves(treasury, j, u, median, g)
        <5>. HIDE DEF j, at, u, g
        <5>. QED  BY <1>2, <2>1, <3>1, <3>3, <3>5, <4>1, TurnBegins
      <4>. QED  BY <4>2
    <3>. HIDE DEF j, at
    <3>. QED  BY <1>1, <1>5, <3>1, <3>3, <3>4, <3>6, GoesOn DEF Same, CallDone
  <2>. QED  BY <2>2, <2>3
<1>. HIDE DEF next
<1>6. ASSUME CallDone, ticket'[b].state = ticket[b].state, op' = Again(op, next)
      PROVE  OpGoesOn
  <2>1. CASE op.tries + 1 < MaxTries
    <3>1. op' = [op EXCEPT !.tries = @ + 1]
      BY <1>6, <2>1 DEF Again
    <3>. QED  BY <1>1, <1>6, <2>1, <3>1, GoesAgain DEF CallDone
  <2>2. CASE ~(op.tries + 1 < MaxTries)
    <3>1. op' = next
      BY <1>6, <2>2 DEF Again
    <3>. QED  BY <1>5, <1>6, <3>1
  <2>. QED  BY <2>1, <2>2
<1>. QED  BY <1>3, <1>4, <1>5, <1>6

\* The command that serves everyone starts.
LEMMA StartPunchAllStep ==
  ASSUME treasury' = treasury, LaunchTyped, OpInv, StartPunchAll
  PROVE  CallDone /\ RefundsRight /\ OpGoesOn
<1>. DEFINE j == [AtRest EXCEPT !.at = "tickets", !.upTo = sold, !.median = median, !.data = bitmap.data]
<1>1. /\ phase = "three" /\ phase' = phase /\ op' = j /\ UNCHANGED program /\ faults' = faults
  BY DEF StartPunchAll, Command, opFrame
<1>2. CallDone /\ RefundsRight /\ ticket' = ticket
  BY <1>1, Unchanged
<1>3. sold \in Nat /\ median \in Prices \cup {0} /\ bitmap.data \in Data
  BY DEF LaunchTyped
<1>4. j \in Op /\ j.at = "tickets" /\ j.upTo = sold /\ j.median = median /\ j.data = bitmap.data /\ j.drawn = {}
  <2>1. AtRest \in Op /\ AtRest.drawn = {}
    BY Resting
  <2>2. "tickets" \in OpPlaces
    BY DEF OpPlaces
  <2>. QED  BY <1>3, <2>1, <2>2 DEF Op
<1>. HIDE DEF j
<1>5. "tickets" \notin Drawing /\ "tickets" \notin Serving
  BY DEF Drawing, Serving, Stages
<1>6. sold' = sold /\ median' = median /\ bitmap' = bitmap
  BY <1>1 DEF program
<1>. QED  BY <1>1, <1>2, <1>4, <1>5, <1>6 DEF OpInv, OpGoesOn

\* A command that ends owes nothing.
LEMMA RestingStep ==
  ASSUME treasury' = treasury, op' = AtRest
  PROVE  OpGoesOn
<1>1. AtRest \in Op /\ AtRest.at = "idle" /\ AtRest.drawn = {}
  BY Resting
<1>2. "idle" \notin Drawing /\ "idle" \notin Serving /\ "idle" \notin {"tickets", "served", "missing"}
  BY DEF Drawing, Serving, Stages
<1>. QED  BY <1>1, <1>2 DEF OpInv, OpGoesOn

\* The command reads the tickets it will serve.
LEMMA ReadTicketsStep ==
  ASSUME treasury' = treasury, LaunchTyped, TicketsNumbered, OpInv, ReadTickets
  PROVE  CallDone /\ RefundsRight /\ OpGoesOn
<1>1. op.at = "tickets" /\ phase' = phase /\ UNCHANGED program /\ faults' = faults
  BY DEF ReadTickets, opFrame
<1>2. CallDone /\ RefundsRight /\ ticket' = ticket
  BY <1>1, Unchanged
<1>3. phase = "three" /\ op.median = median /\ op.data = bitmap.data /\ op.upTo = sold
  BY <1>1 DEF OpInv
<1>4. CASE ~AllSequenced(op.upTo)
  <2>1. op' = AtRest
    BY <1>4 DEF ReadTickets
  <2>. QED  BY <1>2, <2>1, RestingStep
<1>5. CASE AllSequenced(op.upTo)
  <2>. DEFINE j == [op EXCEPT !.snap = ticket, !.todo = Outstanding(op, ticket)]
  <2>1. NoneLate(ticket) /\ Known(sold) = Sold(ticket)
    BY <1>3, <1>5, AllSequencedIs
  <2>2. op' = Serve(j)
    BY <1>5 DEF ReadTickets
  <2>3. ticket \in [Buyers -> Ticket] /\ op \in Op /\ median \in Prices \cup {0} /\ faults \in Nat
    BY DEF LaunchTyped
  <2>4. Outstanding(op, ticket) \subseteq Buyers
        /\ \A b \in Buyers : b \in Outstanding(op, ticket) <=>
             b \in Sold(ticket) /\ (NftDue(ticket[b]) \/ Stage(op, ticket[b]) # "next")
    <3>1. Known(op.upTo) = Sold(ticket)
      BY <1>3, <2>1
    <3>. QED  BY <3>1 DEF Outstanding, Sold
  <2>5. /\ j \in Op /\ j.snap = ticket /\ j.todo = Outstanding(op, ticket) /\ j.median = op.median
        /\ j.data = op.data /\ j.upTo = op.upTo /\ j.drawn = op.drawn
    <3>1. Outstanding(op, ticket) \in SUBSET (Buyers \cup Nat)
      BY <2>4
    <3>. QED  BY <2>3, <3>1 DEF Op
  <2>. HIDE DEF j
  <2>6. \A t : Stage(j, t) = Stage(op, t)
    BY <2>5 DEF Stage, IsWinner
  <2>7. Waits(j, ticket, median, faults)
    <3>1. ASSUME NEW b \in j.todo
          PROVE  Follows(j, ticket, median, b) /\ (NftDue(j.snap[b]) \/ Stage(j, j.snap[b]) # "next")
      <4>1. b \in Buyers /\ ticket[b].state # "none" /\ (NftDue(ticket[b]) \/ Stage(op, ticket[b]) # "next")
        BY <2>4, <2>5, <3>1 DEF Sold
      <4>2. ticket[b].state \in {"unpunched", "punched", "withdrawn"}
        <5>1. ticket[b].state \in {"none", "noseq", "unpunched", "punched", "withdrawn"}
          BY <2>3, <4>1, TicketFields
        <5>. QED  BY <5>1, <4>1, <2>1 DEF NoneLate
      <4>. QED  BY <2>5, <2>6, <4>1, <4>2 DEF Follows
    <3>2. Settled(Buyers \ j.todo, ticket, faults)
      <4>. SUFFICES ASSUME NEW b \in Buyers, b \notin j.todo, ticket[b].state = "unpunched" PROVE FALSE
        BY DEF Settled
      <4>1. b \in Sold(ticket) /\ Stage(op, ticket[b]) # "next"
        BY StageIs DEF Sold
      <4>. QED  BY <2>4, <2>5, <4>1
    <3>. QED  BY <2>4, <2>5, <3>1, <3>2 DEF Waits
  <2>8. /\ Serve(j) \in Op
        /\ j.todo = {} => /\ Serve(j).at = "served" /\ Serve(j).drawn = {}
                          /\ Settled(Buyers, ticket, faults)
        /\ j.todo # {} => /\ Serve(j).at \in Serving /\ Same(Serve(j), j)
                          /\ Serves(treasury, Serve(j), ticket, median, faults)
    BY <1>3, <2>3, <2>5, <2>7, ServeIs
  <2>9. sold' = sold /\ median' = median /\ bitmap' = bitmap
    BY <1>1 DEF program
  <2>10. CASE j.todo = {}
    <3>1. op' \in Op /\ op'.at = "served" /\ op'.drawn = {} /\ Settled(Buyers, ticket, faults)
      BY <2>2, <2>8, <2>10
    <3>2. "served" \notin Drawing /\ "served" \notin Serving
      BY DEF Drawing, Serving, Stages
    <3>3. OpGoesOn
      BY <1>1, <1>2, <1>3, <2>1, <2>9, <3>1, <3>2 DEF OpInv, OpGoesOn
    <3>. QED  BY <1>2, <3>3
  <2>11. CASE j.todo # {}
    <3>1. /\ op' \in Op /\ op'.at \in Serving /\ op'.median = median /\ op'.data = bitmap.data
          /\ op'.upTo = sold /\ op'.drawn = op.drawn /\ Serves(treasury, op', ticket, median, faults)
      BY <1>3, <2>2, <2>5, <2>8, <2>11 DEF Same
    <3>2. op'.at \notin Drawing /\ op'.at \notin {"idle", "missing", "tickets", "served"}
      BY <3>1, Places
    <3>3. OpGoesOn
      BY <1>1, <1>2, <1>3, <2>1, <2>9, <3>1, <3>2 DEF OpInv, OpGoesOn
    <3>. QED  BY <1>2, <3>3
  <2>. QED  BY <2>10, <2>11
<1>. QED  BY <1>4, <1>5

-----------------------------------------------------------------------------
(* Steps about one ticket.                                                  *)

LEMMA FaultsNat == LaunchTyped => faults \in Nat /\ MaxTries \in Nat
BY Constants DEF LaunchTyped

\* The command of the authority stands while someone else's call is done.
LEMMA OpStays ==
  ASSUME treasury' = treasury, LaunchTyped, OpInv, CallDone, op' = op
  PROVE  OpInv'
<1>1. faults' \in Nat /\ faults' >= faults /\ TicketStep
  BY DEF CallDone
<1>2. /\ ticket' \in [Buyers -> Ticket] /\ phase' = phase /\ sold' = sold /\ bitmap' = bitmap
      /\ \A b \in Buyers : Moves(phase, median, ticket[b], ticket'[b])
      /\ phase # "sale" => median' = median
  BY <1>1, Evolves
<1>3. CASE op.at \in Serving
  <2>1. /\ phase' = "three" /\ median' = median /\ NoneLate(ticket')
        /\ op.median = median /\ op.data = bitmap.data /\ op.upTo = sold
        /\ Serves(treasury, op, ticket', median, faults')
    BY <1>1, <1>3, ServingNow
  <2>2. op.at \notin {"idle", "missing", "tickets", "served"}
    BY <1>3, Places
  <2>. QED  BY <1>2, <2>1, <2>2 DEF OpInv
<1>4. CASE op.at = "served"
  <2>1. phase = "three" /\ NoneLate(ticket) /\ Settled(Buyers, ticket, faults)
    BY <1>4 DEF OpInv
  <2>2. NoneLate(ticket')
    BY <1>1, <2>1, NoneLateKept
  <2>3. Settled(Buyers, ticket', faults')
    <3>. DEFINE t == ticket
                u == ticket'
                f == faults
                g == faults'
    <3>1. f \in Nat /\ g \in Nat /\ f <= g /\ (\A b \in Buyers : Moves("three", median, t[b], u[b]))
          /\ NoneLate(t) /\ Settled(Buyers, t, f)
      BY <1>1, <1>2, <2>1, FaultsNat
    <3>2. Settled(Buyers, u, g)
      <4>. HIDE DEF t, u, f, g
      <4>. QED  BY <3>1, SettledMoves
    <3>. QED  BY <3>2
  <2>4. "served" \notin Serving
    BY Places
  <2>. QED  BY <1>2, <1>4, <2>1, <2>2, <2>3, <2>4 DEF OpInv
<1>5. CASE op.at \notin Serving /\ op.at # "served"
  BY <1>2, <1>5 DEF OpInv
<1>. QED  BY <1>3, <1>4, <1>5

\* So does a lottery that is under way.
LEMMA DrawStays ==
  ASSUME LaunchTyped, DrawInv, CallDone, op' = op, round' = round
  PROVE  DrawInv'
<1>1. TicketStep
  BY DEF CallDone
<1>2. /\ ticket' \in [Buyers -> Ticket] /\ phase' = phase /\ sold' = sold /\ bitmap' = bitmap
      /\ phase # "sale" => median' = median
  BY <1>1, Evolves
<1>3. ASSUME phase = "closed", op.at = "write", op.round = round
      PROVE  Written'
  <2>1. Written
    BY <1>3 DEF DrawInv
  <2>2. NoneLate(ticket')
    BY <1>1, <2>1, NoneLateKept DEF Written
  <2>3. FairDraw(op.drawn, ticket', median', supply')
    <3>. DEFINE s == op.drawn
    <3>1. FairDraw(s, ticket, median, supply) /\ NoneLate(ticket) /\ phase # "sale"
      BY <1>3, <2>1 DEF Written
    <3>2. FairDraw(s, ticket', median', supply')
      <4>. HIDE DEF s
      <4>. QED  BY <1>1, <1>3, <3>1, FairKept
    <3>. QED  BY <3>2
  <2>. QED  BY <1>2, <2>1, <2>2, <2>3 DEF Written
<1>. QED  BY <1>2, <1>3 DEF DrawInv

\* A call about one ticket keeps the outcome of the last lottery fair.
LEMMA ResultStays ==
  ASSUME LaunchTyped, ResultInv, CallDone, result' = result, round' = round
  PROVE  ResultInv'
<1>1. TicketStep
  BY DEF CallDone
<1>2. phase' = phase /\ bitmap' = bitmap
  BY <1>1, Evolves
<1>3. ASSUME result.ok, phase # "sale", result.round = ClosedIn
      PROVE  NoneLate(ticket') /\ FairDraw(Marks(bitmap.data), ticket', median', supply')
  <2>. DEFINE s == Marks(bitmap.data)
  <2>1. NoneLate(ticket) /\ FairDraw(s, ticket, median, supply)
    BY <1>3 DEF ResultInv
  <2>2. s = Marks(bitmap.data)
    OBVIOUS
  <2>3. FairDraw(s, ticket', median', supply')
    <3>. HIDE DEF s
    <3>. QED  BY <1>1, <1>3, <2>1, <2>2, FairKept
  <2>. QED  BY <1>1, <2>1, <2>3, NoneLateKept
<1>4. ClosedIn' = ClosedIn
  BY <1>2 DEF ClosedIn
<1>. QED  BY <1>2, <1>3, <1>4 DEF ResultInv

\* A call about one ticket leaves everyone who got a token with the median paid.
LEMMA PaidStays ==
  ASSUME treasury' = treasury, LaunchTyped, Offers, MedianPaid(treasury, ticket, median, faults), CallDone
  PROVE  MedianPaid(treasury, ticket', median', faults')
<1>1. TicketStep /\ faults' \in Nat /\ faults' >= faults /\ PaysRight /\ faults \in Nat /\ MaxTries \in Nat
  BY FaultsNat DEF CallDone
<1>2. /\ ticket' \in [Buyers -> Ticket] /\ ticket \in [Buyers -> Ticket]
      /\ \A b \in Buyers : Moves(phase, median, ticket[b], ticket'[b])
      /\ phase # "sale" => median' = median
      /\ median \in Nat
  BY <1>1, Evolves, Constants DEF LaunchTyped
<1>. SUFFICES ASSUME treasury = "SOL", faults' < MaxTries, NEW b \in Buyers, ticket'[b].state = "punched"
              PROVE  ticket'[b].amount = median'
  BY DEF MedianPaid
<1>3. faults < MaxTries /\ ~(faults' >= MaxTries)
  BY <1>1
<1>4. Moves(phase, median, ticket[b], ticket'[b])
  BY <1>2
<1>5. CASE ticket[b].state = "punched"
  <2>1. phase = "three"
    BY <1>5 DEF Offers
  <2>2. ticket[b].amount = median
    BY <1>3, <1>5 DEF MedianPaid
  <2>3. ticket'[b].amount = ticket[b].amount
    BY <1>4, <1>5 DEF Moves
  <2>. QED  BY <1>2, <2>1, <2>2, <2>3
<1>6. CASE ticket[b].state # "punched"
  <2>1. phase = "three" /\ ticket'[b].amount = ticket[b].amount /\ median <= ticket[b].amount
    BY <1>4, <1>6 DEF Moves
  <2>2. ticket[b].amount <= median
    BY <1>1, <1>3, <1>6 DEF PaysRight
  <2>3. ticket[b].amount \in Nat
    BY <1>2, TicketFields
  <2>. DEFINE x == ticket[b].amount
  <2>4. x = median
    <3>1. x \in Nat /\ x <= median /\ median <= x
      BY <2>1, <2>2, <2>3
    <3>. HIDE DEF x
    <3>. QED  BY <3>1, <1>2
  <2>. QED  BY <1>2, <2>1, <2>4
<1>. QED  BY <1>5, <1>6

\* What a step does that makes calls about tickets, by whoever.
LEMMA ByCall ==
  ASSUME treasury' = treasury, LaunchInv, CallDone, round' = round, result' = result, client' \in [Buyers -> Client],
         \A b \in Buyers : client'[b] = client[b] \/ ClientOK(client'[b], phase, ticket'[b], median),
         op' = op \/ OpGoesOn
  PROVE  LaunchInv'
<1>1. /\ LaunchTyped /\ TicketsNumbered /\ BitsNumbered /\ Offers /\ Clients /\ OpInv
      /\ MedianPaid(treasury, ticket, median, faults) /\ DrawInv /\ ResultInv
  BY DEF LaunchInv
<1>2. TicketStep /\ faults' \in Nat
  BY DEF CallDone
<1>3. /\ ticket' \in [Buyers -> Ticket] /\ supply' \in Nat
      /\ phase' = phase /\ sold' = sold /\ bitmap' = bitmap
      /\ phase # "sale" => median' = median
  BY <1>1, <1>2, Evolves
<1>4. Offers' /\ median' \in Prices \cup {0}
  BY <1>1, <1>2, OffersKept
<1>5. TicketsNumbered'
  BY <1>1, <1>2, NumberedKept
<1>6. Clients'
  BY <1>1, <1>2, ClientsKept
<1>7. MedianPaid(treasury, ticket', median', faults')
  BY <1>1, PaidStays
<1>8. ResultInv'
  BY <1>1, ResultStays
<1>9. op' \in Op /\ OpInv' /\ op'.drawn \subseteq op.drawn
  <2>1. CASE op' = op
    BY <1>1, <2>1, OpStays DEF LaunchTyped
  <2>2. CASE OpGoesOn
    BY <2>2 DEF OpGoesOn
  <2>. QED  BY <2>1, <2>2
<1>10. DrawInv'
  <2>1. CASE op' = op
    BY <1>1, <2>1, DrawStays
  <2>2. CASE OpGoesOn
    <3>1. op'.at \notin Drawing
      BY <2>2 DEF OpGoesOn
    <3>. QED  BY <3>1 DEF DrawInv, Drawing
  <2>. QED  BY <2>1, <2>2
<1>11. BitsNumbered'
  BY <1>1, <1>3, <1>9 DEF BitsNumbered
<1>12. LaunchTyped'
  BY <1>1, <1>2, <1>3, <1>4, <1>9 DEF LaunchTyped
<1>. QED  BY <1>4, <1>5, <1>6, <1>7, <1>8, <1>9, <1>10, <1>11, <1>12 DEF LaunchInv

-----------------------------------------------------------------------------
(* Commands of the buyers.                                                  *)

LEMMA IdleTyped ==
  ASSUME NEW b \in Buyers
  PROVE  /\ Idle \in Client /\ [Idle EXCEPT !.at = "poll"] \in Client /\ [Idle EXCEPT !.at = "seq"] \in Client
         /\ Idle.at = "idle" /\ [Idle EXCEPT !.at = "poll"].at = "poll" /\ [Idle EXCEPT !.at = "seq"].at = "seq"
<1>1. NoTicket \in Ticket /\ 0 \in 0 .. (MaxTries - 1)
  BY NoTicketTyped, Constants
<1>. QED  BY <1>1 DEF Idle, Client

\* A buyer's command that comes to another place.
LEMMA JobTyped ==
  ASSUME NEW job \in Client, NEW X \in {"idle", "poll", "seq", "adjust", "nft", "punch"},
         NEW n \in 0 .. (MaxTries - 1)
  PROVE  LET j == [job EXCEPT !.at = X, !.tries = n]
         IN  j \in Client /\ j.at = X /\ j.snap = job.snap /\ j.median = job.median
BY DEF Client

\* A buyer's command that tries again.
LEMMA AgainClient ==
  ASSUME NEW job \in Client, NEW next \in Client
  PROVE  /\ Again(job, next) \in Client /\ Again(job, next).at \in {job.at, next.at}
<1>1. CASE job.tries + 1 < MaxTries
  <2>. DEFINE n == job.tries + 1
  <2>1. n \in 0 .. (MaxTries - 1)
    BY <1>1, Constants DEF Client
  <2>2. Again(job, next) = [job EXCEPT !.tries = n]
    BY <1>1 DEF Again
  <2>. HIDE DEF n
  <2>. QED  BY <2>1, <2>2 DEF Client
<1>2. CASE ~(job.tries + 1 < MaxTries)
  BY <1>2 DEF Again
<1>. QED  BY <1>1, <1>2

\* A buyer's command after its adjustment.
LEMMA AfterAdjustIs ==
  ASSUME NEW job \in Client
  PROVE  AfterAdjust(job) \in Client /\ AfterAdjust(job).at \in {"nft", "punch"}
<1>. DEFINE X == IF NftDue(job.snap) THEN "nft" ELSE "punch"
<1>1. X \in {"nft", "punch"}
  OBVIOUS
<1>2. 0 \in 0 .. (MaxTries - 1)
  BY Constants
<1>3. AfterAdjust(job) = [job EXCEPT !.at = X, !.tries = 0]
  BY DEF AfterAdjust
<1>. HIDE DEF X
<1>. QED  BY <1>1, <1>2, <1>3 DEF Client

\* A step of one buyer's command keeps the inductive invariant.
LEMMA ByClient ==
  ASSUME treasury' = treasury, LaunchInv, CallDone, UNCHANGED buyerFrame, NEW b \in Buyers, NEW job \in Client, To(b, job),
         ClientOK(job, phase, ticket'[b], median)
  PROVE  LaunchInv' /\ op' = op
<1>1. client \in [Buyers -> Client]
  BY DEF LaunchInv, LaunchTyped
<1>2. client' \in [Buyers -> Client] /\ client'[b] = job /\ \A c \in Buyers : c # b => client'[c] = client[c]
  BY <1>1 DEF To
<1>3. op' = op /\ round' = round /\ result' = result
  BY DEF buyerFrame
<1>4. \A c \in Buyers : client'[c] = client[c] \/ ClientOK(client'[c], phase, ticket'[c], median)
  BY <1>2
<1>. QED  BY <1>2, <1>3, <1>4, ByCall

\* A command that has not come to the adjustment relies on nothing.
LEMMA NotPunching ==
  ASSUME NEW job, job.at \in {"idle", "poll", "seq"}, NEW ph, NEW t, NEW m
  PROVE  ClientOK(job, ph, t, m)
BY DEF ClientOK

\* A buyer looks whether the ticket has been made.
LEMMA PollTicketStep ==
  ASSUME treasury' = treasury, LaunchInv, NEW b \in Buyers, PollTicket(b)
  PROVE  LaunchInv' /\ op' = op
<1>1. UNCHANGED buyerFrame /\ UNCHANGED program /\ phase' = phase /\ faults' \in {faults, faults + 1}
  BY DEF PollTicket, buyerFrame
<1>2. CallDone
  BY <1>1, Unchanged DEF LaunchInv
<1>3. CASE To(b, [Idle EXCEPT !.at = "seq"])
  <2>. DEFINE job == [Idle EXCEPT !.at = "seq"]
  <2>1. To(b, job) /\ job \in Client /\ job.at = "seq"
    BY <1>3, IdleTyped
  <2>. HIDE DEF job
  <2>2. ClientOK(job, phase, ticket'[b], median)
    BY <2>1, NotPunching
  <2>. QED  BY <1>1, <1>2, <2>1, <2>2, ByClient
<1>4. CASE To(b, Idle)
  BY <1>1, <1>2, <1>4, IdleTyped, NotPunching, ByClient
<1>. QED  BY <1>3, <1>4 DEF PollTicket

\* A buyer makes the sequence account of the ticket.
LEMMA CreateTicketSeqStep ==
  ASSUME treasury' = treasury, LaunchInv, NEW b \in Buyers, CreateTicketSeq(b)
  PROVE  LaunchInv' /\ op' = op
<1>1. /\ UNCHANGED buyerFrame /\ phase' = phase /\ faults' \in {faults, faults + 1} /\ To(b, Idle)
      /\ (CanSequence(b) /\ SequenceEffect(b)) \/ UNCHANGED program
  BY DEF CreateTicketSeq, Call, buyerFrame
<1>2. CallDone
  BY <1>1, Unchanged, Sequenced DEF LaunchInv
<1>. QED  BY <1>1, <1>2, IdleTyped, NotPunching, ByClient

\* A buyer adjusts the ticket.
LEMMA AdjustTicketStep ==
  ASSUME treasury' = treasury, LaunchInv, NEW b \in Buyers, NEW amount \in Prices \cup {0}, AdjustTicket(b, amount)
  PROVE  LaunchInv' /\ op' = op
<1>1. /\ UNCHANGED buyerFrame /\ phase' = phase /\ faults' \in {faults, faults + 1} /\ To(b, Idle)
      /\ CanAdjust(b, amount) /\ (AdjustEffect(b, amount) \/ UNCHANGED program)
  BY DEF AdjustTicket, Adjusts, Call, buyerFrame
<1>2. CallDone
  BY <1>1, Unchanged, Adjusted DEF LaunchInv
<1>. QED  BY <1>1, <1>2, IdleTyped, NotPunching, ByClient

\* A buyer starts to punch: the ticket and the median are read.
LEMMA PunchTicketStep ==
  ASSUME treasury' = treasury, LaunchInv, NEW b \in Buyers, PunchTicket(b)
  PROVE  LaunchInv' /\ op' = op
<1>. DEFINE job == [Idle EXCEPT !.snap = ticket[b], !.median = median]
<1>1. /\ UNCHANGED buyerFrame /\ UNCHANGED program /\ phase' = phase /\ faults' = faults
      /\ phase = "three" /\ ticket[b].state # "none"
      /\ To(b, IF ticket[b].amount > median THEN [job EXCEPT !.at = "adjust"] ELSE AfterAdjust(job))
  BY DEF PunchTicket, buyerFrame
<1>2. CallDone /\ ticket' = ticket
  BY <1>1, Unchanged DEF LaunchInv
<1>3. ticket[b] \in Ticket /\ median \in Prices \cup {0} /\ ticket[b].amount \in Nat /\ median \in Nat
  BY TicketFields, Constants DEF LaunchInv, LaunchTyped
<1>4. /\ job \in Client /\ [job EXCEPT !.at = "adjust"] \in Client
      /\ [job EXCEPT !.at = "adjust"].at = "adjust" /\ [job EXCEPT !.at = "adjust"].median = median
  BY <1>3, IdleTyped DEF Client
<1>. HIDE DEF job
<1>5. CASE ticket[b].amount > median
  <2>. DEFINE j == [job EXCEPT !.at = "adjust"]
  <2>1. To(b, j) /\ j \in Client
    BY <1>1, <1>4, <1>5
  <2>2. ClientOK(j, phase, ticket'[b], median)
    BY <1>1, <1>2, <1>4 DEF ClientOK
  <2>. HIDE DEF j
  <2>. QED  BY <1>1, <1>2, <2>1, <2>2, ByClient
<1>6. CASE ~(ticket[b].amount > median)
  <2>1. To(b, AfterAdjust(job)) /\ AfterAdjust(job) \in Client /\ AfterAdjust(job).at \in {"nft", "punch"}
    BY <1>1, <1>4, <1>6, AfterAdjustIs
  <2>2. ticket[b].amount <= median
    BY <1>3, <1>6
  <2>3. ClientOK(AfterAdjust(job), phase, ticket'[b], median)
    BY <1>1, <1>2, <2>1, <2>2 DEF ClientOK
  <2>. QED  BY <1>1, <1>2, <2>1, <2>3, ByClient
<1>. QED  BY <1>5, <1>6

\* A buyer who punches brings the ticket down to the median read.
LEMMA PunchAdjustStep ==
  ASSUME treasury' = treasury, LaunchInv, NEW b \in Buyers, PunchAdjust(b)
  PROVE  LaunchInv' /\ op' = op
<1>. DEFINE m == client[b].median
<1>1. /\ LaunchTyped /\ Offers /\ client[b] \in Client /\ median \in Prices \cup {0} /\ median \in Nat
      /\ ClientOK(client[b], phase, ticket[b], median)
  BY Constants DEF LaunchInv, LaunchTyped, Clients
<1>2. client[b].at = "adjust" /\ phase = "three" /\ m = median /\ ticket[b].state # "none"
  BY <1>1 DEF PunchAdjust, ClientOK
<1>3. UNCHANGED buyerFrame /\ phase' = phase
  BY DEF PunchAdjust, buyerFrame
<1>4. \/ /\ CanAdjust(b, median) /\ AdjustEffect(b, median) /\ faults' = faults
         /\ To(b, AfterAdjust(client[b]))
      \/ /\ faults' \in {faults, faults + 1} /\ To(b, Idle)
         /\ (CanAdjust(b, median) /\ AdjustEffect(b, median)) \/ UNCHANGED program
  BY <1>2 DEF PunchAdjust, Adjusts, Call
<1>5. CASE /\ CanAdjust(b, median) /\ AdjustEffect(b, median) /\ faults' = faults
           /\ To(b, AfterAdjust(client[b]))
  <2>1. CallDone
    BY <1>1, <1>3, <1>5, Adjusted
  <2>2. /\ AfterAdjust(client[b]) \in Client /\ AfterAdjust(client[b]).at \in {"nft", "punch"}
    BY <1>1, AfterAdjustIs
  <2>3. /\ ticket'[b].amount = median
        /\ ticket'[b].state = (IF median = 0 THEN "withdrawn" ELSE "unpunched")
    BY <1>1, <1>5, AdjustIs
  <2>4. ClientOK(AfterAdjust(client[b]), phase, ticket'[b], median)
    BY <1>1, <1>2, <2>2, <2>3 DEF ClientOK
  <2>. QED  BY <1>3, <1>5, <2>1, <2>2, <2>4, ByClient
<1>6. CASE /\ faults' \in {faults, faults + 1} /\ To(b, Idle)
           /\ (CanAdjust(b, median) /\ AdjustEffect(b, median)) \/ UNCHANGED program
  <2>1. CallDone
    BY <1>1, <1>3, <1>6, Adjusted, Unchanged
  <2>. QED  BY <1>3, <1>6, <2>1, IdleTyped, NotPunching, ByClient
<1>. QED  BY <1>4, <1>5, <1>6

\* The ticket still offers the median at most after a call.
LEMMA StillLow ==
  ASSUME LaunchInv, NEW b \in Buyers, client[b].at \in {"nft", "punch"}, CallDone
  PROVE  \A job : job.at \in {"idle", "nft", "punch"} => ClientOK(job, phase, ticket'[b], median)
<1>. DEFINE c == client[b]
            t == ticket[b]
            u == ticket'[b]
<1>1. /\ LaunchTyped /\ c \in Client /\ median \in Prices \cup {0} /\ t \in Ticket
      /\ ClientOK(c, phase, t, median) /\ c.at \in {"nft", "punch"}
  BY DEF LaunchInv, LaunchTyped, Clients
<1>2. u \in Ticket /\ Moves(phase, median, t, u)
  BY <1>1, Evolves DEF CallDone
<1>3. ClientOK(c, phase, u, median)
  <2>. HIDE DEF c, t, u
  <2>. QED  BY <1>1, <1>2, ClientStays
<1>. HIDE DEF u, c
<1>4. \A job : job.at \in {"idle", "nft", "punch"} => ClientOK(job, phase, u, median)
  BY <1>1, <1>3 DEF ClientOK
<1>. QED  BY <1>4 DEF u

\* A buyer who punches gets the token of the sale.
LEMMA PunchNftStep ==
  ASSUME treasury' = treasury, LaunchInv, NEW b \in Buyers, PunchNft(b)
  PROVE  LaunchInv' /\ op' = op
<1>. DEFINE next == [client[b] EXCEPT !.at = "punch", !.tries = 0]
<1>1. client[b] \in Client /\ client[b].at = "nft"
  BY DEF LaunchInv, LaunchTyped, PunchNft
<1>2. 0 \in 0 .. (MaxTries - 1)
  BY Constants
<1>3. next \in Client /\ next.at = "punch"
  BY <1>1, <1>2 DEF Client
<1>4. /\ UNCHANGED buyerFrame /\ phase' = phase /\ faults' \in {faults, faults + 1}
      /\ To(b, next) \/ To(b, Again(client[b], next))
      /\ NftEffect(b) \/ UNCHANGED program
  BY DEF PunchNft, Call, buyerFrame
<1>. HIDE DEF next
<1>5. CallDone
  BY <1>4, Unchanged, Gotten DEF LaunchInv
<1>6. Again(client[b], next) \in Client /\ Again(client[b], next).at \in {"nft", "punch"}
  BY <1>1, <1>3, AgainClient
<1>7. ClientOK(next, phase, ticket'[b], median) /\ ClientOK(Again(client[b], next), phase, ticket'[b], median)
  BY <1>1, <1>3, <1>5, <1>6, StillLow
<1>. QED  BY <1>3, <1>4, <1>5, <1>6, <1>7, ByClient

\* A buyer punches.
LEMMA PunchPunchStep ==
  ASSUME treasury' = treasury, LaunchInv, NEW b \in Buyers, PunchPunch(b)
  PROVE  LaunchInv' /\ op' = op
<1>1. client[b] \in Client /\ client[b].at = "punch" /\ ClientOK(client[b], phase, ticket[b], median)
  BY DEF LaunchInv, LaunchTyped, PunchPunch, Clients
<1>2. ticket[b].amount <= median
  BY <1>1 DEF ClientOK
<1>3. /\ UNCHANGED buyerFrame /\ phase' = phase /\ faults' \in {faults, faults + 1}
      /\ To(b, Idle) \/ To(b, Again(client[b], Idle))
      /\ (CanPunch(b) /\ PunchEffect(b)) \/ UNCHANGED program
  BY DEF PunchPunch, Call, buyerFrame
<1>4. CallDone
  BY <1>2, <1>3, Unchanged, Punched DEF LaunchInv
<1>5. Idle \in Client /\ Idle.at = "idle"
  BY IdleTyped
<1>6. Again(client[b], Idle) \in Client /\ Again(client[b], Idle).at \in {"idle", "punch"}
  BY <1>1, <1>5, AgainClient
<1>7. ClientOK(Idle, phase, ticket'[b], median) /\ ClientOK(Again(client[b], Idle), phase, ticket'[b], median)
  BY <1>1, <1>4, <1>5, <1>6, StillLow
<1>. QED  BY <1>3, <1>4, <1>5, <1>6, <1>7, ByClient

\* A ticket is bought, in the sale: it takes the next number.
LEMMA Bought ==
  ASSUME LaunchInv, NEW b \in Buyers, NEW p \in Prices, CanPurchase(b), PurchaseEffect(b, p), phase' = phase
  PROVE  /\ ticket' \in [Buyers -> Ticket] /\ sold' \in Nat /\ sold' = sold + 1 /\ supply' = supply
         /\ median' \in Prices \cup {0} /\ bitmap' = bitmap
         /\ TicketsNumbered' /\ Offers'
<1>. DEFINE t == [state |-> "noseq", amount |-> p, seq |-> sold, gotten |-> FALSE]
<1>1. /\ LaunchTyped /\ TicketsNumbered /\ Offers /\ ticket \in [Buyers -> Ticket] /\ sold \in Nat
  BY DEF LaunchInv, LaunchTyped
<1>2. phase = "sale" /\ ticket[b].state = "none"
  BY DEF CanPurchase
<1>3. Put(b, t) /\ sold' = sold + 1 /\ supply' = supply
  BY DEF PurchaseEffect
<1>4. IsFiniteSet(Sold(ticket)) /\ Cardinality(Sold(ticket)) \in Nat /\ b \notin Sold(ticket)
      /\ Sold(ticket) \in SUBSET Buyers
  <2>1. Sold(ticket) \in SUBSET Buyers
    BY DEF Sold
  <2>. QED  BY <1>2, <2>1, BuyerSets DEF Sold
<1>5. sold < Cardinality(Buyers)
  <2>1. Sold(ticket) # Buyers
    BY <1>4
  <2>2. Cardinality(Sold(ticket)) <= Cardinality(Buyers) /\ Cardinality(Sold(ticket)) # Cardinality(Buyers)
    BY <1>4, <2>1, Constants, FS_Subset
  <2>. QED  BY <1>1, <1>4, <2>2, Constants DEF TicketsNumbered
<1>6. t \in Ticket /\ t.seq = sold /\ t.state = "noseq" /\ t.amount = p
  <2>1. sold \in Seqs
    BY <1>1, <1>5, Constants DEF Seqs
  <2>. QED  BY <2>1 DEF Ticket
<1>. HIDE DEF t
<1>7. ticket' = [ticket EXCEPT ![b] = t] /\ ticket' \in [Buyers -> Ticket] /\ bitmap' = bitmap
      /\ median' = MedianOf(ticket')
  BY <1>1, <1>2, <1>3, <1>6 DEF Put
<1>8. ticket'[b] = t /\ \A c \in Buyers : c # b => ticket'[c] = ticket[c]
  BY <1>1, <1>7
<1>9. Sold(ticket') = Sold(ticket) \cup {b}
  <2>1. \A c \in Buyers : c \in Sold(ticket') <=> c \in Sold(ticket) \cup {b}
    BY <1>6, <1>8 DEF Sold
  <2>. QED  BY <2>1, <1>4 DEF Sold
<1>10. Cardinality(Sold(ticket')) = sold + 1
  <2>1. Cardinality(Sold(ticket) \cup {b}) = Cardinality(Sold(ticket)) + 1
    BY <1>4, FS_AddElement
  <2>. QED  BY <1>1, <1>9, <2>1 DEF TicketsNumbered
<1>11. TicketsNumbered'
  <2>1. ASSUME NEW c \in Buyers, ticket'[c].state # "none"
        PROVE  ticket'[c].seq < sold + 1 /\ (c # b => ticket'[c].seq < sold)
    <3>1. CASE c = b
      BY <1>1, <1>6, <1>8, <3>1
    <3>2. CASE c # b
      <4>1. ticket'[c] = ticket[c] /\ ticket[c].seq < sold /\ ticket[c] \in Ticket
        BY <1>1, <1>8, <2>1, <3>2 DEF TicketsNumbered
      <4>2. ticket[c].seq \in Nat
        BY <4>1, TicketFields
      <4>. QED  BY <1>1, <4>1, <4>2
    <3>. QED  BY <3>1, <3>2
  <2>2. ASSUME NEW c \in Buyers, NEW d \in Buyers, ticket'[c].state # "none", ticket'[d].state # "none",
               ticket'[c].seq = ticket'[d].seq
        PROVE  c = d
    <3>1. CASE c # b /\ d # b
      BY <1>1, <1>8, <2>2, <3>1 DEF TicketsNumbered
    <3>2. CASE c = b /\ d # b
      <4>1. ticket'[d].seq < sold /\ ticket'[c].seq = sold
        BY <2>1, <2>2, <3>2, <1>6, <1>8
      <4>. QED  BY <1>1, <2>2, <4>1
    <3>3. CASE d = b /\ c # b
      <4>1. ticket'[c].seq < sold /\ ticket'[d].seq = sold
        BY <2>1, <2>2, <3>3, <1>6, <1>8
      <4>. QED  BY <1>1, <2>2, <4>1
    <3>. QED  BY <3>1, <3>2, <3>3
  <2>. QED  BY <1>3, <1>10, <2>1, <2>2 DEF TicketsNumbered
<1>12. \A c \in Buyers : ticket'[c].state \in {"noseq", "unpunched", "punched"} => ticket'[c].amount # 0
  <2>. TAKE c \in Buyers
  <2>1. CASE c = b
    BY <1>6, <1>8, <2>1, Constants
  <2>2. CASE c # b
    BY <1>1, <1>8, <2>2 DEF Offers
  <2>. QED  BY <2>1, <2>2
<1>13. median' \in Prices \cup {0} /\ (median' = 0 => Live(ticket') = {})
  BY <1>7, <1>12, MedianIs
<1>14. supply' <= Tokens /\ \A c \in Buyers : ticket'[c].state # "punched"
  BY <1>1, <1>2, <1>3, <1>6, <1>8 DEF Offers
<1>15. Offers'
  BY <1>12, <1>13, <1>14 DEF Offers
<1>. QED  BY <1>1, <1>3, <1>7, <1>11, <1>13, <1>15

\* A buyer buys a ticket, which gets the next number.
LEMMA PurchaseTicketStep ==
  ASSUME treasury' = treasury, LaunchInv, NEW b \in Buyers, NEW p \in Prices, PurchaseTicket(b, p)
  PROVE  LaunchInv' /\ op' = op
<1>. DEFINE poll == [Idle EXCEPT !.at = "poll"]
<1>1. /\ UNCHANGED buyerFrame /\ phase' = phase /\ faults' \in {faults, faults + 1} /\ CanPurchase(b)
      /\ To(b, poll) \/ To(b, Idle)
      /\ PurchaseEffect(b, p) \/ UNCHANGED program
  BY DEF PurchaseTicket, Call, buyerFrame
<1>2. poll \in Client /\ Idle \in Client /\ poll.at = "poll" /\ Idle.at = "idle"
  BY IdleTyped
<1>. HIDE DEF poll
<1>3. CASE UNCHANGED program
  <2>1. CallDone
    BY <1>1, <1>3, Unchanged DEF LaunchInv
  <2>2. ClientOK(poll, phase, ticket'[b], median) /\ ClientOK(Idle, phase, ticket'[b], median)
    BY <1>2, NotPunching
  <2>. QED  BY <1>1, <1>2, <2>1, <2>2, ByClient
<1>4. CASE PurchaseEffect(b, p)
  <2>1. /\ ticket' \in [Buyers -> Ticket] /\ sold' \in Nat /\ sold' = sold + 1 /\ supply' = supply
        /\ median' \in Prices \cup {0} /\ bitmap' = bitmap
        /\ TicketsNumbered' /\ Offers'
    BY <1>1, <1>4, Bought
  <2>2. phase = "sale" /\ op' = op /\ round' = round /\ result' = result /\ phase' = "sale"
    BY <1>1 DEF CanPurchase, buyerFrame
  <2>3. client \in [Buyers -> Client] /\ faults \in Nat /\ sold \in Nat
    BY DEF LaunchInv, LaunchTyped
  <2>4. client' \in [Buyers -> Client] /\ \A c \in Buyers : client'[c] \in {client[c], poll, Idle}
    BY <1>1, <1>2, <2>3 DEF To
  <2>5. Clients'
    <3>. SUFFICES ASSUME NEW c \in Buyers PROVE ClientOK(client'[c], phase', ticket'[c], median')
      BY DEF Clients
    <3>1. client[c].at \notin {"adjust", "nft", "punch"}
      BY <2>2 DEF LaunchInv, Clients, ClientOK
    <3>2. client'[c].at \notin {"adjust", "nft", "punch"}
      BY <1>2, <2>4, <3>1
    <3>. QED  BY <3>2 DEF ClientOK
  <2>6. op.at \notin {"tickets", "served"} \cup Serving
    BY <2>2 DEF LaunchInv, OpInv
  <2>7. OpInv'
    <3>1. op.at = "missing" => op.todo \subseteq Buyers
      BY DEF LaunchInv, OpInv
    <3>. QED  BY <2>2, <2>6, <3>1 DEF OpInv
  <2>8. MedianPaid(treasury, ticket', median', faults')
    BY <2>1, <2>2 DEF Offers, MedianPaid
  <2>9. DrawInv' /\ ResultInv'
    BY <2>2 DEF LaunchInv, DrawInv, ResultInv
  <2>10. BitsNumbered'
    <3>1. \A s \in Marks(bitmap.data) \cup op.drawn : s < sold /\ s \in Nat
      <4>1. Marks(bitmap.data) \subseteq Nat /\ op.drawn \subseteq Nat
        <5>1. op \in Op /\ Marks(bitmap.data) \subseteq Seqs
          BY DEF LaunchInv, LaunchTyped, Marks
        <5>2. op.drawn \subseteq Seqs
          BY <5>1, OpFields
        <5>3. Seqs \subseteq Nat
          BY Constants DEF Seqs
        <5>. QED  BY <5>1, <5>2, <5>3
      <4>. QED  BY <4>1 DEF LaunchInv, BitsNumbered
    <3>2. \A s \in Marks(bitmap.data) \cup op.drawn : s < sold + 1
      BY <2>3, <3>1
    <3>3. bitmap' = bitmap /\ op' = op /\ sold' = sold + 1
      BY <2>1, <2>2
    <3>. QED  BY <3>2, <3>3 DEF BitsNumbered
  <2>11. LaunchTyped'
    BY <1>1, <2>1, <2>2, <2>3, <2>4 DEF LaunchInv, LaunchTyped
  <2>. QED  BY <2>1, <2>2, <2>5, <2>7, <2>8, <2>9, <2>10, <2>11 DEF LaunchInv
<1>. QED  BY <1>1, <1>3, <1>4

-----------------------------------------------------------------------------
(* Commands of the authority.                                               *)

\* A step of the authority's that makes a call about a ticket.
LEMMA ByOp ==
  ASSUME treasury' = treasury, LaunchInv, CallDone, RefundsRight, OpGoesOn, UNCHANGED opFrame
  PROVE  LaunchInv' /\ RefundsRight
<1>1. round' = round /\ result' = result /\ client' = client
  BY DEF opFrame
<1>2. client' \in [Buyers -> Client] /\ \A b \in Buyers : client'[b] = client[b]
  BY <1>1 DEF LaunchInv, LaunchTyped
<1>. QED  BY <1>1, <1>2, ByCall

\* The command that serves everyone, step by step.
LEMMA PunchAllStep ==
  ASSUME treasury' = treasury, LaunchInv, PunchAll
  PROVE  LaunchInv' /\ RefundsRight
<1>1. LaunchTyped /\ Offers /\ OpInv /\ TicketsNumbered
  BY DEF LaunchInv
<1>2. CASE StartPunchAll
  <2>1. UNCHANGED opFrame
    BY <1>2 DEF StartPunchAll
  <2>. QED  BY <1>1, <1>2, <2>1, StartPunchAllStep, ByOp
<1>3. CASE ReadTickets
  <2>1. UNCHANGED opFrame
    BY <1>3 DEF ReadTickets
  <2>. QED  BY <1>1, <1>3, <2>1, ReadTicketsStep, ByOp
<1>4. CASE ServeNft
  <2>1. UNCHANGED opFrame
    BY <1>4 DEF ServeNft, Tries
  <2>. QED  BY <1>1, <1>4, <2>1, ServeNftStep, ByOp
<1>5. CASE ServeRefund
  <2>1. UNCHANGED opFrame
    BY <1>5 DEF ServeRefund, Tries
  <2>. QED  BY <1>1, <1>5, <2>1, ServeRefundStep, ByOp
<1>6. CASE ServeAdjust
  <2>1. UNCHANGED opFrame
    BY <1>6 DEF ServeAdjust, Tries
  <2>. QED  BY <1>1, <1>6, <2>1, ServeAdjustStep, ByOp
<1>7. CASE ServePunch
  <2>1. UNCHANGED opFrame
    BY <1>7 DEF ServePunch, Tries
  <2>. QED  BY <1>1, <1>7, <2>1, ServePunchStep, ByOp
<1>. QED  BY <1>2, <1>3, <1>4, <1>5, <1>6, <1>7 DEF PunchAll

\* The authority starts to make the sequence accounts that are missing.
LEMMA CreateMissingSequencesStep ==
  ASSUME treasury' = treasury, LaunchInv, CreateMissingSequences
  PROVE  LaunchInv' /\ RefundsRight
<1>. DEFINE T == {b \in Buyers : ticket[b].state = "noseq"}
            j == [AtRest EXCEPT !.at = "missing", !.todo = T]
<1>1. op' = j /\ UNCHANGED opFrame /\ UNCHANGED program /\ faults' = faults /\ phase' = phase
  BY DEF CreateMissingSequences, Command, opFrame
<1>2. CallDone /\ RefundsRight
  BY <1>1, Unchanged DEF LaunchInv
<1>3. j \in Op /\ j.at = "missing" /\ j.todo = T /\ j.drawn = {}
  <2>1. AtRest \in Op /\ AtRest.drawn = {} /\ T \subseteq Buyers
    BY Resting
  <2>2. "missing" \in OpPlaces /\ T \in SUBSET (Buyers \cup Nat)
    BY DEF OpPlaces
  <2>. HIDE DEF T
  <2>. QED  BY <2>1, <2>2 DEF Op
<1>. HIDE DEF j
<1>4. "missing" \notin Drawing /\ "missing" \notin Serving
  BY DEF Drawing, Serving, Stages
<1>5. OpGoesOn
  BY <1>1, <1>3, <1>4 DEF OpInv, OpGoesOn
<1>. QED  BY <1>1, <1>2, <1>5, ByOp

\* The authority makes one of them.
LEMMA CreateMissingStep ==
  ASSUME treasury' = treasury, LaunchInv, CreateMissing
  PROVE  LaunchInv' /\ RefundsRight
<1>1. op.at = "missing" /\ UNCHANGED opFrame /\ phase' = phase /\ op \in Op /\ LaunchTyped
      /\ op.todo \subseteq Buyers
  BY DEF CreateMissing, opFrame, LaunchInv, LaunchTyped, OpInv
<1>2. CASE op.todo = {}
  <2>1. op' = AtRest /\ UNCHANGED program /\ faults' = faults
    BY <1>2 DEF CreateMissing
  <2>2. CallDone /\ RefundsRight
    BY <1>1, <2>1, Unchanged
  <2>. QED  BY <1>1, <2>1, <2>2, RestingStep, ByOp
<1>3. CASE op.todo # {}
  <2>. DEFINE b == CHOOSE c \in op.todo : \A d \in op.todo : ticket[c].seq <= ticket[d].seq
              j == [op EXCEPT !.todo = @ \ {b}]
  <2>1. b \in Buyers
    <3>. DEFINE f == [c \in op.todo |-> ticket[c].seq]
    <3>1. f \in [op.todo -> Nat]
      BY <1>1, TicketFields DEF LaunchTyped
    <3>2. \E c \in op.todo : \A d \in op.todo : f[c] <= f[d]
      <4>. HIDE DEF f
      <4>. QED  BY <1>3, <3>1, FirstIs
    <3>3. \E c \in op.todo : \A d \in op.todo : ticket[c].seq <= ticket[d].seq
      BY <3>2
    <3>. QED  BY <3>3, <1>1
  <2>2. /\ op' = j /\ faults' \in {faults, faults + 1}
        /\ (CanSequence(b) /\ SequenceEffect(b)) \/ UNCHANGED program
    BY <1>3 DEF CreateMissing, Call
  <2>. HIDE DEF b
  <2>3. CallDone /\ RefundsRight
    BY <1>1, <2>1, <2>2, Unchanged, Sequenced
  <2>4. j \in Op /\ j.at = "missing" /\ j.todo \subseteq Buyers /\ j.drawn = op.drawn
    BY <1>1 DEF Op
  <2>. HIDE DEF j
  <2>5. "missing" \notin Drawing /\ "missing" \notin Serving
    BY DEF Drawing, Serving, Stages
  <2>6. OpGoesOn
    BY <2>2, <2>4, <2>5 DEF OpInv, OpGoesOn
  <2>. QED  BY <1>1, <2>3, <2>6, ByOp
<1>. QED  BY <1>2, <1>3

\* What a step of the lottery leaves as it was.
LEMMA ByLottery ==
  ASSUME treasury' = treasury, LaunchInv, UNCHANGED <<phase, round, ticket, sold, supply, median, client>>,
         faults' \in {faults, faults + 1}, op' \in Op, op'.at \in {"idle"} \cup Drawing,
         bitmap' \in [exists : BOOLEAN, data : Data], \A s \in Marks(bitmap'.data) \cup op'.drawn : s < sold,
         result' \in [ok : BOOLEAN, round : Nat], DrawInv', ResultInv'
  PROVE  LaunchInv' /\ RefundsRight
<1>1. /\ LaunchTyped /\ TicketsNumbered /\ BitsNumbered /\ Offers /\ Clients /\ OpInv
      /\ MedianPaid(treasury, ticket, median, faults)
  BY DEF LaunchInv
<1>2. LaunchTyped'
  <2>1. faults' \in Nat
    BY <1>1 DEF LaunchTyped
  <2>. QED  BY <1>1, <2>1 DEF LaunchTyped
<1>3. TicketsNumbered' /\ BitsNumbered' /\ Offers' /\ Clients'
  BY <1>1 DEF TicketsNumbered, BitsNumbered, Offers, Clients
<1>4. op'.at \notin {"tickets", "served", "missing"} \cup Serving
  BY DEF Drawing, Serving, Stages
<1>5. OpInv'
  BY <1>4 DEF OpInv
<1>6. MedianPaid(treasury, ticket', median', faults')
  <2>1. faults \in Nat /\ MaxTries \in Nat
    BY <1>1, FaultsNat
  <2>2. faults' < MaxTries => faults < MaxTries
    BY <2>1
  <2>. QED  BY <1>1, <2>2 DEF MedianPaid
<1>7. RefundsRight
  BY DEF RefundsRight
<1>. QED  BY <1>2, <1>3, <1>5, <1>6, <1>7 DEF LaunchInv

\* What leaves the tickets and the bitmap alone leaves the outcome as it was.
LEMMA ResultSame ==
  ASSUME LaunchInv, UNCHANGED <<phase, round, ticket, sold, supply, median, result>>, bitmap'.data = bitmap.data
  PROVE  ResultInv'
BY DEF LaunchInv, ResultInv, ClosedIn

\* The types of what a lottery works on.
LEMMA BitsTyped ==
  ASSUME LaunchInv
  PROVE  /\ bitmap \in [exists : BOOLEAN, data : Data] /\ Marks(bitmap.data) \subseteq Seqs
         /\ bitmap.data \in Data
         /\ bitmap.exists \in BOOLEAN /\ result \in [ok : BOOLEAN, round : Nat] /\ op \in Op
         /\ sold \in Nat /\ median \in Prices \cup {0} /\ round \in Nat
         /\ \A s \in Marks(bitmap.data) : s < sold
         /\ \A s \in op.drawn : s < sold
         /\ op.drawn \subseteq Seqs
<1>1. op \in Op /\ bitmap \in [exists : BOOLEAN, data : Data]
  BY DEF LaunchInv, LaunchTyped
<1>2. op.drawn \subseteq Seqs
  BY <1>1, OpFields
<1>. QED  BY <1>1, <1>2 DEF LaunchInv, LaunchTyped, BitsNumbered, Marks

\* A lottery starts.
LEMMA StartLotteryStep ==
  ASSUME treasury' = treasury, LaunchInv, StartLottery
  PROVE  LaunchInv' /\ RefundsRight
<1>. DEFINE X == IF bitmap.exists THEN "read" ELSE "bitmap"
            j == [AtRest EXCEPT !.at = X, !.upTo = sold, !.median = median, !.round = round]
<1>1. op' = j /\ UNCHANGED <<opFrame, program, faults>>
  BY DEF StartLottery, Command
<1>2. X \in {"read", "bitmap"}
  OBVIOUS
<1>. HIDE DEF X
<1>3. j \in Op /\ j.at = X /\ j.upTo = sold /\ j.median = median /\ j.round = round /\ j.drawn = {}
  <2>1. AtRest \in Op /\ AtRest.drawn = {}
    BY Resting
  <2>2. X \in OpPlaces
    BY <1>2 DEF OpPlaces, Drawing
  <2>. QED  BY <2>1, <2>2, BitsTyped DEF Op
<1>. HIDE DEF j
<1>4. UNCHANGED <<phase, round, ticket, sold, supply, median, client, bitmap, result>> /\ faults' = faults
  BY <1>1 DEF opFrame, program
<1>5. op'.at \in {"idle"} \cup Drawing /\ op'.at \in {"read", "bitmap"}
  BY <1>1, <1>2, <1>3 DEF Drawing
<1>6. \A s \in Marks(bitmap'.data) \cup op'.drawn : s < sold
  BY <1>1, <1>3, <1>4, BitsTyped
<1>7. DrawInv'
  <2>1. round <= round
    BY BitsTyped
  <2>. QED  BY <1>1, <1>3, <1>4, <1>5, <2>1 DEF DrawInv
<1>8. ResultInv'
  BY <1>4, ResultSame
<1>. QED  BY <1>1, <1>3, <1>4, <1>5, <1>6, <1>7, <1>8, BitsTyped, ByLottery

\* A lottery makes the bitmap account.
LEMMA CreateBitmapStep ==
  ASSUME treasury' = treasury, LaunchInv, CreateBitmap
  PROVE  LaunchInv' /\ RefundsRight
<1>1. /\ op.at = "bitmap" /\ UNCHANGED <<opFrame>> /\ faults' \in {faults, faults + 1}
      /\ op' = [op EXCEPT !.at = "read"] \/ op' = AtRest
      /\ UNCHANGED <<ticket, sold, supply, median>>
      /\ bitmap' = [bitmap EXCEPT !.exists = TRUE] \/ bitmap' = bitmap
  BY DEF CreateBitmap, Call, program
<1>2. UNCHANGED <<phase, round, ticket, sold, supply, median, client, result>>
  BY <1>1 DEF opFrame
<1>3. bitmap' \in [exists : BOOLEAN, data : Data] /\ bitmap'.data = bitmap.data
  BY <1>1, BitsTyped
<1>4. ResultInv'
  BY <1>2, <1>3, ResultSame
<1>5. result' \in [ok : BOOLEAN, round : Nat]
  BY <1>2, BitsTyped
<1>6. CASE op' = AtRest
  <2>1. op' \in Op /\ op'.at = "idle" /\ op'.drawn = {} /\ op'.at \notin Drawing
    BY <1>6, Resting DEF Drawing
  <2>2. DrawInv'
    BY <2>1 DEF DrawInv, Drawing
  <2>3. \A s \in Marks(bitmap'.data) \cup op'.drawn : s < sold
    BY <1>3, <2>1, BitsTyped
  <2>. QED  BY <1>1, <1>2, <1>3, <1>4, <1>5, <2>1, <2>2, <2>3, ByLottery
<1>7. CASE op' = [op EXCEPT !.at = "read"]
  <2>1. "read" \in OpPlaces /\ "read" \in Drawing /\ op.at \in Drawing /\ op \in Op
    BY <1>1, BitsTyped DEF OpPlaces, Drawing
  <2>2. /\ op' \in Op /\ op'.at = "read" /\ op'.drawn = op.drawn /\ op'.round = op.round
        /\ op'.upTo = op.upTo /\ op'.median = op.median
    BY <1>7, <2>1 DEF Op
  <2>3. DrawInv'
    BY <1>2, <2>1, <2>2 DEF DrawInv, LaunchInv
  <2>4. \A s \in Marks(bitmap'.data) \cup op'.drawn : s < sold
    BY <1>3, <2>2, BitsTyped
  <2>. QED  BY <1>1, <1>2, <1>3, <1>4, <1>5, <2>1, <2>2, <2>3, <2>4, ByLottery
<1>. QED  BY <1>1, <1>6, <1>7

\* A lottery reads the tickets and draws.
LEMMA ReadAndDrawStep ==
  ASSUME treasury' = treasury, LaunchInv, ReadAndDraw
  PROVE  LaunchInv' /\ RefundsRight
<1>1. /\ op.at = "read" /\ op.at \in Drawing /\ UNCHANGED opFrame /\ UNCHANGED program /\ faults' = faults
  BY DEF ReadAndDraw, Drawing
<1>2. UNCHANGED <<phase, round, ticket, sold, supply, median, client, bitmap, result>>
  BY <1>1 DEF opFrame, program
<1>3. ResultInv'
  BY <1>2, ResultSame
<1>4. /\ LaunchTyped /\ TicketsNumbered /\ Offers /\ DrawInv /\ op \in Op /\ op.upTo \in Nat
      /\ op.median \in Nat /\ supply \in Nat /\ Tokens \in Nat
  <2>1. LaunchTyped /\ TicketsNumbered /\ Offers /\ DrawInv /\ op \in Op /\ supply \in Nat
    BY DEF LaunchInv, LaunchTyped
  <2>2. op.upTo \in Nat /\ op.median \in Prices \cup {0}
    BY <2>1, OpFields
  <2>3. op.median \in Nat
    BY <2>2, OfferNat
  <2>. QED  BY <2>1, <2>2, <2>3, Constants
<1>5. CASE ~AllSequenced(op.upTo)
  <2>1. op' = AtRest
    BY <1>5 DEF ReadAndDraw
  <2>2. op' \in Op /\ op'.at = "idle" /\ op'.drawn = {} /\ op'.at \notin Drawing
    BY <2>1, Resting DEF Drawing
  <2>3. DrawInv'
    BY <2>2 DEF DrawInv, Drawing
  <2>4. \A s \in Marks(bitmap'.data) \cup op'.drawn : s < sold
    BY <1>2, <2>2, BitsTyped
  <2>. QED  BY <1>1, <1>2, <1>3, <2>2, <2>3, <2>4, BitsTyped, ByLottery
<1>6. CASE AllSequenced(op.upTo)
  <2>1. PICK won \in Draws(Known(op.upTo), Eligible(op.upTo, op.median), Tokens - supply) :
                op' = [op EXCEPT !.at = IF op.upTo = 0 THEN "idle" ELSE "write",
                                 !.drawn = {ticket[b].seq : b \in won},
                                 !.todo = Chunks(op.upTo)]
    BY <1>6 DEF ReadAndDraw
  <2>. DEFINE X == IF op.upTo = 0 THEN "idle" ELSE "write"
              D == {ticket[b].seq : b \in won}
              T == Chunks(op.upTo)
  <2>2. /\ Known(op.upTo) \subseteq Sold(ticket) /\ Known(op.upTo) \subseteq Buyers
        /\ Eligible(op.upTo, op.median) \subseteq Known(op.upTo)
    BY <1>4, KnownAre
  <2>3. won \subseteq Known(op.upTo)
    BY <1>4, <2>1, <2>2, DrawsAre
  <2>4. D \subseteq Seqs /\ \A s \in D : s < sold
    <3>1. won \subseteq Sold(ticket)
      BY <2>2, <2>3
    <3>. QED  BY <1>4, <3>1, WinnersOf
  <2>6. T \subseteq Nat
    <3>1. \A x \in 0 .. (op.upTo - 1) : x \div ChunkSize \in Nat
      <4>. TAKE x \in 0 .. (op.upTo - 1)
      <4>1. x \in Nat /\ ChunkSize \in Nat \ {0}
        BY <1>4, ByteConstants
      <4>. QED  BY <4>1, Division
    <3>. QED  BY <3>1 DEF Chunks
  <2>7. X \in {"idle", "write"} /\ X \in OpPlaces
    BY DEF OpPlaces, Drawing
  <2>8. \A s \in 0 .. (op.upTo - 1) : s \div ChunkSize \in T
    BY DEF Chunks
  <2>9. /\ op' \in Op /\ op'.at = X /\ op'.drawn = D /\ op'.todo = T /\ op'.round = op.round
        /\ op'.upTo = op.upTo /\ op'.median = op.median /\ op'.failed = op.failed
    <3>1. op' = [op EXCEPT !.at = X, !.drawn = D, !.todo = T]
      BY <2>1
    <3>2. T \in SUBSET (Buyers \cup Nat)
      BY <2>6
    <3>. HIDE DEF X, D, T
    <3>. QED  BY <1>4, <2>4, <2>7, <3>1, <3>2 DEF Op
  <2>10. \A s \in Marks(bitmap'.data) \cup op'.drawn : s < sold
    <3>. HIDE DEF D
    <3>. QED  BY <1>2, <2>4, <2>9, BitsTyped
  <2>11. DrawInv'
    <3>1. op.round <= round /\ (phase = "three" => op.round = round)
      BY <1>1, <1>4 DEF DrawInv
    <3>2. ASSUME phase = "closed", op.round = round
          PROVE  op.upTo = sold /\ op.median = median /\ Written'
      <4>1. op.upTo = sold /\ op.median = median
        BY <1>1, <1>4, <3>2 DEF DrawInv
      <4>2. NoneLate(ticket)
        BY <1>4, <1>6, <4>1, AllSequencedIs
      <4>3. FairDraw(D, ticket, median, supply)
        BY <1>4, <1>6, <2>1, <3>2, <4>1, DrawFair
      <4>4. \A s \in 0 .. (sold - 1) : s \div ChunkSize \in T
        BY <2>8, <4>1
      <4>. HIDE DEF D, T
      <4>. QED  BY <1>2, <2>9, <4>1, <4>2, <4>3, <4>4 DEF Written
    <3>3. op'.todo \subseteq Chunks(op'.upTo)
      BY <2>9
    <3>. HIDE DEF X, T
    <3>. QED  BY <1>2, <2>7, <2>9, <3>1, <3>2, <3>3 DEF DrawInv
  <2>12. op'.at \in {"idle"} \cup Drawing
    BY <2>7, <2>9 DEF Drawing
  <2>. QED  BY <1>1, <1>2, <1>3, <2>9, <2>10, <2>11, <2>12, BitsTyped, ByLottery
<1>. QED  BY <1>5, <1>6

\* A lottery writes one chunk of the bitmap.
LEMMA UpdateBitmapStep ==
  ASSUME treasury' = treasury, LaunchInv, NEW chunk, UpdateBitmap(chunk)
  PROVE  LaunchInv' /\ RefundsRight
<1>. DEFINE rest == [op EXCEPT !.todo = @ \ {chunk}]
            lost == [rest EXCEPT !.failed = TRUE]
<1>1. /\ op.at = "write" /\ chunk \in op.todo /\ op.at \in Drawing
      /\ UNCHANGED <<phase, round, client>> /\ result' = [result EXCEPT !.ok = FALSE]
  BY DEF UpdateBitmap, Drawing
<1>2. /\ faults' \in {faults, faults + 1} /\ UNCHANGED <<ticket, sold, supply, median>>
      /\ \/ WriteBits(chunk) /\ op' \in {rest, lost}
         \/ bitmap' = bitmap /\ op' = lost
  BY DEF UpdateBitmap, Call, program
<1>3. op \in Op /\ LaunchTyped /\ DrawInv
  BY DEF LaunchInv, LaunchTyped
<1>4. /\ rest \in Op /\ rest.at = "write" /\ rest.todo = op.todo \ {chunk} /\ rest.drawn = op.drawn
      /\ rest.round = op.round /\ rest.upTo = op.upTo /\ rest.median = op.median /\ rest.failed = op.failed
  BY <1>1, <1>3 DEF Op
<1>. HIDE DEF rest
<1>5. /\ lost \in Op /\ lost.at = "write" /\ lost.todo = op.todo \ {chunk} /\ lost.drawn = op.drawn
      /\ lost.round = op.round /\ lost.upTo = op.upTo /\ lost.median = op.median /\ lost.failed = TRUE
  BY <1>4 DEF Op
<1>. HIDE DEF lost
<1>6. /\ op' \in Op /\ op'.at = "write" /\ op'.todo = op.todo \ {chunk} /\ op'.drawn = op.drawn
      /\ op'.round = op.round /\ op'.upTo = op.upTo /\ op'.median = op.median
      /\ op'.failed = op.failed \/ op'.failed = TRUE
  BY <1>2, <1>4, <1>5
<1>7. chunk \in Nat /\ op.upTo \in Nat /\ \A c \in op.todo : c \in Nat
  <2>1. op.todo \subseteq Chunks(op.upTo) /\ op.upTo \in Nat
    BY <1>1, <1>3, OpFields DEF DrawInv
  <2>2. \A x \in 0 .. (op.upTo - 1) : x \div ChunkSize \in Nat
    <3>. TAKE x \in 0 .. (op.upTo - 1)
    <3>1. x \in Nat /\ ChunkSize \in Nat \ {0}
      BY <2>1, ByteConstants
    <3>. QED  BY <3>1, Division
  <2>. QED  BY <1>1, <2>1, <2>2 DEF Chunks
<1>8. /\ bitmap' \in [exists : BOOLEAN, data : Data]
      /\ WriteBits(chunk) => \A s \in Seqs :
           /\ s < op.upTo /\ s \div ChunkSize = chunk => (s \in Marks(bitmap'.data) <=> s \in op.drawn)
           /\ s \div ChunkSize # chunk => (s \in Marks(bitmap'.data) <=> s \in Marks(bitmap.data))
      /\ Marks(bitmap'.data) \subseteq Marks(bitmap.data) \cup op.drawn
  <2>. DEFINE N == Overlaid(bitmap.data, chunk, op.upTo, op.drawn)
  <2>1. /\ N \in Data
        /\ \A s \in Seqs :
              /\ s < op.upTo /\ s \div ChunkSize = chunk => (s \in Marks(N) <=> s \in op.drawn)
              /\ s \div ChunkSize # chunk => (s \in Marks(N) <=> s \in Marks(bitmap.data))
              /\ s \in Marks(N) => s \in Marks(bitmap.data) \/ s \in op.drawn
    <3>. DEFINE d == bitmap.data
                n == op.upTo
                w == op.drawn
    <3>1. d \in Data /\ n \in Nat
      BY <1>7, BitsTyped
    <3>. HIDE DEF d, n, w
    <3>2. /\ Overlaid(d, chunk, n, w) \in Data
          /\ \A s \in Seqs :
               /\ s < n /\ s \div ChunkSize = chunk => (s \in Marks(Overlaid(d, chunk, n, w)) <=> s \in w)
               /\ s \div ChunkSize # chunk => (s \in Marks(Overlaid(d, chunk, n, w)) <=> s \in Marks(d))
               /\ s \in Marks(Overlaid(d, chunk, n, w)) => s \in Marks(d) \/ s \in w
      BY <1>7, <3>1, OverlaidIs
    <3>. QED  BY <3>2 DEF d, n, w
  <2>2. CASE WriteBits(chunk)
    <3>1. bitmap' = [bitmap EXCEPT !.data = N]
      BY <2>2 DEF WriteBits
    <3>. HIDE DEF N
    <3>2. bitmap' \in [exists : BOOLEAN, data : Data] /\ bitmap'.data = N
      BY <2>1, <3>1, BitsTyped
    <3>3. Marks(N) \subseteq Seqs
      BY DEF Marks
    <3>. QED  BY <2>1, <3>2, <3>3
  <2>3. CASE bitmap' = bitmap /\ ~WriteBits(chunk)
    BY <2>3, BitsTyped
  <2>. QED  BY <1>2, <2>2, <2>3
<1>9. \A s \in Marks(bitmap'.data) \cup op'.drawn : s < sold
  BY <1>6, <1>8, BitsTyped
<1>10. result' \in [ok : BOOLEAN, round : Nat] /\ ~result'.ok /\ result'.round = result.round
  BY <1>1, BitsTyped
<1>11. ResultInv'
  BY <1>1, <1>10 DEF ResultInv, LaunchInv
<1>12. ASSUME phase = "closed", op.round = round
       PROVE  Written'
  <2>1. Written
    BY <1>1, <1>3, <1>12 DEF DrawInv
  <2>2. ASSUME ~op'.failed, NEW s \in 0 .. (sold - 1), s \div ChunkSize \notin op'.todo
        PROVE  s \in Marks(bitmap'.data) <=> s \in op.drawn
    <3>1. WriteBits(chunk) /\ ~op.failed
      BY <1>2, <1>5, <1>6, <2>2
    <3>2. op.upTo = sold /\ sold \in Nat /\ sold = Cardinality(Sold(ticket))
      BY <1>1, <1>3, <1>12 DEF DrawInv, LaunchTyped, LaunchInv, TicketsNumbered
    <3>3. s \in Seqs /\ s < op.upTo
      <4>1. sold <= Cardinality(Buyers) /\ Cardinality(Buyers) \in Nat
        <5>1. Sold(ticket) \in SUBSET Buyers
          BY DEF Sold
        <5>. QED  BY <5>1, <3>2, BuyerSets, Constants, FS_Subset
      <4>. QED  BY <3>2, <4>1 DEF Seqs
    <3>4. CASE s \div ChunkSize = chunk
      BY <1>8, <3>1, <3>3, <3>4
    <3>5. CASE s \div ChunkSize # chunk
      <4>1. s \div ChunkSize \notin op.todo
        BY <1>6, <2>2, <3>5
      <4>2. s \in Marks(bitmap.data) <=> s \in op.drawn
        BY <2>1, <3>1, <4>1 DEF Written
      <4>. QED  BY <1>8, <3>1, <3>3, <3>5, <4>2
    <3>. QED  BY <3>4, <3>5
  <2>. QED  BY <1>2, <1>6, <2>1, <2>2 DEF Written
<1>13. DrawInv'
  <2>1. op'.todo \subseteq Chunks(op'.upTo)
    BY <1>1, <1>3, <1>6 DEF DrawInv
  <2>. QED  BY <1>1, <1>2, <1>3, <1>6, <1>12, <2>1 DEF DrawInv
<1>14. op'.at \in {"idle"} \cup Drawing
  BY <1>6 DEF Drawing
<1>. QED  BY <1>1, <1>2, <1>6, <1>8, <1>9, <1>10, <1>11, <1>13, <1>14, ByLottery

\* A lottery ends; its result is good when no update failed.
LEMMA EndLotteryStep ==
  ASSUME treasury' = treasury, LaunchInv, EndLottery
  PROVE  LaunchInv' /\ RefundsRight
<1>1. /\ op.at = "write" /\ op.todo = {} /\ op' = AtRest /\ op.at \in Drawing
      /\ UNCHANGED <<phase, round, client>> /\ UNCHANGED program /\ faults' = faults
  BY DEF EndLottery, Drawing
<1>2. UNCHANGED <<ticket, sold, supply, median, bitmap>>
  BY <1>1 DEF program
<1>3. LaunchTyped /\ DrawInv /\ ResultInv /\ op \in Op /\ op.failed \in BOOLEAN /\ op.round \in Nat
  BY OpFields DEF LaunchInv, LaunchTyped
<1>4. result' \in [ok : BOOLEAN, round : Nat] /\ result'.ok = ~op.failed /\ result'.round = op.round
  <2>. DEFINE f == op.failed
              n == ~f
  <2>1. result' = [ok |-> n, round |-> op.round] /\ n \in BOOLEAN
    BY DEF EndLottery
  <2>. HIDE DEF n
  <2>2. result' \in [ok : BOOLEAN, round : Nat] /\ result'.ok = n /\ result'.round = op.round
    BY <1>3, <2>1
  <2>. QED  BY <2>2 DEF n
<1>5. op' \in Op /\ op'.at = "idle" /\ op'.drawn = {} /\ op'.at \notin Drawing
  BY <1>1, Resting DEF Drawing
<1>6. DrawInv'
  BY <1>5 DEF DrawInv, Drawing
<1>7. op.round <= round /\ (phase = "three" => op.round = round)
  BY <1>1, <1>3 DEF DrawInv
<1>8. ASSUME phase # "sale", ~op.failed, op.round = ClosedIn
      PROVE  NoneLate(ticket) /\ FairDraw(Marks(bitmap.data), ticket, median, supply)
  <2>1. phase = "closed" /\ op.round = round
    <3>1. round \in Nat /\ round # round - 1
      BY <1>3 DEF LaunchTyped
    <3>2. phase \in {"sale", "closed", "three"}
      BY <1>3 DEF LaunchTyped
    <3>. QED  BY <1>7, <1>8, <3>1, <3>2 DEF ClosedIn
  <2>2. Written
    BY <1>1, <1>3, <2>1 DEF DrawInv
  <2>3. \A s \in 0 .. (sold - 1) : s \in Marks(bitmap.data) <=> s \in op.drawn
    BY <1>1, <1>8, <2>2 DEF Written
  <2>4. \A s \in Marks(bitmap.data) \cup op.drawn : s \in 0 .. (sold - 1)
    <3>. SUFFICES ASSUME NEW s \in Marks(bitmap.data) \cup op.drawn PROVE s \in 0 .. (sold - 1)
      OBVIOUS
    <3>1. s \in Seqs /\ s < sold /\ sold \in Nat
      BY BitsTyped
    <3>2. s \in Nat
      BY <3>1, Constants DEF Seqs
    <3>. QED  BY <3>1, <3>2
  <2>5. Marks(bitmap.data) = op.drawn
    BY <2>3, <2>4
  <2>. QED  BY <2>2, <2>5 DEF Written
<1>9. ResultInv'
  <2>1. ClosedIn' = ClosedIn
    BY <1>1 DEF ClosedIn
  <2>. QED  BY <1>1, <1>2, <1>4, <1>7, <1>8, <2>1 DEF ResultInv
<1>10. \A s \in Marks(bitmap'.data) \cup op'.drawn : s < sold
  BY <1>2, <1>5, BitsTyped
<1>11. bitmap' \in [exists : BOOLEAN, data : Data]
  BY <1>2, BitsTyped
<1>. QED  BY <1>1, <1>2, <1>4, <1>5, <1>6, <1>9, <1>10, <1>11, ByLottery

\* A lottery, step by step.
LEMMA LotteryStep == ASSUME treasury' = treasury, LaunchInv, Lottery PROVE LaunchInv' /\ RefundsRight
<1>1. CASE StartLottery
  BY <1>1, StartLotteryStep
<1>2. CASE CreateBitmap
  BY <1>2, CreateBitmapStep
<1>3. CASE ReadAndDraw
  BY <1>3, ReadAndDrawStep
<1>4. ASSUME NEW chunk \in op.todo, UpdateBitmap(chunk)
      PROVE  LaunchInv' /\ RefundsRight
  BY <1>4, UpdateBitmapStep
<1>5. CASE EndLottery
  BY <1>5, EndLotteryStep
<1>. QED  BY <1>1, <1>2, <1>3, <1>4, <1>5 DEF Lottery

\* The authority's command rests, and the phase changes: the tickets are as they were.
LEMMA ByPhase ==
  ASSUME treasury' = treasury, LaunchInv, UNCHANGED <<ticket, sold, median, bitmap, client, faults>>,
         phase' \in {"sale", "closed", "three"}, phase = "three" => phase' = "three",
         phase' # "three" => supply' <= Tokens,
         round' \in Nat, supply' \in Nat, op' = AtRest \/ (op' = op /\ phase # "three"),
         result' \in [ok : BOOLEAN, round : Nat], DrawInv', ResultInv'
  PROVE  LaunchInv' /\ RefundsRight
<1>1. /\ LaunchTyped /\ TicketsNumbered /\ BitsNumbered /\ Offers /\ Clients /\ OpInv
      /\ MedianPaid(treasury, ticket, median, faults)
  BY DEF LaunchInv
<1>2. op' \in Op /\ op'.drawn \subseteq op.drawn
  BY <1>1, Resting DEF LaunchTyped
<1>3. LaunchTyped'
  BY <1>1, <1>2 DEF LaunchTyped
<1>4. TicketsNumbered' /\ BitsNumbered'
  BY <1>1, <1>2 DEF TicketsNumbered, BitsNumbered
<1>5. Offers'
  BY <1>1 DEF Offers
<1>6. Clients'
  BY <1>1 DEF Clients, ClientOK
<1>7. OpInv'
  <2>1. CASE op' = AtRest
    BY <2>1, RestingStep DEF OpGoesOn
  <2>2. CASE op' = op /\ phase # "three"
    <3>1. op.at \notin {"tickets", "served"} \cup Serving
      BY <1>1, <2>2 DEF OpInv
    <3>2. op.at = "missing" => op.todo \subseteq Buyers
      BY <1>1 DEF OpInv
    <3>. QED  BY <2>2, <3>1, <3>2 DEF OpInv
  <2>. QED  BY <2>1, <2>2
<1>8. MedianPaid(treasury, ticket', median', faults')
  BY <1>1
<1>9. RefundsRight
  BY DEF RefundsRight
<1>. QED  BY <1>3, <1>4, <1>5, <1>6, <1>7, <1>8, <1>9 DEF LaunchInv

\* No command, no draw under way.
LEMMA NoDraw ==
  ASSUME op' = AtRest
  PROVE  DrawInv'
<1>1. op'.at \notin Drawing
  BY Resting DEF Drawing
<1>. QED  BY <1>1 DEF DrawInv, Drawing

\* What a change of the phase relies on.
LEMMA PhaseFacts ==
  ASSUME LaunchInv
  PROVE  /\ phase \in {"sale", "closed", "three"} /\ round \in Nat /\ round + 1 \in Nat /\ supply \in Nat
         /\ result \in [ok : BOOLEAN, round : Nat] /\ result.round \in Nat /\ result.round <= round
         /\ phase # "three" => supply <= Tokens
BY DEF LaunchInv, LaunchTyped, ResultInv, Offers

\* A round begins in which nothing has been drawn.
LEMMA EndSaleStep ==
  ASSUME treasury' = treasury, LaunchInv, EndSale
  PROVE  LaunchInv' /\ op' = op
<1>1. /\ phase = "sale" /\ phase' = "closed" /\ round' = round + 1
      /\ UNCHANGED <<ticket, sold, supply, median, bitmap, client, op, faults, result>>
  BY DEF EndSale, program
<1>2. op.at \in Drawing => op.round <= round /\ op.round \in Nat
  <2>1. op \in Op
    BY DEF LaunchInv, LaunchTyped
  <2>. QED  BY <2>1, OpFields DEF LaunchInv, DrawInv
<1>3. DrawInv'
  <2>1. op.at \in Drawing => op.round <= round + 1 /\ op.round # round + 1
    BY <1>2, PhaseFacts
  <2>2. op.at = "write" => op.at \in Drawing /\ op.todo \subseteq Chunks(op.upTo)
    BY DEF Drawing, LaunchInv, DrawInv
  <2>. QED  BY <1>1, <2>1, <2>2 DEF DrawInv
<1>4. ResultInv'
  <2>1. result.round <= round + 1 /\ result.round # round + 1
    BY PhaseFacts
  <2>. QED  BY <1>1, <2>1 DEF ResultInv, ClosedIn
<1>. QED  BY <1>1, <1>3, <1>4, PhaseFacts, ByPhase

\* The draw made while the sale was closed is the one of phase three.
LEMMA StartPhaseThreeStep ==
  ASSUME treasury' = treasury, LaunchInv, StartPhaseThree
  PROVE  LaunchInv' /\ RefundsRight
<1>1. /\ phase = "closed" /\ phase' = "three" /\ round' = round + 1 /\ op' = AtRest
      /\ UNCHANGED <<ticket, sold, supply, median, bitmap, client, faults, result>>
  BY DEF StartPhaseThree, Command, program
<1>2. DrawInv'
  BY <1>1, NoDraw
<1>3. ResultInv'
  <2>1. result.round <= round + 1 /\ round + 1 - 1 = round
    BY PhaseFacts
  <2>2. result.ok /\ result.round = round => NoneLate(ticket) /\ FairDraw(Marks(bitmap.data), ticket, median, supply)
    BY <1>1 DEF LaunchInv, ResultInv, ClosedIn
  <2>3. phase' # "closed" /\ round' - 1 = round
    <3>1. phase' # "closed"
      BY <1>1
    <3>2. round' - 1 = round
      BY <1>1, PhaseFacts
    <3>. QED  BY <3>1, <3>2
  <2>4. ClosedIn' = round
    BY <2>3 DEF ClosedIn
  <2>5. result'.round <= round'
    BY <1>1, <2>1
  <2>6. (result'.ok /\ phase' # "sale" /\ result'.round = ClosedIn') =>
          (NoneLate(ticket) /\ FairDraw(Marks(bitmap.data), ticket, median, supply))'
    <3>1. (result'.ok /\ result'.round = ClosedIn') => (result.ok /\ result.round = round)
      BY <1>1, <2>4
    <3>2. (result'.ok /\ result'.round = ClosedIn') => NoneLate(ticket) /\ FairDraw(Marks(bitmap.data), ticket, median, supply)
      BY <2>2, <3>1
    <3>. QED  BY <1>1, <3>2
  <2>. QED  BY <2>5, <2>6 DEF ResultInv
<1>. QED  BY <1>1, <1>2, <1>3, PhaseFacts, ByPhase

\* A sale that opens again leaves no draw that counts.
LEMMA RestartPhaseTwoStep ==
  ASSUME treasury' = treasury, LaunchInv, RestartPhaseTwo
  PROVE  LaunchInv' /\ RefundsRight
<1>1. /\ phase = "closed" /\ phase' = "sale" /\ round' = round + 1 /\ op' = AtRest
      /\ UNCHANGED <<ticket, sold, supply, median, bitmap, client, faults, result>>
  BY DEF RestartPhaseTwo, Command, program
<1>2. DrawInv'
  BY <1>1, NoDraw
<1>3. ResultInv'
  <2>1. result.round <= round + 1
    BY PhaseFacts
  <2>. QED  BY <1>1, <2>1 DEF ResultInv
<1>. QED  BY <1>1, <1>2, <1>3, PhaseFacts, ByPhase

\* The authority mints a token itself: the draw counts no longer.
LEMMA MintTokensStep ==
  ASSUME treasury' = treasury, LaunchInv, MintTokens
  PROVE  LaunchInv' /\ RefundsRight
<1>1. /\ supply < Tokens /\ supply' = supply + 1 /\ op' = AtRest
      /\ UNCHANGED <<phase, round, ticket, sold, median, bitmap, client, faults>>
      /\ result' = [result EXCEPT !.ok = FALSE]
  BY DEF MintTokens, Command
<1>2. DrawInv'
  BY <1>1, NoDraw
<1>3. result' \in [ok : BOOLEAN, round : Nat] /\ ~result'.ok /\ result'.round = result.round
  BY <1>1, PhaseFacts
<1>4. ResultInv'
  BY <1>1, <1>3, PhaseFacts DEF ResultInv
<1>5. supply' \in Nat /\ supply' <= Tokens
  BY <1>1, PhaseFacts, Constants
<1>. QED  BY <1>1, <1>2, <1>3, <1>4, <1>5, PhaseFacts, ByPhase

-----------------------------------------------------------------------------
(* The theorems.                                                            *)

LEMMA InitLaunch == Init => LaunchInv
<1>. SUFFICES ASSUME Init PROVE LaunchInv
  OBVIOUS
<1>1. /\ phase = "sale" /\ round = 0 /\ ticket = [b \in Buyers |-> NoTicket]
      /\ sold = 0 /\ supply = 0 /\ median = 0
      /\ bitmap = [exists |-> FALSE, data |-> Blank] /\ client = [b \in Buyers |-> Idle] /\ op = AtRest
      /\ faults = 0 /\ result = [ok |-> FALSE, round |-> 0]
  BY DEF Init
<1>2. \A b \in Buyers : ticket[b] = NoTicket /\ ticket[b].state = "none" /\ client[b] = Idle
  BY <1>1 DEF NoTicket
<1>3. op \in Op /\ op.at = "idle" /\ op.drawn = {}
  BY <1>1, Resting
<1>4. LaunchTyped
  <2>1. ticket \in [Buyers -> Ticket] /\ client \in [Buyers -> Client]
    BY <1>1, IdleTyped, NoTicketTyped
  <2>2. treasury \in {"SOL", "tokens"}
    BY DEF Init
  <2>. QED  BY <1>1, <1>3, <2>1, <2>2, BlankIs DEF LaunchTyped
<1>5. TicketsNumbered
  <2>1. Sold(ticket) = {}
    BY <1>2 DEF Sold
  <2>2. Cardinality(Sold(ticket)) = 0
    BY <2>1, FS_EmptySet
  <2>. QED  BY <1>1, <1>2, <2>2 DEF TicketsNumbered
<1>6. BitsNumbered
  BY <1>1, <1>3, BlankIs DEF BitsNumbered
<1>7. Offers
  BY <1>1, <1>2, Constants DEF Offers, Live
<1>8. Clients
  <2>1. Idle.at = "idle"
    BY DEF Idle
  <2>. QED  BY <1>2, <2>1 DEF Clients, ClientOK
<1>9. OpInv
  <2>1. op.at \notin {"tickets", "served", "missing"} \cup Serving
    BY <1>3 DEF Serving, Stages
  <2>. QED  BY <2>1 DEF OpInv
<1>10. MedianPaid(treasury, ticket, median, faults)
  BY <1>2 DEF MedianPaid
<1>11. DrawInv /\ ResultInv
  <2>1. op.at \notin Drawing /\ op.at # "write"
    BY <1>3 DEF Drawing
  <2>. QED  BY <1>1, <2>1 DEF DrawInv, ResultInv
<1>. QED  BY <1>4, <1>5, <1>6, <1>7, <1>8, <1>9, <1>10, <1>11 DEF LaunchInv

RefundsOfStep ==
  \A b \in Buyers :
    op # op' /\ ticket[b].state = "unpunched" /\ ticket'[b].state = "withdrawn" =>
      ticket[b].amount < median \/ ~Marked(b)

\* Every step keeps the inductive invariant and refunds no winner for the authority.
LEMMA LaunchNext == LaunchInv /\ [Next]_vars => LaunchInv' /\ RefundsOfStep
<1>. SUFFICES ASSUME LaunchInv, [Next]_vars PROVE LaunchInv' /\ RefundsOfStep
  OBVIOUS
<1>0. treasury' = treasury
  BY DEF Next, vars
<1>1. CASE LaunchInv' /\ op' = op
  BY <1>1 DEF RefundsOfStep
<1>2. CASE LaunchInv' /\ RefundsRight
  BY <1>2 DEF RefundsOfStep, RefundsRight
<1>3. CASE EndSale
  BY <1>0, <1>3, <1>1, EndSaleStep
<1>4. ASSUME NEW b \in Buyers, NEW p \in Prices, PurchaseTicket(b, p)
      PROVE  LaunchInv' /\ op' = op
  BY <1>0, <1>4, PurchaseTicketStep
<1>5. ASSUME NEW b \in Buyers, NEW amount \in Prices \cup {0}, AdjustTicket(b, amount)
      PROVE  LaunchInv' /\ op' = op
  BY <1>0, <1>5, AdjustTicketStep
<1>6. ASSUME NEW b \in Buyers,
             \/ PollTicket(b) \/ CreateTicketSeq(b) \/ PunchTicket(b)
             \/ PunchAdjust(b) \/ PunchNft(b) \/ PunchPunch(b)
      PROVE  LaunchInv' /\ op' = op
  BY <1>0, <1>6, PollTicketStep, CreateTicketSeqStep, PunchTicketStep, PunchAdjustStep, PunchNftStep, PunchPunchStep
<1>7. CASE Lottery
  BY <1>0, <1>7, <1>2, LotteryStep
<1>8. CASE CreateMissingSequences \/ CreateMissing
  BY <1>0, <1>8, <1>2, CreateMissingSequencesStep, CreateMissingStep
<1>9. CASE StartPhaseThree \/ RestartPhaseTwo \/ MintTokens
  BY <1>0, <1>9, <1>2, StartPhaseThreeStep, RestartPhaseTwoStep, MintTokensStep
<1>10. CASE PunchAll
  BY <1>0, <1>10, <1>2, PunchAllStep
<1>11. CASE UNCHANGED vars
  <2>1. UNCHANGED <<phase, round, ticket, sold, supply, median, bitmap, client, op, faults, result>>
    BY <1>11 DEF vars, program
  <2>2. LaunchInv'
    BY <1>0, <2>1 DEF LaunchInv, LaunchTyped, TicketsNumbered, BitsNumbered, Offers, Clients, OpInv,
         DrawInv, Written, ResultInv, ClosedIn
  <2>. QED  BY <2>1, <2>2, <1>1
<1>12. CASE Next
  BY <1>0, <1>1, <1>3, <1>4, <1>5, <1>6, <1>7, <1>8, <1>9, <1>10, <1>12 DEF Next, Steps
<1>. QED  BY <1>0, <1>11, <1>12

\* The inductive invariant holds in every run of the tool.
THEOREM LaunchInvariance == Spec => []LaunchInv
<1>1. LaunchInv /\ [Next]_vars => LaunchInv'
  BY LaunchNext
<1>. QED  BY InitLaunch, <1>1, PTL DEF Spec

\* A lottery whose updates were all answered, read in the period in which it was written,
\* has a fair outcome in phase three, while tickets are adjusted, punched and refunded
\* (create_fair_launch_lottery and what follows it).
THEOREM FairOutcomeAlways == Spec => []FairOutcome
<1>1. ASSUME LaunchInv PROVE TypeOK
  <2>1. LaunchTyped /\ TicketsNumbered
    BY <1>1 DEF LaunchInv
  <2>2. sold \in 0 .. Cardinality(Buyers)
    <3>1. Sold(ticket) \in SUBSET Buyers
      BY DEF Sold
    <3>2. Cardinality(Sold(ticket)) <= Cardinality(Buyers) /\ Cardinality(Sold(ticket)) \in Nat
      BY <3>1, BuyerSets, Constants, FS_Subset
    <3>. QED  BY <2>1, <3>2, Constants DEF TicketsNumbered
  <2>3. \A b \in Buyers : /\ client[b].at \in {"idle", "poll", "seq", "adjust", "nft", "punch"}
                          /\ client[b].tries \in 0 .. (MaxTries - 1)
    <3>1. \A b \in Buyers : client[b] \in Client
      BY <2>1 DEF LaunchTyped
    <3>. QED  BY <3>1 DEF Client
  <2>4. op.at \in OpPlaces /\ op.tries \in 0 .. (MaxTries - 1)
    BY <2>1, OpFields DEF LaunchTyped
  <2>5. op.at \in {"idle", "bitmap", "read", "write", "missing", "tickets",
                  "nft", "refund", "adjust", "punch", "served"}
    BY <2>4 DEF OpPlaces, Drawing, Serving, Stages
  <2>. QED  BY <2>1, <2>2, <2>3, <2>4, <2>5 DEF TypeOK, LaunchTyped, Ticket, Data
<1>2. ASSUME LaunchInv PROVE LotteryFair
  <2>. SUFFICES ASSUME phase = "three", result.ok, result.round = round - 1
                PROVE  /\ \/ supply + Cardinality(OpenWinners) <= Tokens
                          \/ {b \in Buyers : Marked(b)} \subseteq Whitelist
                       /\ \A b \in OpenWinners : ticket[b].amount >= median
                       /\ (\E b \in Buyers : ticket[b].state = "unpunched" /\ ticket[b].amount >= median /\ ~Marked(b))
                          => supply + Cardinality({b \in Buyers : Marked(b) /\ ticket[b].state # "punched"}) >= Tokens
    BY DEF LotteryFair
  <2>. DEFINE s == Marks(bitmap.data)
  <2>1. FairDraw(s, ticket, median, supply)
    BY <1>2 DEF LaunchInv, ResultInv, ClosedIn
  <2>2. OpenWinners = Hoping(s, ticket)
    BY DEF OpenWinners, Hoping, Winning, Marked
  <2>3. {b \in Buyers : Marked(b)} = Winning(s, ticket)
    BY DEF Winning, Marked
  <2>4. {b \in Buyers : Marked(b) /\ ticket[b].state # "punched"} = Unpaid(s, ticket)
    BY DEF Unpaid, Winning, Marked
  <2>5. \A b \in Buyers : ticket[b].state = "unpunched" /\ ticket[b].amount >= median /\ ~Marked(b)
                          => Lost(s, ticket, median, b)
    BY DEF Lost, Marked
  <2>. HIDE DEF s
  <2>. QED  BY <2>1, <2>2, <2>3, <2>4, <2>5 DEF FairDraw
<1>3. LaunchInv => FairOutcome
  BY <1>1, <1>2 DEF FairOutcome
<1>. QED  BY LaunchInvariance, <1>3, PTL

\* When punch_and_refund_all_outstanding has come to its end no ticket is outstanding,
\* unless as many calls were lost as a loop has tries.
THEOREM AllServedAlways == Spec => []AllServed
<1>1. LaunchInv => AllServed
  <2>. SUFFICES ASSUME LaunchInv, op.at = "served", faults < MaxTries, NEW b \in Buyers,
                       ticket[b].state = "unpunched"
                PROVE  FALSE
    BY DEF AllServed
  <2>1. faults >= MaxTries
    BY DEF LaunchInv, OpInv, Settled
  <2>2. faults \in Nat /\ MaxTries \in Nat
    BY FaultsNat DEF LaunchInv
  <2>. QED  BY <2>1, <2>2
<1>. QED  BY LaunchInvariance, <1>1, PTL

\* Whoever got a token has paid the median, with the same proviso (punch_ticket and
\* punch_and_refund_all_outstanding, one against the other).
THEOREM PaysMedianAlways == Spec => []PaysMedian
<1>1. LaunchInv => PaysMedian
  BY DEF LaunchInv, MedianPaid, PaysMedian
<1>. QED  BY LaunchInvariance, <1>1, PTL

\* The authority gives no winner's money back.
THEOREM RefundsLosersOnlyAlways == Spec => RefundsLosersOnly
<1>1. LaunchInv /\ [Next]_vars => RefundsOfStep
  BY LaunchNext
<1>2. RefundsOfStep <=>
        (\A b \in Buyers :
            op # op' /\ ticket[b].state = "unpunched" /\ ticket'[b].state = "withdrawn" =>
                ticket[b].amount < median \/ ~Marked(b))
  BY DEF RefundsOfStep
<1>. QED  BY LaunchInvariance, <1>1, <1>2, PTL DEF Spec, RefundsLosersOnly
=============================================================================
