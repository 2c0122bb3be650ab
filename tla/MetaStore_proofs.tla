-------------------------- MODULE MetaStore_proofs --------------------------
(***************************************************************************)
(* What is proved of the two stores behind the pages of the storefront.    *)
(*                                                                         *)
(* The meta store, for every index, every number of loads, of changes of   *)
(* the connection and of failures: PagesInOrder and ShownKept.             *)
(*                                                                         *)
(* The flag window.loadingData orders only the updates of the first phase  *)
(* of the page's life: one update holds it from the moment the address of  *)
(* the store is known until the store is read, and no page can start a     *)
(* load meanwhile because isLoading is set with it.  From then on every    *)
(* state object has a store and nobody sets the flag.  Pages come in order *)
(* for another reason: as long as no copy is made, all updates change the  *)
(* same object, whose pages make an initial segment of the index, and      *)
(* lastLength lags behind its length but never behind the page number.     *)
(*                                                                         *)
(* The account cache, for any number of wallets, accounts, changes of the  *)
(* chain and moves of the user: the invariant falls into four parts, each  *)
(* inductive together with the types.                                      *)
(***************************************************************************)
EXTENDS MetaStore, AccountCache, FiniteSetTheorems, TLAPS

-----------------------------------------------------------------------------
(* The inductive invariant.                                                 *)

\* What a map of auctions may hold.
Universe == Everything \cup UNION {AuctionsOf(p) : p \in 0..(NumPages - 1)}

Object == [family : Nat, pages : SUBSET Pages, store : BOOLEAN]
Load == [kind : Kinds \cup {"update"}, page : Nat, base : Nat, holds : BOOLEAN,
         at : {"index", "content", "all", "read", "mints"}, snap : SUBSET Universe]
Queued == [page : Nat, base : Nat]

\* Where a load of each kind may be.
WellPlaced(t) ==
  /\ t.base \in DOMAIN heap
  /\ t.at \in (IF t.kind = "update" THEN {"index", "content", "all"}
               ELSE {"read", "mints"} \cup (IF t.kind = "site" THEN {"all"} ELSE {}))
  /\ t.at = "content" => t.page \in Pages

Ui == [loadingData : BOOLEAN, isLoading : BOOLEAN, loadingMetadata : BOOLEAN,
       requests : Int, tasks : Seq(Load), queued : Seq(Queued)]

Seen == [read : SUBSET Nat, replaced : BOOLEAN, anew : BOOLEAN, failed : BOOLEAN,
         pulls : Nat, reruns : Nat, faults : Nat]

\* Every object has its metadata.
KnownTyped == known \in Seq(SUBSET Universe) /\ Len(known) = Len(heap)

MetaTyped ==
  /\ heap \in Seq(Object) /\ maps \in Seq(SUBSET Universe) /\ KnownTyped
  /\ current \in DOMAIN heap /\ page \in Nat /\ lastLength \in 0..NumPages
  /\ size \in {0, NumPages} /\ ready \in BOOLEAN
  /\ ui \in Ui
  /\ seen \in Seen
  /\ \A o \in DOMAIN heap : heap[o].family \in DOMAIN maps
  /\ \A i \in DOMAIN ui.tasks : WellPlaced(Task(i))
  /\ \A i \in DOMAIN ui.queued : ui.queued[i].base \in DOMAIN heap

\* Copies share their maps; only loading everything anew makes others.
OneFamily == seen.anew \/ \A o \in DOMAIN heap : heap[o].family = 1

\* How far the index has been read.
Depth == Cardinality(heap[1].pages)

\* All objects have read the same pages, those before Depth, and nobody asks for
\* one further than the next; a copy is only there when all have been read.
Together ==
  /\ page <= lastLength /\ lastLength <= Depth
  /\ \A o \in DOMAIN heap : heap[o].pages = 0..(Depth - 1)
  /\ Len(heap) > 1 => Depth = size
  /\ 0..(Depth - 1) \subseteq seen.read
  /\ \A i \in DOMAIN ui.tasks : Task(i).kind = "update" => Task(i).page <= Depth
  /\ \A i \in DOMAIN ui.queued : ui.queued[i].page <= Depth

\* So it is as long as no copy was made during paging.
InStep == seen.replaced \/ seen.anew \/ Together

Alone == Len(heap) = 1 /\ page = 0
UserLoad(t) == t.kind = "user" /\ ~t.holds

\* Before the address of the store is known only the user's accounts are read.
Before ==
  /\ Alone /\ ~ready /\ ~ui.loadingData /\ DOMAIN ui.queued = {} /\ ~heap[1].store
  /\ maps[heap[1].family] = {}
  /\ \A i \in DOMAIN ui.tasks : UserLoad(Task(i))

\* The first update, which reads the store, or everything if there is no index.
FirstUpdate(t) ==
  t.kind = "update" /\ t.page = 0 /\ t.holds /\ (t.at = "all" => size = 0)

\* The first update runs, and no load but the user's beside it.
First ==
  /\ Alone /\ ready /\ ui.loadingData /\ ui.isLoading
  /\ \E h \in DOMAIN ui.tasks :
       /\ FirstUpdate(Task(h))
       /\ \A i \in DOMAIN ui.tasks \ {h} : UserLoad(Task(i))

\* Afterwards every state object has a store, and nobody sets the flag.
After ==
  /\ ~ui.loadingData
  /\ \A i \in DOMAIN ui.tasks : ~Task(i).holds
  /\ \A o \in DOMAIN heap : heap[o].store

Phases == seen.failed \/ (size = 0 /\ seen.anew) \/ Before \/ First \/ After

MetaInv == MetaTyped /\ OneFamily /\ InStep /\ Phases

-----------------------------------------------------------------------------
(* The model's operators.                                                   *)

\* What is left of a sequence without one of its elements.
LEMMA RemoveIs ==
  ASSUME NEW S, NEW s \in Seq(S), NEW i \in DOMAIN s
  PROVE  /\ RemoveAt(s, i) \in Seq(S) /\ Len(RemoveAt(s, i)) = Len(s) - 1
         /\ \A j \in 1..(Len(s) - 1) :
              RemoveAt(s, i)[j] = IF j < i THEN s[j] ELSE s[j + 1]
<1>. DEFINE a == SubSeq(s, 1, i - 1)
             b == SubSeq(s, i + 1, Len(s))
<1>1. i \in 1..Len(s) /\ Len(s) \in Nat
  OBVIOUS
<1>2. a \in Seq(S) /\ Len(a) = i - 1 /\ \A j \in 1..(i - 1) : a[j] = s[j]
  BY <1>1
<1>3. b \in Seq(S) /\ Len(b) = Len(s) - i /\ \A j \in 1..(Len(s) - i) : b[j] = s[i + j]
  BY <1>1
<1>4. RemoveAt(s, i) = a \o b
  BY DEF RemoveAt
<1>. HIDE DEF a, b
<1>5. RemoveAt(s, i) \in Seq(S) /\ Len(RemoveAt(s, i)) = Len(s) - 1
  BY <1>1, <1>2, <1>3, <1>4
<1>6. ASSUME NEW j \in 1..(Len(s) - 1)
      PROVE  RemoveAt(s, i)[j] = IF j < i THEN s[j] ELSE s[j + 1]
  <2>1. CASE j < i
    BY <1>1, <1>2, <1>3, <1>4, <2>1
  <2>2. CASE j >= i
    <3>1. (a \o b)[j] = b[j - (i - 1)] /\ j - (i - 1) \in 1..(Len(s) - i)
      BY <1>1, <1>2, <1>3, <2>2
    <3>2. b[j - (i - 1)] = s[i + (j - (i - 1))] /\ i + (j - (i - 1)) = j + 1
      BY <1>1, <1>3, <3>1
    <3>. QED  BY <1>1, <1>4, <2>2, <3>1, <3>2
  <2>. QED  BY <1>1, <2>1, <2>2
<1>. QED  BY <1>5, <1>6

\* The pages of an index are finitely many.
LEMMA PagesCounted ==
  ASSUME size \in {0, NumPages}
  PROVE  /\ size \in Nat /\ NumPages \in Nat /\ size <= NumPages
         /\ \A P \in SUBSET Pages : Cardinality(P) \in 0..size
<1>1. NumPages \in Nat /\ size \in Nat /\ size <= NumPages
  BY MetaAssumption DEF NumPages
<1>2. IsFiniteSet(Pages) /\ Cardinality(Pages) = size
  BY <1>1, FS_Interval DEF Pages
<1>. QED  BY <1>1, <1>2, FS_Subset, FS_CardinalityType

\* An initial segment of the index is as long as its last page says.
LEMMA SegmentLength ==
  ASSUME NEW n \in Nat
  PROVE  Cardinality(0..(n - 1)) = n
BY FS_Interval

\* What a load of a page shows is in the universe, and so is everything.
LEMMA ShowsAuctions ==
  ASSUME size \in {0, NumPages}, NEW p \in Pages
  PROVE  AuctionsOf(p) \subseteq Universe
BY PagesCounted DEF Universe, Pages

\* How an update starts: it is the last of the loads, and sets the flag if the
\* state it starts from has no store.
LEMMA StartUpdateIs ==
  ASSUME NEW u \in Ui, NEW p \in Nat, NEW o \in Nat, heap[o].store \in BOOLEAN
  PROVE  LET t == [kind |-> "update", page |-> p, base |-> o, at |-> "index",
                   holds |-> ~heap[o].store, snap |-> {}]
             v == StartUpdate(u, p, o)
         IN  /\ v \in Ui /\ t \in Load
             /\ v.tasks = Append(u.tasks, t) /\ v.queued = u.queued
             /\ v.loadingData = (u.loadingData \/ ~heap[o].store)
             /\ v.isLoading = (u.isLoading \/ ~heap[o].store)
             /\ v.requests = u.requests
<1>. DEFINE t == [kind |-> "update", page |-> p, base |-> o, at |-> "index",
                  holds |-> ~heap[o].store, snap |-> {}]
<1>1. t \in Load
  <2>. DEFINE first == ~heap[o].store
  <2>1. first \in BOOLEAN
    OBVIOUS
  <2>. HIDE DEF first
  <2>2. [kind |-> "update", page |-> p, base |-> o, at |-> "index", holds |-> first, snap |-> {}] \in Load
    BY <2>1 DEF Load
  <2>. QED  BY <2>2 DEF first
<1>2. StartUpdate(u, p, o) =
        [u EXCEPT !.loadingData = u.loadingData \/ ~heap[o].store,
                  !.isLoading = u.isLoading \/ ~heap[o].store,
                  !.tasks = Append(u.tasks, t)]
  BY DEF StartUpdate, Ui
<1>3. Append(u.tasks, t) \in Seq(Load)
  BY <1>1 DEF Ui
<1>. HIDE DEF t
<1>4. StartUpdate(u, p, o) \in Ui
  BY <1>2, <1>3 DEF Ui
<1>5. /\ StartUpdate(u, p, o).tasks = Append(u.tasks, t)
      /\ StartUpdate(u, p, o).queued = u.queued
      /\ StartUpdate(u, p, o).requests = u.requests
  BY <1>2 DEF Ui
<1>6. /\ StartUpdate(u, p, o).loadingData = (u.loadingData \/ ~heap[o].store)
      /\ StartUpdate(u, p, o).isLoading = (u.isLoading \/ ~heap[o].store)
  BY <1>2 DEF Ui
<1>. QED  BY <1>1, <1>4, <1>5, <1>6 DEF t

\* What the effect does: an update is queued while the flag is set, and starts
\* otherwise.
LEMMA EffectIs ==
  ASSUME NEW u \in Ui, NEW p \in Nat, NEW o \in Nat, heap[o].store \in BOOLEAN
  PROVE  LET t == [kind |-> "update", page |-> p, base |-> o, at |-> "index",
                   holds |-> ~heap[o].store, snap |-> {}]
             q == [page |-> p, base |-> o]
             v == Effect(u, p, o)
         IN  /\ v \in Ui /\ t \in Load /\ q \in Queued
             /\ u.loadingData =>
                  /\ v.tasks = u.tasks /\ v.queued = Append(u.queued, q)
                  /\ v.loadingData /\ v.isLoading = u.isLoading
             /\ ~u.loadingData =>
                  /\ v.tasks = Append(u.tasks, t) /\ v.queued = u.queued
                  /\ v.loadingData = ~heap[o].store
                  /\ v.isLoading = (u.isLoading \/ ~heap[o].store)
<1>. DEFINE t == [kind |-> "update", page |-> p, base |-> o, at |-> "index",
                  holds |-> ~heap[o].store, snap |-> {}]
            q == [page |-> p, base |-> o]
            w == StartUpdate(u, p, o)
            v == Effect(u, p, o)
<1>1. q \in Queued
  BY DEF Queued
<1>2. /\ w \in Ui /\ t \in Load
      /\ w.tasks = Append(u.tasks, t) /\ w.queued = u.queued
      /\ w.loadingData = (u.loadingData \/ ~heap[o].store)
      /\ w.isLoading = (u.isLoading \/ ~heap[o].store)
  BY StartUpdateIs
<1>3. /\ u.loadingData => v = [u EXCEPT !.queued = Append(u.queued, q),
                                        !.requests = u.requests + 1]
      /\ ~u.loadingData => v = [w EXCEPT !.requests = 0]
  BY DEF Effect
<1>4. u.loadingData \in BOOLEAN /\ Append(u.queued, q) \in Seq(Queued) /\ u.requests + 1 \in Int
  BY <1>1 DEF Ui
<1>. HIDE DEF t, q, w, v
<1>5. ASSUME u.loadingData
      PROVE  /\ v \in Ui /\ v.tasks = u.tasks /\ v.queued = Append(u.queued, q)
             /\ v.loadingData = u.loadingData /\ v.isLoading = u.isLoading
  <2>1. \A s \in Seq(Queued), n \in Int : [u EXCEPT !.queued = s, !.requests = n] \in Ui
    BY DEF Ui
  <2>2. v \in Ui
    BY <1>3, <1>4, <1>5, <2>1
  <2>. QED  BY <1>3, <1>5, <2>2 DEF Ui
<1>6. ASSUME ~u.loadingData
      PROVE  /\ v \in Ui /\ v.tasks = w.tasks /\ v.queued = w.queued
             /\ v.loadingData = w.loadingData /\ v.isLoading = w.isLoading
  <2>1. \A n \in Int : [w EXCEPT !.requests = n] \in Ui
    BY <1>2 DEF Ui
  <2>2. v \in Ui
    BY <1>3, <1>6, <2>1
  <2>. QED  BY <1>2, <1>3, <1>6, <2>2 DEF Ui
<1>7. v \in Ui
  BY <1>4, <1>5, <1>6
<1>8. u.loadingData =>
        /\ v.tasks = u.tasks /\ v.queued = Append(u.queued, q)
        /\ v.loadingData /\ v.isLoading = u.isLoading
  BY <1>5
<1>9. ASSUME ~u.loadingData
      PROVE  /\ v.tasks = Append(u.tasks, t) /\ v.queued = u.queued
             /\ v.loadingData = ~heap[o].store
             /\ v.isLoading = (u.isLoading \/ ~heap[o].store)
  <2>1. v.tasks = Append(u.tasks, t) /\ v.queued = u.queued
    BY <1>2, <1>6, <1>9
  <2>2. w.loadingData = ~heap[o].store
    BY <1>2, <1>9
  <2>3. v.loadingData = w.loadingData /\ v.isLoading = w.isLoading
    BY <1>6, <1>9
  <2>. QED  BY <1>2, <2>1, <2>2, <2>3, Zenon
<1>. QED  BY <1>1, <1>2, <1>7, <1>8, <1>9, Zenon DEF t, q, v

\* A load that has ended, or moved on, leaves the others as they are.
LEMMA WithoutIs ==
  ASSUME ui \in Ui, NEW i \in DOMAIN ui.tasks
  PROVE  /\ Without(i) \in Ui
         /\ Without(i).tasks = RemoveAt(ui.tasks, i) /\ Without(i).queued = ui.queued
         /\ Without(i).loadingData = ui.loadingData /\ Without(i).isLoading = ui.isLoading
         /\ Without(i).loadingMetadata = ui.loadingMetadata
<1>1. RemoveAt(ui.tasks, i) \in Seq(Load)
  BY RemoveIs DEF Ui
<1>. QED  BY <1>1 DEF Without, Ui

\* What a load that goes on changes.
LEMMA GoesIs ==
  ASSUME ui \in Ui, NEW i \in DOMAIN ui.tasks,
         NEW at \in {"index", "content", "all", "read", "mints"}
  PROVE  /\ Goes(i, at) \in Ui
         /\ Goes(i, at).tasks = [ui.tasks EXCEPT ![i].at = at]
         /\ Goes(i, at).queued = ui.queued
         /\ Goes(i, at).loadingData = ui.loadingData /\ Goes(i, at).isLoading = ui.isLoading
         /\ Goes(i, at).loadingMetadata = ui.loadingMetadata
<1>. DEFINE t == [ui.tasks[i] EXCEPT !.at = at]
<1>1. ui.tasks \in Seq(Load) /\ ui.tasks[i] \in Load
  BY DEF Ui
<1>2. t \in Load
  BY <1>1 DEF Load
<1>3. [ui.tasks EXCEPT ![i].at = at] = [ui.tasks EXCEPT ![i] = t]
  OBVIOUS
<1>. HIDE DEF t
<1>4. [ui.tasks EXCEPT ![i] = t] \in Seq(Load)
  BY <1>1, <1>2
<1>5. Goes(i, at) = [ui EXCEPT !.tasks = [ui.tasks EXCEPT ![i].at = at]]
  BY DEF Goes
<1>. QED  BY <1>3, <1>4, <1>5 DEF Ui

\* A load whose mints are asked for, with the metadata it had then.
SpreadOf(i, map) == [Task(i) EXCEPT !.at = "mints", !.snap = map]

\* What a load that spreads its metadata changes.
LEMMA SpreadsIs ==
  ASSUME ui \in Ui, NEW i \in DOMAIN ui.tasks, NEW map \in SUBSET Universe
  PROVE  /\ Spreads(i, map) \in Ui
         /\ Spreads(i, map).tasks = [ui.tasks EXCEPT ![i] = SpreadOf(i, map)]
         /\ SpreadOf(i, map) \in Load
         /\ Spreads(i, map).queued = ui.queued
         /\ Spreads(i, map).loadingData = ui.loadingData
         /\ Spreads(i, map).isLoading = ui.isLoading
         /\ Spreads(i, map).loadingMetadata = ui.loadingMetadata
<1>. DEFINE t == SpreadOf(i, map)
<1>1. ui.tasks \in Seq(Load) /\ ui.tasks[i] \in Load
  BY DEF Ui
<1>2. t \in Load
  BY <1>1 DEF Load, SpreadOf, Task
<1>3. Spreads(i, map) = [ui EXCEPT !.tasks = [ui.tasks EXCEPT ![i] = t]]
  BY <1>1 DEF Spreads, SpreadOf, Task
<1>. HIDE DEF t
<1>4. [ui.tasks EXCEPT ![i] = t] \in Seq(Load)
  BY <1>1, <1>2
<1>5. t = SpreadOf(i, map)
  BY DEF t
<1>. QED  BY <1>2, <1>3, <1>4, <1>5 DEF Ui

-----------------------------------------------------------------------------
(* What a step does to the loads and to the queue of updates: those there   *)
(* were, and new ones from T and Q.                                         *)

Change(T, Q) ==
  /\ ui' \in Ui
  /\ \A j \in DOMAIN ui'.tasks :
       ui'.tasks[j] \in T \/ \E k \in DOMAIN ui.tasks : ui'.tasks[j] = ui.tasks[k]
  /\ \A j \in DOMAIN ui'.queued :
       ui'.queued[j] \in Q \/ \E k \in DOMAIN ui.queued : ui'.queued[j] = ui.queued[k]

\* The elements of a sequence that has lost one.
LEMMA Removed ==
  ASSUME NEW S, NEW s \in Seq(S), NEW i \in DOMAIN s, NEW j \in DOMAIN RemoveAt(s, i)
  PROVE  \E k \in DOMAIN s \ {i} : RemoveAt(s, i)[j] = s[k]
<1>. DEFINE r == RemoveAt(s, i)
<1>1. r \in Seq(S) /\ Len(r) = Len(s) - 1
  BY RemoveIs
<1>. HIDE DEF r
<1>2. j \in 1..(Len(s) - 1) /\ i \in 1..Len(s)
  BY <1>1 DEF r
<1>3. r[j] = IF j < i THEN s[j] ELSE s[j + 1]
  BY <1>2, RemoveIs DEF r
<1>4. CASE j < i
  BY <1>2, <1>3, <1>4 DEF r
<1>5. CASE ~(j < i)
  <2>1. j + 1 \in DOMAIN s \ {i} /\ r[j] = s[j + 1]
    BY <1>2, <1>3, <1>5
  <2>. QED  BY <2>1 DEF r
<1>. QED  BY <1>4, <1>5

\* The elements of a sequence that has got one.
LEMMA Appended ==
  ASSUME NEW S, NEW s \in Seq(S), NEW e \in S, NEW j \in DOMAIN Append(s, e)
  PROVE  Append(s, e)[j] = e \/ \E k \in DOMAIN s : Append(s, e)[j] = s[k]
OBVIOUS

\* The effect queues or starts one update.
LEMMA EffectChange ==
  ASSUME ui \in Ui, NEW p \in Nat, NEW o \in Nat, heap[o].store \in BOOLEAN,
         ui' = Effect(ui, p, o)
  PROVE  Change({[kind |-> "update", page |-> p, base |-> o, at |-> "index",
                  holds |-> ~heap[o].store, snap |-> {}]}, {[page |-> p, base |-> o]})
<1>. DEFINE t == [kind |-> "update", page |-> p, base |-> o, at |-> "index",
                  holds |-> ~heap[o].store, snap |-> {}]
            q == [page |-> p, base |-> o]
<1>1. /\ ui' \in Ui /\ t \in Load /\ q \in Queued
      /\ ui.loadingData => ui'.tasks = ui.tasks /\ ui'.queued = Append(ui.queued, q)
      /\ ~ui.loadingData => ui'.tasks = Append(ui.tasks, t) /\ ui'.queued = ui.queued
  <2>. DEFINE e == Effect(ui, p, o)
  <2>1. /\ e \in Ui /\ t \in Load /\ q \in Queued
        /\ ui.loadingData =>
             /\ e.tasks = ui.tasks /\ e.queued = Append(ui.queued, q)
             /\ e.loadingData /\ e.isLoading = ui.isLoading
        /\ ~ui.loadingData =>
             /\ e.tasks = Append(ui.tasks, t) /\ e.queued = ui.queued
             /\ e.loadingData = ~heap[o].store
             /\ e.isLoading = (ui.isLoading \/ ~heap[o].store)
    BY EffectIs
  <2>2. ui' = e
    OBVIOUS
  <2>. HIDE DEF t, q, e
  <2>3. ui.loadingData => e.tasks = ui.tasks /\ e.queued = Append(ui.queued, q)
    BY <2>1, Zenon
  <2>4. ~ui.loadingData => e.tasks = Append(ui.tasks, t) /\ e.queued = ui.queued
    BY <2>1, Zenon
  <2>. QED  BY <2>1, <2>2, <2>3, <2>4, Zenon
<1>2. ui.tasks \in Seq(Load) /\ ui.queued \in Seq(Queued) /\ ui.loadingData \in BOOLEAN
  BY DEF Ui
<1>. HIDE DEF t, q
<1>3. CASE ui.loadingData
  <2>0. ui'.queued = Append(ui.queued, q)
    BY <1>1, <1>3
  <2>1. ASSUME NEW j \in DOMAIN ui'.queued
        PROVE  ui'.queued[j] = q \/ \E k \in DOMAIN ui.queued : ui'.queued[j] = ui.queued[k]
    BY <1>1, <1>2, <2>0, Appended
  <2>2. Change({t}, {q})
    BY <1>1, <1>3, <2>1 DEF Change
  <2>. QED  BY <2>2 DEF t, q
<1>4. CASE ~ui.loadingData
  <2>0. ui'.tasks = Append(ui.tasks, t)
    BY <1>1, <1>4
  <2>1. ASSUME NEW j \in DOMAIN ui'.tasks
        PROVE  ui'.tasks[j] = t \/ \E k \in DOMAIN ui.tasks : ui'.tasks[j] = ui.tasks[k]
    BY <1>1, <1>2, <2>0, Appended
  <2>2. Change({t}, {q})
    BY <1>1, <1>4, <2>1 DEF Change
  <2>. QED  BY <2>2 DEF t, q
<1>. QED  BY <1>2, <1>3, <1>4

\* A load that goes on is the only one that changes.
LEMMA GoesChange ==
  ASSUME ui \in Ui, NEW i \in DOMAIN ui.tasks,
         NEW at \in {"index", "content", "all", "read", "mints"},
         ui' \in Ui, ui'.tasks = Goes(i, at).tasks, ui'.queued = ui.queued
  PROVE  Change({[Task(i) EXCEPT !.at = at]}, {})
<1>1. ui'.tasks = [ui.tasks EXCEPT ![i].at = at]
  BY GoesIs
<1>2. ui.tasks \in Seq(Load)
  BY DEF Ui
<1>. QED  BY <1>1, <1>2 DEF Change, Task

\* So it is with a load that spreads its metadata.
LEMMA SpreadsChange ==
  ASSUME ui \in Ui, NEW i \in DOMAIN ui.tasks, NEW map \in SUBSET Universe,
         ui' \in Ui, ui'.tasks = Spreads(i, map).tasks, ui'.queued = ui.queued
  PROVE  Change({SpreadOf(i, map)}, {})
<1>1. ui'.tasks = [ui.tasks EXCEPT ![i] = SpreadOf(i, map)]
  BY SpreadsIs
<1>2. ui.tasks \in Seq(Load)
  BY DEF Ui
<1>. QED  BY <1>1, <1>2 DEF Change

\* A load that ends leaves the others as they are.
LEMMA WithoutChange ==
  ASSUME ui \in Ui, NEW i \in DOMAIN ui.tasks,
         ui' \in Ui, ui'.tasks = Without(i).tasks, ui'.queued = ui.queued
  PROVE  Change({}, {})
<1>1. ui'.tasks = RemoveAt(ui.tasks, i) /\ ui.tasks \in Seq(Load)
  BY WithoutIs DEF Ui
<1>2. \A j \in DOMAIN ui'.tasks : \E k \in DOMAIN ui.tasks : ui'.tasks[j] = ui.tasks[k]
  BY <1>1, Removed
<1>. QED  BY <1>2 DEF Change

\* Loads and queued updates stay where they may be when a step adds no others.
LEMMA ChangePlaced ==
  ASSUME MetaTyped, NEW T, NEW Q, Change(T, Q),
         heap' \in Seq(Object), Len(heap) <= Len(heap'), size' = size,
         \A t \in T : WellPlaced(t)', \A q \in Q : q.base \in DOMAIN heap'
  PROVE  /\ (\A i \in DOMAIN ui.tasks : WellPlaced(Task(i)))'
         /\ (\A i \in DOMAIN ui.queued : ui.queued[i].base \in DOMAIN heap)'
<1>1. DOMAIN heap \subseteq DOMAIN heap' /\ Pages' = Pages
  BY DEF MetaTyped, Pages
<1>2. ASSUME NEW j \in DOMAIN ui'.tasks
      PROVE  WellPlaced(Task(j))'
  <2>1. CASE ui'.tasks[j] \in T
    BY <2>1 DEF Task
  <2>2. CASE \E k \in DOMAIN ui.tasks : ui'.tasks[j] = ui.tasks[k]
    <3>1. PICK k \in DOMAIN ui.tasks : ui'.tasks[j] = ui.tasks[k]
      BY <2>2
    <3>2. WellPlaced(Task(k))
      BY DEF MetaTyped
    <3>. QED  BY <1>1, <3>1, <3>2 DEF WellPlaced, Task
  <2>. QED  BY <2>1, <2>2 DEF Change
<1>3. ASSUME NEW j \in DOMAIN ui'.queued
      PROVE  ui'.queued[j].base \in DOMAIN heap'
  BY <1>1 DEF Change, MetaTyped
<1>. QED  BY <1>2, <1>3

\* The load that an update of page p, from the state object o, is.
UpdateOf(p, o) == [kind |-> "update", page |-> p, base |-> o, at |-> "index",
                   holds |-> ~heap[o].store, snap |-> {}]

\* What is known of a load under way.
LEMMA LoadFacts ==
  ASSUME MetaTyped, NEW i \in DOMAIN ui.tasks
  PROVE  /\ ui \in Ui /\ Task(i) \in Load /\ WellPlaced(Task(i))
         /\ Task(i).base \in DOMAIN heap /\ heap[Task(i).base] \in Object
         /\ Task(i).page \in Nat /\ heap[Task(i).base].pages \in SUBSET Pages
         /\ heap[Task(i).base].store \in BOOLEAN
<1>1. ui \in Ui /\ ui.tasks \in Seq(Load) /\ heap \in Seq(Object) /\ WellPlaced(Task(i))
  BY DEF MetaTyped, Ui
<1>2. Task(i) \in Load /\ Task(i).base \in DOMAIN heap
  BY <1>1 DEF Task, WellPlaced
<1>3. heap[Task(i).base] \in Object /\ Task(i).page \in Nat
  BY <1>1, <1>2 DEF Load
<1>. QED  BY <1>1, <1>2, <1>3 DEF Object

\* What is known of the state that is shown.
LEMMA CurrentFacts ==
  ASSUME MetaTyped
  PROVE  /\ ui \in Ui /\ heap \in Seq(Object) /\ heap[current] \in Object
         /\ current \in Nat /\ current \in DOMAIN heap /\ page \in Nat
         /\ heap[current].store \in BOOLEAN /\ size \in {0, NumPages}
<1>1. heap \in Seq(Object) /\ current \in DOMAIN heap
  BY DEF MetaTyped
<1>2. heap[current] \in Object /\ current \in Nat
  BY <1>1
<1>. QED  BY <1>1, <1>2 DEF MetaTyped, Object

\* An object that learns of a page, or gets the store, is an object.
LEMMA HeapWith ==
  ASSUME heap \in Seq(Object), NEW o \in DOMAIN heap, NEW h,
         \/ \E p \in Pages : h = [heap EXCEPT ![o].pages = @ \cup {p}]
         \/ \E b \in BOOLEAN : h = [heap EXCEPT ![o].store = @ \/ b]
  PROVE  /\ h \in Seq(Object) /\ Len(h) = Len(heap) /\ DOMAIN h = DOMAIN heap
         /\ \A q \in DOMAIN heap : h[q].family = heap[q].family
<1>1. heap[o] \in Object
  OBVIOUS
<1>2. CASE \E p \in Pages : h = [heap EXCEPT ![o].pages = @ \cup {p}]
  <2>1. PICK p \in Pages : h = [heap EXCEPT ![o] = [heap[o] EXCEPT !.pages = heap[o].pages \cup {p}]]
    BY <1>2
  <2>. DEFINE P == heap[o].pages \cup {p}
  <2>2. P \in SUBSET Pages
    BY <1>1 DEF Object
  <2>. HIDE DEF P
  <2>3. [heap[o] EXCEPT !.pages = P] \in Object /\ [heap[o] EXCEPT !.pages = P].family = heap[o].family
    BY <1>1, <2>2 DEF Object
  <2>. QED  BY <2>1, <2>3 DEF P
<1>3. CASE \E b \in BOOLEAN : h = [heap EXCEPT ![o].store = @ \/ b]
  <2>1. PICK b \in BOOLEAN : h = [heap EXCEPT ![o] = [heap[o] EXCEPT !.store = heap[o].store \/ b]]
    BY <1>3
  <2>. DEFINE B == heap[o].store \/ b
  <2>2. B \in BOOLEAN
    BY <1>1 DEF Object
  <2>. HIDE DEF B
  <2>3. [heap[o] EXCEPT !.store = B] \in Object /\ [heap[o] EXCEPT !.store = B].family = heap[o].family
    BY <1>1, <2>2 DEF Object
  <2>. QED  BY <2>1, <2>3 DEF B
<1>. QED  BY <1>2, <1>3

\* A new object at the end of the heap.
LEMMA HeapLonger ==
  ASSUME heap \in Seq(Object), NEW x \in Object, heap' = Append(heap, x)
  PROVE  /\ heap' \in Seq(Object) /\ Len(heap') = Len(heap) + 1
         /\ heap'[Len(heap) + 1] = x /\ Len(heap) + 1 \in DOMAIN heap'
         /\ \A o \in DOMAIN heap : o \in DOMAIN heap' /\ heap'[o] = heap[o]
         /\ \A o \in DOMAIN heap' : o \in DOMAIN heap \/ o = Len(heap) + 1
OBVIOUS

\* Every step leaves each object its metadata.
LEMMA KnownStep ==
  ASSUME MetaTyped, Next
  PROVE  KnownTyped'
<1>. DEFINE D == SUBSET Universe
<1>1. heap \in Seq(Object) /\ known \in Seq(D) /\ Len(known) = Len(heap)
  BY DEF MetaTyped, KnownTyped
<1>. HIDE DEF D
<1>2. CASE UNCHANGED <<heap, known>>
  BY <1>1, <1>2 DEF KnownTyped, D
<1>3. ASSUME NEW i \in DOMAIN ui.tasks, IndexRead(i)
      PROVE  KnownTyped'
  <2>1. /\ heap' = [heap EXCEPT ![Task(i).base].pages = @ \cup {Task(i).page}]
        /\ Task(i).page \in Pages /\ known' = known
    BY <1>3 DEF IndexRead
  <2>2. Len(heap') = Len(heap)
    BY <1>1, <2>1, LoadFacts, HeapWith
  <2>. QED  BY <1>1, <2>1, <2>2 DEF KnownTyped, D
<1>4. ASSUME NEW i \in DOMAIN ui.tasks, ContentRead(i)
      PROVE  KnownTyped'
  <2>. DEFINE o == Task(i).base
              b == Task(i).page = 0
              X == known[o] \cup AuctionsOf(Task(i).page)
  <2>1. /\ heap' = [heap EXCEPT ![o].store = @ \/ b] /\ known' = [known EXCEPT ![o] = X]
        /\ Task(i).at = "content"
    BY <1>4 DEF ContentRead
  <2>2. o \in DOMAIN heap /\ Task(i).page \in Pages /\ size \in {0, NumPages}
    BY <2>1, LoadFacts, CurrentFacts DEF WellPlaced
  <2>3. b \in BOOLEAN
    OBVIOUS
  <2>4. X \in D
    BY <1>1, <2>2, ShowsAuctions DEF D
  <2>. HIDE DEF o, b, X
  <2>5. Len(heap') = Len(heap)
    BY <1>1, <2>1, <2>2, <2>3, HeapWith
  <2>6. known' \in Seq(D) /\ Len(known') = Len(known)
    BY <1>1, <2>1, <2>2, <2>4
  <2>. QED  BY <1>1, <2>5, <2>6 DEF KnownTyped, D
<1>5. ASSUME NEW x, NEW map \in D, heap' = Append(heap, x), known' = Append(known, map)
      PROVE  KnownTyped'
  BY <1>1, <1>5 DEF KnownTyped, D
<1>6. ASSUME NEW i \in DOMAIN ui.tasks, AllRead(i)
      PROVE  KnownTyped'
  <2>1. Everything \in D
    BY DEF D, Universe
  <2>. QED  BY <1>5, <1>6, <2>1 DEF AllRead, NewObject
<1>7. ASSUME NEW i \in DOMAIN ui.tasks, MintsRead(i)
      PROVE  KnownTyped'
  <2>1. Task(i).snap \in D
    BY LoadFacts DEF Load, D
  <2>2. CASE Task(i).kind # "user"
    <3>1. PICK out : heap' = Append(heap, heap[current]) /\ known' = Append(known, Task(i).snap \ out)
      BY <1>7, <2>2 DEF MintsRead, Copy
    <3>2. (Task(i).snap \ out) \in D
      BY <2>1 DEF D
    <3>. QED  BY <1>5, <3>1, <3>2
  <2>. QED  BY <1>2, <1>7, <2>2 DEF MintsRead
<1>8. ASSUME NEW i \in DOMAIN ui.tasks, IndexMissing(i) \/ PullRead(i) \/ Fail(i)
      PROVE  UNCHANGED <<heap, known>>
  BY <1>8 DEF IndexMissing, PullRead, Fail
<1>9. ASSUME NEW i \in DOMAIN ui.queued, Tick(i)
      PROVE  UNCHANGED <<heap, known>>
  BY <1>9 DEF Tick
<1>10. ASSUME NEW kind \in Kinds, Pull(kind)
       PROVE  UNCHANGED <<heap, known>>
  BY <1>10 DEF Pull
<1>11. StoreReady \/ Rerun => UNCHANGED <<heap, known>>
  BY DEF StoreReady, Rerun
<1>. QED  BY <1>2, <1>3, <1>4, <1>6, <1>7, <1>8, <1>9, <1>10, <1>11 DEF Next, Answer

\* The type invariant holds after a step that keeps each of its parts.
LEMMA TypedNext ==
  ASSUME MetaTyped, Next, size' = size, ui' \in Ui, seen' \in Seen, ready' \in BOOLEAN,
         heap' \in Seq(Object), maps' \in Seq(SUBSET Universe), current' \in DOMAIN heap',
         page' \in Nat, lastLength' \in 0..NumPages,
         \A o \in DOMAIN heap' : heap'[o].family \in DOMAIN maps',
         (\A i \in DOMAIN ui.tasks : WellPlaced(Task(i)))',
         (\A i \in DOMAIN ui.queued : ui.queued[i].base \in DOMAIN heap)'
  PROVE  MetaTyped'
<1>1. Object' = Object
  BY DEF Object, Pages
<1>2. size' \in {0, NumPages} /\ KnownTyped'
  BY KnownStep DEF MetaTyped
<1>. QED  BY <1>1, <1>2, Zenon DEF MetaTyped

\* An update that is queued or started now may be there.
LEMMA UpdatePlaced ==
  ASSUME MetaTyped, NEW p \in Nat, NEW o \in DOMAIN heap,
         Len(heap) <= Len(heap'), heap' \in Seq(Object)
  PROVE  /\ \A t \in {UpdateOf(p, o)} : WellPlaced(t)'
         /\ \A q \in {[page |-> p, base |-> o]} : q.base \in DOMAIN heap'
<1>1. o \in DOMAIN heap'
  BY DEF MetaTyped
<1>2. ASSUME NEW t, t = UpdateOf(p, o)
      PROVE  t.base = o /\ t.at = "index" /\ t.kind = "update"
  BY <1>2 DEF UpdateOf
<1>3. ASSUME NEW t \in {UpdateOf(p, o)}
      PROVE  WellPlaced(t)'
  BY <1>1, <1>2 DEF WellPlaced
<1>. QED  BY <1>1, <1>3

\* The effect runs because the address of the store or the connection is new.
LEMMA EffectTyped ==
  ASSUME MetaTyped, StoreReady \/ Rerun
  PROVE  /\ MetaTyped'
         /\ Change({UpdateOf(page, current)}, {[page |-> page, base |-> current]})
<1>1. /\ ui' = Effect(ui, page, current) /\ ready' \in BOOLEAN
      /\ UNCHANGED <<heap, maps, current, page, lastLength, size>>
  BY DEF StoreReady, Rerun, MetaTyped
<1>2. Change({UpdateOf(page, current)}, {[page |-> page, base |-> current]})
  BY <1>1, CurrentFacts, EffectChange DEF UpdateOf
<1>3. /\ (\A i \in DOMAIN ui.tasks : WellPlaced(Task(i)))'
      /\ (\A i \in DOMAIN ui.queued : ui.queued[i].base \in DOMAIN heap)'
  <2>1. heap' \in Seq(Object) /\ Len(heap) <= Len(heap') /\ size' = size
    BY <1>1, CurrentFacts
  <2>. QED  BY <1>2, <2>1, CurrentFacts, UpdatePlaced, ChangePlaced
<1>4. seen' \in Seen
  <2>1. CASE StoreReady
    BY <2>1 DEF StoreReady, MetaTyped
  <2>2. CASE Rerun
    <3>1. seen' = [seen EXCEPT !.reruns = seen.reruns + 1]
      BY <2>2 DEF Rerun
    <3>2. seen.reruns + 1 \in Nat /\ seen \in Seen
      BY DEF MetaTyped, Seen
    <3>3. \A n \in Nat : [seen EXCEPT !.reruns = n] \in Seen
      BY <3>2 DEF Seen
    <3>. QED  BY <3>1, <3>2, <3>3
  <2>. QED  BY <2>1, <2>2
<1>5. ui' \in Ui
  BY <1>2 DEF Change
<1>6. /\ heap' \in Seq(Object) /\ maps' \in Seq(SUBSET Universe) /\ current' \in DOMAIN heap'
      /\ page' \in Nat /\ lastLength' \in 0..NumPages /\ size' = size
      /\ \A o \in DOMAIN heap' : heap'[o].family \in DOMAIN maps'
  BY <1>1 DEF MetaTyped
<1>. QED  BY <1>1, <1>2, <1>3, <1>4, <1>5, <1>6, TypedNext DEF Next, Answer

\* The fields of the history, and the flags, change one or two at a time.
LEMMA SeenFields ==
  ASSUME NEW s \in Seen
  PROVE  /\ \A n \in Nat : /\ [s EXCEPT !.pulls = n] \in Seen
                           /\ [s EXCEPT !.reruns = n] \in Seen
         /\ \A b \in BOOLEAN : /\ [s EXCEPT !.replaced = b] \in Seen
                               /\ [s EXCEPT !.anew = b] \in Seen
         /\ \A n \in Nat, b \in BOOLEAN : [s EXCEPT !.faults = n, !.failed = b] \in Seen
         /\ \A P \in SUBSET Nat : [s EXCEPT !.read = P] \in Seen
BY DEF Seen

\* Setting the other flags leaves the loads alone.
LEMMA UiFields ==
  ASSUME NEW u \in Ui, NEW v, NEW a \in BOOLEAN, NEW b \in BOOLEAN,
         \/ v = [u EXCEPT !.loadingMetadata = a]
         \/ v = [u EXCEPT !.isLoading = a]
         \/ v = [u EXCEPT !.loadingData = a, !.isLoading = b]
  PROVE  v \in Ui /\ v.tasks = u.tasks /\ v.queued = u.queued
BY DEF Ui

\* Nothing new is queued or started.
LEMMA NothingNew ==
  /\ \A t \in {} : WellPlaced(t)'
  /\ \A q \in {} : q.base \in DOMAIN heap'
OBVIOUS

\* A queued update that starts leaves the queue.
LEMMA TickTyped ==
  ASSUME MetaTyped, NEW i \in DOMAIN ui.queued, Tick(i)
  PROVE  /\ MetaTyped'
         /\ Change({UpdateOf(ui.queued[i].page, ui.queued[i].base)}, {})
<1>. DEFINE q == ui.queued[i]
            v == StartUpdate(ui, q.page, q.base)
            t == UpdateOf(q.page, q.base)
            rest == RemoveAt(ui.queued, i)
            n == v.requests - 1
<1>1. /\ ui \in Ui /\ ui.queued \in Seq(Queued) /\ ui.tasks \in Seq(Load)
      /\ q.page \in Nat /\ q.base \in Nat /\ q.base \in DOMAIN heap
  <2>1. ui \in Ui /\ ui.queued[i].base \in DOMAIN heap
    BY DEF MetaTyped
  <2>2. ui.queued \in Seq(Queued) /\ ui.tasks \in Seq(Load)
    BY <2>1 DEF Ui
  <2>3. ui.queued[i] \in Queued
    BY <2>2
  <2>. QED  BY <2>1, <2>2, <2>3 DEF Queued
<1>2. heap[q.base].store \in BOOLEAN
  <2>. HIDE DEF q
  <2>1. heap[q.base] \in Object
    BY <1>1 DEF MetaTyped
  <2>. QED  BY <2>1 DEF Object
<1>. HIDE DEF q
<1>3. /\ v \in Ui /\ t \in Load /\ v.tasks = Append(ui.tasks, t) /\ v.queued = ui.queued
  BY <1>1, <1>2, StartUpdateIs DEF UpdateOf
<1>4. ui' = [v EXCEPT !.requests = n, !.queued = rest]
  BY <1>3 DEF Tick, q
<1>5. rest \in Seq(Queued) /\ n \in Int
  BY <1>1, <1>3, RemoveIs DEF Ui
<1>6. UNCHANGED <<heap, maps, current, page, lastLength, ready, size, seen>>
  BY DEF Tick
<1>. HIDE DEF v, n, rest
<1>7. ui' \in Ui /\ ui'.tasks = v.tasks /\ ui'.queued = rest
  <2>1. \A m \in Int, s \in Seq(Queued) :
          LET w == [v EXCEPT !.requests = m, !.queued = s]
          IN  w \in Ui /\ w.tasks = v.tasks /\ w.queued = s
    BY <1>3 DEF Ui
  <2>. QED  BY <1>4, <1>5, <2>1
<1>. HIDE DEF t
<1>8. ASSUME NEW j \in DOMAIN ui'.tasks
      PROVE  ui'.tasks[j] \in {t} \/ \E k \in DOMAIN ui.tasks : ui'.tasks[j] = ui.tasks[k]
  BY <1>1, <1>3, <1>7, Appended
<1>9. ASSUME NEW j \in DOMAIN ui'.queued
      PROVE  \E k \in DOMAIN ui.queued : ui'.queued[j] = ui.queued[k]
  BY <1>1, <1>7, Removed DEF rest
<1>10. Change({t}, {})
  BY <1>7, <1>8, <1>9 DEF Change
<1>11. /\ (\A j \in DOMAIN ui.tasks : WellPlaced(Task(j)))'
       /\ (\A j \in DOMAIN ui.queued : ui.queued[j].base \in DOMAIN heap)'
  <2>1. heap' \in Seq(Object) /\ Len(heap) <= Len(heap') /\ size' = size
    BY <1>6, CurrentFacts
  <2>2. \A u \in {t} : WellPlaced(u)'
    BY <1>1, <2>1, UpdatePlaced DEF t
  <2>. QED  BY <1>10, <2>1, <2>2, ChangePlaced
<1>12. /\ heap' \in Seq(Object) /\ maps' \in Seq(SUBSET Universe) /\ current' \in DOMAIN heap'
       /\ page' \in Nat /\ lastLength' \in 0..NumPages /\ size' = size
       /\ seen' \in Seen /\ ready' \in BOOLEAN
       /\ \A o \in DOMAIN heap' : heap'[o].family \in DOMAIN maps'
  BY <1>6 DEF MetaTyped
<1>13. MetaTyped'
  BY <1>7, <1>11, <1>12, TypedNext DEF Next, Answer
<1>. QED  BY <1>10, <1>13 DEF t, q

\* How an update of a store with an index ends: of the loads, the others go on,
\* and if the index has grown the update of the following page is queued, or
\* starts if the flag is not set.
LEMMA PagedFacts ==
  ASSUME MetaTyped, NEW i \in DOMAIN ui.tasks, Paged(i),
         heap' \in Seq(Object), Len(heap) <= Len(heap'), size' = size
  PROVE  /\ current' = Task(i).base /\ page' \in Nat
         /\ lastLength' = Cardinality(heap'[Task(i).base].pages) /\ lastLength' \in 0..NumPages
         /\ page' = IF Grown(i) THEN Following ELSE page
         /\ Change({UpdateOf(Following, current)}, {[page |-> Following, base |-> current]})
         /\ ~Grown(i) => Change({}, {})
         /\ ~ui'.loadingData
         /\ \A j \in DOMAIN ui'.tasks :
              \/ ~ui.loadingData /\ ui'.tasks[j] = UpdateOf(Following, current)
              \/ \E k \in DOMAIN ui.tasks \ {i} : ui'.tasks[j] = ui.tasks[k]
<1>. DEFINE w == Without(i)
            t == UpdateOf(Following, current)
            q == [page |-> Following, base |-> current]
            u == IF Grown(i) THEN Effect(w, Following, current) ELSE w
<1>1. /\ page' = (IF Grown(i) THEN Following ELSE page) /\ current' = Task(i).base
      /\ lastLength' = Cardinality(heap'[Task(i).base].pages)
      /\ ui' = [u EXCEPT !.loadingData = FALSE /\ u.loadingData, !.isLoading = FALSE]
  BY DEF Paged, PagedWith, IndexLength
<1>2. Following \in Nat /\ page' \in Nat
  BY <1>1, PagesCounted, CurrentFacts DEF Following
<1>3. lastLength' \in 0..NumPages
  <2>1. heap'[Task(i).base] \in Object
    BY LoadFacts, CurrentFacts
  <2>2. heap'[Task(i).base].pages \in SUBSET Pages
    BY <2>1 DEF Object
  <2>. QED  BY <1>1, <2>2, PagesCounted, CurrentFacts
<1>4. /\ w \in Ui /\ w.queued = ui.queued /\ w.loadingData = ui.loadingData
      /\ w.tasks \in Seq(Load) /\ ui.tasks \in Seq(Load) /\ ui.queued \in Seq(Queued)
      /\ \A j \in DOMAIN w.tasks : \E k \in DOMAIN ui.tasks \ {i} : w.tasks[j] = ui.tasks[k]
  <2>1. ui \in Ui
    BY CurrentFacts
  <2>2. ui.tasks \in Seq(Load) /\ ui.queued \in Seq(Queued)
    BY <2>1 DEF Ui
  <2>3. w \in Ui /\ w.tasks = RemoveAt(ui.tasks, i)
    BY <2>1, WithoutIs
  <2>. QED  BY <2>1, <2>2, <2>3, WithoutIs, Removed DEF Ui
<1>. HIDE DEF w
<1>5. /\ Effect(w, Following, current) \in Ui /\ t \in Load /\ q \in Queued
      /\ w.loadingData =>
           Effect(w, Following, current).tasks = w.tasks
             /\ Effect(w, Following, current).queued = Append(w.queued, q)
      /\ ~w.loadingData =>
           Effect(w, Following, current).tasks = Append(w.tasks, t)
             /\ Effect(w, Following, current).queued = w.queued
  <2>1. /\ w \in Ui /\ Following \in Nat /\ current \in Nat
        /\ heap[current].store \in BOOLEAN
    BY <1>2, <1>4, CurrentFacts
  <2>. DEFINE e == Effect(w, Following, current)
  <2>2. /\ e \in Ui /\ q \in Queued
        /\ w.loadingData => e.tasks = w.tasks /\ e.queued = Append(w.queued, q)
    BY <2>1, EffectIs
  <2>3. /\ t \in Load
        /\ ~w.loadingData => e.tasks = Append(w.tasks, t) /\ e.queued = w.queued
    BY <2>1, EffectIs DEF UpdateOf
  <2>. QED  BY <2>2, <2>3
<1>. HIDE DEF t, q
<1>6. u \in Ui
  BY <1>4, <1>5
<1>. HIDE DEF u
<1>7. ui' \in Ui /\ ui'.tasks = u.tasks /\ ui'.queued = u.queued /\ ~ui'.loadingData
  <2>1. ui' = [u EXCEPT !.loadingData = FALSE, !.isLoading = FALSE]
    BY <1>1
  <2>2. ui'.loadingData = FALSE
    BY <1>6, <2>1 DEF Ui
  <2>. QED  BY <1>6, <2>1, <2>2, UiFields
<1>8. ASSUME NEW j \in DOMAIN ui'.tasks
      PROVE  \/ ~ui.loadingData /\ Grown(i) /\ ui'.tasks[j] = t
             \/ \E k \in DOMAIN ui.tasks \ {i} : ui'.tasks[j] = ui.tasks[k]
  <2>1. CASE ui'.tasks = w.tasks
    BY <1>4, <2>1
  <2>2. CASE ~ui.loadingData /\ Grown(i) /\ ui'.tasks = Append(w.tasks, t)
    <3>1. ui'.tasks[j] = t \/ \E k \in DOMAIN w.tasks : ui'.tasks[j] = w.tasks[k]
      BY <1>4, <1>5, <2>2, Appended
    <3>. QED  BY <1>4, <2>2, <3>1
  <2>. QED  BY <1>4, <1>5, <1>7, <2>1, <2>2 DEF u, Ui
<1>9. ASSUME NEW j \in DOMAIN ui'.queued
      PROVE  \/ Grown(i) /\ ui'.queued[j] = q
             \/ \E k \in DOMAIN ui.queued : ui'.queued[j] = ui.queued[k]
  <2>1. CASE ui'.queued = ui.queued
    BY <2>1
  <2>2. CASE Grown(i) /\ ui'.queued = Append(ui.queued, q)
    BY <1>4, <1>5, <2>2, Appended
  <2>. QED  BY <1>4, <1>5, <1>7, <2>1, <2>2 DEF u, Ui
<1>10. Change({t}, {q})
  BY <1>7, <1>8, <1>9 DEF Change
<1>11. ~Grown(i) => Change({}, {})
  BY <1>7, <1>8, <1>9 DEF Change
<1>. QED  BY <1>1, <1>2, <1>3, <1>7, <1>8, <1>10, <1>11 DEF t, q

\* The account of a page is read.
LEMMA IndexReadTyped ==
  ASSUME MetaTyped, NEW i \in DOMAIN ui.tasks, IndexRead(i)
  PROVE  MetaTyped' /\ Change({[Task(i) EXCEPT !.at = "content"]}, {})
<1>. DEFINE t == Task(i)
            T == {[t EXCEPT !.at = "content"]}
<1>1. /\ t.kind = "update" /\ t.page \in Pages /\ ui' = Goes(i, "content")
      /\ heap' = [heap EXCEPT ![t.base].pages = @ \cup {t.page}]
      /\ UNCHANGED <<maps, current, page, lastLength, ready, size>>
      /\ seen' = [seen EXCEPT !.read = seen.read \cup {t.page}]
  BY DEF IndexRead
<1>2. /\ heap \in Seq(Object) /\ t \in Load /\ t.base \in DOMAIN heap /\ ui \in Ui
      /\ t.page \in Nat
  BY CurrentFacts, LoadFacts
<1>3. /\ heap' \in Seq(Object) /\ Len(heap') = Len(heap) /\ DOMAIN heap' = DOMAIN heap
      /\ \A q \in DOMAIN heap : heap'[q].family = heap[q].family
  BY <1>1, <1>2, HeapWith
<1>4. ui' \in Ui /\ Change(T, {})
  BY <1>1, <1>2, GoesIs, GoesChange
<1>5. \A u \in T : WellPlaced(u)'
  <2>1. ASSUME NEW u \in T
        PROVE  u.base = t.base /\ u.kind = "update" /\ u.at = "content" /\ u.page = t.page
    BY <1>1, <1>2 DEF Load
  <2>2. Pages' = Pages
    BY <1>1 DEF Pages
  <2>. QED  BY <1>1, <1>2, <1>3, <2>1, <2>2 DEF WellPlaced
<1>. HIDE DEF T
<1>6. /\ (\A j \in DOMAIN ui.tasks : WellPlaced(Task(j)))'
      /\ (\A j \in DOMAIN ui.queued : ui.queued[j].base \in DOMAIN heap)'
  <2>1. Len(heap) <= Len(heap') /\ size' = size
    BY <1>1, <1>2, <1>3
  <2>. QED  BY <1>3, <1>4, <1>5, <2>1, ChangePlaced
<1>7. seen' \in Seen
  <2>1. seen \in Seen /\ seen.read \cup {t.page} \in SUBSET Nat
    BY <1>2 DEF MetaTyped, Seen
  <2>. QED  BY <1>1, <2>1, SeenFields
<1>8. /\ maps' \in Seq(SUBSET Universe) /\ current' \in DOMAIN heap'
      /\ page' \in Nat /\ lastLength' \in 0..NumPages /\ size' = size /\ ready' \in BOOLEAN
      /\ \A o \in DOMAIN heap' : heap'[o].family \in DOMAIN maps'
  BY <1>1, <1>3 DEF MetaTyped
<1>9. MetaTyped'
  BY <1>3, <1>4, <1>6, <1>7, <1>8, TypedNext DEF Next, Answer
<1>. QED  BY <1>4, <1>9 DEF T

\* A load that moves on keeps its place among the loads of its kind.
LEMMA MovedPlaced ==
  ASSUME MetaTyped, NEW i \in DOMAIN ui.tasks,
         NEW at \in {"index", "content", "all", "read", "mints"}, at # "content",
         at \in (IF Task(i).kind = "update" THEN {"index", "content", "all"}
                 ELSE {"read", "mints"} \cup (IF Task(i).kind = "site" THEN {"all"} ELSE {})),
         heap' \in Seq(Object), Len(heap) <= Len(heap')
  PROVE  \A u \in {[Task(i) EXCEPT !.at = at]} : WellPlaced(u)'
<1>1. Task(i) \in Load /\ Task(i).base \in DOMAIN heap /\ heap \in Seq(Object)
  BY LoadFacts, CurrentFacts
<1>2. ASSUME NEW u \in {[Task(i) EXCEPT !.at = at]}
      PROVE  u.base = Task(i).base /\ u.kind = Task(i).kind /\ u.at = at
  BY <1>1 DEF Load
<1>3. Task(i).base \in DOMAIN heap'
  BY <1>1
<1>. QED  BY <1>2, <1>3 DEF WellPlaced

\* So does one that spreads its metadata, which only a load of a page does.
LEMMA SpreadPlaced ==
  ASSUME MetaTyped, NEW i \in DOMAIN ui.tasks, NEW map \in SUBSET Universe,
         Task(i).kind # "update", heap' \in Seq(Object), Len(heap) <= Len(heap')
  PROVE  \A u \in {SpreadOf(i, map)} : WellPlaced(u)'
<1>1. Task(i) \in Load /\ Task(i).base \in DOMAIN heap /\ heap \in Seq(Object)
  BY LoadFacts, CurrentFacts
<1>2. ASSUME NEW u \in {SpreadOf(i, map)}
      PROVE  u.base = Task(i).base /\ u.kind = Task(i).kind /\ u.at = "mints"
  BY <1>1 DEF Load, SpreadOf
<1>3. Task(i).base \in DOMAIN heap'
  BY <1>1
<1>. QED  BY <1>2, <1>3 DEF WellPlaced

\* What is known to the object of a load.
LEMMA KnownFacts ==
  ASSUME MetaTyped, NEW i \in DOMAIN ui.tasks
  PROVE  known[Task(i).base] \in SUBSET Universe
<1>. DEFINE D == SUBSET Universe
<1>1. known \in Seq(D) /\ Len(known) = Len(heap) /\ heap \in Seq(Object)
  BY DEF MetaTyped, KnownTyped
<1>. HIDE DEF D
<1>2. known[Task(i).base] \in D
  BY <1>1, LoadFacts
<1>. QED  BY <1>2 DEF D

\* There is no such page: the update ends, or goes on to load everything.
LEMMA IndexMissingTyped ==
  ASSUME MetaTyped, NEW i \in DOMAIN ui.tasks, IndexMissing(i)
  PROVE  MetaTyped'
<1>1. /\ Task(i).kind = "update"
      /\ UNCHANGED <<heap, maps, ready, size, seen>>
  BY DEF IndexMissing
<1>2. /\ heap' \in Seq(Object) /\ Len(heap) <= Len(heap') /\ size' = size
      /\ ui \in Ui /\ maps' \in Seq(SUBSET Universe) /\ seen' \in Seen /\ ready' \in BOOLEAN
      /\ \A o \in DOMAIN heap' : heap'[o].family \in DOMAIN maps'
  BY <1>1 DEF MetaTyped
<1>3. CASE Paged(i)
  <2>1. /\ current' = Task(i).base /\ page' \in Nat /\ lastLength' \in 0..NumPages
        /\ Change({UpdateOf(Following, current)}, {[page |-> Following, base |-> current]})
    BY <1>2, <1>3, PagedFacts
  <2>2. Following \in Nat
    BY PagedFacts, <1>2, PagesCounted, CurrentFacts DEF Following
  <2>3. /\ (\A j \in DOMAIN ui.tasks : WellPlaced(Task(j)))'
        /\ (\A j \in DOMAIN ui.queued : ui.queued[j].base \in DOMAIN heap)'
    BY <1>2, <2>1, <2>2, CurrentFacts, UpdatePlaced, ChangePlaced
  <2>4. current' \in DOMAIN heap' /\ ui' \in Ui
    BY <1>1, <2>1, LoadFacts DEF Change
  <2>. QED  BY <1>2, <2>1, <2>3, <2>4, TypedNext DEF Next, Answer
<1>4. CASE ui' = Goes(i, "all") /\ UNCHANGED <<current, page, lastLength>>
  <2>. DEFINE T == {[Task(i) EXCEPT !.at = "all"]}
  <2>1. ui' \in Ui /\ Change(T, {})
    BY <1>2, <1>4, GoesIs, GoesChange
  <2>2. \A u \in T : WellPlaced(u)'
    BY <1>1, <1>2, MovedPlaced
  <2>. HIDE DEF T
  <2>3. /\ (\A j \in DOMAIN ui.tasks : WellPlaced(Task(j)))'
        /\ (\A j \in DOMAIN ui.queued : ui.queued[j].base \in DOMAIN heap)'
    BY <1>2, <2>1, <2>2, ChangePlaced
  <2>4. current' \in DOMAIN heap' /\ page' \in Nat /\ lastLength' \in 0..NumPages
    BY <1>1, <1>4 DEF MetaTyped
  <2>. QED  BY <1>2, <2>1, <2>3, <2>4, TypedNext DEF Next, Answer
<1>. QED  BY <1>3, <1>4 DEF IndexMissing

\* The auctions of a page are read.
LEMMA ContentReadTyped ==
  ASSUME MetaTyped, NEW i \in DOMAIN ui.tasks, ContentRead(i)
  PROVE  /\ MetaTyped'
         /\ heap' \in Seq(Object) /\ Len(heap') = Len(heap)
         /\ \A o \in DOMAIN heap : heap'[o].family = heap[o].family
         /\ \A f \in DOMAIN maps : f \in DOMAIN maps' /\ maps[f] \subseteq maps'[f]
<1>. DEFINE t == Task(i)
            f == heap[t.base].family
            b == t.page = 0
<1>1. /\ t.kind = "update" /\ t.at = "content" /\ Paged(i)
      /\ maps' = [maps EXCEPT ![f] = @ \cup AuctionsOf(t.page)]
      /\ heap' = [heap EXCEPT ![t.base].store = @ \/ b]
      /\ UNCHANGED <<ready, size, seen>>
  BY DEF ContentRead
<1>2. /\ heap \in Seq(Object) /\ t.base \in DOMAIN heap /\ ui \in Ui /\ t.page \in Pages
      /\ maps \in Seq(SUBSET Universe) /\ f \in DOMAIN maps
      /\ seen' \in Seen /\ ready' \in BOOLEAN /\ size \in {0, NumPages}
  BY <1>1, LoadFacts DEF MetaTyped, WellPlaced
<1>3. /\ heap' \in Seq(Object) /\ Len(heap') = Len(heap) /\ DOMAIN heap' = DOMAIN heap
      /\ \A q \in DOMAIN heap : heap'[q].family = heap[q].family
  <2>1. b \in BOOLEAN
    OBVIOUS
  <2>. HIDE DEF b
  <2>. QED  BY <1>1, <1>2, <2>1, HeapWith
<1>4. /\ maps' \in Seq(SUBSET Universe) /\ DOMAIN maps' = DOMAIN maps
      /\ \A g \in DOMAIN maps : maps[g] \subseteq maps'[g]
  <2>1. AuctionsOf(t.page) \subseteq Universe
    BY <1>2, ShowsAuctions
  <2>. DEFINE X == maps[f] \cup AuctionsOf(t.page)
  <2>2. X \in SUBSET Universe /\ maps[f] \subseteq X /\ maps' = [maps EXCEPT ![f] = X]
    BY <1>1, <1>2, <2>1
  <2>. HIDE DEF X, f
  <2>. DEFINE D == SUBSET Universe
  <2>3. X \in D /\ maps \in Seq(D) /\ f \in DOMAIN maps
    BY <1>2, <2>2
  <2>. HIDE DEF D
  <2>4. maps' \in Seq(D) /\ DOMAIN maps' = DOMAIN maps
    BY <2>2, <2>3
  <2>5. ASSUME NEW g \in DOMAIN maps
        PROVE  maps[g] \subseteq maps'[g]
    BY <2>2, <2>3
  <2>. QED  BY <2>4, <2>5 DEF D
<1>. HIDE DEF f, b
<1>5. Len(heap) <= Len(heap') /\ size' = size
  BY <1>1, <1>2, <1>3
<1>6. /\ current' = t.base /\ page' \in Nat /\ lastLength' \in 0..NumPages
      /\ Change({UpdateOf(Following, current)}, {[page |-> Following, base |-> current]})
  BY <1>1, <1>3, <1>5, PagedFacts
<1>7. Following \in Nat
  BY PagesCounted, CurrentFacts DEF Following
<1>8. /\ (\A j \in DOMAIN ui.tasks : WellPlaced(Task(j)))'
      /\ (\A j \in DOMAIN ui.queued : ui.queued[j].base \in DOMAIN heap)'
  BY <1>3, <1>5, <1>6, <1>7, CurrentFacts, UpdatePlaced, ChangePlaced
<1>9. current' \in DOMAIN heap' /\ ui' \in Ui
  BY <1>2, <1>3, <1>6 DEF Change
<1>10. \A o \in DOMAIN heap' : heap'[o].family \in DOMAIN maps'
  BY <1>3, <1>4 DEF MetaTyped
<1>11. MetaTyped'
  BY <1>2, <1>3, <1>4, <1>5, <1>6, <1>8, <1>9, <1>10, TypedNext DEF Next, Answer
<1>. QED  BY <1>3, <1>4, <1>11

\* Everything is loaded anew.
LEMMA AllReadTyped ==
  ASSUME MetaTyped, NEW i \in DOMAIN ui.tasks, AllRead(i)
  PROVE  MetaTyped'
<1>. DEFINE x == [family |-> Len(maps) + 1, pages |-> Pages, store |-> TRUE]
            w == Without(i)
<1>1. /\ Task(i).at = "all" /\ current' = Len(heap) + 1
      /\ heap' = Append(heap, x) /\ maps' = Append(maps, Everything)
      /\ ui' = IF Task(i).kind = "update"
               THEN [w EXCEPT !.loadingData = FALSE, !.isLoading = FALSE]
               ELSE Spreads(i, Everything)
      /\ seen' = [seen EXCEPT !.anew = TRUE]
      /\ UNCHANGED <<page, lastLength, ready, size>>
  BY DEF AllRead, NewObject
<1>2. /\ heap \in Seq(Object) /\ ui \in Ui /\ maps \in Seq(SUBSET Universe) /\ seen \in Seen
      /\ WellPlaced(Task(i))
  BY CurrentFacts, LoadFacts DEF MetaTyped
<1>3. x \in Object /\ x.family = Len(maps) + 1
  BY <1>2 DEF Object
<1>. HIDE DEF x, w
<1>4. /\ heap' \in Seq(Object) /\ Len(heap') = Len(heap) + 1
      /\ heap'[Len(heap) + 1] = x /\ current' \in DOMAIN heap'
      /\ \A o \in DOMAIN heap : heap'[o] = heap[o]
      /\ \A o \in DOMAIN heap' : o \in DOMAIN heap \/ o = Len(heap) + 1
  BY <1>1, <1>2, <1>3, HeapLonger
<1>5. /\ maps' \in Seq(SUBSET Universe) /\ DOMAIN maps \subseteq DOMAIN maps'
      /\ Len(maps) + 1 \in DOMAIN maps'
  <2>1. Everything \in SUBSET Universe
    BY DEF Universe
  <2>. DEFINE D == SUBSET Universe
  <2>2. Everything \in D /\ maps \in Seq(D)
    BY <1>2, <2>1
  <2>. HIDE DEF D
  <2>3. maps' \in Seq(D) /\ Len(maps') = Len(maps) + 1
    BY <1>1, <2>2
  <2>. QED  BY <1>2, <2>3 DEF D
<1>6. \A o \in DOMAIN heap' : heap'[o].family \in DOMAIN maps'
  BY <1>3, <1>4, <1>5 DEF MetaTyped
<1>7. Len(heap) <= Len(heap') /\ size' = size
  BY <1>1, <1>2, <1>4
<1>8. seen' \in Seen
  BY <1>1, <1>2, SeenFields
<1>9. /\ ui' \in Ui
      /\ (\A j \in DOMAIN ui.tasks : WellPlaced(Task(j)))'
      /\ (\A j \in DOMAIN ui.queued : ui.queued[j].base \in DOMAIN heap)'
  <2>1. CASE Task(i).kind = "update"
    <3>1. w \in Ui /\ ui' = [w EXCEPT !.loadingData = FALSE, !.isLoading = FALSE]
      BY <1>1, <1>2, <2>1, WithoutIs DEF w
    <3>2. ui' \in Ui /\ ui'.tasks = w.tasks /\ ui'.queued = w.queued
      BY <3>1, UiFields
    <3>3. Change({}, {})
      BY <1>2, <3>2, WithoutIs, WithoutChange DEF w
    <3>. QED  BY <1>4, <1>7, <3>2, <3>3, NothingNew, ChangePlaced
  <2>2. CASE Task(i).kind # "update"
    <3>. DEFINE T == {SpreadOf(i, Everything)}
    <3>0. Everything \in SUBSET Universe
      BY DEF Universe
    <3>1. ui' = Spreads(i, Everything)
      BY <1>1, <2>2
    <3>2. ui' \in Ui /\ Change(T, {})
      BY <1>2, <3>0, <3>1, SpreadsIs, SpreadsChange
    <3>3. \A u \in T : WellPlaced(u)'
      BY <1>4, <1>7, <2>2, <3>0, SpreadPlaced
    <3>. HIDE DEF T
    <3>. QED  BY <1>4, <1>7, <3>2, <3>3, ChangePlaced
  <2>. QED  BY <2>1, <2>2
<1>10. page' \in Nat /\ lastLength' \in 0..NumPages /\ ready' \in BOOLEAN
  BY <1>1 DEF MetaTyped
<1>. QED  BY <1>4, <1>5, <1>6, <1>7, <1>8, <1>9, <1>10, TypedNext DEF Next, Answer

\* What a load has read goes to its object, which all but those of the user's
\* accounts make the state.
LEMMA PullReadTyped ==
  ASSUME MetaTyped, NEW i \in DOMAIN ui.tasks, PullRead(i)
  PROVE  MetaTyped' /\ Change({SpreadOf(i, known[Task(i).base])}, {})
<1>. DEFINE map == known[Task(i).base]
            T == {SpreadOf(i, map)}
            g == Spreads(i, map)
            b == g.isLoading /\ Task(i).kind # "metadata"
<1>1. /\ Task(i).at = "read" /\ ui' = [g EXCEPT !.isLoading = b]
      /\ current' = (IF Task(i).kind = "user" THEN current ELSE Task(i).base)
      /\ UNCHANGED <<heap, maps, page, lastLength, ready, size, seen>>
  BY DEF PullRead
<1>2. /\ heap' \in Seq(Object) /\ Len(heap) <= Len(heap') /\ size' = size
      /\ ui \in Ui /\ maps' \in Seq(SUBSET Universe) /\ seen' \in Seen /\ ready' \in BOOLEAN
      /\ page' \in Nat /\ lastLength' \in 0..NumPages
      /\ \A o \in DOMAIN heap' : heap'[o].family \in DOMAIN maps'
  BY <1>1 DEF MetaTyped
<1>. HIDE DEF map
<1>0. map \in SUBSET Universe
  BY KnownFacts DEF map
<1>3. g \in Ui /\ b \in BOOLEAN
  BY <1>0, <1>2, SpreadsIs DEF Ui
<1>. HIDE DEF b
<1>4. ui' \in Ui /\ ui'.tasks = g.tasks /\ ui'.queued = g.queued
  BY <1>1, <1>3, UiFields
<1>5. Change(T, {})
  BY <1>0, <1>2, <1>4, SpreadsIs, SpreadsChange
<1>6. \A u \in T : WellPlaced(u)'
  <2>1. Task(i).kind # "update"
    BY <1>1, LoadFacts DEF WellPlaced
  <2>. QED  BY <1>0, <1>2, <2>1, SpreadPlaced
<1>. HIDE DEF T
<1>7. /\ (\A j \in DOMAIN ui.tasks : WellPlaced(Task(j)))'
      /\ (\A j \in DOMAIN ui.queued : ui.queued[j].base \in DOMAIN heap)'
  BY <1>2, <1>5, <1>6, ChangePlaced
<1>8. current' \in DOMAIN heap'
  BY <1>1, LoadFacts, CurrentFacts
<1>9. MetaTyped'
  BY <1>2, <1>4, <1>7, <1>8, TypedNext DEF Next, Answer
<1>. QED  BY <1>5, <1>9 DEF T, map

\* A load that ends, of which nothing is left but the flag of the user's loads.
LEMMA EndedChange ==
  ASSUME ui \in Ui, NEW i \in DOMAIN ui.tasks, NEW b \in BOOLEAN,
         ui' = [Without(i) EXCEPT !.loadingMetadata = b]
  PROVE  ui' \in Ui /\ ui'.tasks = Without(i).tasks /\ Change({}, {})
<1>1. ui' \in Ui /\ ui'.tasks = Without(i).tasks /\ ui'.queued = Without(i).queued
  BY WithoutIs, UiFields
<1>. QED  BY <1>1, WithoutIs, WithoutChange

\* The mints are read, and a copy is the state.
LEMMA MintsReadTyped ==
  ASSUME MetaTyped, NEW i \in DOMAIN ui.tasks, MintsRead(i)
  PROVE  MetaTyped' /\ Change({}, {})
<1>. DEFINE b == ui.loadingMetadata /\ Task(i).kind # "user"
<1>1. /\ ui' = [Without(i) EXCEPT !.loadingMetadata = b]
      /\ UNCHANGED <<page, lastLength, ready, size>>
  BY CurrentFacts, WithoutIs DEF MintsRead
<1>2. /\ ui \in Ui /\ heap \in Seq(Object) /\ heap[current] \in Object
      /\ maps \in Seq(SUBSET Universe) /\ seen \in Seen
  BY CurrentFacts DEF MetaTyped
<1>3. b \in BOOLEAN
  BY <1>2 DEF Ui
<1>. HIDE DEF b
<1>4. ui' \in Ui /\ Change({}, {})
  BY <1>1, <1>2, <1>3, EndedChange
<1>5. /\ heap' \in Seq(Object) /\ Len(heap) <= Len(heap') /\ current' \in DOMAIN heap'
      /\ maps' = maps /\ seen' \in Seen
      /\ \A o \in DOMAIN heap' : heap'[o].family \in DOMAIN maps'
  <2>1. CASE Task(i).kind = "user"
    <3>1. current' = Task(i).base /\ UNCHANGED <<heap, maps, seen>>
      BY <2>1 DEF MintsRead
    <3>. QED  BY <1>2, <3>1, LoadFacts DEF MetaTyped
  <2>2. CASE Task(i).kind # "user"
    <3>1. /\ heap' = Append(heap, heap[current]) /\ maps' = maps /\ current' = Len(heap) + 1
          /\ seen' = [seen EXCEPT !.replaced = seen.replaced \/ Paging]
      BY <2>2 DEF MintsRead, Copy
    <3>2. /\ heap' \in Seq(Object) /\ Len(heap') = Len(heap) + 1
          /\ heap'[Len(heap) + 1] = heap[current] /\ current' \in DOMAIN heap'
          /\ \A o \in DOMAIN heap : heap'[o] = heap[o]
          /\ \A o \in DOMAIN heap' : o \in DOMAIN heap \/ o = Len(heap) + 1
      BY <1>2, <3>1, HeapLonger
    <3>3. \A o \in DOMAIN heap' : heap'[o].family \in DOMAIN maps'
      BY <3>1, <3>2 DEF MetaTyped
    <3>4. seen' \in Seen
      <4>1. (seen.replaced \/ Paging) \in BOOLEAN
        BY <1>2 DEF Seen, Paging
      <4>. QED  BY <1>2, <3>1, <4>1, SeenFields
    <3>. QED  BY <1>2, <3>1, <3>2, <3>3, <3>4
  <2>. QED  BY <2>1, <2>2
<1>6. size' = size /\ page' \in Nat /\ lastLength' \in 0..NumPages /\ ready' \in BOOLEAN
  BY <1>1 DEF MetaTyped
<1>7. /\ (\A j \in DOMAIN ui.tasks : WellPlaced(Task(j)))'
      /\ (\A j \in DOMAIN ui.queued : ui.queued[j].base \in DOMAIN heap)'
  BY <1>4, <1>5, <1>6, NothingNew, ChangePlaced
<1>8. MetaTyped'
  BY <1>2, <1>4, <1>5, <1>6, <1>7, TypedNext DEF Next, Answer
<1>. QED  BY <1>4, <1>8

\* A read fails.
LEMMA FailTyped ==
  ASSUME MetaTyped, NEW i \in DOMAIN ui.tasks, Fail(i)
  PROVE  MetaTyped' /\ Change({}, {})
<1>. DEFINE b == ui.loadingMetadata /\ ~(Task(i).at = "mints" /\ Task(i).kind = "user")
            n == seen.faults + 1
            f == seen.failed \/ Task(i).kind = "update"
<1>1. /\ ui' = [Without(i) EXCEPT !.loadingMetadata = b]
      /\ seen' = [seen EXCEPT !.faults = n, !.failed = f]
      /\ current' \in {Task(i).base, current}
      /\ UNCHANGED <<heap, maps, page, lastLength, ready, size>>
  BY CurrentFacts, WithoutIs DEF Fail
<1>2. ui \in Ui /\ heap \in Seq(Object) /\ seen \in Seen
  BY CurrentFacts DEF MetaTyped
<1>3. b \in BOOLEAN /\ n \in Nat /\ f \in BOOLEAN
  BY <1>2 DEF Ui, Seen
<1>. HIDE DEF b, n, f
<1>4. ui' \in Ui /\ Change({}, {})
  BY <1>1, <1>2, <1>3, EndedChange
<1>5. /\ heap' \in Seq(Object) /\ Len(heap) <= Len(heap') /\ current' \in DOMAIN heap'
      /\ maps' \in Seq(SUBSET Universe) /\ seen' \in Seen
      /\ \A o \in DOMAIN heap' : heap'[o].family \in DOMAIN maps'
  <2>1. seen' \in Seen
    BY <1>1, <1>2, <1>3, SeenFields
  <2>. QED  BY <1>1, <1>2, <2>1, LoadFacts DEF MetaTyped
<1>6. size' = size /\ page' \in Nat /\ lastLength' \in 0..NumPages /\ ready' \in BOOLEAN
  BY <1>1 DEF MetaTyped
<1>7. /\ (\A j \in DOMAIN ui.tasks : WellPlaced(Task(j)))'
      /\ (\A j \in DOMAIN ui.queued : ui.queued[j].base \in DOMAIN heap)'
  BY <1>4, <1>5, <1>6, NothingNew, ChangePlaced
<1>8. MetaTyped'
  BY <1>4, <1>5, <1>6, <1>7, TypedNext DEF Next, Answer
<1>. QED  BY <1>4, <1>8

\* What a page of the site starts.
PullOf(kind) == [kind |-> kind, page |-> 0, base |-> current, holds |-> FALSE, snap |-> {},
                 at |-> IF kind = "site" THEN "all" ELSE "read"]

\* A page of the site starts a load.
LEMMA PullTyped ==
  ASSUME MetaTyped, NEW kind \in Kinds, Pull(kind)
  PROVE  /\ MetaTyped' /\ Change({PullOf(kind)}, {})
         /\ ui'.tasks = Append(ui.tasks, PullOf(kind)) /\ ui'.queued = ui.queued
         /\ ui'.loadingData = ui.loadingData
         /\ ~ui.isLoading
         /\ kind = "list" => Shown # {}
         /\ kind \notin {"list", "user"} => ready
<1>. DEFINE t == PullOf(kind)
            n == seen.pulls + 1
            loading == kind = "metadata" \/ (kind \in {"auction", "site"} /\ ~heap[current].store)
            a == ui.isLoading \/ loading
            b == ui.loadingMetadata \/ kind = "user"
<1>1. /\ ui' = [ui EXCEPT !.tasks = Append(ui.tasks, t), !.isLoading = a, !.loadingMetadata = b]
      /\ seen' = [seen EXCEPT !.pulls = n]
      /\ UNCHANGED <<heap, maps, current, page, lastLength, ready, size>>
  BY DEF Pull, PullOf
<1>2. ui \in Ui /\ ui.tasks \in Seq(Load) /\ heap \in Seq(Object) /\ seen \in Seen
  BY CurrentFacts DEF MetaTyped, Ui
<1>3. a \in BOOLEAN /\ b \in BOOLEAN /\ n \in Nat
  BY <1>2, CurrentFacts DEF Ui, Seen
<1>. HIDE DEF a, b, n
<1>4. t \in Load /\ t.base = current /\ t.kind = kind /\ t.at = IF kind = "site" THEN "all" ELSE "read"
  BY CurrentFacts DEF PullOf, Load
<1>. HIDE DEF t
<1>5. /\ ui' \in Ui /\ ui'.tasks = Append(ui.tasks, t) /\ ui'.queued = ui.queued
      /\ ui'.loadingData = ui.loadingData
  <2>. DEFINE s == Append(ui.tasks, t)
  <2>1. s \in Seq(Load)
    BY <1>2, <1>4
  <2>. HIDE DEF s
  <2>2. ui' = [ui EXCEPT !.tasks = s, !.isLoading = a, !.loadingMetadata = b]
    BY <1>1 DEF s
  <2>3. /\ ui' \in Ui /\ ui'.tasks = s /\ ui'.queued = ui.queued
        /\ ui'.loadingData = ui.loadingData
    BY <1>2, <1>3, <2>1, <2>2 DEF Ui
  <2>. QED  BY <2>3 DEF s
<1>6. ASSUME NEW j \in DOMAIN ui'.tasks
      PROVE  ui'.tasks[j] \in {t} \/ \E k \in DOMAIN ui.tasks : ui'.tasks[j] = ui.tasks[k]
  BY <1>2, <1>4, <1>5, Appended
<1>7. Change({t}, {})
  BY <1>5, <1>6 DEF Change
<1>8. \A u \in {t} : WellPlaced(u)'
  BY <1>1, <1>4, CurrentFacts DEF WellPlaced, Kinds
<1>9. /\ heap' \in Seq(Object) /\ Len(heap) <= Len(heap') /\ current' \in DOMAIN heap'
      /\ maps' \in Seq(SUBSET Universe) /\ seen' \in Seen
      /\ \A o \in DOMAIN heap' : heap'[o].family \in DOMAIN maps'
  <2>1. seen' \in Seen
    BY <1>1, <1>2, <1>3, SeenFields
  <2>. QED  BY <1>1, <1>2, <2>1 DEF MetaTyped
<1>10. size' = size /\ page' \in Nat /\ lastLength' \in 0..NumPages /\ ready' \in BOOLEAN
  BY <1>1 DEF MetaTyped
<1>11. /\ (\A j \in DOMAIN ui.tasks : WellPlaced(Task(j)))'
       /\ (\A j \in DOMAIN ui.queued : ui.queued[j].base \in DOMAIN heap)'
  BY <1>7, <1>8, <1>9, <1>10, NothingNew, ChangePlaced
<1>12. MetaTyped'
  BY <1>5, <1>9, <1>10, <1>11, TypedNext DEF Next, Answer
<1>13. ~ui.isLoading /\ (kind = "list" => Shown # {}) /\ (kind \notin {"list", "user"} => ready)
  BY DEF Pull, MayPull
<1>. QED  BY <1>5, <1>7, <1>12, <1>13 DEF t

-----------------------------------------------------------------------------
(* One family of maps: what is shown stays shown.                           *)

\* Nothing is lost in a step that loads nothing anew.
KeepsShown == ~seen'.anew => Shown \subseteq Shown'

\* A step that leaves the objects and the maps alone.
LEMMA FamilyFrame ==
  ASSUME MetaTyped, OneFamily, MetaTyped', UNCHANGED <<heap, maps>>,
         seen'.anew = seen.anew
  PROVE  OneFamily' /\ KeepsShown
<1>1. OneFamily'
  BY DEF OneFamily
<1>2. ASSUME ~seen'.anew
      PROVE  Shown \subseteq Shown'
  <2>1. heap[current].family = 1 /\ heap'[current'].family = 1
    BY <1>2 DEF OneFamily, MetaTyped
  <2>. QED  BY <2>1 DEF Shown
<1>. QED  BY <1>1, <1>2 DEF KeepsShown

\* Every step keeps the copies on the same maps, and what is shown.
LEMMA FamilyStep ==
  ASSUME MetaTyped, OneFamily, MetaTyped', Next
  PROVE  OneFamily' /\ KeepsShown
<1>1. CASE StoreReady
  BY <1>1, FamilyFrame DEF StoreReady
<1>2. CASE Rerun
  <2>1. seen'.anew = seen.anew /\ UNCHANGED <<heap, maps>>
    BY <1>2 DEF Rerun, MetaTyped, Seen
  <2>. QED  BY <2>1, FamilyFrame
<1>3. ASSUME NEW i \in DOMAIN ui.queued, Tick(i)
      PROVE  OneFamily' /\ KeepsShown
  BY <1>3, FamilyFrame DEF Tick
<1>4. ASSUME NEW i \in DOMAIN ui.tasks, IndexRead(i)
      PROVE  OneFamily' /\ KeepsShown
  <2>1. /\ seen'.anew = seen.anew /\ maps' = maps /\ current' = current
        /\ heap' = [heap EXCEPT ![Task(i).base].pages = @ \cup {Task(i).page}]
        /\ Task(i).page \in Pages
    BY <1>4 DEF IndexRead, MetaTyped, Seen
  <2>2. /\ DOMAIN heap' = DOMAIN heap
        /\ \A q \in DOMAIN heap : heap'[q].family = heap[q].family
    BY <2>1, LoadFacts, CurrentFacts, HeapWith
  <2>. QED  BY <2>1, <2>2, CurrentFacts DEF OneFamily, KeepsShown, Shown
<1>5. ASSUME NEW i \in DOMAIN ui.tasks, IndexMissing(i)
      PROVE  OneFamily' /\ KeepsShown
  BY <1>5, FamilyFrame DEF IndexMissing
<1>6. ASSUME NEW i \in DOMAIN ui.tasks, ContentRead(i)
      PROVE  OneFamily' /\ KeepsShown
  <2>1. /\ heap' \in Seq(Object) /\ Len(heap') = Len(heap)
        /\ \A o \in DOMAIN heap : heap'[o].family = heap[o].family
        /\ \A f \in DOMAIN maps : f \in DOMAIN maps' /\ maps[f] \subseteq maps'[f]
        /\ seen' = seen
    BY <1>6, ContentReadTyped DEF ContentRead
  <2>2. DOMAIN heap' = DOMAIN heap
    BY <2>1, CurrentFacts
  <2>3. OneFamily'
    BY <2>1, <2>2 DEF OneFamily
  <2>4. ASSUME ~seen'.anew
        PROVE  Shown \subseteq Shown'
    <3>1. heap[current].family = 1 /\ heap'[current'].family = 1 /\ 1 \in DOMAIN maps
      BY <2>1, <2>2, <2>3, <2>4 DEF OneFamily, MetaTyped
    <3>. QED  BY <2>1, <3>1 DEF Shown
  <2>. QED  BY <2>3, <2>4 DEF KeepsShown
<1>7. ASSUME NEW i \in DOMAIN ui.tasks, AllRead(i)
      PROVE  OneFamily' /\ KeepsShown
  <2>1. seen'.anew
    BY <1>7 DEF AllRead, MetaTyped, Seen
  <2>. QED  BY <2>1 DEF OneFamily, KeepsShown
<1>8. ASSUME NEW i \in DOMAIN ui.tasks, PullRead(i)
      PROVE  OneFamily' /\ KeepsShown
  BY <1>8, FamilyFrame DEF PullRead
<1>9. ASSUME NEW i \in DOMAIN ui.tasks, MintsRead(i)
      PROVE  OneFamily' /\ KeepsShown
  <2>1. CASE Task(i).kind = "user"
    BY <1>9, <2>1, FamilyFrame DEF MintsRead
  <2>2. CASE Task(i).kind # "user"
    <3>1. /\ heap' = Append(heap, heap[current]) /\ maps' = maps
          /\ seen'.anew = seen.anew
      BY <1>9, <2>2 DEF MintsRead, Copy, MetaTyped, Seen
    <3>2. /\ \A o \in DOMAIN heap : heap'[o] = heap[o]
          /\ \A o \in DOMAIN heap' : o \in DOMAIN heap \/ heap'[o] = heap[current]
      BY <3>1, CurrentFacts, HeapLonger
    <3>3. OneFamily'
      BY <3>1, <3>2, CurrentFacts DEF OneFamily
    <3>4. ASSUME ~seen'.anew
          PROVE  Shown \subseteq Shown'
      <4>1. heap[current].family = 1 /\ heap'[current'].family = 1
        BY <3>1, <3>3, <3>4 DEF OneFamily, MetaTyped
      <4>. QED  BY <3>1, <4>1 DEF Shown
    <3>. QED  BY <3>3, <3>4 DEF KeepsShown
  <2>. QED  BY <2>1, <2>2
<1>10. ASSUME NEW i \in DOMAIN ui.tasks, Fail(i)
       PROVE  OneFamily' /\ KeepsShown
  <2>1. seen'.anew = seen.anew /\ UNCHANGED <<heap, maps>>
    BY <1>10 DEF Fail, MetaTyped, Seen
  <2>. QED  BY <2>1, FamilyFrame
<1>11. ASSUME NEW kind \in Kinds, Pull(kind)
       PROVE  OneFamily' /\ KeepsShown
  <2>1. seen'.anew = seen.anew /\ UNCHANGED <<heap, maps>>
    BY <1>11 DEF Pull, MetaTyped, Seen
  <2>. QED  BY <2>1, FamilyFrame
<1>. QED  BY <1>1, <1>2, <1>3, <1>4, <1>5, <1>6, <1>7, <1>8, <1>9, <1>10, <1>11
          DEF Next, Answer

-----------------------------------------------------------------------------
(* The metadata that all loads know of.                                     *)

\* It is not lost in a step that loads nothing anew.
KeepsKnown == ~seen'.anew => KnownToAll \ Fungible \subseteq KnownToAll'

\* What is known to the object of the state, to all loads and to all queued
\* updates stays so if the objects lose nothing and the new ones know it.
LEMMA StaysKnown ==
  ASSUME MetaTyped, MetaTyped', NEW T, NEW Q, Change(T, Q), NEW m \in KnownToAll,
         \A o \in DOMAIN heap : m \in known[o] => m \in known'[o],
         m \in known'[current'],
         \A t \in T : m \in known'[t.base] /\ (t.at = "mints" => m \in t.snap),
         \A q \in Q : m \in known'[q.base]
  PROVE  m \in KnownToAll'
<1>1. /\ \A i \in DOMAIN ui.tasks : /\ m \in known[Task(i).base]
                                    /\ Task(i).at = "mints" => m \in Task(i).snap
      /\ \A i \in DOMAIN ui.queued : m \in known[ui.queued[i].base]
  BY DEF KnownToAll
<1>2. ASSUME NEW j \in DOMAIN ui'.tasks
      PROVE  /\ m \in known'[Task(j)'.base]
             /\ Task(j)'.at = "mints" => m \in Task(j)'.snap
  <2>1. CASE ui'.tasks[j] \in T
    BY <2>1 DEF Task
  <2>2. CASE \E k \in DOMAIN ui.tasks : ui'.tasks[j] = ui.tasks[k]
    <3>1. PICK k \in DOMAIN ui.tasks : ui'.tasks[j] = ui.tasks[k]
      BY <2>2
    <3>2. Task(k).base \in DOMAIN heap /\ Task(j)' = Task(k)
      BY <3>1, LoadFacts DEF Task
    <3>3. m \in known[Task(k).base] /\ (Task(k).at = "mints" => m \in Task(k).snap)
      BY <1>1, <3>1
    <3>4. m \in known'[Task(k).base]
      BY <3>2, <3>3
    <3>. QED  BY <3>2, <3>3, <3>4
  <2>. QED  BY <2>1, <2>2 DEF Change
<1>3. ASSUME NEW j \in DOMAIN ui'.queued
      PROVE  m \in known'[ui'.queued[j].base]
  <2>1. CASE ui'.queued[j] \in Q
    BY <2>1
  <2>2. CASE \E k \in DOMAIN ui.queued : ui'.queued[j] = ui.queued[k]
    BY <1>1, <2>2 DEF MetaTyped
  <2>. QED  BY <2>1, <2>2 DEF Change
<1>. QED  BY <1>2, <1>3 DEF KnownToAll, MetadataShown

\* What is known to all is known to the object of the state, of each load and of
\* each queued update, and was spread by the loads that wait for mints.
LEMMA KnownMeans ==
  ASSUME NEW m \in KnownToAll
  PROVE  /\ m \in known[current]
         /\ \A i \in DOMAIN ui.tasks : /\ m \in known[Task(i).base]
                                       /\ Task(i).at = "mints" => m \in Task(i).snap
         /\ \A i \in DOMAIN ui.queued : m \in known[ui.queued[i].base]
BY DEF KnownToAll, MetadataShown

\* Every step keeps the metadata that is known to all.
LEMMA StepKnown ==
  ASSUME MetaTyped, MetaTyped', Next
  PROVE  KeepsKnown
<1>. SUFFICES ASSUME ~seen'.anew, NEW m \in KnownToAll, m \notin Fungible
              PROVE  m \in KnownToAll'
  BY DEF KeepsKnown
<1>1. /\ m \in known[current]
      /\ \A i \in DOMAIN ui.tasks : /\ m \in known[Task(i).base]
                                    /\ Task(i).at = "mints" => m \in Task(i).snap
      /\ \A i \in DOMAIN ui.queued : m \in known[ui.queued[i].base]
  BY KnownMeans
<1>2. heap \in Seq(Object) /\ Len(known) = Len(heap) /\ DOMAIN known = DOMAIN heap
  BY DEF MetaTyped, KnownTyped
<1>3. (\A t \in {} : m \in known'[t.base] /\ (t.at = "mints" => m \in t.snap))
        /\ \A q \in {} : m \in known'[q.base]
  OBVIOUS
<1>4. ASSUME NEW p, NEW o, m \in known'[o]
      PROVE  /\ \A t \in {UpdateOf(p, o)} : m \in known'[t.base] /\ (t.at = "mints" => m \in t.snap)
             /\ \A q \in {[page |-> p, base |-> o]} : m \in known'[q.base]
  <2>1. UpdateOf(p, o).base = o /\ UpdateOf(p, o).at = "index"
    BY DEF UpdateOf
  <2>. QED  BY <1>4, <2>1
<1>5. ASSUME StoreReady \/ Rerun
      PROVE  m \in KnownToAll'
  <2>1. known' = known /\ current' = current
    BY <1>5 DEF StoreReady, Rerun
  <2>2. Change({UpdateOf(page, current)}, {[page |-> page, base |-> current]})
    BY <1>5, EffectTyped
  <2>. QED  BY <1>1, <1>4, <2>1, <2>2, StaysKnown
<1>6. ASSUME NEW i \in DOMAIN ui.queued, Tick(i)
      PROVE  m \in KnownToAll'
  <2>1. known' = known /\ current' = current
    BY <1>6 DEF Tick
  <2>2. Change({UpdateOf(ui.queued[i].page, ui.queued[i].base)}, {})
    BY <1>6, TickTyped
  <2>. QED  BY <1>1, <1>3, <1>4, <2>1, <2>2, StaysKnown
<1>7. ASSUME NEW i \in DOMAIN ui.tasks, NEW at, at # "mints", Change({[Task(i) EXCEPT !.at = at]}, {}),
             known' = known, current' = current
      PROVE  m \in KnownToAll'
  <2>. DEFINE T == {[Task(i) EXCEPT !.at = at]}
  <2>1. \A t \in T : t.base = Task(i).base /\ t.at = at
    BY LoadFacts DEF Load
  <2>2. \A t \in T : m \in known'[t.base] /\ (t.at = "mints" => m \in t.snap)
    BY <1>1, <1>7, <2>1
  <2>3. Change(T, {})
    BY <1>7
  <2>. HIDE DEF T
  <2>. QED  BY <1>1, <1>3, <1>7, <2>2, <2>3, StaysKnown
<1>8. ASSUME NEW i \in DOMAIN ui.tasks, IndexRead(i)
      PROVE  m \in KnownToAll'
  <2>1. known' = known /\ current' = current
    BY <1>8 DEF IndexRead
  <2>. QED  BY <1>7, <1>8, <2>1, IndexReadTyped
<1>9. ASSUME NEW i \in DOMAIN ui.tasks, Paged(i), heap' \in Seq(Object), Len(heap) <= Len(heap'),
             size' = size, \A o \in DOMAIN heap : m \in known[o] => m \in known'[o]
      PROVE  m \in KnownToAll'
  <2>1. /\ current' = Task(i).base
        /\ Change({UpdateOf(Following, current)}, {[page |-> Following, base |-> current]})
    BY <1>9, PagedFacts
  <2>2. m \in known'[current'] /\ m \in known'[current]
    BY <1>1, <1>9, <2>1, LoadFacts, CurrentFacts
  <2>. QED  BY <1>4, <1>9, <2>1, <2>2, StaysKnown
<1>10. ASSUME NEW i \in DOMAIN ui.tasks, IndexMissing(i)
       PROVE  m \in KnownToAll'
  <2>1. UNCHANGED <<heap, known, size>>
    BY <1>10 DEF IndexMissing
  <2>2. CASE Paged(i)
    BY <1>2, <1>9, <2>1, <2>2
  <2>3. CASE ui' = Goes(i, "all") /\ UNCHANGED <<current, page, lastLength>>
    <3>1. Change({[Task(i) EXCEPT !.at = "all"]}, {})
      BY <2>3, CurrentFacts, GoesIs, GoesChange
    <3>. QED  BY <1>7, <2>1, <2>3, <3>1
  <2>. QED  BY <1>10, <2>2, <2>3 DEF IndexMissing
<1>11. ASSUME NEW i \in DOMAIN ui.tasks, ContentRead(i)
       PROVE  m \in KnownToAll'
  <2>1. /\ Paged(i) /\ size' = size
        /\ known' = [known EXCEPT ![Task(i).base] = @ \cup AuctionsOf(Task(i).page)]
    BY <1>11 DEF ContentRead
  <2>2. heap' \in Seq(Object) /\ Len(heap') = Len(heap)
    BY <1>11, ContentReadTyped
  <2>3. \A o \in DOMAIN heap : m \in known[o] => m \in known'[o]
    BY <1>2, <2>1
  <2>. QED  BY <1>2, <1>9, <2>1, <2>2, <2>3
<1>12. ASSUME NEW i \in DOMAIN ui.tasks, AllRead(i)
       PROVE  FALSE
  BY <1>12 DEF AllRead, MetaTyped, Seen
<1>13. ASSUME NEW i \in DOMAIN ui.tasks, PullRead(i)
       PROVE  m \in KnownToAll'
  <2>. DEFINE t == SpreadOf(i, known[Task(i).base])
  <2>1. known' = known /\ current' \in {current, Task(i).base}
    BY <1>13 DEF PullRead
  <2>2. t.base = Task(i).base /\ t.snap = known[Task(i).base]
    BY LoadFacts DEF SpreadOf, Load
  <2>3. Change({t}, {})
    BY <1>13, PullReadTyped
  <2>. HIDE DEF t
  <2>4. \A u \in {t} : m \in known'[u.base] /\ (u.at = "mints" => m \in u.snap)
    BY <1>1, <2>1, <2>2
  <2>5. m \in known'[current']
    BY <1>1, <2>1
  <2>. QED  BY <1>3, <2>1, <2>3, <2>4, <2>5, StaysKnown
<1>14. ASSUME NEW i \in DOMAIN ui.tasks, MintsRead(i)
       PROVE  m \in KnownToAll'
  <2>1. Change({}, {}) /\ Task(i).at = "mints"
    BY <1>14, MintsReadTyped DEF MintsRead
  <2>2. CASE Task(i).kind = "user"
    <3>1. current' = Task(i).base /\ known' = known
      BY <1>14, <2>2 DEF MintsRead
    <3>. QED  BY <1>1, <1>3, <2>1, <3>1, StaysKnown
  <2>3. CASE Task(i).kind # "user"
    <3>1. PICK out \in SUBSET (Fungible \cap Task(i).snap) :
            known' = Append(known, Task(i).snap \ out)
      BY <1>14, <2>3 DEF MintsRead, Copy
    <3>2. current' = Len(known) + 1
      BY <1>2, <1>14, <2>3 DEF MintsRead
    <3>. DEFINE map == Task(i).snap \ out
    <3>3. m \in map
      BY <1>1, <2>1, <3>1
    <3>. HIDE DEF map
    <3>. DEFINE D == SUBSET Universe
    <3>4. known \in Seq(D)
      BY DEF MetaTyped, KnownTyped
    <3>. HIDE DEF D
    <3>5. known' = Append(known, map)
      BY <3>1 DEF map
    <3>6. known'[Len(known) + 1] = map /\ \A o \in DOMAIN known : known'[o] = known[o]
      BY <3>4, <3>5
    <3>. QED  BY <1>2, <1>3, <2>1, <3>2, <3>3, <3>6, StaysKnown
  <2>. QED  BY <2>2, <2>3
<1>15. ASSUME NEW i \in DOMAIN ui.tasks, Fail(i)
       PROVE  m \in KnownToAll'
  <2>1. Change({}, {}) /\ known' = known /\ current' \in {current, Task(i).base}
    BY <1>15, FailTyped DEF Fail
  <2>2. m \in known'[current']
    BY <1>1, <1>15, <2>1
  <2>. QED  BY <1>3, <2>1, <2>2, StaysKnown
<1>16. ASSUME NEW kind \in Kinds, Pull(kind)
       PROVE  m \in KnownToAll'
  <2>1. Change({PullOf(kind)}, {}) /\ known' = known /\ current' = current
    BY <1>16, PullTyped DEF Pull
  <2>2. PullOf(kind).base = current /\ PullOf(kind).at # "mints"
    BY DEF PullOf
  <2>3. \A t \in {PullOf(kind)} : m \in known'[t.base] /\ (t.at = "mints" => m \in t.snap)
    BY <1>1, <2>1, <2>2
  <2>. QED  BY <1>1, <1>3, <2>1, <2>3, StaysKnown
<1>. QED  BY <1>5, <1>6, <1>8, <1>10, <1>11, <1>12, <1>13, <1>14, <1>15, <1>16 DEF Next, Answer

-----------------------------------------------------------------------------
(* The pages come in order.                                                 *)

\* The index has been read up to some page of it.
LEMMA DepthFacts ==
  ASSUME MetaTyped
  PROVE  /\ 1 \in DOMAIN heap /\ Depth \in 0..size /\ size \in Nat /\ NumPages \in Nat
         /\ size <= NumPages /\ lastLength \in Nat /\ page \in Nat
<1>1. 1 \in DOMAIN heap /\ heap[1] \in Object
  BY CurrentFacts
<1>2. heap[1].pages \in SUBSET Pages
  BY <1>1 DEF Object
<1>. QED  BY <1>1, <1>2, PagesCounted, CurrentFacts DEF Depth, MetaTyped

\* A step that reads no page, and asks for none beyond the next one.
LEMMA TogetherFrame ==
  ASSUME MetaTyped, Together, NEW T, NEW Q, Change(T, Q), size' = size,
         heap' \in Seq(Object), Len(heap') = Len(heap),
         \A o \in DOMAIN heap : heap'[o].pages = heap[o].pages,
         seen.read \subseteq seen'.read, page' <= lastLength', lastLength' <= Depth,
         \A t \in T : t.kind = "update" => t.page <= Depth, \A q \in Q : q.page <= Depth
  PROVE  Together'
<1>1. DOMAIN heap' = DOMAIN heap /\ 1 \in DOMAIN heap /\ Depth' = Depth
  BY CurrentFacts, DepthFacts DEF Depth
<1>2. /\ \A j \in DOMAIN ui'.tasks : ui'.tasks[j].kind = "update" => ui'.tasks[j].page <= Depth
      /\ \A j \in DOMAIN ui'.queued : ui'.queued[j].page <= Depth
  BY DEF Change, Together, Task
<1>3. /\ \A o \in DOMAIN heap' : heap'[o].pages = 0..(Depth - 1)
      /\ Len(heap') > 1 => Depth = size'
      /\ 0..(Depth - 1) \subseteq seen'.read
  BY <1>1 DEF Together
<1>. QED  BY <1>1, <1>2, <1>3 DEF Together, Task

\* An update that ends asks for the next page if there is one.
LEMMA TogetherPaged ==
  ASSUME MetaTyped, Together, NEW i \in DOMAIN ui.tasks, Paged(i), size' = size,
         heap' \in Seq(Object), Len(heap') = Len(heap),
         \A o \in DOMAIN heap : heap'[o].pages = heap[o].pages,
         seen'.read = seen.read
  PROVE  Together'
<1>1. Len(heap) <= Len(heap')
  BY CurrentFacts
<1>2. lastLength' = Depth
  <2>1. heap'[Task(i).base].pages = heap[1].pages
    BY LoadFacts, DepthFacts DEF Together
  <2>. QED  BY <1>1, <2>1, PagedFacts DEF Depth
<1>3. Grown(i) <=> Depth # lastLength
  BY <1>2, <1>1, PagedFacts DEF Grown, IndexLength
<1>4. CASE Grown(i)
  <2>1. Following = page + 1 /\ Following <= Depth
    BY <1>3, <1>4, DepthFacts DEF Together, Following
  <2>2. page' = Following
    BY <1>1, <1>4, PagedFacts
  <2>. DEFINE T == {UpdateOf(Following, current)}
              Q == {[page |-> Following, base |-> current]}
  <2>3. Change(T, Q)
    BY <1>1, PagedFacts
  <2>4. \A t \in T : t.page = Following
    BY DEF UpdateOf
  <2>5. \A q \in Q : q.page = Following
    OBVIOUS
  <2>6. page' <= lastLength' /\ lastLength' <= Depth
    BY <1>2, <2>1, <2>2, DepthFacts
  <2>. HIDE DEF T, Q
  <2>. QED  BY <2>1, <2>3, <2>4, <2>5, <2>6, TogetherFrame
<1>5. CASE ~Grown(i)
  <2>1. page' = page /\ Change({}, {})
    BY <1>1, <1>5, PagedFacts
  <2>2. page' <= lastLength' /\ lastLength' <= Depth
    BY <1>2, <2>1, DepthFacts DEF Together
  <2>3. /\ \A t \in {} : t.kind = "update" => t.page <= Depth
        /\ \A q \in {} : q.page <= Depth
    OBVIOUS
  <2>. QED  BY <2>1, <2>2, <2>3, TogetherFrame
<1>. QED  BY <1>4, <1>5

\* A step that touches no object, and starts no update.
LEMMA TogetherStill ==
  ASSUME MetaTyped, Together, NEW T, Change(T, {}), UNCHANGED <<heap, page, lastLength, size>>,
         seen'.read = seen.read, \A t \in T : t.kind = "update" => t.page <= Depth
  PROVE  Together'
<1>1. page' <= lastLength' /\ lastLength' <= Depth
  BY DEF Together
<1>2. \A q \in {} : q.page <= Depth
  OBVIOUS
<1>. QED  BY <1>1, <1>2, CurrentFacts, TogetherFrame

\* The page that is read is the next one, or was read before.
LEMMA TogetherIndexRead ==
  ASSUME MetaTyped, Together, NEW i \in DOMAIN ui.tasks, IndexRead(i)
  PROVE  Together'
<1>. DEFINE t == Task(i)
            T == {[t EXCEPT !.at = "content"]}
<1>1. /\ t.kind = "update" /\ t.page \in Pages
      /\ heap' = [heap EXCEPT ![t.base].pages = @ \cup {t.page}]
      /\ UNCHANGED <<page, lastLength, size>>
      /\ seen' = [seen EXCEPT !.read = seen.read \cup {t.page}]
  BY DEF IndexRead
<1>2. /\ heap \in Seq(Object) /\ t \in Load /\ t.base \in DOMAIN heap
      /\ heap[t.base] \in Object /\ t.page \in Nat
  BY CurrentFacts, LoadFacts
<1>3. /\ heap' \in Seq(Object) /\ Len(heap') = Len(heap) /\ DOMAIN heap' = DOMAIN heap
  BY <1>1, <1>2, HeapWith
<1>4. /\ heap'[t.base].pages = heap[t.base].pages \cup {t.page}
      /\ \A o \in DOMAIN heap : o # t.base => heap'[o] = heap[o]
  BY <1>1, <1>2 DEF Object
<1>5. Change(T, {}) /\ \A u \in T : u.page = t.page /\ u.kind = "update"
  BY <1>1, <1>2, IndexReadTyped DEF Load
<1>6. seen'.read = seen.read \cup {t.page}
  BY <1>1 DEF MetaTyped, Seen
<1>7. t.page <= Depth
  BY <1>1 DEF Together
<1>. HIDE DEF T, t
<1>8. CASE t.page < Depth
  <2>1. \A o \in DOMAIN heap : heap'[o].pages = heap[o].pages
    <3>1. t.page \in 0..(Depth - 1)
      BY <1>2, <1>8, DepthFacts
    <3>2. heap[t.base].pages \cup {t.page} = heap[t.base].pages
      BY <1>2, <3>1 DEF Together
    <3>. QED  BY <1>4, <3>2
  <2>2. page' <= lastLength' /\ lastLength' <= Depth
    BY <1>1 DEF Together
  <2>3. \A u \in T : u.kind = "update" => u.page <= Depth
    BY <1>5, <1>7
  <2>4. \A q \in {} : q.page <= Depth
    OBVIOUS
  <2>5. size' = size /\ seen.read \subseteq seen'.read
    BY <1>1, <1>6
  <2>. QED  BY <1>3, <1>5, <2>1, <2>2, <2>3, <2>4, <2>5, TogetherFrame
<1>9. CASE t.page = Depth
  <2>1. Depth < size
    BY <1>1, <1>9, DepthFacts DEF Pages
  <2>2. Len(heap) = 1 /\ t.base = 1 /\ DOMAIN heap' = {1}
    <3>1. ~(Len(heap) > 1)
      BY <2>1, DepthFacts DEF Together
    <3>2. 1 \in 1..Len(heap) /\ Len(heap) \in Nat /\ DOMAIN heap = 1..Len(heap)
      BY <1>2, DepthFacts
    <3>3. Len(heap) = 1
      BY <3>1, <3>2
    <3>. QED  BY <1>2, <1>3, <3>2, <3>3
  <2>3. heap'[1].pages = 0..Depth
    <3>1. heap[1].pages = 0..(Depth - 1) /\ Depth \in Nat
      BY DepthFacts DEF Together
    <3>2. heap'[1].pages = 0..(Depth - 1) \cup {Depth}
      BY <1>4, <1>9, <2>2, <3>1
    <3>. QED  BY <3>1, <3>2
  <2>4. Depth' = Depth + 1
    <3>1. Depth + 1 \in Nat /\ 0..Depth = 0..((Depth + 1) - 1)
      BY DepthFacts
    <3>. QED  BY <2>3, <3>1, SegmentLength DEF Depth
  <2>5. page' <= lastLength' /\ lastLength' <= Depth'
    BY <1>1, <2>4, DepthFacts DEF Together
  <2>6. \A o \in DOMAIN heap' : heap'[o].pages = 0..(Depth' - 1)
    BY <2>2, <2>3, <2>4, DepthFacts
  <2>7. ~(Len(heap') > 1)
    BY <1>3, <2>2
  <2>8. 0..(Depth' - 1) \subseteq seen'.read
    <3>1. 0..(Depth - 1) \subseteq seen.read
      BY DEF Together
    <3>. QED  BY <1>6, <1>9, <2>4, <3>1, DepthFacts
  <2>9. ASSUME NEW j \in DOMAIN ui'.tasks, ui'.tasks[j].kind = "update"
        PROVE  ui'.tasks[j].page <= Depth'
    <3>1. ui'.tasks[j].page <= Depth /\ ui'.tasks[j].page \in Int
      <4>1. CASE ui'.tasks[j] \in T
        BY <1>2, <1>5, <1>7, <4>1
      <4>2. CASE \E k \in DOMAIN ui.tasks : ui'.tasks[j] = ui.tasks[k]
        <5>1. PICK k \in DOMAIN ui.tasks : ui'.tasks[j] = ui.tasks[k]
          BY <4>2
        <5>2. Task(k).kind = "update" /\ Task(k).page <= Depth /\ Task(k).page \in Nat
          BY <2>9, <5>1, LoadFacts DEF Together, Task
        <5>. QED  BY <5>1, <5>2 DEF Task
      <4>. QED  BY <1>5, <4>1, <4>2 DEF Change
    <3>. QED  BY <2>4, <3>1, DepthFacts
  <2>10. ASSUME NEW j \in DOMAIN ui'.queued
         PROVE  ui'.queued[j].page <= Depth'
    <3>1. PICK k \in DOMAIN ui.queued : ui'.queued[j] = ui.queued[k]
      BY <1>5 DEF Change
    <3>2. ui.queued[k].page \in Nat
      <4>1. ui.queued \in Seq(Queued)
        BY CurrentFacts DEF Ui
      <4>2. ui.queued[k] \in Queued
        BY <4>1
      <4>. QED  BY <4>2 DEF Queued
    <3>3. ui.queued[k].page <= Depth
      BY DEF Together
    <3>. QED  BY <2>4, <3>1, <3>2, <3>3, DepthFacts
  <2>. QED  BY <2>5, <2>6, <2>7, <2>8, <2>9, <2>10 DEF Together, Task
<1>. QED  BY <1>2, <1>7, <1>8, <1>9, DepthFacts

\* A copy is made of the state.
LEMMA TogetherCopy ==
  ASSUME MetaTyped, Together, ~Paging, Change({}, {}),
         heap' = Append(heap, heap[current]), UNCHANGED <<page, lastLength, size>>,
         seen'.read = seen.read
  PROVE  Together'
<1>1. page >= size
  BY DepthFacts DEF Paging, Pages
<1>2. Depth = size
  BY <1>1, DepthFacts DEF Together
<1>3. /\ heap' \in Seq(Object) /\ Len(heap') = Len(heap) + 1
      /\ \A o \in DOMAIN heap : o \in DOMAIN heap' /\ heap'[o] = heap[o]
      /\ \A o \in DOMAIN heap' : o \in DOMAIN heap \/ o = Len(heap) + 1
      /\ heap'[Len(heap) + 1] = heap[current]
  BY CurrentFacts, HeapLonger
<1>4. Depth' = Depth
  BY <1>3, DepthFacts DEF Depth
<1>5. \A o \in DOMAIN heap' : heap'[o].pages = 0..(Depth - 1)
  BY <1>3, CurrentFacts DEF Together
<1>6. /\ \A j \in DOMAIN ui'.tasks : ui'.tasks[j].kind = "update" => ui'.tasks[j].page <= Depth
      /\ \A j \in DOMAIN ui'.queued : ui'.queued[j].page <= Depth
  BY DEF Change, Together, Task
<1>. QED  BY <1>2, <1>4, <1>5, <1>6 DEF Together, Task

\* What has happened once stays in the history.
LEMMA HistoryGrows ==
  ASSUME MetaTyped, Next
  PROVE  /\ seen.replaced => seen'.replaced
         /\ seen.anew => seen'.anew
         /\ seen.failed => seen'.failed
<1>. DEFINE Grows == /\ seen.replaced => seen'.replaced
                     /\ seen.anew => seen'.anew
                     /\ seen.failed => seen'.failed
<1>0. seen \in Seen
  BY DEF MetaTyped
<1>1. ASSUME StoreReady \/ Rerun
      PROVE  Grows
  BY <1>0, <1>1 DEF StoreReady, Rerun, Seen
<1>2. ASSUME NEW i \in DOMAIN ui.queued, Tick(i)
      PROVE  Grows
  BY <1>2 DEF Tick
<1>3. ASSUME NEW i \in DOMAIN ui.tasks, Answer(i)
      PROVE  Grows
  <2>1. CASE IndexRead(i) \/ AllRead(i)
    BY <1>0, <2>1 DEF IndexRead, AllRead, Seen
  <2>2. CASE IndexMissing(i) \/ ContentRead(i) \/ PullRead(i)
    BY <2>2 DEF IndexMissing, ContentRead, PullRead
  <2>3. CASE MintsRead(i)
    BY <1>0, <2>3 DEF MintsRead, Seen
  <2>. QED  BY <1>3, <2>1, <2>2, <2>3 DEF Answer
<1>4. ASSUME NEW i \in DOMAIN ui.tasks, Fail(i)
      PROVE  Grows
  BY <1>0, <1>4 DEF Fail, Seen
<1>5. ASSUME NEW kind \in Kinds, Pull(kind)
      PROVE  Grows
  BY <1>0, <1>5 DEF Pull, Seen
<1>. QED  BY <1>1, <1>2, <1>3, <1>4, <1>5 DEF Next

\* Every step keeps the updates in step.
LEMMA InStepStep ==
  ASSUME MetaTyped, InStep, MetaTyped', Next
  PROVE  InStep'
<1>1. CASE seen.replaced \/ seen.anew
  BY <1>1, HistoryGrows DEF InStep
<1>2. CASE Together
  <2>. USE <1>2
  <2>1. ASSUME StoreReady \/ Rerun
        PROVE  Together'
    <3>. DEFINE T == {UpdateOf(page, current)}
                Q == {[page |-> page, base |-> current]}
    <3>1. Change(T, Q)
      BY <2>1, EffectTyped
    <3>2. page <= lastLength /\ lastLength <= Depth /\ page <= Depth
      BY DepthFacts DEF Together
    <3>3. (\A t \in T : t.page = page) /\ (\A q \in Q : q.page = page)
      BY DEF UpdateOf
    <3>. HIDE DEF T, Q
    <3>4. UNCHANGED <<heap, page, lastLength, size>> /\ seen'.read = seen.read
      BY <2>1 DEF StoreReady, Rerun, MetaTyped, Seen
    <3>. QED  BY <3>1, <3>2, <3>3, <3>4, CurrentFacts, TogetherFrame
  <2>2. ASSUME NEW i \in DOMAIN ui.queued, Tick(i)
        PROVE  Together'
    <3>. DEFINE T == {UpdateOf(ui.queued[i].page, ui.queued[i].base)}
    <3>1. Change(T, {})
      BY <2>2, TickTyped
    <3>2. \A t \in T : t.page <= Depth
      BY DEF UpdateOf, Together
    <3>. HIDE DEF T
    <3>3. UNCHANGED <<heap, page, lastLength, size>> /\ seen'.read = seen.read
      BY <2>2 DEF Tick
    <3>. QED  BY <3>1, <3>2, <3>3, TogetherStill
  <2>3. ASSUME NEW i \in DOMAIN ui.tasks, IndexRead(i)
        PROVE  Together'
    BY <2>3, TogetherIndexRead
  <2>4. ASSUME NEW i \in DOMAIN ui.tasks, IndexMissing(i)
        PROVE  Together'
    <3>1. UNCHANGED <<heap, size, seen>>
      BY <2>4 DEF IndexMissing
    <3>2. CASE Paged(i)
      BY <3>1, <3>2, CurrentFacts, TogetherPaged
    <3>3. CASE ui' = Goes(i, "all") /\ UNCHANGED <<current, page, lastLength>>
      <4>. DEFINE T == {[Task(i) EXCEPT !.at = "all"]}
      <4>1. Change(T, {})
        BY <3>3, CurrentFacts, GoesIs, GoesChange
      <4>2. \A t \in T : t.kind = "update" => t.page <= Depth
        <5>1. Task(i) \in Load /\ (Task(i).kind = "update" => Task(i).page <= Depth)
          BY LoadFacts DEF Together
        <5>2. \A t \in T : t.kind = Task(i).kind /\ t.page = Task(i).page
          BY <5>1 DEF Load
        <5>. QED  BY <5>1, <5>2
      <4>. HIDE DEF T
      <4>. QED  BY <3>1, <3>3, <4>1, <4>2, TogetherStill
    <3>. QED  BY <2>4, <3>2, <3>3 DEF IndexMissing
  <2>5. ASSUME NEW i \in DOMAIN ui.tasks, ContentRead(i)
        PROVE  Together'
    <3>. DEFINE b == Task(i).page = 0
                o == Task(i).base
    <3>1. /\ Paged(i) /\ UNCHANGED <<size, seen>>
          /\ heap' = [heap EXCEPT ![o].store = @ \/ b]
      BY <2>5 DEF ContentRead
    <3>2. heap \in Seq(Object) /\ o \in DOMAIN heap /\ heap[o] \in Object
      BY CurrentFacts, LoadFacts
    <3>3. heap' \in Seq(Object) /\ Len(heap') = Len(heap)
      BY <2>5, ContentReadTyped
    <3>. HIDE DEF o, b
    <3>4. \A q \in DOMAIN heap : heap'[q].pages = heap[q].pages
      BY <3>1, <3>2 DEF Object
    <3>. QED  BY <3>1, <3>3, <3>4, TogetherPaged
  <2>6. ASSUME NEW i \in DOMAIN ui.tasks, PullRead(i)
        PROVE  Together'
    <3>. DEFINE T == {SpreadOf(i, known[Task(i).base])}
    <3>1. Change(T, {})
      BY <2>6, PullReadTyped
    <3>2. \A t \in T : t.kind = "update" => t.page <= Depth
      <4>1. Task(i) \in Load /\ (Task(i).kind = "update" => Task(i).page <= Depth)
        BY LoadFacts DEF Together
      <4>2. \A t \in T : t.kind = Task(i).kind /\ t.page = Task(i).page
        BY <4>1 DEF Load, SpreadOf
      <4>. QED  BY <4>1, <4>2
    <3>. HIDE DEF T
    <3>3. UNCHANGED <<heap, page, lastLength, size>> /\ seen'.read = seen.read
      BY <2>6 DEF PullRead
    <3>. QED  BY <3>1, <3>2, <3>3, TogetherStill
  <2>7. ASSUME NEW i \in DOMAIN ui.tasks, Change({}, {}), UNCHANGED <<heap, page, lastLength, size>>,
               seen'.read = seen.read
        PROVE  Together'
    <3>1. \A t \in {} : t.kind = "update" => t.page <= Depth
      OBVIOUS
    <3>. QED  BY <2>7, <3>1, TogetherStill
  <2>8. ASSUME NEW i \in DOMAIN ui.tasks, MintsRead(i), ~seen'.replaced
        PROVE  Together'
    <3>1. Change({}, {}) /\ UNCHANGED <<page, lastLength, size>>
      BY <2>8, MintsReadTyped DEF MintsRead
    <3>2. CASE Task(i).kind = "user"
      BY <2>7, <2>8, <3>1, <3>2 DEF MintsRead
    <3>3. CASE Task(i).kind # "user"
      <4>1. /\ heap' = Append(heap, heap[current])
            /\ seen' = [seen EXCEPT !.replaced = seen.replaced \/ Paging]
        BY <2>8, <3>3 DEF MintsRead, Copy
      <4>2. ~Paging /\ seen'.read = seen.read
        BY <2>8, <4>1 DEF MetaTyped, Seen
      <4>. QED  BY <3>1, <4>1, <4>2, TogetherCopy
    <3>. QED  BY <3>2, <3>3
  <2>9. ASSUME NEW i \in DOMAIN ui.tasks, Fail(i)
        PROVE  Together'
    <3>1. Change({}, {}) /\ UNCHANGED <<heap, page, lastLength, size>> /\ seen'.read = seen.read
      BY <2>9, FailTyped DEF Fail, MetaTyped, Seen
    <3>. QED  BY <2>7, <3>1
  <2>10. ASSUME NEW kind \in Kinds, Pull(kind)
         PROVE  Together'
    <3>1. Change({PullOf(kind)}, {}) /\ UNCHANGED <<heap, page, lastLength, size>>
      BY <2>10, PullTyped DEF Pull
    <3>2. seen'.read = seen.read
      BY <2>10 DEF Pull, MetaTyped, Seen
    <3>3. \A t \in {PullOf(kind)} : t.kind = "update" => t.page <= Depth
      BY DEF PullOf, Kinds
    <3>. QED  BY <3>1, <3>2, <3>3, TogetherStill
  <2>11. ASSUME NEW i \in DOMAIN ui.tasks, AllRead(i)
         PROVE  seen'.anew
    BY <2>11 DEF AllRead, MetaTyped, Seen
  <2>. QED  BY <2>1, <2>2, <2>3, <2>4, <2>5, <2>6, <2>8, <2>9, <2>10, <2>11
            DEF InStep, Next, Answer
<1>. QED  BY <1>1, <1>2 DEF InStep

-----------------------------------------------------------------------------
(* The flag.                                                                *)

\* An element of a sequence that loses another is still there, once.
LEMMA RemovedAround ==
  ASSUME NEW S, NEW s \in Seq(S), NEW h \in DOMAIN s, NEW i \in DOMAIN s \ {h}
  PROVE  \E g \in DOMAIN RemoveAt(s, i) :
           /\ RemoveAt(s, i)[g] = s[h]
           /\ \A j \in DOMAIN RemoveAt(s, i) \ {g} :
                \E k \in DOMAIN s \ {h} : RemoveAt(s, i)[j] = s[k]
<1>. DEFINE r == RemoveAt(s, i)
            g == IF h < i THEN h ELSE h - 1
<1>1. /\ r \in Seq(S) /\ Len(r) = Len(s) - 1
      /\ \A j \in 1..(Len(s) - 1) : r[j] = IF j < i THEN s[j] ELSE s[j + 1]
  BY RemoveIs
<1>. HIDE DEF r
<1>2. h \in 1..Len(s) /\ i \in 1..Len(s) /\ h # i /\ DOMAIN r = 1..(Len(s) - 1) /\ Len(s) \in Nat
  BY <1>1
<1>3. g \in DOMAIN r /\ r[g] = s[h]
  BY <1>1, <1>2
<1>4. ASSUME NEW j \in DOMAIN r \ {g}
      PROVE  \E k \in DOMAIN s \ {h} : r[j] = s[k]
  <2>1. j \in 1..(Len(s) - 1) /\ j # g
    BY <1>2
  <2>2. CASE j < i
    BY <1>1, <1>2, <2>1, <2>2
  <2>3. CASE ~(j < i)
    <3>1. j + 1 \in 1..Len(s) /\ j + 1 # h /\ r[j] = s[j + 1]
      BY <1>1, <1>2, <2>1, <2>3
    <3>. QED  BY <3>1
  <2>. QED  BY <2>2, <2>3
<1>. QED  BY <1>3, <1>4 DEF r

\* A load of the user's accounts that goes on or ends changes nothing but itself.
LEMMA UserStep ==
  ASSUME MetaTyped, NEW i \in DOMAIN ui.tasks, UserLoad(Task(i)), Len(heap) = 1,
         Answer(i) \/ Fail(i)
  PROVE  /\ UNCHANGED <<heap, maps, page, ready, size>>
         /\ ui'.loadingData = ui.loadingData /\ ui'.isLoading = ui.isLoading
         /\ ui'.queued = ui.queued
         /\ \/ \E map \in SUBSET Universe : ui'.tasks = [ui.tasks EXCEPT ![i] = SpreadOf(i, map)]
            \/ ui'.tasks = RemoveAt(ui.tasks, i)
         /\ seen'.failed = seen.failed
<1>1. /\ ui \in Ui /\ Task(i).kind = "user" /\ Task(i).at \in {"read", "mints"} /\ seen \in Seen
  BY LoadFacts DEF UserLoad, WellPlaced, MetaTyped
<1>2. CASE PullRead(i)
  <2>. DEFINE map == known[Task(i).base]
              g == Spreads(i, map)
  <2>0. map \in SUBSET Universe
    BY KnownFacts
  <2>. HIDE DEF map
  <2>1. /\ g \in Ui /\ g.tasks = [ui.tasks EXCEPT ![i] = SpreadOf(i, map)]
        /\ g.queued = ui.queued
        /\ g.loadingData = ui.loadingData /\ g.isLoading = ui.isLoading
    BY <1>1, <2>0, SpreadsIs
  <2>2. /\ ui' = [g EXCEPT !.isLoading = g.isLoading /\ Task(i).kind # "metadata"]
        /\ UNCHANGED <<heap, maps, page, ready, size, seen>>
    BY <1>2 DEF PullRead, map
  <2>. HIDE DEF g
  <2>3. /\ ui'.tasks = g.tasks /\ ui'.queued = g.queued
        /\ ui'.loadingData = g.loadingData /\ ui'.isLoading = (g.isLoading /\ Task(i).kind # "metadata")
    BY <2>1, <2>2 DEF Ui
  <2>4. ui'.isLoading = g.isLoading
    BY <1>1, <2>1, <2>3 DEF Ui
  <2>. QED  BY <2>0, <2>1, <2>2, <2>3, <2>4
<1>3. CASE MintsRead(i) \/ Fail(i)
  <2>. DEFINE g == Without(i)
  <2>1. g \in Ui /\ g.tasks = RemoveAt(ui.tasks, i) /\ g.queued = ui.queued
        /\ g.loadingData = ui.loadingData /\ g.isLoading = ui.isLoading
    BY <1>1, WithoutIs
  <2>2. /\ \E b : ui' = [g EXCEPT !.loadingMetadata = b]
        /\ UNCHANGED <<heap, maps, page, ready, size>>
    BY <1>1, <1>3 DEF MintsRead, Fail
  <2>. HIDE DEF g
  <2>3. /\ ui'.tasks = g.tasks /\ ui'.queued = g.queued
        /\ ui'.loadingData = g.loadingData /\ ui'.isLoading = g.isLoading
    BY <2>1, <2>2 DEF Ui
  <2>4. seen'.failed = seen.failed
    <3>1. CASE MintsRead(i)
      BY <1>1, <3>1 DEF MintsRead
    <3>2. CASE Fail(i)
      <4>1. seen'.failed = (seen.failed \/ Task(i).kind = "update")
        BY <1>1, <3>2 DEF Fail, Seen
      <4>. QED  BY <1>1, <4>1 DEF Seen
    <3>. QED  BY <1>3, <3>1, <3>2
  <2>. QED  BY <2>1, <2>2, <2>3, <2>4
<1>4. ~IndexRead(i) /\ ~IndexMissing(i) /\ ~ContentRead(i) /\ ~AllRead(i)
  BY <1>1 DEF IndexRead, IndexMissing, ContentRead, AllRead
<1>. QED  BY <1>2, <1>3, <1>4 DEF Answer

\* A load of the user that goes on is one, and keeps the others.
LEMMA UserMoves ==
  ASSUME ui \in Ui, NEW i \in DOMAIN ui.tasks, UserLoad(Task(i)),
         NEW map, ui'.tasks = [ui.tasks EXCEPT ![i] = SpreadOf(i, map)]
  PROVE  /\ DOMAIN ui'.tasks = DOMAIN ui.tasks /\ UserLoad(ui'.tasks[i])
         /\ \A j \in DOMAIN ui.tasks \ {i} : ui'.tasks[j] = ui.tasks[j]
<1>1. ui.tasks \in Seq(Load) /\ ui.tasks[i] \in Load
  BY DEF Ui
<1>2. ui'.tasks[i] = [ui.tasks[i] EXCEPT !.at = "mints", !.snap = map]
  BY <1>1 DEF SpreadOf, Task
<1>. QED  BY <1>1, <1>2 DEF UserLoad, Task, Load

\* Before the address of the store is known.
LEMMA BeforeStep ==
  ASSUME MetaTyped, Before, MetaTyped', Next
  PROVE  Before' \/ First'
<1>1. /\ ui \in Ui /\ heap \in Seq(Object) /\ current = 1 /\ Len(heap) = 1
      /\ ui.tasks \in Seq(Load) /\ Shown = {} /\ heap[1].store \in BOOLEAN
  BY CurrentFacts DEF Before, Alone, Shown, Ui
<1>2. ASSUME StoreReady
      PROVE  First'
  <2>1. /\ ui' = Effect(ui, page, current) /\ UNCHANGED <<heap, page, size>> /\ ready'
        /\ page = 0 /\ current = 1 /\ ~heap[1].store /\ ~ui.loadingData
    BY <1>1, <1>2 DEF StoreReady, Before, Alone
  <2>. DEFINE t == [kind |-> "update", page |-> page, base |-> current, at |-> "index",
                    holds |-> ~heap[current].store, snap |-> {}]
  <2>2. /\ t \in Load /\ ui'.tasks = Append(ui.tasks, t)
        /\ ui'.loadingData /\ ui'.isLoading
    <3>1. /\ ui \in Ui /\ page \in Nat /\ current \in Nat
          /\ heap[current].store \in BOOLEAN
      BY CurrentFacts
    <3>. DEFINE e == Effect(ui, page, current)
    <3>2. t \in Load /\ (~ui.loadingData => e.tasks = Append(ui.tasks, t))
      BY <3>1, EffectIs
    <3>3. ~ui.loadingData => /\ e.loadingData = ~heap[current].store
                             /\ e.isLoading = (ui.isLoading \/ ~heap[current].store)
      BY <3>1, EffectIs
    <3>. HIDE DEF e, t
    <3>4. ~heap[current].store /\ ~ui.loadingData /\ ui' = e
      BY <2>1 DEF e
    <3>5. e.loadingData /\ e.isLoading
      BY <3>3, <3>4
    <3>. QED  BY <3>2, <3>4, <3>5
  <2>3. t.kind = "update" /\ t.page = 0 /\ t.holds /\ t.at = "index"
    BY <2>1
  <2>. HIDE DEF t
  <2>4. \E n \in DOMAIN ui'.tasks :
          /\ ui'.tasks[n] = t
          /\ \A j \in DOMAIN ui'.tasks \ {n} : j \in DOMAIN ui.tasks /\ ui'.tasks[j] = ui.tasks[j]
    <3>1. Len(ui.tasks) + 1 \in DOMAIN ui'.tasks
      BY <1>1, <2>2
    <3>2. ui'.tasks[Len(ui.tasks) + 1] = t
      BY <1>1, <2>2
    <3>3. \A j \in DOMAIN ui'.tasks \ {Len(ui.tasks) + 1} :
            j \in DOMAIN ui.tasks /\ ui'.tasks[j] = ui.tasks[j]
      BY <1>1, <2>2
    <3>. QED  BY <3>1, <3>2, <3>3
  <2>5. PICK n \in DOMAIN ui'.tasks :
          /\ ui'.tasks[n] = t
          /\ \A j \in DOMAIN ui'.tasks \ {n} : j \in DOMAIN ui.tasks /\ ui'.tasks[j] = ui.tasks[j]
    BY <2>4
  <2>6. FirstUpdate(Task(n))'
    BY <2>3, <2>5 DEF FirstUpdate, Task
  <2>7. \A j \in DOMAIN ui'.tasks \ {n} : UserLoad(Task(j))'
    BY <2>5 DEF Before, Task, UserLoad
  <2>. QED  BY <2>1, <2>2, <2>6, <2>7 DEF First, Alone, Before
<1>3. ~Rerun
  BY DEF Before, Rerun
<1>4. ASSUME NEW i \in DOMAIN ui.queued
      PROVE  FALSE
  BY DEF Before
<1>5. ASSUME NEW i \in DOMAIN ui.tasks, Answer(i) \/ Fail(i)
      PROVE  Before'
  <2>1. UserLoad(Task(i))
    BY DEF Before
  <2>2. /\ UNCHANGED <<heap, maps, page, ready, size>>
        /\ ui'.loadingData = ui.loadingData /\ ui'.queued = ui.queued
        /\ \/ \E map \in SUBSET Universe : ui'.tasks = [ui.tasks EXCEPT ![i] = SpreadOf(i, map)]
           \/ ui'.tasks = RemoveAt(ui.tasks, i)
    BY <1>1, <1>5, <2>1, UserStep
  <2>3. \A j \in DOMAIN ui'.tasks : UserLoad(ui'.tasks[j])
    <3>1. CASE \E map \in SUBSET Universe : ui'.tasks = [ui.tasks EXCEPT ![i] = SpreadOf(i, map)]
      BY <1>1, <2>1, <3>1, UserMoves DEF Before, Task
    <3>2. CASE ui'.tasks = RemoveAt(ui.tasks, i)
      <4>1. \A j \in DOMAIN ui'.tasks : \E k \in DOMAIN ui.tasks : ui'.tasks[j] = ui.tasks[k]
        BY <1>1, <3>2, Removed
      <4>. QED  BY <4>1 DEF Before, Task
    <3>. QED  BY <2>2, <3>1, <3>2
  <2>. QED  BY <2>2, <2>3 DEF Before, Alone, Task
<1>6. ASSUME NEW kind \in Kinds, Pull(kind)
      PROVE  Before'
  <2>1. /\ ui'.tasks = Append(ui.tasks, PullOf(kind)) /\ ui'.queued = ui.queued
        /\ ui'.loadingData = ui.loadingData /\ UNCHANGED <<heap, maps, page, ready>>
        /\ kind \in {"list", "user"} \/ ready
        /\ kind = "list" => Shown # {}
    BY <1>6, PullTyped DEF Pull
  <2>2. kind = "user"
    BY <1>1, <2>1 DEF Before
  <2>3. UserLoad(PullOf(kind)) /\ PullOf(kind) \in Load
    BY <1>1, <2>2 DEF UserLoad, PullOf, Load, Kinds
  <2>4. \A j \in DOMAIN ui'.tasks : UserLoad(ui'.tasks[j])
    BY <1>1, <2>1, <2>3, Appended DEF Before, Task
  <2>. QED  BY <2>1, <2>4 DEF Before, Alone, Task
<1>. QED  BY <1>2, <1>3, <1>4, <1>5, <1>6 DEF Next

\* While the first update runs no page starts a load, and no other update does.
LEMMA FirstStep ==
  ASSUME MetaTyped, First, MetaTyped', Next
  PROVE  Phases'
<1>1. /\ ui \in Ui /\ heap \in Seq(Object) /\ current = 1 /\ Len(heap) = 1 /\ DOMAIN heap = {1}
      /\ ui.tasks \in Seq(Load) /\ heap[1] \in Object /\ ui.loadingData /\ ui.isLoading
      /\ page = 0 /\ ready /\ seen \in Seen
  BY CurrentFacts DEF First, Alone, MetaTyped, Ui
<1>2. PICK h \in DOMAIN ui.tasks :
        /\ FirstUpdate(Task(h))
        /\ \A i \in DOMAIN ui.tasks \ {h} : UserLoad(Task(i))
  BY DEF First
<1>3. /\ Task(h) \in Load /\ Task(h).kind = "update" /\ Task(h).page = 0 /\ Task(h).base = 1
      /\ Task(h).holds /\ Task(h).at \in {"index", "content", "all"}
  BY <1>1, <1>2, LoadFacts DEF FirstUpdate, WellPlaced
<1>4. ~StoreReady /\ (\A i \in DOMAIN ui.queued : ~Tick(i)) /\ (\A kind \in Kinds : ~Pull(kind))
  BY <1>1 DEF StoreReady, Tick, Pull, MayPull
<1>5. ASSUME Rerun
      PROVE  First'
  <2>1. ui' = Effect(ui, page, current) /\ UNCHANGED <<heap, page, ready, size>>
    BY <1>5 DEF Rerun
  <2>2. ui'.tasks = ui.tasks /\ ui'.loadingData /\ ui'.isLoading
    <3>. DEFINE e == Effect(ui, page, current)
    <3>1. /\ ui \in Ui /\ page \in Nat /\ current \in Nat
          /\ heap[current].store \in BOOLEAN
      BY CurrentFacts
    <3>2. ui.loadingData => e.tasks = ui.tasks /\ e.loadingData /\ e.isLoading = ui.isLoading
      BY <3>1, EffectIs
    <3>. HIDE DEF e
    <3>. QED  BY <1>1, <2>1, <3>2 DEF e
  <2>3. FirstUpdate(Task(h))' /\ \A i \in DOMAIN ui'.tasks \ {h} : UserLoad(Task(i))'
    BY <1>2, <2>1, <2>2 DEF FirstUpdate, UserLoad, Task
  <2>. QED  BY <1>1, <2>1, <2>2, <2>3 DEF First, Alone
<1>6. ASSUME NEW at \in {"content", "all"}, ui' = Goes(h, at), at = "all" => size = 0,
             Len(heap') = 1, UNCHANGED <<page, ready, size>>
      PROVE  First'
  <2>1. /\ ui'.tasks = [ui.tasks EXCEPT ![h].at = at]
        /\ ui'.loadingData = ui.loadingData /\ ui'.isLoading = ui.isLoading
    <3>1. at \in {"index", "content", "all", "read", "mints"}
      OBVIOUS
    <3>2. /\ Goes(h, at).tasks = [ui.tasks EXCEPT ![h].at = at]
          /\ Goes(h, at).loadingData = ui.loadingData /\ Goes(h, at).isLoading = ui.isLoading
      BY <1>1, <3>1, GoesIs
    <3>. QED  BY <1>6, <3>2
  <2>2. DOMAIN ui'.tasks = DOMAIN ui.tasks /\ ui'.tasks[h] = [Task(h) EXCEPT !.at = at]
    BY <1>1, <2>1 DEF Task
  <2>3. FirstUpdate(Task(h))'
    <3>1. /\ ui'.tasks[h].kind = "update" /\ ui'.tasks[h].page = 0 /\ ui'.tasks[h].holds
          /\ ui'.tasks[h].at = at
      BY <1>3, <2>2 DEF Load
    <3>. QED  BY <1>6, <3>1 DEF FirstUpdate, Task
  <2>4. \A i \in DOMAIN ui'.tasks \ {h} : UserLoad(Task(i))'
    BY <1>1, <1>2, <2>1, <2>2 DEF UserLoad, Task
  <2>. QED  BY <1>1, <1>6, <2>1, <2>2, <2>3, <2>4 DEF First, Alone
<1>7. ASSUME IndexRead(h)
      PROVE  First'
  <2>1. /\ ui' = Goes(h, "content") /\ UNCHANGED <<page, ready, size>>
        /\ heap' = [heap EXCEPT ![Task(h).base].pages = @ \cup {Task(h).page}]
    BY <1>7 DEF IndexRead
  <2>2. Len(heap') = 1
    BY <1>1, <2>1
  <2>. QED  BY <1>6, <2>1, <2>2
<1>8. ASSUME IndexMissing(h)
      PROVE  First'
  <2>1. size = 0
    <3>1. Task(h).page \notin Pages
      BY <1>8 DEF IndexMissing
    <3>. QED  BY <1>3, <3>1, DepthFacts DEF Pages
  <2>2. heap[Task(h).base].pages = {}
    <3>1. Pages = {}
      BY <2>1 DEF Pages
    <3>. QED  BY <3>1, LoadFacts
  <2>3. ui' = Goes(h, "all") /\ UNCHANGED <<heap, page, ready, size>>
    BY <1>8, <2>2 DEF IndexMissing
  <2>. QED  BY <1>1, <1>6, <2>1, <2>3
<1>9. ASSUME ContentRead(h)
      PROVE  After'
  <2>1. /\ Paged(h) /\ size' = size
        /\ heap' = [heap EXCEPT ![Task(h).base].store = @ \/ Task(h).page = 0]
    BY <1>9 DEF ContentRead
  <2>2. heap' \in Seq(Object) /\ Len(heap') = Len(heap)
    BY <1>9, ContentReadTyped
  <2>3. /\ ~ui'.loadingData
        /\ \A j \in DOMAIN ui'.tasks : \E k \in DOMAIN ui.tasks \ {h} : ui'.tasks[j] = ui.tasks[k]
    BY <1>1, <2>1, <2>2, PagedFacts
  <2>4. \A j \in DOMAIN ui'.tasks : ~ui'.tasks[j].holds
    BY <1>2, <2>3 DEF UserLoad, Task
  <2>5. \A o \in DOMAIN heap' : heap'[o].store
    <3>1. heap' = [heap EXCEPT ![1] = [heap[1] EXCEPT !.store = TRUE]]
      BY <1>1, <1>3, <2>1 DEF Object
    <3>2. heap'[1].store
      BY <1>1, <3>1 DEF Object
    <3>. QED  BY <1>1, <2>2, <3>2
  <2>. QED  BY <2>3, <2>4, <2>5 DEF After, Task
<1>10. ASSUME AllRead(h)
       PROVE  size' = 0 /\ seen'.anew
  <2>1. Task(h).at = "all" /\ size' = size /\ seen' = [seen EXCEPT !.anew = TRUE]
    BY <1>10 DEF AllRead
  <2>. QED  BY <1>1, <1>2, <2>1 DEF FirstUpdate, Seen
<1>11. ~PullRead(h) /\ ~MintsRead(h)
  BY <1>3 DEF PullRead, MintsRead
<1>12. ASSUME Fail(h)
       PROVE  seen'.failed
  <2>1. seen' = [seen EXCEPT !.faults = seen.faults + 1,
                             !.failed = seen.failed \/ Task(h).kind = "update"]
    BY <1>12 DEF Fail
  <2>. QED  BY <1>1, <1>3, <2>1 DEF Seen
<1>13. ASSUME NEW i \in DOMAIN ui.tasks \ {h}, Answer(i) \/ Fail(i)
       PROVE  First'
  <2>1. UserLoad(Task(i))
    BY <1>2
  <2>2. /\ UNCHANGED <<heap, maps, page, ready, size>>
        /\ ui'.loadingData = ui.loadingData /\ ui'.isLoading = ui.isLoading
        /\ \/ \E map \in SUBSET Universe : ui'.tasks = [ui.tasks EXCEPT ![i] = SpreadOf(i, map)]
           \/ ui'.tasks = RemoveAt(ui.tasks, i)
    BY <1>1, <1>13, <2>1, UserStep
  <2>3. \E g \in DOMAIN ui'.tasks :
          /\ ui'.tasks[g] = ui.tasks[h]
          /\ \A j \in DOMAIN ui'.tasks \ {g} : UserLoad(ui'.tasks[j])
    <3>1. CASE \E map \in SUBSET Universe : ui'.tasks = [ui.tasks EXCEPT ![i] = SpreadOf(i, map)]
      <4>1. /\ DOMAIN ui'.tasks = DOMAIN ui.tasks /\ UserLoad(ui'.tasks[i])
            /\ \A j \in DOMAIN ui.tasks \ {i} : ui'.tasks[j] = ui.tasks[j]
        BY <1>1, <2>1, <3>1, UserMoves
      <4>2. \A j \in DOMAIN ui'.tasks \ {h} : UserLoad(ui'.tasks[j])
        BY <1>2, <4>1 DEF Task
      <4>. QED  BY <4>1, <4>2
    <3>2. CASE ui'.tasks = RemoveAt(ui.tasks, i)
      <4>1. PICK g \in DOMAIN ui'.tasks :
              /\ ui'.tasks[g] = ui.tasks[h]
              /\ \A j \in DOMAIN ui'.tasks \ {g} :
                   \E k \in DOMAIN ui.tasks \ {h} : ui'.tasks[j] = ui.tasks[k]
        BY <1>1, <3>2, RemovedAround
      <4>. QED  BY <1>2, <4>1 DEF Task
    <3>. QED  BY <2>2, <3>1, <3>2
  <2>4. PICK g \in DOMAIN ui'.tasks :
          /\ ui'.tasks[g] = ui.tasks[h]
          /\ \A j \in DOMAIN ui'.tasks \ {g} : UserLoad(ui'.tasks[j])
    BY <2>3
  <2>5. FirstUpdate(Task(g))' /\ \A j \in DOMAIN ui'.tasks \ {g} : UserLoad(Task(j))'
    BY <1>2, <2>2, <2>4 DEF FirstUpdate, UserLoad, Task
  <2>. QED  BY <1>1, <2>2, <2>5 DEF First, Alone
<1>14. ASSUME NEW i \in DOMAIN ui.tasks, Answer(i) \/ Fail(i)
       PROVE  First' \/ After' \/ (size' = 0 /\ seen'.anew) \/ seen'.failed
  <2>1. CASE i = h
    BY <1>7, <1>8, <1>9, <1>10, <1>11, <1>12, <1>14, <2>1 DEF Answer
  <2>2. CASE i # h
    BY <1>13, <1>14, <2>2
  <2>. QED  BY <2>1, <2>2
<1>. QED  BY <1>4, <1>5, <1>14 DEF Next, Phases

\* When every object has a store nobody sets the flag.
LEMMA AfterStep ==
  ASSUME MetaTyped, After, MetaTyped', Next
  PROVE  After'
<1>1. /\ ui \in Ui /\ heap \in Seq(Object) /\ ui.tasks \in Seq(Load) /\ ~ui.loadingData
      /\ \A o \in DOMAIN heap : heap[o].store
  BY CurrentFacts DEF After, Ui
<1>2. ASSUME NEW T, NEW Q, Change(T, Q), \A t \in T : ~t.holds
      PROVE  \A j \in DOMAIN ui'.tasks : ~ui'.tasks[j].holds
  BY <1>2 DEF Change, After, Task
<1>3. ASSUME NEW p, NEW o \in DOMAIN heap
      PROVE  \A t \in {UpdateOf(p, o)} : ~t.holds
  <2>. DEFINE s == heap[o].store
  <2>1. s = TRUE
    BY <1>1 DEF Object
  <2>. HIDE DEF s
  <2>. DEFINE b == ~s
  <2>2. b = FALSE
    BY <2>1
  <2>3. UpdateOf(p, o) = [kind |-> "update", page |-> p, base |-> o, at |-> "index", holds |-> b, snap |-> {}]
    BY DEF UpdateOf, s
  <2>. HIDE DEF b
  <2>4. UpdateOf(p, o).holds = b
    BY <2>3
  <2>. QED  BY <2>2, <2>4, Zenon
<1>4. \A t \in {} : ~t.holds
  OBVIOUS
<1>5. ASSUME StoreReady \/ Rerun
      PROVE  After'
  <2>1. \A j \in DOMAIN ui'.tasks : ~ui'.tasks[j].holds
    BY <1>2, <1>3, <1>5, CurrentFacts, EffectTyped
  <2>2. ui' = Effect(ui, page, current) /\ UNCHANGED heap
    BY <1>5 DEF StoreReady, Rerun
  <2>3. ~ui'.loadingData
    <3>. DEFINE e == Effect(ui, page, current)
    <3>1. /\ ui \in Ui /\ page \in Nat /\ current \in Nat
          /\ heap[current].store \in BOOLEAN
      BY CurrentFacts
    <3>2. ~ui.loadingData => e.loadingData = ~heap[current].store
      BY <3>1, EffectIs
    <3>. HIDE DEF e
    <3>3. heap[current].store
      BY <1>1, CurrentFacts
    <3>. QED  BY <1>1, <2>2, <3>2, <3>3 DEF e
  <2>. QED  BY <1>1, <2>1, <2>2, <2>3 DEF After, Task
<1>6. ASSUME NEW i \in DOMAIN ui.queued, Tick(i)
      PROVE  After'
  <2>. DEFINE q == ui.queued[i]
              v == StartUpdate(ui, q.page, q.base)
  <2>1. ui.queued \in Seq(Queued) /\ q.base \in DOMAIN heap
    BY CurrentFacts DEF MetaTyped, Ui
  <2>2. q \in Queued
    BY <2>1
  <2>3. q.page \in Nat /\ q.base \in Nat /\ heap[q.base].store /\ heap[q.base] \in Object
    BY <1>1, <2>1, <2>2 DEF Queued
  <2>4. \A j \in DOMAIN ui'.tasks : ~ui'.tasks[j].holds
    <3>. DEFINE T == {UpdateOf(ui.queued[i].page, ui.queued[i].base)}
    <3>1. Change(T, {})
      BY <1>6, TickTyped
    <3>2. \A t \in T : ~t.holds
      BY <1>3, <2>1
    <3>. HIDE DEF T
    <3>. QED  BY <1>2, <3>1, <3>2
  <2>5. v \in Ui /\ v.loadingData = (ui.loadingData \/ ~heap[q.base].store)
    BY <1>1, <2>3, StartUpdateIs DEF Object
  <2>6. ui' = [v EXCEPT !.requests = v.requests - 1, !.queued = RemoveAt(v.queued, i)]
        /\ UNCHANGED heap
    BY <1>6 DEF Tick
  <2>. HIDE DEF v, q
  <2>7. ui'.loadingData = v.loadingData
    BY <2>5, <2>6 DEF Ui
  <2>. QED  BY <1>1, <2>3, <2>4, <2>5, <2>6, <2>7 DEF After, Task
<1>17. ASSUME NEW i \in DOMAIN ui.tasks, NEW map \in SUBSET Universe
      PROVE  /\ \A t \in {SpreadOf(i, map)} : ~t.holds
             /\ ~Spreads(i, map).loadingData /\ Spreads(i, map) \in Ui
  <2>1. Task(i) \in Load /\ ~Task(i).holds
    BY LoadFacts DEF After
  <2>2. \A t \in {SpreadOf(i, map)} : t.holds = Task(i).holds
    BY <2>1 DEF Load, SpreadOf
  <2>. QED  BY <1>1, <2>1, <2>2, SpreadsIs
<1>7. ASSUME NEW i \in DOMAIN ui.tasks, NEW at \in {"index", "content", "all", "read", "mints"}
      PROVE  /\ \A t \in {[Task(i) EXCEPT !.at = at]} : ~t.holds
             /\ ~Goes(i, at).loadingData /\ ~Without(i).loadingData
             /\ Goes(i, at) \in Ui /\ Without(i) \in Ui
             /\ \A j \in DOMAIN Without(i).tasks : ~Without(i).tasks[j].holds
  <2>1. Task(i) \in Load /\ ~Task(i).holds
    BY LoadFacts DEF After
  <2>2. \A t \in {[Task(i) EXCEPT !.at = at]} : t.holds = Task(i).holds
    BY <2>1 DEF Load
  <2>3. \A j \in DOMAIN RemoveAt(ui.tasks, i) : ~RemoveAt(ui.tasks, i)[j].holds
    BY <1>1, Removed DEF After, Task
  <2>. QED  BY <1>1, <2>1, <2>2, <2>3, GoesIs, WithoutIs
<1>8. ASSUME NEW i \in DOMAIN ui.tasks, IndexRead(i)
      PROVE  After'
  <2>1. /\ ui' = Goes(i, "content")
        /\ heap' = [heap EXCEPT ![Task(i).base].pages = @ \cup {Task(i).page}]
    BY <1>8 DEF IndexRead
  <2>. DEFINE T == {[Task(i) EXCEPT !.at = "content"]}
  <2>2. Change(T, {}) /\ (\A t \in T : ~t.holds) /\ ~ui'.loadingData
    BY <1>7, <1>8, <2>1, IndexReadTyped
  <2>. HIDE DEF T
  <2>3. \A j \in DOMAIN ui'.tasks : ~ui'.tasks[j].holds
    BY <1>2, <2>2
  <2>4. \A o \in DOMAIN heap' : o \in DOMAIN heap /\ heap'[o].store = heap[o].store
    BY <1>1, <2>1, LoadFacts DEF Object
  <2>. QED  BY <1>1, <2>2, <2>3, <2>4 DEF After, Task
<1>9. ASSUME NEW i \in DOMAIN ui.tasks, Paged(i), heap' \in Seq(Object), Len(heap') = Len(heap),
             size' = size
      PROVE  ~ui'.loadingData /\ \A j \in DOMAIN ui'.tasks : ~ui'.tasks[j].holds
  <2>1. Len(heap) <= Len(heap')
    BY <1>1, <1>9
  <2>2. /\ Change({UpdateOf(Following, current)}, {[page |-> Following, base |-> current]})
        /\ ~ui'.loadingData
    BY <1>9, <2>1, PagedFacts
  <2>. QED  BY <1>2, <1>3, <2>2, CurrentFacts
<1>10. ASSUME NEW i \in DOMAIN ui.tasks, IndexMissing(i)
       PROVE  After'
  <2>1. UNCHANGED <<heap, size>>
    BY <1>10 DEF IndexMissing
  <2>2. CASE Paged(i)
    BY <1>1, <1>9, <2>1, <2>2 DEF After, Task
  <2>3. CASE ui' = Goes(i, "all")
    <3>. DEFINE T == {[Task(i) EXCEPT !.at = "all"]}
    <3>1. Change(T, {}) /\ (\A t \in T : ~t.holds) /\ ~ui'.loadingData
      BY <1>1, <1>7, <2>3, GoesIs, GoesChange
    <3>. HIDE DEF T
    <3>2. \A j \in DOMAIN ui'.tasks : ~ui'.tasks[j].holds
      BY <1>2, <3>1
    <3>. QED  BY <1>1, <2>1, <3>1, <3>2 DEF After, Task
  <2>. QED  BY <1>10, <2>2, <2>3 DEF IndexMissing
<1>11. ASSUME NEW i \in DOMAIN ui.tasks, ContentRead(i)
       PROVE  After'
  <2>. DEFINE b == Task(i).page = 0
  <2>1. /\ Paged(i) /\ size' = size
        /\ heap' = [heap EXCEPT ![Task(i).base].store = @ \/ b]
    BY <1>11 DEF ContentRead
  <2>. HIDE DEF b
  <2>2. heap' \in Seq(Object) /\ Len(heap') = Len(heap)
    BY <1>11, ContentReadTyped
  <2>3. \A o \in DOMAIN heap' : o \in DOMAIN heap /\ heap'[o].store
    BY <1>1, <2>1, LoadFacts DEF Object
  <2>. QED  BY <1>9, <2>1, <2>2, <2>3 DEF After, Task
<1>12. ASSUME NEW i \in DOMAIN ui.tasks, AllRead(i)
       PROVE  After'
  <2>. DEFINE x == [family |-> Len(maps) + 1, pages |-> Pages, store |-> TRUE]
  <2>1. /\ heap' = Append(heap, x)
        /\ ui' = IF Task(i).kind = "update"
                 THEN [Without(i) EXCEPT !.loadingData = FALSE, !.isLoading = FALSE]
                 ELSE Spreads(i, Everything)
    BY <1>12 DEF AllRead, NewObject
  <2>2. x \in Object /\ x.store
    BY DEF Object, MetaTyped
  <2>. HIDE DEF x
  <2>3. \A o \in DOMAIN heap' : heap'[o].store
    BY <1>1, <2>1, <2>2, HeapLonger
  <2>4. CASE Task(i).kind = "update"
    <3>. DEFINE w == Without(i)
    <3>1. w \in Ui /\ (\A j \in DOMAIN w.tasks : ~w.tasks[j].holds)
          /\ ui' = [w EXCEPT !.loadingData = FALSE, !.isLoading = FALSE]
      BY <1>7, <2>1, <2>4
    <3>. HIDE DEF w
    <3>2. ui'.tasks = w.tasks /\ ~ui'.loadingData
      BY <3>1 DEF Ui
    <3>. QED  BY <2>3, <3>1, <3>2 DEF After, Task
  <2>5. CASE Task(i).kind # "update"
    <3>. DEFINE T == {SpreadOf(i, Everything)}
    <3>0. Everything \in SUBSET Universe
      BY DEF Universe
    <3>1. ui' = Spreads(i, Everything)
      BY <2>1, <2>5
    <3>2. Change(T, {}) /\ (\A t \in T : ~t.holds) /\ ~ui'.loadingData
      BY <1>1, <1>17, <3>0, <3>1, SpreadsIs, SpreadsChange
    <3>. HIDE DEF T
    <3>3. \A j \in DOMAIN ui'.tasks : ~ui'.tasks[j].holds
      BY <1>2, <3>2
    <3>. QED  BY <2>3, <3>2, <3>3 DEF After, Task
  <2>. QED  BY <2>4, <2>5
<1>13. ASSUME NEW i \in DOMAIN ui.tasks, PullRead(i)
       PROVE  After'
  <2>. DEFINE map == known[Task(i).base]
              g == Spreads(i, map)
              T == {SpreadOf(i, map)}
  <2>1. /\ ui' = [g EXCEPT !.isLoading = g.isLoading /\ Task(i).kind # "metadata"]
        /\ UNCHANGED heap
    BY <1>13 DEF PullRead
  <2>2. Change(T, {}) /\ (\A t \in T : ~t.holds) /\ g \in Ui /\ ~g.loadingData
    BY <1>13, <1>17, KnownFacts, PullReadTyped
  <2>. HIDE DEF g, T
  <2>3. ui'.loadingData = g.loadingData
    BY <2>1, <2>2 DEF Ui
  <2>4. \A j \in DOMAIN ui'.tasks : ~ui'.tasks[j].holds
    BY <1>2, <2>2
  <2>. QED  BY <1>1, <2>1, <2>2, <2>3, <2>4 DEF After, Task
<1>14. ASSUME NEW i \in DOMAIN ui.tasks, MintsRead(i) \/ Fail(i)
       PROVE  After'
  <2>. DEFINE w == Without(i)
  <2>1. /\ \E b : ui' = [w EXCEPT !.loadingMetadata = b]
        /\ heap' = heap \/ heap' = Append(heap, heap[current])
    BY <1>14 DEF MintsRead, Fail, Copy
  <2>2. w \in Ui /\ ~w.loadingData /\ (\A j \in DOMAIN w.tasks : ~w.tasks[j].holds)
    BY <1>7
  <2>. HIDE DEF w
  <2>3. ui'.tasks = w.tasks /\ ui'.loadingData = w.loadingData
    BY <2>1, <2>2 DEF Ui
  <2>4. \A o \in DOMAIN heap' : heap'[o].store
    BY <1>1, <2>1, CurrentFacts, HeapLonger
  <2>. QED  BY <2>2, <2>3, <2>4 DEF After, Task
<1>15. ASSUME NEW kind \in Kinds, Pull(kind)
       PROVE  After'
  <2>1. /\ Change({PullOf(kind)}, {}) /\ ui'.loadingData = ui.loadingData /\ UNCHANGED heap
    BY <1>15, PullTyped DEF Pull
  <2>2. \A t \in {PullOf(kind)} : ~t.holds
    BY DEF PullOf
  <2>3. \A j \in DOMAIN ui'.tasks : ~ui'.tasks[j].holds
    BY <1>2, <2>1, <2>2
  <2>. QED  BY <1>1, <2>1, <2>3 DEF After, Task
<1>. QED  BY <1>5, <1>6, <1>8, <1>10, <1>11, <1>12, <1>13, <1>14, <1>15 DEF Next, Answer

-----------------------------------------------------------------------------
(* Everything together.                                                     *)

\* Every step keeps the types.
LEMMA TypedStep ==
  ASSUME MetaTyped, Next
  PROVE  MetaTyped'
<1>1. ASSUME NEW i \in DOMAIN ui.tasks, Answer(i)
      PROVE  MetaTyped'
  <2>1. CASE IndexRead(i)
    BY <2>1, IndexReadTyped
  <2>2. CASE IndexMissing(i)
    BY <2>2, IndexMissingTyped
  <2>3. CASE ContentRead(i)
    BY <2>3, ContentReadTyped
  <2>4. CASE AllRead(i)
    BY <2>4, AllReadTyped
  <2>5. CASE PullRead(i)
    BY <2>5, PullReadTyped
  <2>6. CASE MintsRead(i)
    BY <2>6, MintsReadTyped
  <2>. QED  BY <1>1, <2>1, <2>2, <2>3, <2>4, <2>5, <2>6 DEF Answer
<1>2. ASSUME NEW i \in DOMAIN ui.tasks, Fail(i)
      PROVE  MetaTyped'
  BY <1>2, FailTyped
<1>3. ASSUME NEW i \in DOMAIN ui.queued, Tick(i)
      PROVE  MetaTyped'
  BY <1>3, TickTyped
<1>4. ASSUME NEW kind \in Kinds, Pull(kind)
      PROVE  MetaTyped'
  BY <1>4, PullTyped
<1>5. CASE StoreReady \/ Rerun
  BY <1>5, EffectTyped
<1>. QED  BY <1>1, <1>2, <1>3, <1>4, <1>5 DEF Next

\* The invariant is kept when nothing happens.
LEMMA MetaStill ==
  ASSUME MetaInv, UNCHANGED vars
  PROVE  MetaInv' /\ KeepsShown /\ KeepsKnown
<1>1. /\ heap' = heap /\ maps' = maps /\ current' = current /\ page' = page
      /\ lastLength' = lastLength /\ ui' = ui /\ ready' = ready /\ size' = size /\ seen' = seen
      /\ known' = known
  BY DEF vars
<1>2. MetaTyped' = MetaTyped
  BY <1>1 DEF MetaTyped, KnownTyped, Object, Pages, WellPlaced, Task, Seen
<1>3. OneFamily' = OneFamily
  BY <1>1 DEF OneFamily
<1>4. InStep' = InStep
  BY <1>1 DEF InStep, Together, Depth, Task
<1>5. Before' = Before /\ After' = After
  BY <1>1 DEF Before, After, Alone, Task
<1>6. First' = First
  BY <1>1 DEF First, Alone, Task, FirstUpdate, UserLoad
<1>7. Phases' = Phases
  BY <1>1, <1>5, <1>6 DEF Phases
<1>8. KnownToAll' = KnownToAll
  BY <1>1 DEF KnownToAll, MetadataShown, Task
<1>. QED  BY <1>1, <1>2, <1>3, <1>4, <1>7, <1>8 DEF MetaInv, KeepsShown, KeepsKnown, Shown

\* The invariant holds when the site is opened.
LEMMA InitMeta ==
  ASSUME Init
  PROVE  MetaInv
<1>. DEFINE x == [family |-> 1, pages |-> {}, store |-> FALSE]
<1>1. /\ heap = <<x>> /\ maps = <<{}>> /\ known = <<{}>> /\ current = 1
      /\ page = 0 /\ lastLength = 0 /\ ready = FALSE /\ size \in {0, NumPages}
      /\ ui = [loadingData |-> FALSE, isLoading |-> FALSE, loadingMetadata |-> FALSE,
               requests |-> 0, tasks |-> <<>>, queued |-> <<>>]
  BY DEF Init
<1>2. x \in Object /\ x.family = 1 /\ x.pages = {} /\ x.store = FALSE
  BY DEF Object
<1>. HIDE DEF x
<1>3. heap \in Seq(Object) /\ Len(heap) = 1 /\ heap[1] = x /\ DOMAIN heap = {1}
  BY <1>1, <1>2
<1>4. maps \in Seq(SUBSET Universe) /\ DOMAIN maps = {1} /\ maps[1] = {}
  BY <1>1
<1>5. /\ ui \in Ui /\ DOMAIN ui.tasks = {} /\ DOMAIN ui.queued = {} /\ ~ui.loadingData
  <2>1. <<>> \in Seq(Load) /\ <<>> \in Seq(Queued) /\ DOMAIN <<>> = {}
    OBVIOUS
  <2>. QED  BY <1>1, <2>1 DEF Ui
<1>6. seen \in Seen /\ seen.read = {}
  BY DEF Init, Seen
<1>7. MetaTyped
  <2>1. lastLength \in 0..NumPages
    BY <1>1, MetaAssumption DEF NumPages
  <2>2. \A o \in DOMAIN heap : heap[o].family \in DOMAIN maps
    BY <1>2, <1>3, <1>4
  <2>3. KnownTyped
    BY <1>1, <1>3 DEF KnownTyped
  <2>. QED  BY <1>1, <1>3, <1>4, <1>5, <1>6, <2>1, <2>2, <2>3 DEF MetaTyped
<1>8. OneFamily
  BY <1>2, <1>3 DEF OneFamily
<1>9. Together
  <2>1. Depth = 0
    BY <1>2, <1>3, FS_EmptySet DEF Depth
  <2>2. 0..(0 - 1) = {}
    OBVIOUS
  <2>. QED  BY <1>1, <1>2, <1>3, <1>5, <1>6, <2>1, <2>2 DEF Together
<1>10. Before
  BY <1>1, <1>2, <1>3, <1>4, <1>5 DEF Before, Alone
<1>. QED  BY <1>7, <1>8, <1>9, <1>10 DEF MetaInv, InStep, Phases

\* Every step keeps the invariant, and keeps what is shown.
LEMMA StepMeta ==
  ASSUME MetaInv, [Next]_vars
  PROVE  MetaInv' /\ KeepsShown /\ KeepsKnown
<1>1. CASE UNCHANGED vars
  BY <1>1, MetaStill
<1>2. CASE Next
  <2>1. MetaTyped /\ OneFamily /\ InStep /\ Phases
    BY DEF MetaInv
  <2>2. MetaTyped'
    BY <1>2, <2>1, TypedStep
  <2>3. OneFamily' /\ KeepsShown
    BY <1>2, <2>1, <2>2, FamilyStep
  <2>6. KeepsKnown
    BY <1>2, <2>1, <2>2, StepKnown
  <2>4. InStep'
    BY <1>2, <2>1, <2>2, InStepStep
  <2>5. Phases'
    <3>1. size' = size
      BY <1>2 DEF Next, StoreReady, Rerun, Tick, Answer, IndexRead, IndexMissing, ContentRead,
                  AllRead, PullRead, MintsRead, Fail, Pull
    <3>2. CASE seen.failed
      BY <1>2, <2>1, <3>2, HistoryGrows DEF Phases
    <3>3. CASE size = 0 /\ seen.anew
      BY <1>2, <2>1, <3>1, <3>3, HistoryGrows DEF Phases
    <3>4. CASE Before
      BY <1>2, <2>1, <2>2, <3>4, BeforeStep DEF Phases
    <3>5. CASE First
      BY <1>2, <2>1, <2>2, <3>5, FirstStep
    <3>6. CASE After
      BY <1>2, <2>1, <2>2, <3>6, AfterStep DEF Phases
    <3>. QED  BY <2>1, <3>2, <3>3, <3>4, <3>5, <3>6 DEF Phases
  <2>. QED  BY <2>2, <2>3, <2>4, <2>5, <2>6 DEF MetaInv
<1>. QED  BY <1>1, <1>2

\* In every reachable state all loads and state objects are where they may be,
\* all objects show the same maps until everything is loaded anew, all updates
\* are in step until a copy is made during paging, and the flag is in one of its
\* three phases (meta.tsx:65-355, loadAccounts.ts:614-800).
THEOREM MetaInvariance == Spec => []MetaInv
<1>1. Init => MetaInv
  BY InitMeta
<1>2. MetaInv /\ [Next]_vars => MetaInv'
  BY StepMeta
<1>. QED  BY <1>1, <1>2, PTL DEF Spec

\* The invariant implies that the flag is held by the update that set it, and
\* that pages are asked for one after the other.
LEMMA MetaImplies ==
  ASSUME MetaInv
  PROVE  PagesInOrder
<1>1. MetaTyped /\ InStep /\ Phases
  BY DEF MetaInv
<1>2. TypeOK
  <2>1. ASSUME NEW o \in DOMAIN heap
        PROVE  heap[o].pages \subseteq Pages
    <3>1. heap[o] \in Object
      BY <1>1 DEF MetaTyped
    <3>2. heap[o].pages \in SUBSET Pages
      BY <3>1 DEF Object
    <3>. QED  BY <3>2
  <2>2. \A i \in DOMAIN ui.tasks : Task(i).base \in DOMAIN heap
    BY <1>1, LoadFacts
  <2>3. DOMAIN known = DOMAIN heap
    BY <1>1 DEF MetaTyped, KnownTyped
  <2>. QED  BY <1>1, <2>1, <2>2, <2>3 DEF TypeOK, MetaTyped
<1>3. FlagHeld
  <2>1. CASE Before
    BY <2>1 DEF Before, UserLoad, FlagHeld
  <2>2. CASE First
    BY <2>2 DEF First, FirstUpdate, FlagHeld
  <2>3. CASE After
    BY <2>3 DEF After, FlagHeld
  <2>. QED  BY <1>1, <2>1, <2>2, <2>3 DEF Phases, FlagHeld
<1>4. OneAfterTheOther
  <2>1. CASE Together
    <3>1. Depth \in 0..size /\ size \in Nat /\ page \in Nat /\ lastLength \in Nat
      BY <1>1, DepthFacts
    <3>2. page <= size
      BY <2>1, <3>1 DEF Together
    <3>3. ASSUME NEW i \in DOMAIN ui.tasks, Task(i).kind = "update"
          PROVE  0..(Task(i).page - 1) \subseteq seen.read
      <4>1. Task(i).page \in Nat /\ Task(i).page <= Depth
        BY <1>1, <2>1, <3>3, LoadFacts DEF Together
      <4>2. 0..(Task(i).page - 1) \subseteq 0..(Depth - 1)
        BY <3>1, <4>1
      <4>. QED  BY <2>1, <4>2 DEF Together
    <3>. QED  BY <3>2, <3>3 DEF OneAfterTheOther
  <2>. QED  BY <1>1, <2>1 DEF InStep, OneAfterTheOther
<1>. QED  BY <1>2, <1>3, <1>4 DEF PagesInOrder

\* However many pages the index has and however many loads run beside the
\* updates, the flag is released by the update that set it, and no page is asked
\* for before those in front of it have been read, unless a copy became the state
\* during paging or everything was loaded anew (meta.tsx:226-355).
THEOREM PagesComeInOrder == Spec => []PagesInOrder
<1>1. MetaInv => PagesInOrder
  BY MetaImplies
<1>. QED  BY <1>1, MetaInvariance, PTL

\* No load takes an auction away that is shown, whichever object it makes the
\* state, nor metadata that all loads under way know of, until everything is
\* loaded anew (meta.tsx:65-313, loadAccounts.ts:628-800); metadata that came
\* while one of them waited for its mints is not among it (meta.tsx:72-76).
THEOREM ShownStays == Spec => ShownKept
<1>. DEFINE A == ~seen'.anew => Shown \subseteq Shown' /\ KnownToAll \ Fungible \subseteq KnownToAll'
<1>1. ASSUME MetaInv, [Next]_vars
      PROVE  A
  <2>1. KeepsShown /\ KeepsKnown
    BY <1>1, StepMeta
  <2>. QED  BY <2>1 DEF KeepsShown, KeepsKnown
<1>2. MetaInv /\ [Next]_vars => [A]_vars
  BY <1>1
<1>. QED  BY <1>2, MetaInvariance, PTL DEF Spec, ShownKept

-----------------------------------------------------------------------------
(* The account cache.                                                       *)

LEMMA Markers ==
    /\ NotCached \notin Content /\ NotRead \notin Content
    /\ ~NotCached.open /\ ~NotRead.open /\ NotCached.n = -1 /\ NotRead.n = -2
BY DEF NotCached, NotRead, Content

\* What `cache.add' parses is an open account, which the cache can hold.
LEMMA ParsedIsContent ==
    ASSUME NEW answer \in [Accounts -> Content \cup {NotRead, NotCached}], NEW as \in SUBSET Accounts,
           NEW a \in Parsed(answer, as)
    PROVE  a \in as /\ a \in Accounts /\ answer[a] \in Content /\ answer[a].open
BY Markers DEF Parsed

LEMMA UpdatedType ==
    ASSUME NEW answer \in [Accounts -> Content \cup {NotRead, NotCached}], NEW as \in SUBSET Accounts,
           genericCache \in [Accounts -> Content \cup {NotCached}]
    PROVE  Updated(answer, as) \in [Accounts -> Content \cup {NotCached}]
BY ParsedIsContent DEF Updated

LEMMA HookHearsType ==
    ASSUME NEW answer \in [Accounts -> Content \cup {NotRead, NotCached}], NEW as \in SUBSET Accounts,
           hook \in [key : Mints \cup {NoMint}, first : BOOLEAN,
                     shows : Content \cup {NotCached}, awaits : SUBSET Mints]
    PROVE  /\ HookHears(answer, as) \in [key : Mints \cup {NoMint}, first : BOOLEAN,
                                       shows : Content \cup {NotCached}, awaits : SUBSET Mints]
           /\ HookHears(answer, as).key = hook.key
           /\ HookHears(answer, as).first = hook.first
           /\ HookHears(answer, as).awaits = hook.awaits
<1>1. CASE hook.key \in Parsed(answer, as)
  <2>1. answer[hook.key] \in Content
    BY <1>1, ParsedIsContent
  <2> QED
    BY <1>1, <2>1 DEF HookHears
<1>2. CASE hook.key \notin Parsed(answer, as)
  BY <1>2 DEF HookHears
<1> QED
  BY <1>1, <1>2

LEMMA SelectType ==
    ASSUME NEW cache \in [Accounts -> Content \cup {NotCached}], NEW w
    PROVE  Select(cache, w) \in [Accounts -> Content \cup {NotCached}]
BY DEF Select

LEMMA OvertakenType ==
    ASSUME NEW answer, NEW as, lapse \in [Accounts -> Nat], chain \in [Accounts -> Content]
    PROVE  Overtaken(answer, as) \in [Accounts -> Nat]
BY DEF Overtaken, Content

LEMMA DroppingType ==
    ASSUME NEW gone, NEW before \in [Accounts -> Nat], chain \in [Accounts -> Content]
    PROVE  Dropping(gone, before) \in [Accounts -> Nat]
BY DEF Dropping, Content

LEMMA AskType ==
    ASSUME NEW kind \in ReadKinds, NEW about \in Accounts, NEW by \in Nat,
           kind = "native" => about \in Wallets
    PROVE  Ask(kind, about, by) \in Requests
BY DEF Ask, Requests

LEMMA PrecacheType ==
    ASSUME NEW w \in Wallets \cup {NoWallet}, runs \in Nat
    PROVE  /\ Precache(w) \subseteq Requests
           /\ \A q \in Precache(w) : q.kind # "query" /\ \A a \in Accounts : q.seen[a] = NotRead
<1>1. w # NoWallet => Ask("precache", w, runs) \in Requests
  BY AskType DEF ReadKinds, Accounts
<1>2. /\ Ask("precache", w, runs).kind # "query"
      /\ \A a \in Accounts : Ask("precache", w, runs).seen[a] = NotRead
  BY DEF Ask
<1> QED
  BY <1>1, <1>2 DEF Precache

LEMMA InitTyped == ASSUME CacheAssumption, CacheInit PROVE Typed
<1>1. \A a \in Accounts : [n |-> 0, open |-> a \notin Absent] \in Content
  BY DEF Content
<1>2. chain \in [Accounts -> Content]
  BY <1>1 DEF CacheInit
<1>3. feeds \in [DOMAIN feeds -> Seq(Notes)]
  BY DEF CacheInit
<1> QED
  BY <1>2, <1>3 DEF CacheInit, Typed, NoHook

LEMMA StepTyped == ASSUME CacheAssumption, Typed, [CacheNext]_cacheVars PROVE Typed'
<1> USE CacheAssumption, Typed
<1>1. ASSUME NEW r \in reads, Read(r) PROVE Typed'
  <2>1. r \in Requests
    BY DEF Typed
  <2>2. [a \in Accounts |-> IF a \in Wanted(r) THEN chain[a] ELSE r.seen[a]]
            \in [Accounts -> Content \cup {NotRead}]
    BY <2>1 DEF Typed, Requests
  <2>3. [r EXCEPT !.done = TRUE,
                  !.seen = [a \in Accounts |-> IF a \in Wanted(r) THEN chain[a] ELSE @[a]]] \in Requests
    BY <2>1, <2>2 DEF Requests
  <2> QED
    BY <1>1, <2>3 DEF Typed, Read, browserVars, counters
<1>2. ASSUME NEW r \in reads, QueryAnswered(r) PROVE Typed'
  <2>1. {r.about} \in SUBSET Accounts /\ r.seen \in [Accounts -> Content \cup {NotRead, NotCached}]
    BY DEF Typed, Requests
  <2>2. genericCache' \in [Accounts -> Content \cup {NotCached}]
    BY <1>2, <2>1, UpdatedType DEF Typed, QueryAnswered, AddToCache
  <2>3. lapse' \in [Accounts -> Nat]
    BY <1>2, OvertakenType DEF Typed, QueryAnswered
  <2>4. r.seen[r.about] \in Content
    BY <1>2, <2>1, Markers DEF QueryAnswered
  <2>5. hook' \in [key : Mints \cup {NoMint}, first : BOOLEAN,
                   shows : Content \cup {NotCached}, awaits : SUBSET Mints]
    BY <1>2, <2>1, <2>4, HookHearsType DEF Typed, QueryAnswered
  <2> QED
    BY <1>2, <2>2, <2>3, <2>5 DEF Typed, QueryAnswered, AddToCache, counters
<1>3. ASSUME NEW r \in reads, QueryRejected(r) PROVE Typed'
  BY <1>3 DEF Typed, QueryRejected, counters
<1>4. ASSUME NEW r \in reads, MintLoaded(r) PROVE Typed'
  <2> DEFINE as == Parsed(r.seen, {r.about})
  <2>1. as \in SUBSET Accounts /\ r.seen \in [Accounts -> Content \cup {NotRead, NotCached}]
    BY DEF Typed, Requests, Parsed
  <2>2. genericCache' \in [Accounts -> Content \cup {NotCached}]
    BY <1>4, <2>1, UpdatedType DEF Typed, MintLoaded, AddToCache
  <2>3. lapse' \in [Accounts -> Nat]
    BY <1>4, OvertakenType DEF Typed, MintLoaded
  <2>4. hook' \in [key : Mints \cup {NoMint}, first : BOOLEAN,
                   shows : Content \cup {NotCached}, awaits : SUBSET Mints]
    BY <1>4, <2>1, HookHearsType DEF Typed, MintLoaded
  <2> QED
    BY <1>4, <2>2, <2>3, <2>4 DEF Typed, MintLoaded, AddToCache, counters
<1>5. ASSUME NEW r \in reads, PrecacheAnswered(r) PROVE Typed'
  <2> DEFINE as == Parsed(r.seen, Wanted(r))
  <2>1. as \in SUBSET Accounts /\ r.seen \in [Accounts -> Content \cup {NotRead, NotCached}]
    BY DEF Typed, Requests, Parsed, Wanted, Accounts
  <2>2. genericCache' \in [Accounts -> Content \cup {NotCached}]
    BY <1>5, <2>1, UpdatedType DEF Typed, PrecacheAnswered, AddToCache
  <2>3. lapse' \in [Accounts -> Nat]
    BY <1>5, OvertakenType DEF Typed, PrecacheAnswered
  <2>4. userAccounts' \in [Accounts -> Content \cup {NotCached}]
    BY <1>5, <2>2, SelectType DEF PrecacheAnswered
  <2> QED
    BY <1>5, <2>2, <2>3, <2>4 DEF Typed, PrecacheAnswered, AddToCache, counters
<1>6. ASSUME NEW r \in reads, NativeAnswered(r) PROVE Typed'
  <2> DEFINE as == Parsed(r.seen, {r.about})
  <2>1. as \in SUBSET Accounts /\ r.seen \in [Accounts -> Content \cup {NotRead, NotCached}]
    BY DEF Typed, Requests, Parsed
  <2>2. genericCache' \in [Accounts -> Content \cup {NotCached}]
    BY <1>6, <2>1, UpdatedType DEF Typed, NativeAnswered
  <2>3. lapse' \in [Accounts -> Nat]
    BY <1>6, OvertakenType, DroppingType DEF Typed, NativeAnswered
  <2>4. userAccounts' \in [Accounts -> Content \cup {NotCached}]
    BY <1>6, <2>2, SelectType DEF Typed, NativeAnswered
  <2>5. reads' \subseteq Requests
    BY <1>6, PrecacheType DEF Typed, NativeAnswered
  <2>6. feeds' \in [DOMAIN feeds' -> Seq(Notes)]
    BY <1>6 DEF Typed, NativeAnswered
  <2>7. runs' \in Nat
    BY <1>6 DEF Typed, NativeAnswered
  <2> QED
    BY <1>6, <2>2, <2>3, <2>4, <2>5, <2>6, <2>7 DEF Typed, NativeAnswered, counters
<1>7. ASSUME StartSubscription PROVE Typed'
  <2>1. feeds' \in [DOMAIN feeds' -> Seq(Notes)]
    BY <1>7 DEF Typed, StartSubscription
  <2> QED
    BY <1>7, <2>1 DEF Typed, StartSubscription, browserVars, counters
<1>8. ASSUME NEW a \in Accounts, NEW open \in BOOLEAN, AccountChange(a, open) PROVE Typed'
  <2> DEFINE c == [n |-> chain[a].n + 1, open |-> open]
  <2>1. c \in Content /\ c.n \in Nat
    BY DEF Typed, Content
  <2>2. chain' \in [Accounts -> Content]
    BY <1>8, <2>1 DEF Typed, AccountChange
  <2>3. \A s \in DOMAIN feeds : Append(feeds[s], [of |-> a, is |-> c]) \in Seq(Notes)
    <3> HIDE DEF c
    <3>1. [of |-> a, is |-> c] \in Notes
      BY <2>1 DEF Notes
    <3>2. \A s \in DOMAIN feeds : feeds[s] \in Seq(Notes)
      BY DEF Typed
    <3> QED
      BY <3>1, <3>2
  <2>4. feeds' \in [DOMAIN feeds' -> Seq(Notes)]
    BY <1>8, <2>3 DEF Typed, AccountChange
  <2>5. lapse' \in [Accounts -> Nat]
    BY <1>8, <2>1 DEF Typed, AccountChange
  <2>6. changes' \in Nat
    BY <1>8 DEF Typed, AccountChange
  <2> QED
    BY <1>8, <2>2, <2>4, <2>5, <2>6 DEF Typed, AccountChange, browserVars
<1>9. ASSUME NEW m \in Mints, SetKey(m) PROVE Typed'
  <2>1. "query" \in ReadKinds /\ m \in Accounts /\ moves \in Nat
    BY DEF ReadKinds, Accounts, Typed
  <2>2. reads' \subseteq Requests
    BY <1>9, <2>1, AskType DEF Typed, SetKey
  <2>3. pendingCalls' \in [Accounts -> {"none", "waiting", "rejected"}]
    BY <1>9 DEF Typed, SetKey
  <2>4. Awaits(m) \subseteq Mints /\ genericCache[m] \in Content \cup {NotCached}
    BY <2>1 DEF Awaits, Typed
  <2>5. hook' \in [key : Mints \cup {NoMint}, first : BOOLEAN,
                   shows : Content \cup {NotCached}, awaits : SUBSET Mints]
    BY <1>9, <2>4 DEF Typed, SetKey
  <2>6. moves' \in Nat
    BY <1>9, <2>1 DEF SetKey
  <2> QED
    BY <1>9, <2>2, <2>3, <2>5, <2>6 DEF Typed, SetKey
<1>10. ASSUME Unmount PROVE Typed'
  BY <1>10 DEF Typed, Unmount, NoHook, counters
<1>11. ASSUME NEW m \in Mints, LoadMint(m) PROVE Typed'
  <2>1. Ask("loader", m, 0) \in Requests
    BY AskType DEF ReadKinds, Accounts
  <2> QED
    BY <1>11, <2>1 DEF Typed, LoadMint, browserVars, counters
<1>12. ASSUME NEW w \in Wallets \cup {NoWallet}, SwitchWallet(w) PROVE Typed'
  <2>1. moves' \in Nat /\ runs' \in Nat
    BY <1>12 DEF Typed, SwitchWallet
  <2>2. w # NoWallet => Ask("native", w, runs) \in Requests
    BY AskType DEF Typed, ReadKinds, Accounts
  <2>3. reads' \subseteq Requests
    BY <1>12, <2>2, PrecacheType DEF Typed, SwitchWallet
  <2>4. feeds' \in [DOMAIN feeds' -> Seq(Notes)]
    BY <1>12 DEF Typed, SwitchWallet
  <2>5. lapse' \in [Accounts -> Nat]
    BY <1>12, DroppingType DEF Typed, SwitchWallet
  <2>6. userAccounts' \in [Accounts -> Content \cup {NotCached}]
    BY <1>12, SelectType DEF Typed, SwitchWallet
  <2>7. wallet' \in Wallets \cup {NoWallet} /\ precached' \subseteq Wallets /\ moves' \in Nat
    BY <1>12, <2>1 DEF Typed, SwitchWallet
  <2> QED
    BY <1>12, <2>3, <2>4, <2>5, <2>6, <2>7 DEF Typed, SwitchWallet
<1>13. ASSUME NEW s \in DOMAIN feeds, Deliver(s) PROVE Typed'
  <2> DEFINE note == Head(feeds[s])
             as == {a \in {note.of} : Takes(s, a)}
             answer == [a \in Accounts |-> note.is]
  <2>1. note \in Notes /\ Tail(feeds[s]) \in Seq(Notes)
    BY <1>13 DEF Typed, Deliver
  <2>2. as \in SUBSET Accounts /\ answer \in [Accounts -> Content \cup {NotRead, NotCached}]
    BY <2>1 DEF Notes
  <2>3. genericCache' = Updated(answer, as)
    BY <1>13 DEF Deliver
  <2>4. genericCache' \in [Accounts -> Content \cup {NotCached}]
    BY <2>2, <2>3, UpdatedType DEF Typed
  <2>5. hook' = HookHears(answer, as)
    BY <1>13 DEF Deliver
  <2>6. hook' \in [key : Mints \cup {NoMint}, first : BOOLEAN,
                   shows : Content \cup {NotCached}, awaits : SUBSET Mints]
    BY <2>2, <2>5, HookHearsType DEF Typed
  <2>7. feeds' \in [DOMAIN feeds' -> Seq(Notes)]
    BY <1>13, <2>1 DEF Typed, Deliver
  <2>8. userAccounts' \in [Accounts -> Content \cup {NotCached}]
    BY <1>13, <2>4, SelectType DEF Typed, Deliver
  <2>9. pendingCalls' \in [Accounts -> {"none", "waiting", "rejected"}]
    BY <1>13 DEF Typed, Deliver
  <2>10. reads' \subseteq Requests
    BY <1>13, PrecacheType DEF Typed, Deliver
  <2>11. lapse' \in [Accounts -> Nat]
    <3>1. PICK gone : lapse' = Dropping(gone, lapse)
      BY <1>13 DEF Deliver
    <3> QED
      BY <3>1, DroppingType DEF Typed
  <2>12. runs' \in Nat
    BY <1>13 DEF Typed, Deliver
  <2> QED
    BY <1>13, <2>4, <2>6, <2>7, <2>8, <2>9, <2>10, <2>11, <2>12 DEF Typed, Deliver, counters
<1>14. CASE UNCHANGED cacheVars
  BY <1>14 DEF Typed, cacheVars
<1> QED
  BY <1>1, <1>2, <1>3, <1>4, <1>5, <1>6, <1>7, <1>8, <1>9, <1>10, <1>11, <1>12, <1>13, <1>14 DEF CacheNext

(***************************************************************************)
(* What the pages see is the connected wallet's.                           *)
(***************************************************************************)

LEMMA SelectOwned ==
    ASSUME NEW cache, NEW w, NEW a \in Accounts, Select(cache, w)[a] # NotCached
    PROVE  a = w \/ (a \in Tokens /\ OwnerOf[a] = w)
BY DEF Select

LEMMA StepOwned ==
    ASSUME CacheAssumption, Typed, UserAccountsOwned, [CacheNext]_cacheVars
    PROVE  UserAccountsOwned'
<1> USE UserAccountsOwned
<1>1. ASSUME NEW r \in reads,
             Read(r) \/ QueryAnswered(r) \/ QueryRejected(r) \/ MintLoaded(r)
      PROVE  UserAccountsOwned'
  BY <1>1 DEF UserAccountsOwned, Read, QueryAnswered, QueryRejected, MintLoaded, browserVars
<1>2. ASSUME NEW r \in reads, PrecacheAnswered(r) PROVE UserAccountsOwned'
  BY <1>2, SelectOwned DEF UserAccountsOwned, PrecacheAnswered
<1>3. ASSUME NEW r \in reads, NativeAnswered(r) PROVE UserAccountsOwned'
  BY <1>3, SelectOwned DEF UserAccountsOwned, NativeAnswered
<1>4. ASSUME StartSubscription \/ Unmount \/ \E m \in Mints : SetKey(m) \/ LoadMint(m)
      PROVE  UserAccountsOwned'
  BY <1>4 DEF UserAccountsOwned, StartSubscription, Unmount, SetKey, LoadMint, browserVars
<1>5. ASSUME NEW a \in Accounts, NEW open \in BOOLEAN, AccountChange(a, open)
      PROVE  UserAccountsOwned'
  BY <1>5 DEF UserAccountsOwned, AccountChange, browserVars
<1>6. ASSUME NEW w \in Wallets \cup {NoWallet}, SwitchWallet(w) PROVE UserAccountsOwned'
  BY <1>6, SelectOwned DEF UserAccountsOwned, SwitchWallet
<1>7. ASSUME NEW s \in DOMAIN feeds, Deliver(s) PROVE UserAccountsOwned'
  BY <1>7, SelectOwned DEF UserAccountsOwned, Deliver
<1>8. CASE UNCHANGED cacheVars
  BY <1>8 DEF UserAccountsOwned, cacheVars
<1> QED
  BY <1>1, <1>2, <1>3, <1>4, <1>5, <1>6, <1>7, <1>8 DEF CacheNext

(***************************************************************************)
(* One request per account.                                                *)
(***************************************************************************)

FetchInv == OnlyTokensClose /\ FetchPending /\ OneFetch

\* Adding accounts to the cache keeps what a query relies on: whatever loses its
\* promise is in the cache.
LEMMA AddKeepsFetch ==
    ASSUME CacheAssumption, Typed, FetchInv,
           NEW answer \in [Accounts -> Content \cup {NotRead, NotCached}], NEW as \in SUBSET Accounts,
           \A a \in as \cap Mints : answer[a].open,
           genericCache' = Updated(answer, as),
           \A a \in Accounts : pendingCalls'[a] \in {"none", pendingCalls[a]},
           \A a \in Accounts : a \notin as => pendingCalls'[a] = pendingCalls[a],
           \A q \in reads' : q.kind = "query" => q \in reads
    PROVE  FetchPending' /\ OneFetch'
<1>1. OneFetch'
  BY DEF FetchInv, OneFetch
<1>2. ASSUME NEW r \in reads', r.kind = "query"
      PROVE  /\ r.about \in Mints
             /\ pendingCalls'[r.about] = "waiting" \/ genericCache'[r.about] # NotCached
  <2>1. r \in reads /\ r.about \in Mints /\ r.about \in Accounts
    BY <1>2 DEF FetchInv, FetchPending, Accounts
  <2>2. CASE r.about \in as
    <3>1. r.about \in Parsed(answer, as)
      BY <2>1, <2>2 DEF Parsed
    <3>2. genericCache'[r.about] = answer[r.about]
      BY <2>1, <3>1 DEF Updated
    <3>3. answer[r.about] \in Content
      BY <3>1, ParsedIsContent
    <3>4. genericCache'[r.about] # NotCached
      BY <3>2, <3>3, Markers
    <3> QED
      BY <2>1, <3>4
  <2>3. CASE r.about \notin as
    <3>1. pendingCalls'[r.about] = pendingCalls[r.about]
      BY <2>1, <2>3
    <3>2. genericCache'[r.about] = genericCache[r.about]
      BY <2>1, <2>3 DEF Updated, Parsed
    <3> QED
      BY <1>2, <2>1, <3>1, <3>2 DEF FetchInv, FetchPending
  <2> QED
    BY <2>1, <2>2, <2>3
<1> QED
  BY <1>1, <1>2 DEF FetchPending

LEMMA StepFetch ==
    ASSUME CacheAssumption, Typed, FetchInv, [CacheNext]_cacheVars
    PROVE  FetchInv'
<1> USE CacheAssumption, Typed, FetchInv
<1>1. ASSUME NEW r \in reads, Read(r) PROVE FetchInv'
  <2> DEFINE q == [r EXCEPT !.done = TRUE,
                            !.seen = [a \in Accounts |-> IF a \in Wanted(r) THEN chain[a] ELSE @[a]]]
  <2>1. q.kind = r.kind /\ q.about = r.about
    BY DEF Typed, Requests
  <2> HIDE DEF q
  <2>2. reads' = (reads \ {r}) \cup {q}
    BY <1>1 DEF Read, q
  <2> QED
    BY <1>1, <2>1, <2>2 DEF FetchInv, OnlyTokensClose, FetchPending, OneFetch, Read, browserVars
<1>2. ASSUME NEW r \in reads, QueryAnswered(r) PROVE FetchInv'
  <2>1. {r.about} \in SUBSET Accounts /\ r.seen \in [Accounts -> Content \cup {NotRead, NotCached}]
    BY DEF Typed, Requests
  <2>2. FetchPending' /\ OneFetch'
    BY <1>2, <2>1, AddKeepsFetch DEF QueryAnswered, AddToCache, Typed
  <2> QED
    BY <1>2, <2>2 DEF FetchInv, OnlyTokensClose, QueryAnswered
<1>3. ASSUME NEW r \in reads, QueryRejected(r) PROVE FetchInv'
  <2>1. \A q \in reads' : q.kind = "query" => q.about # r.about
    BY <1>3 DEF QueryRejected, FetchInv, OneFetch
  <2>2. \A a \in Accounts \ {r.about} : pendingCalls'[a] = pendingCalls[a]
    BY <1>3 DEF QueryRejected, Typed
  <2>3. FetchPending'
    BY <1>3, <2>1, <2>2 DEF QueryRejected, FetchInv, FetchPending, Accounts
  <2> QED
    BY <1>3, <2>3 DEF FetchInv, OnlyTokensClose, OneFetch, QueryRejected
<1>4. ASSUME NEW r \in reads, MintLoaded(r) PROVE FetchInv'
  <2> DEFINE as == Parsed(r.seen, {r.about})
  <2>1. as \in SUBSET Accounts /\ r.seen \in [Accounts -> Content \cup {NotRead, NotCached}]
    BY DEF Typed, Requests, Parsed
  <2>2. \A a \in as \cap Mints : r.seen[a].open
    BY DEF Parsed
  <2>3. FetchPending' /\ OneFetch'
    BY <1>4, <2>1, <2>2, AddKeepsFetch DEF MintLoaded, AddToCache, Typed
  <2> QED
    BY <1>4, <2>3 DEF FetchInv, OnlyTokensClose, MintLoaded
<1>5. ASSUME NEW r \in reads, PrecacheAnswered(r) PROVE FetchInv'
  <2> DEFINE as == Parsed(r.seen, Wanted(r))
  <2>1. as \in SUBSET Accounts /\ r.seen \in [Accounts -> Content \cup {NotRead, NotCached}]
    BY DEF Typed, Requests, Parsed, Wanted, Accounts
  <2>2. \A a \in as \cap Mints : r.seen[a].open
    BY DEF Parsed
  <2>3. FetchPending' /\ OneFetch'
    BY <1>5, <2>1, <2>2, AddKeepsFetch DEF PrecacheAnswered, AddToCache, Typed
  <2> QED
    BY <1>5, <2>3 DEF FetchInv, OnlyTokensClose, PrecacheAnswered
<1>6. ASSUME NEW r \in reads, NativeAnswered(r) PROVE FetchInv'
  <2> DEFINE as == Parsed(r.seen, {r.about})
  <2>1. as \in SUBSET Accounts /\ r.seen \in [Accounts -> Content \cup {NotRead, NotCached}]
    BY DEF Typed, Requests, Parsed
  <2>2. \A a \in as \cap Mints : r.seen[a].open
    BY DEF Parsed
  <2> HIDE DEF as
  <2>3. /\ genericCache' = Updated(r.seen, as)
        /\ pendingCalls' = pendingCalls
        /\ \A q \in reads' : q.kind = "query" => q \in reads
    BY <1>6, PrecacheType DEF NativeAnswered, as, Typed
  <2>4. \A a \in Accounts : pendingCalls'[a] \in {"none", pendingCalls[a]} /\ pendingCalls'[a] = pendingCalls[a]
    BY <2>3
  <2>5. FetchPending' /\ OneFetch'
    BY <2>1, <2>2, <2>3, <2>4, AddKeepsFetch
  <2> QED
    BY <1>6, <2>5 DEF FetchInv, OnlyTokensClose, NativeAnswered
<1>7. ASSUME StartSubscription PROVE FetchInv'
  BY <1>7 DEF StartSubscription, browserVars, FetchInv, OnlyTokensClose, FetchPending, OneFetch
<1>8. ASSUME NEW a \in Accounts, NEW open \in BOOLEAN, AccountChange(a, open) PROVE FetchInv'
  <2> DEFINE note == [of |-> a, is |-> [n |-> chain[a].n + 1, open |-> open]]
  <2>1. note.is.open \/ note.of \in Tokens
    BY <1>8 DEF AccountChange
  <2>2. \A s \in DOMAIN feeds' :
            s \in DOMAIN feeds /\ (feeds'[s] = feeds[s] \/ feeds'[s] = Append(feeds[s], note))
    BY <1>8 DEF AccountChange
  <2> HIDE DEF note
  <2>3. OnlyTokensClose'
    <3> SUFFICES ASSUME NEW s \in DOMAIN feeds', NEW i \in DOMAIN feeds'[s]
                 PROVE  feeds'[s][i].is.open \/ feeds'[s][i].of \in Tokens
      BY DEF OnlyTokensClose
    <3>1. feeds[s] \in Seq(Notes)
      BY <2>2 DEF Typed
    <3>2. (i \in DOMAIN feeds[s] /\ feeds'[s][i] = feeds[s][i]) \/ feeds'[s][i] = note
      BY <2>2, <3>1
    <3> QED
      BY <2>1, <2>2, <3>2 DEF FetchInv, OnlyTokensClose
  <2> QED
    BY <1>8, <2>3 DEF AccountChange, browserVars, FetchInv, FetchPending, OneFetch
<1>9. ASSUME NEW m \in Mints, SetKey(m) PROVE FetchInv'
  <2>1. m \in Accounts
    BY DEF Accounts
  <2>2. CASE Fetches(m)
    <3> DEFINE q == Ask("query", m, moves)
    <3>1. q.kind = "query" /\ q.about = m
      BY DEF Ask
    <3> HIDE DEF q
    <3>2. reads' = reads \cup {q} /\ genericCache' = genericCache /\ pendingCalls'[m] = "waiting"
      BY <1>9, <2>1, <2>2 DEF SetKey, q, Typed
    <3>3. \A a \in Accounts \ {m} : pendingCalls'[a] = pendingCalls[a]
      BY <1>9, <2>2 DEF SetKey, Typed
    <3>4. \A r \in reads : r.kind = "query" => r.about # m
      BY <2>1, <2>2 DEF Fetches, FetchInv, FetchPending
    <3>5. OneFetch'
      BY <3>1, <3>2, <3>4 DEF OneFetch, FetchInv
    <3>6. FetchPending'
      BY <3>1, <3>2, <3>3 DEF FetchPending, FetchInv, Accounts
    <3> QED
      BY <1>9, <3>5, <3>6 DEF SetKey, FetchInv, OnlyTokensClose
  <2>3. CASE ~Fetches(m)
    BY <1>9, <2>3 DEF SetKey, FetchInv, OnlyTokensClose, FetchPending, OneFetch
  <2> QED
    BY <2>2, <2>3
<1>10. ASSUME Unmount PROVE FetchInv'
  BY <1>10 DEF Unmount, FetchInv, OnlyTokensClose, FetchPending, OneFetch
<1>11. ASSUME NEW m \in Mints, LoadMint(m) PROVE FetchInv'
  <2>1. Ask("loader", m, 0).kind # "query"
    BY DEF Ask
  <2> QED
    BY <1>11, <2>1 DEF LoadMint, browserVars, FetchInv, OnlyTokensClose, FetchPending, OneFetch
<1>12. ASSUME NEW w \in Wallets \cup {NoWallet}, SwitchWallet(w) PROVE FetchInv'
  <2>1. \A q \in reads' : q.kind = "query" => q \in reads
    BY <1>12, PrecacheType DEF SwitchWallet, Ask, Typed
  <2> QED
    BY <1>12, <2>1 DEF SwitchWallet, FetchInv, OnlyTokensClose, FetchPending, OneFetch
<1>13. ASSUME NEW s \in DOMAIN feeds, Deliver(s) PROVE FetchInv'
  <2> DEFINE note == Head(feeds[s])
             as == {a \in {note.of} : Takes(s, a)}
             answer == [a \in Accounts |-> note.is]
  <2>1. note \in Notes /\ 1 \in DOMAIN feeds[s] /\ note = feeds[s][1]
    BY <1>13 DEF Typed, Deliver
  <2>2. as \in SUBSET Accounts /\ answer \in [Accounts -> Content \cup {NotRead, NotCached}]
    BY <2>1 DEF Notes
  <2>3. \A a \in as \cap Mints : answer[a].open
    BY <2>1, <2>2 DEF FetchInv, OnlyTokensClose
  <2>4. /\ genericCache' = Updated(answer, as)
        /\ \A a \in Accounts : pendingCalls'[a] \in {"none", pendingCalls[a]}
        /\ \A a \in Accounts : a \notin as => pendingCalls'[a] = pendingCalls[a]
        /\ \A q \in reads' : q.kind = "query" => q \in reads
    BY <1>13, PrecacheType DEF Deliver, Typed
  <2>5. FetchPending' /\ OneFetch'
    BY <2>2, <2>3, <2>4, AddKeepsFetch
  <2>6. OnlyTokensClose'
    <3> SUFFICES ASSUME NEW t \in DOMAIN feeds', NEW i \in DOMAIN feeds'[t]
                 PROVE  feeds'[t][i].is.open \/ feeds'[t][i].of \in Tokens
      BY DEF OnlyTokensClose
    <3>1. t \in DOMAIN feeds /\ feeds[s] \in Seq(Notes) /\ feeds[s] # <<>>
      BY <1>13 DEF Deliver, Typed
    <3>2. CASE t = s
      <4>1. i + 1 \in DOMAIN feeds[s] /\ feeds'[t][i] = feeds[s][i + 1]
        BY <1>13, <3>1, <3>2 DEF Deliver
      <4> QED
        BY <4>1 DEF FetchInv, OnlyTokensClose
    <3>3. CASE t # s
      BY <1>13, <3>1, <3>3 DEF Deliver, FetchInv, OnlyTokensClose
    <3> QED
      BY <3>2, <3>3
  <2> QED
    BY <2>5, <2>6 DEF FetchInv
<1>14. CASE UNCHANGED cacheVars
  BY <1>14 DEF cacheVars, FetchInv, OnlyTokensClose, FetchPending, OneFetch
<1> QED
  BY <1>1, <1>2, <1>3, <1>4, <1>5, <1>6, <1>7, <1>8, <1>9, <1>10, <1>11, <1>12, <1>13, <1>14 DEF CacheNext

(***************************************************************************)
(* The hook of the first key.  Whatever is added to the cache is shown, and *)
(* what the promise gives is what was added.                               *)
(***************************************************************************)

HookInv == HookOfFirstKey /\ HookShowsCache

\* Adding accounts to the cache keeps the hook in step.
LEMMA AddKeepsHook ==
    ASSUME CacheAssumption, Typed, HookInv,
           NEW answer \in [Accounts -> Content \cup {NotRead, NotCached}], NEW as \in SUBSET Accounts,
           genericCache' = Updated(answer, as),
           hook' = HookHears(answer, as)
    PROVE  HookInv'
<1>1. HookHears(answer, as).key = hook.key /\ HookHears(answer, as).first = hook.first
      /\ HookHears(answer, as).awaits = hook.awaits
  BY HookHearsType DEF Typed
<1>2. CASE hook.key \in Parsed(answer, as)
  <2>1. hook.key \in Accounts
    BY <1>2, ParsedIsContent
  <2>2. hook.key # NoMint
    BY <2>1 DEF CacheAssumption
  <2>3. hook'.shows = answer[hook.key]
    BY <1>2 DEF HookHears, Typed
  <2>4. genericCache'[hook.key] = answer[hook.key]
    BY <1>2, <2>1 DEF Updated
  <2> QED
    BY <1>1, <2>2, <2>3, <2>4 DEF HookInv, HookOfFirstKey, HookShowsCache
<1>3. CASE hook.key \notin Parsed(answer, as)
  <2>1. hook' = hook
    BY <1>3 DEF HookHears
  <2>2. hook.key # NoMint => genericCache'[hook.key] = genericCache[hook.key]
    BY <1>3 DEF Updated, Typed, Accounts
  <2> QED
    BY <2>1, <2>2 DEF HookInv, HookOfFirstKey, HookShowsCache
<1> QED
  BY <1>2, <1>3

LEMMA StepHook ==
    ASSUME CacheAssumption, Typed, FetchInv, HookInv, [CacheNext]_cacheVars
    PROVE  HookInv'
<1> USE CacheAssumption, Typed, HookInv
<1>1. ASSUME \/ StartSubscription
             \/ \E r \in reads : Read(r)
             \/ \E a \in Accounts, open \in BOOLEAN : AccountChange(a, open)
             \/ \E m \in Mints : LoadMint(m)
             \/ \E w \in Wallets \cup {NoWallet} : SwitchWallet(w)
             \/ UNCHANGED cacheVars
      PROVE  HookInv'
  <2>1. hook' = hook /\ genericCache' = genericCache
    BY <1>1 DEF StartSubscription, Read, AccountChange, LoadMint, SwitchWallet, cacheVars, browserVars
  <2> QED
    BY <2>1 DEF HookInv, HookOfFirstKey, HookShowsCache
<1>2. ASSUME NEW r \in reads, QueryAnswered(r) PROVE HookInv'
  <2> DEFINE m == r.about
  <2>1. {m} \in SUBSET Accounts /\ r.seen \in [Accounts -> Content \cup {NotRead, NotCached}]
    BY DEF Typed, Requests
  <2>2. m \in Mints /\ m # NoMint /\ m \in Parsed(r.seen, {m})
    BY <1>2 DEF FetchInv, FetchPending, QueryAnswered, CacheAssumption, Parsed, Accounts
  <2>3. hook' = [HookHears(r.seen, {m}) EXCEPT !.shows = IF m \in hook.awaits THEN r.seen[m] ELSE @,
                                               !.awaits = @ \ {m}]
    BY <1>2 DEF QueryAnswered
  <2>4. genericCache' = Updated(r.seen, {m})
    BY <1>2 DEF QueryAnswered, AddToCache
  <2> HIDE DEF m
  <2>5. /\ HookHears(r.seen, {m}) \in [key : Mints \cup {NoMint}, first : BOOLEAN,
                                       shows : Content \cup {NotCached}, awaits : SUBSET Mints]
        /\ HookHears(r.seen, {m}).key = hook.key /\ HookHears(r.seen, {m}).first = hook.first
        /\ HookHears(r.seen, {m}).awaits = hook.awaits
    BY <2>1, HookHearsType DEF Typed
  <2>6. hook'.key = hook.key /\ hook'.first = hook.first /\ hook'.awaits = hook.awaits \ {m}
    BY <2>3, <2>5
  <2>7. CASE hook.key = m
    <3>1. hook'.shows = r.seen[m]
      BY <2>2, <2>3, <2>5, <2>7 DEF HookHears, Typed
    <3>2. genericCache'[m] = r.seen[m]
      BY <2>1, <2>2, <2>4 DEF Updated
    <3> QED
      BY <2>2, <2>6, <2>7, <3>1, <3>2 DEF HookInv, HookOfFirstKey, HookShowsCache
  <2>8. CASE hook.key # m
    <3>1. HookHears(r.seen, {m}) = hook
      BY <2>8 DEF HookHears, Parsed
    <3>2. hook.first => m \notin hook.awaits
      BY <2>8 DEF HookInv, HookOfFirstKey
    <3>3. hook.first => hook'.shows = hook.shows
      BY <2>3, <3>1, <3>2 DEF Typed
    <3>4. hook.key # NoMint => genericCache'[hook.key] = genericCache[hook.key]
      BY <2>4, <2>8 DEF Updated, Parsed, Typed, Accounts
    <3>5. CASE hook.key # NoMint
      BY <2>6, <3>3, <3>4, <3>5 DEF HookInv, HookOfFirstKey, HookShowsCache
    <3>6. CASE hook.key = NoMint
      <4>1. hook.shows = NotCached /\ hook.awaits = {}
        BY <3>6 DEF HookInv, HookOfFirstKey
      <4>2. hook'.shows = NotCached
        BY <2>3, <3>1, <4>1 DEF Typed
      <4> QED
        BY <2>6, <4>1, <4>2, <3>6 DEF HookInv, HookOfFirstKey, HookShowsCache
    <3> QED
      BY <3>5, <3>6
  <2> QED
    BY <2>7, <2>8
<1>3. ASSUME NEW r \in reads, QueryRejected(r) PROVE HookInv'
  <2>1. genericCache' = genericCache /\ hook' = [hook EXCEPT !.awaits = @ \ {r.about}]
    BY <1>3 DEF QueryRejected
  <2>2. /\ hook'.key = hook.key /\ hook'.first = hook.first /\ hook'.shows = hook.shows
        /\ hook'.awaits \subseteq hook.awaits
    BY <2>1 DEF Typed
  <2> QED
    BY <2>1, <2>2 DEF HookInv, HookOfFirstKey, HookShowsCache
<1>4. ASSUME NEW r \in reads, MintLoaded(r) PROVE HookInv'
  <2> DEFINE as == Parsed(r.seen, {r.about})
  <2>1. as \in SUBSET Accounts /\ r.seen \in [Accounts -> Content \cup {NotRead, NotCached}]
    BY DEF Typed, Requests, Parsed
  <2>2. genericCache' = Updated(r.seen, as) /\ hook' = HookHears(r.seen, as)
    BY <1>4 DEF MintLoaded, AddToCache
  <2> HIDE DEF as
  <2> QED
    BY <2>1, <2>2, AddKeepsHook
<1>5. ASSUME NEW r \in reads, PrecacheAnswered(r) \/ NativeAnswered(r) PROVE HookInv'
  <2>1. PICK as \in SUBSET Accounts : as \cap Mints = {} /\ genericCache' = Updated(r.seen, as)
    <3>1. CASE PrecacheAnswered(r)
      <4>1. Parsed(r.seen, Wanted(r)) \in SUBSET Accounts /\ Parsed(r.seen, Wanted(r)) \cap Mints = {}
        BY <3>1 DEF PrecacheAnswered, Parsed, Wanted, CacheAssumption, Accounts
      <4> QED
        BY <3>1, <4>1 DEF PrecacheAnswered, AddToCache
    <3>2. CASE NativeAnswered(r)
      <4>1. Parsed(r.seen, {r.about}) \in SUBSET Accounts /\ Parsed(r.seen, {r.about}) \cap Mints = {}
        BY <3>2 DEF NativeAnswered, Parsed, CacheAssumption, Accounts, Typed, Requests
      <4> QED
        BY <3>2, <4>1 DEF NativeAnswered
    <3> QED
      BY <1>5, <3>1, <3>2
  <2>2. hook' = hook
    BY <1>5 DEF PrecacheAnswered, NativeAnswered
  <2>3. hook.key # NoMint => genericCache'[hook.key] = genericCache[hook.key]
    BY <2>1 DEF Updated, Parsed, Typed, Accounts
  <2> QED
    BY <2>2, <2>3 DEF HookInv, HookOfFirstKey, HookShowsCache
<1>6. ASSUME NEW m \in Mints, SetKey(m) PROVE HookInv'
  <2>1. m # NoMint /\ genericCache' = genericCache
    BY <1>6 DEF SetKey, CacheAssumption, Accounts
  <2>2. /\ hook'.key = m /\ hook'.first = (hook.key = NoMint)
        /\ hook'.shows = IF genericCache[m] # NotCached THEN genericCache[m] ELSE hook.shows
        /\ hook'.awaits = hook.awaits \cup Awaits(m)
    BY <1>6 DEF SetKey
  <2>3. hook.key = NoMint => hook.shows = NotCached /\ hook.awaits = {}
    BY DEF HookInv, HookOfFirstKey
  <2>4. Awaits(m) \subseteq {m}
    BY DEF Awaits
  <2> QED
    BY <2>1, <2>2, <2>3, <2>4 DEF HookInv, HookOfFirstKey, HookShowsCache
<1>7. ASSUME Unmount PROVE HookInv'
  BY <1>7 DEF Unmount, HookInv, HookOfFirstKey, HookShowsCache, NoHook
<1>8. ASSUME NEW s \in DOMAIN feeds, Deliver(s) PROVE HookInv'
  <2> DEFINE note == Head(feeds[s])
             as == {a \in {note.of} : Takes(s, a)}
             answer == [a \in Accounts |-> note.is]
  <2>1. note \in Notes
    BY <1>8 DEF Typed, Deliver
  <2>2. as \in SUBSET Accounts /\ answer \in [Accounts -> Content \cup {NotRead, NotCached}]
    BY <2>1 DEF Notes
  <2>3. genericCache' = Updated(answer, as) /\ hook' = HookHears(answer, as)
    BY <1>8 DEF Deliver
  <2> HIDE DEF as, answer
  <2> QED
    BY <2>2, <2>3, AddKeepsHook
<1> QED
  BY <1>1, <1>2, <1>3, <1>4, <1>5, <1>6, <1>7, <1>8 DEF CacheNext

(***************************************************************************)
(* The last change reaches the cache.                                      *)
(***************************************************************************)

DeliveryInv == ReadsFollowChain /\ FeedsTell /\ FeedsReachChain /\ OnItsWay

\* What a dropped subscription did not tell counts as missed, what others have to
\* tell is not touched.
LEMMA DroppingKeeps ==
    ASSUME Typed, NEW gone, NEW before \in [Accounts -> Nat],
           NEW a \in Accounts, chain[a].n > Dropping(gone, before)[a]
    PROVE  /\ chain[a].n > before[a]
           /\ \A s \in DOMAIN feeds : (\E i \in DOMAIN feeds[s] : feeds[s][i].of = a) => s \notin gone
<1>1. chain[a].n \in Int
  BY DEF Typed, Content
<1> QED
  BY <1>1 DEF Dropping

\* What the cache lacks of an account is told by a subscription that is kept.
LEMMA StillTold ==
    ASSUME DeliveryInv, NEW gone, NEW a \in Accounts, chain[a].open, chain[a].n > lapse[a],
           genericCache[a] # chain[a],
           \A s \in DOMAIN feeds : (\E i \in DOMAIN feeds[s] : feeds[s][i].of = a) => s \notin gone
    PROVE  \E s \in DOMAIN feeds \ gone :
                /\ Takes(s, a)
                /\ \E i \in DOMAIN feeds[s] : feeds[s][i] = [of |-> a, is |-> chain[a]]
<1>1. PICK s \in DOMAIN feeds :
            /\ Takes(s, a)
            /\ \E i \in DOMAIN feeds[s] : feeds[s][i] = [of |-> a, is |-> chain[a]]
  BY DEF DeliveryInv, OnItsWay
<1>2. \E i \in DOMAIN feeds[s] : feeds[s][i].of = a
  BY <1>1
<1> QED
  BY <1>1, <1>2

\* An answer added to the cache either leaves the last change there or is recorded as
\* having overtaken it.
LEMMA AddKeepsDelivery ==
    ASSUME CacheAssumption, Typed, DeliveryInv,
           NEW r \in reads, NEW as \in SUBSET Accounts, NEW gone,
           genericCache' = Updated(r.seen, as),
           lapse' = Dropping(gone, Overtaken(r.seen, as)),
           \A q \in reads' : q \in reads \/ \A a \in Accounts : q.seen[a] = NotRead,
           feeds' = [s \in DOMAIN feeds \ gone |-> feeds[s]],
           UNCHANGED <<chain, precached>>
    PROVE  DeliveryInv'
<1>1. FeedsTell' /\ FeedsReachChain' /\ ReadsFollowChain'
  BY DEF DeliveryInv, FeedsTell, FeedsReachChain, ReadsFollowChain, Hears
<1>0. Overtaken(r.seen, as) \in [Accounts -> Nat]
  BY OvertakenType DEF Typed
<1>2. ASSUME NEW a \in Accounts, chain[a].open, chain[a].n > lapse'[a]
      PROVE  \/ genericCache'[a] = chain[a]
             \/ \E s \in DOMAIN feeds \ gone :
                    /\ Takes(s, a)
                    /\ \E i \in DOMAIN feeds[s] : feeds[s][i] = [of |-> a, is |-> chain[a]]
  <2> DEFINE over == Overtaken(r.seen, as)
  <2>0. /\ chain[a].n > over[a]
        /\ \A s \in DOMAIN feeds : (\E i \in DOMAIN feeds[s] : feeds[s][i].of = a) => s \notin gone
    BY <1>0, <1>2, DroppingKeeps
  <2>1. r.seen \in [Accounts -> Content \cup {NotRead, NotCached}]
    BY DEF Typed, Requests
  <2>2. CASE a \in Parsed(r.seen, as)
    <3>1. r.seen[a] \in Content /\ r.seen[a] # NotRead /\ r.seen[a].n \in Int
      <4>1. r.seen[a] \in Content
        BY <2>1, <2>2, ParsedIsContent
      <4> QED
        BY <4>1, Markers DEF Content
    <3>2. chain[a].n \in Int /\ genericCache[a].n \in Int
      <4>1. chain[a] \in Content /\ genericCache[a] \in Content \cup {NotCached}
        BY DEF Typed
      <4> QED
        BY <4>1, Markers DEF Content
    <3>3. ~(r.seen[a].n < genericCache[a].n) /\ over[a] = lapse[a]
      BY <2>0, <2>2, <3>1, <3>2 DEF Overtaken
    <3>4. genericCache'[a] = r.seen[a]
      BY <2>2 DEF Updated
    <3>5. CASE genericCache[a] = chain[a]
      <4>1. ~(r.seen[a].n < chain[a].n)
        BY <3>3, <3>5
      <4> QED
        BY <3>1, <3>4, <4>1 DEF DeliveryInv, ReadsFollowChain
    <3>6. CASE genericCache[a] # chain[a]
      <4>1. chain[a].n > lapse[a]
        BY <2>0, <3>3
      <4> QED
        BY <1>2, <2>0, <3>6, <4>1, StillTold
    <3> QED
      BY <3>5, <3>6
  <2>3. CASE a \notin Parsed(r.seen, as)
    <3>1. genericCache'[a] = genericCache[a] /\ over[a] = lapse[a]
      BY <2>3 DEF Updated, Overtaken
    <3> QED
      BY <1>2, <2>0, <3>1, StillTold
  <2> QED
    BY <2>2, <2>3
<1>3. ASSUME NEW a \in Accounts, chain'[a].open, chain'[a].n > lapse'[a]
      PROVE  \/ genericCache'[a] = chain'[a]
             \/ \E s \in DOMAIN feeds' :
                    /\ Takes(s, a)'
                    /\ \E i \in DOMAIN feeds'[s] : feeds'[s][i] = [of |-> a, is |-> chain'[a]]
  <2>1. CASE genericCache'[a] = chain[a]
    BY <2>1
  <2>2. CASE genericCache'[a] # chain[a]
    <3>1. PICK s \in DOMAIN feeds \ gone :
            /\ Takes(s, a)
            /\ \E i \in DOMAIN feeds[s] : feeds[s][i] = [of |-> a, is |-> chain[a]]
      BY <1>2, <1>3, <2>2
    <3>2. s \in DOMAIN feeds' /\ feeds'[s] = feeds[s]
      BY <3>1
    <3>3. Takes(s, a)'
      BY <3>1 DEF Takes
    <3> QED
      BY <3>1, <3>2, <3>3
  <2> QED
    BY <2>1, <2>2
<1>4. OnItsWay'
  BY <1>3 DEF OnItsWay
<1> QED
  BY <1>1, <1>4 DEF DeliveryInv

\* What is left of a feed when its first note is taken.
LEMMA TailOfFeed ==
    ASSUME NEW S, NEW q \in Seq(S), q # <<>>
    PROVE  /\ 1 \in DOMAIN q /\ Head(q) = q[1]
           /\ \A i \in DOMAIN Tail(q) : i + 1 \in DOMAIN q /\ Tail(q)[i] = q[i + 1] /\ i \in Nat \ {0}
           /\ \A i \in DOMAIN q : i # 1 => i - 1 \in DOMAIN Tail(q) /\ Tail(q)[i - 1] = q[i]
           /\ \A i \in DOMAIN q : i \in Nat /\ i >= 1
<1>1. Len(q) \in Nat \ {0} /\ DOMAIN q = 1..Len(q) /\ Head(q) = q[1]
  OBVIOUS
<1>2. DOMAIN Tail(q) = 1..(Len(q) - 1)
  OBVIOUS
<1>3. \A i \in DOMAIN Tail(q) : Tail(q)[i] = q[i + 1]
  OBVIOUS
<1> QED
  BY <1>1, <1>2, <1>3

\* A change is told to whoever hears of the account, behind what they were told before.
LEMMA ChangeKeepsDelivery ==
    ASSUME CacheAssumption, Typed, DeliveryInv,
           NEW b \in Accounts, NEW open \in BOOLEAN, AccountChange(b, open)
    PROVE  DeliveryInv'
<1> DEFINE c == [n |-> chain[b].n + 1, open |-> open]
           note == [of |-> b, is |-> c]
<1>1. c \in Content /\ c.n > chain[b].n /\ c.n \in Int /\ chain[b].n \in Int
  <2>1. chain[b] \in Content
    BY DEF Typed
  <2> QED
    BY <2>1 DEF Content
<1>2. /\ chain' = [chain EXCEPT ![b] = c]
      /\ DOMAIN feeds' = DOMAIN feeds
      /\ \A s \in DOMAIN feeds : feeds'[s] = IF Hears(s, b, c) THEN Append(feeds[s], note) ELSE feeds[s]
      /\ \/ \E s \in DOMAIN feeds : Hears(s, b, c) /\ Takes(s, b)
         \/ lapse' = [lapse EXCEPT ![b] = c.n]
      /\ lapse' \in {lapse, [lapse EXCEPT ![b] = c.n]}
      /\ UNCHANGED <<reads, genericCache, precached>>
  BY DEF AccountChange, browserVars
<1>3. note.of = b /\ note.is = c
  OBVIOUS
<1> HIDE DEF c, note
<1>4. chain'[b] = c /\ \A a \in Accounts \ {b} : chain'[a] = chain[a]
  BY <1>2 DEF Typed
<1>5. \A s \in DOMAIN feeds :
        /\ feeds[s] \in Seq(Notes)
        /\ \A i \in DOMAIN feeds[s] : i \in DOMAIN feeds'[s] /\ feeds'[s][i] = feeds[s][i]
        /\ \A i \in DOMAIN feeds'[s] :
                \/ i \in DOMAIN feeds[s]
                \/ i = Len(feeds[s]) + 1 /\ Hears(s, b, c) /\ feeds'[s][i] = note
        /\ Hears(s, b, c) => /\ Len(feeds[s]) + 1 \in DOMAIN feeds'[s]
                             /\ feeds'[s][Len(feeds[s]) + 1] = note
                             /\ \A i \in DOMAIN feeds'[s] : Len(feeds[s]) + 1 >= i
  <2>1. note \in Notes
    BY <1>1 DEF note, Notes
  <2> SUFFICES ASSUME NEW s \in DOMAIN feeds
               PROVE  /\ feeds[s] \in Seq(Notes)
                      /\ \A i \in DOMAIN feeds[s] : i \in DOMAIN feeds'[s] /\ feeds'[s][i] = feeds[s][i]
                      /\ \A i \in DOMAIN feeds'[s] :
                            \/ i \in DOMAIN feeds[s]
                            \/ i = Len(feeds[s]) + 1 /\ Hears(s, b, c) /\ feeds'[s][i] = note
                      /\ Hears(s, b, c) => /\ Len(feeds[s]) + 1 \in DOMAIN feeds'[s]
                                           /\ feeds'[s][Len(feeds[s]) + 1] = note
                                           /\ \A i \in DOMAIN feeds'[s] : Len(feeds[s]) + 1 >= i
    OBVIOUS
  <2>2. feeds[s] \in Seq(Notes)
    BY DEF Typed
  <2>3. CASE Hears(s, b, c)
    <3>1. feeds'[s] = Append(feeds[s], note)
      BY <1>2, <2>3
    <3> QED
      BY <2>1, <2>2, <2>3, <3>1
  <2>4. CASE ~Hears(s, b, c)
    <3>1. feeds'[s] = feeds[s]
      BY <1>2, <2>4
    <3> QED
      BY <2>2, <2>4, <3>1
  <2> QED
    BY <2>3, <2>4
<1>6. ReadsFollowChain'
  <2> SUFFICES ASSUME NEW r \in reads, NEW a \in Accounts, r.seen[a] # NotRead
               PROVE  r.seen[a].n < chain'[a].n \/ r.seen[a] = chain'[a]
    BY <1>2 DEF ReadsFollowChain
  <2>1. r.seen[a].n < chain[a].n \/ r.seen[a] = chain[a]
    BY DEF DeliveryInv, ReadsFollowChain
  <2>2. r.seen[a].n \in Int
    <3>1. r.seen[a] \in Content \cup {NotRead}
      BY DEF Typed, Requests
    <3> QED
      BY <3>1, Markers DEF Content
  <2>3. CASE a = b
    BY <1>1, <1>4, <2>1, <2>2, <2>3
  <2>4. CASE a # b
    BY <1>4, <2>1, <2>4
  <2> QED
    BY <2>3, <2>4
<1>7. FeedsTell'
  <2> SUFFICES ASSUME NEW s \in DOMAIN feeds, NEW i \in DOMAIN feeds'[s]
               PROVE  Hears(s, feeds'[s][i].of, feeds'[s][i].is)
    BY <1>2 DEF FeedsTell, Hears
  <2>1. CASE i \in DOMAIN feeds[s]
    BY <1>5, <2>1 DEF DeliveryInv, FeedsTell
  <2>2. CASE i \notin DOMAIN feeds[s]
    BY <1>3, <1>5, <2>2
  <2> QED
    BY <2>1, <2>2
<1>8. FeedsReachChain'
  <2> SUFFICES ASSUME NEW s \in DOMAIN feeds, NEW i \in DOMAIN feeds'[s],
                      chain'[feeds'[s][i].of].open
               PROVE  \E j \in DOMAIN feeds'[s] :
                        j >= i /\ feeds'[s][j] = [of |-> feeds'[s][i].of, is |-> chain'[feeds'[s][i].of]]
    BY <1>2 DEF FeedsReachChain
  <2>1. CASE feeds'[s][i].of = b
    <3>1. Hears(s, b, c)
      <4>1. CASE i \in DOMAIN feeds[s]
        <5>1. Hears(s, feeds[s][i].of, feeds[s][i].is) /\ feeds[s][i].of = b
          BY <1>5, <2>1, <4>1 DEF DeliveryInv, FeedsTell
        <5>2. c.open
          BY <1>4, <2>1
        <5> QED
          BY <5>1, <5>2 DEF Hears
      <4>2. CASE i \notin DOMAIN feeds[s]
        BY <1>5, <4>2
      <4> QED
        BY <4>1, <4>2
    <3>2. note = [of |-> feeds'[s][i].of, is |-> chain'[feeds'[s][i].of]]
      BY <1>4, <2>1 DEF note
    <3> DEFINE j == Len(feeds[s]) + 1
    <3>3. j \in DOMAIN feeds'[s] /\ feeds'[s][j] = note /\ j >= i
      BY <1>5, <3>1
    <3> HIDE DEF j
    <3> QED
      BY <3>2, <3>3
  <2>2. CASE feeds'[s][i].of # b
    <3>1. i \in DOMAIN feeds[s] /\ feeds'[s][i] = feeds[s][i]
      BY <1>3, <1>5, <2>2
    <3>2. feeds[s][i].of \in Accounts
      <4>1. feeds[s][i] \in Notes
        BY <1>5, <3>1
      <4> QED
        BY <4>1 DEF Notes
    <3>3. chain'[feeds[s][i].of] = chain[feeds[s][i].of]
      BY <1>4, <2>2, <3>1, <3>2
    <3>4. PICK j \in DOMAIN feeds[s] :
            j >= i /\ feeds[s][j] = [of |-> feeds[s][i].of, is |-> chain[feeds[s][i].of]]
      BY <3>1, <3>3 DEF DeliveryInv, FeedsReachChain
    <3> QED
      BY <1>5, <3>1, <3>3, <3>4
  <2> QED
    BY <2>1, <2>2
<1>9. OnItsWay'
  <2> SUFFICES ASSUME NEW a \in Accounts, chain'[a].open, chain'[a].n > lapse'[a]
               PROVE  \/ genericCache[a] = chain'[a]
                      \/ \E s \in DOMAIN feeds :
                            /\ Takes(s, a)
                            /\ \E i \in DOMAIN feeds'[s] : feeds'[s][i] = [of |-> a, is |-> chain'[a]]
    BY <1>2 DEF OnItsWay, Takes
  <2>1. CASE a = b
    <3>1. ASSUME lapse' = [lapse EXCEPT ![b] = c.n] PROVE FALSE
      <4>1. lapse'[b] = c.n
        BY <3>1 DEF Typed
      <4>2. chain'[a].n = c.n /\ lapse'[a] = c.n
        BY <1>4, <2>1, <4>1
      <4>3. c.n > c.n
        BY <4>2
      <4> QED
        BY <1>1, <4>3
    <3>2. PICK s \in DOMAIN feeds : Hears(s, b, c) /\ Takes(s, b)
      BY <1>2, <3>1
    <3>3. note = [of |-> a, is |-> chain'[a]]
      BY <1>4, <2>1 DEF note
    <3> QED
      BY <1>5, <2>1, <3>2, <3>3
  <2>2. CASE a # b
    <3>1. chain'[a] = chain[a] /\ lapse'[a] = lapse[a]
      BY <1>2, <1>4, <2>2 DEF Typed
    <3>2. \/ genericCache[a] = chain[a]
          \/ \E s \in DOMAIN feeds :
                /\ Takes(s, a)
                /\ \E i \in DOMAIN feeds[s] : feeds[s][i] = [of |-> a, is |-> chain[a]]
      BY <3>1 DEF DeliveryInv, OnItsWay
    <3> QED
      BY <1>5, <3>1, <3>2
  <2> QED
    BY <2>1, <2>2
<1> QED
  BY <1>6, <1>7, <1>8, <1>9 DEF DeliveryInv

LEMMA StepDelivery ==
    ASSUME CacheAssumption, Typed, DeliveryInv, [CacheNext]_cacheVars
    PROVE  DeliveryInv'
<1> USE CacheAssumption, Typed, DeliveryInv
<1>1. ASSUME NEW r \in reads, Read(r) PROVE DeliveryInv'
  <2> DEFINE q == [r EXCEPT !.done = TRUE,
                            !.seen = [a \in Accounts |-> IF a \in Wanted(r) THEN chain[a] ELSE @[a]]]
  <2>1. q.seen = [a \in Accounts |-> IF a \in Wanted(r) THEN chain[a] ELSE r.seen[a]]
    BY DEF Typed, Requests
  <2> HIDE DEF q
  <2>2. reads' = (reads \ {r}) \cup {q} /\ UNCHANGED <<chain, feeds, genericCache, precached, lapse>>
    BY <1>1 DEF Read, q, browserVars
  <2>3. ReadsFollowChain'
    BY <2>1, <2>2 DEF DeliveryInv, ReadsFollowChain
  <2> QED
    BY <2>2, <2>3 DEF DeliveryInv, FeedsTell, FeedsReachChain, OnItsWay, Takes, Hears
<1>2. ASSUME NEW r \in reads,
             QueryAnswered(r) \/ MintLoaded(r) \/ PrecacheAnswered(r)
      PROVE  DeliveryInv'
  <2>1. PICK as \in SUBSET Accounts : genericCache' = Updated(r.seen, as) /\ lapse' = Overtaken(r.seen, as)
    <3>1. r.about \in Accounts
      BY DEF Typed, Requests
    <3>2. Parsed(r.seen, {r.about}) \in SUBSET Accounts /\ Parsed(r.seen, Wanted(r)) \in SUBSET Accounts
      BY <3>1 DEF Parsed, Wanted, Accounts
    <3>3. CASE QueryAnswered(r)
      BY <3>1, <3>3 DEF QueryAnswered, AddToCache
    <3>4. CASE MintLoaded(r)
      BY <3>2, <3>4 DEF MintLoaded, AddToCache
    <3>5. CASE PrecacheAnswered(r)
      BY <3>2, <3>5 DEF PrecacheAnswered, AddToCache
    <3> QED
      BY <1>2, <3>3, <3>4, <3>5
  <2>2. reads' \subseteq reads /\ UNCHANGED <<chain, feeds, precached>>
    BY <1>2 DEF QueryAnswered, MintLoaded, PrecacheAnswered
  <2>3. lapse' = Dropping({}, Overtaken(r.seen, as))
    BY <2>1, OvertakenType DEF Dropping, Typed
  <2>4. feeds' = [s \in DOMAIN feeds \ {} |-> feeds[s]]
    BY <2>2 DEF Typed
  <2> QED
    BY <2>1, <2>2, <2>3, <2>4, AddKeepsDelivery
<1>8. ASSUME NEW r \in reads, NativeAnswered(r) PROVE DeliveryInv'
  <2> DEFINE as == Parsed(r.seen, {r.about})
             gone == IF as # {} THEN Programs ELSE {}
  <2>1. as \in SUBSET Accounts
    BY DEF Parsed, Typed, Requests
  <2>2. /\ UNCHANGED <<chain, precached>>
        /\ genericCache' = Updated(r.seen, as)
        /\ lapse' = Dropping(gone, Overtaken(r.seen, as))
        /\ feeds' = [s \in DOMAIN feeds \ gone |-> feeds[s]]
    BY <1>8 DEF NativeAnswered
  <2>3. \A q \in reads' : q \in reads \/ \A a \in Accounts : q.seen[a] = NotRead
    BY <1>8, PrecacheType DEF NativeAnswered, Typed
  <2> HIDE DEF as, gone
  <2> QED
    BY <2>1, <2>2, <2>3, AddKeepsDelivery
<1>3. ASSUME \/ \E r \in reads : QueryRejected(r)
             \/ \E m \in Mints : SetKey(m) \/ LoadMint(m)
             \/ Unmount
             \/ UNCHANGED cacheVars
      PROVE  DeliveryInv'
  <2>1. UNCHANGED <<chain, feeds, genericCache, precached, lapse>>
    BY <1>3 DEF QueryRejected, SetKey, LoadMint, Unmount, cacheVars, browserVars
  <2>2. \A q \in reads' \ reads : \A a \in Accounts : q.seen[a] = NotRead
    BY <1>3 DEF QueryRejected, SetKey, LoadMint, Unmount, cacheVars, Ask
  <2>3. ReadsFollowChain'
    BY <2>1, <2>2 DEF DeliveryInv, ReadsFollowChain
  <2> QED
    BY <2>1, <2>3 DEF DeliveryInv, FeedsTell, FeedsReachChain, OnItsWay, Takes, Hears
<1>4. ASSUME StartSubscription PROVE DeliveryInv'
  <2>1. /\ UNCHANGED <<chain, reads, genericCache, precached, lapse>>
        /\ DOMAIN feeds \subseteq DOMAIN feeds'
        /\ \A s \in DOMAIN feeds : feeds'[s] = feeds[s]
        /\ \A s \in DOMAIN feeds' \ DOMAIN feeds : feeds'[s] = <<>>
    BY <1>4 DEF StartSubscription, browserVars
  <2> QED
    BY <2>1 DEF DeliveryInv, ReadsFollowChain, FeedsTell, FeedsReachChain, OnItsWay, Takes, Hears
<1>5. ASSUME NEW a \in Accounts, NEW open \in BOOLEAN, AccountChange(a, open) PROVE DeliveryInv'
  BY <1>5, ChangeKeepsDelivery
<1>6. ASSUME NEW w \in Wallets \cup {NoWallet}, SwitchWallet(w) PROVE DeliveryInv'
  <2>1. /\ UNCHANGED <<chain, genericCache>>
        /\ precached \subseteq precached'
        /\ feeds' = [s \in DOMAIN feeds \ RemovedListeners |-> feeds[s]]
        /\ lapse' = Dropping(RemovedListeners, lapse)
    BY <1>6 DEF SwitchWallet
  <2>2. \A q \in reads' \ reads : \A a \in Accounts : q.seen[a] = NotRead
    BY <1>6, PrecacheType DEF SwitchWallet, Ask, Typed
  <2>3. ReadsFollowChain'
    BY <2>1, <2>2 DEF DeliveryInv, ReadsFollowChain
  <2>4. FeedsTell' /\ FeedsReachChain'
    BY <2>1 DEF DeliveryInv, FeedsTell, FeedsReachChain, Hears
  <2>5. OnItsWay'
    <3> SUFFICES ASSUME NEW a \in Accounts, chain[a].open, chain[a].n > lapse'[a],
                        genericCache[a] # chain[a]
                 PROVE  \E s \in DOMAIN feeds' :
                            /\ Takes(s, a)'
                            /\ \E i \in DOMAIN feeds'[s] : feeds'[s][i] = [of |-> a, is |-> chain[a]]
      BY <2>1 DEF OnItsWay
    <3>1. /\ chain[a].n > lapse[a]
          /\ \A s \in DOMAIN feeds : (\E i \in DOMAIN feeds[s] : feeds[s][i].of = a) => s \notin RemovedListeners
      BY <2>1, DroppingKeeps DEF Typed
    <3>2. PICK s \in DOMAIN feeds :
            /\ Takes(s, a)
            /\ \E i \in DOMAIN feeds[s] : feeds[s][i] = [of |-> a, is |-> chain[a]]
      BY <3>1 DEF DeliveryInv, OnItsWay
    <3>3. s \in DOMAIN feeds' /\ feeds'[s] = feeds[s]
      BY <2>1, <3>1, <3>2
    <3>4. Takes(s, a)'
      BY <2>1, <3>2 DEF Takes
    <3> QED
      BY <3>2, <3>3, <3>4
  <2> QED
    BY <2>3, <2>4, <2>5 DEF DeliveryInv
<1>7. ASSUME NEW s \in DOMAIN feeds, Deliver(s) PROVE DeliveryInv'
  <2> DEFINE note == Head(feeds[s])
             as == {a \in {note.of} : Takes(s, a)}
             answer == [a \in Accounts |-> note.is]
             gone == IF s.kind = "native" THEN Programs ELSE {}
  <2>1. /\ UNCHANGED <<chain, precached>>
        /\ DOMAIN feeds' = DOMAIN feeds \ gone /\ s \notin gone
        /\ \A t \in DOMAIN feeds' \ {s} : feeds'[t] = feeds[t]
        /\ genericCache' = Updated(answer, as)
        /\ lapse' = Dropping(gone, lapse)
        /\ \A q \in reads' : q \in reads \/ \A a \in Accounts : q.seen[a] = NotRead
    <3>1. s \notin gone
      BY DEF Programs
    <3>2. \A q \in reads' : q \in reads \/ \A a \in Accounts : q.seen[a] = NotRead
      BY <1>7, PrecacheType DEF Deliver, Typed
    <3>3. /\ UNCHANGED <<chain, precached>>
          /\ genericCache' = Updated(answer, as)
          /\ lapse' = Dropping(gone, lapse)
      BY <1>7 DEF Deliver
    <3>4. feeds' = [t \in DOMAIN feeds \ gone |-> IF t = s THEN Tail(feeds[t]) ELSE feeds[t]]
      BY <1>7 DEF Deliver
    <3> HIDE DEF gone, as, answer
    <3>5. DOMAIN feeds' = DOMAIN feeds \ gone /\ \A t \in DOMAIN feeds' \ {s} : feeds'[t] = feeds[t]
      BY <3>4
    <3> QED
      BY <3>1, <3>2, <3>3, <3>5
  <2>2. /\ feeds[s] \in Seq(Notes) /\ 1 \in DOMAIN feeds[s] /\ note = feeds[s][1]
        /\ \A i \in DOMAIN feeds'[s] : i + 1 \in DOMAIN feeds[s] /\ feeds'[s][i] = feeds[s][i + 1]
        /\ \A i \in DOMAIN feeds[s] : i # 1 => i - 1 \in DOMAIN feeds'[s] /\ feeds'[s][i - 1] = feeds[s][i]
        /\ \A i \in DOMAIN feeds[s] : i \in Nat /\ i >= 1
        /\ \A i \in DOMAIN feeds'[s] : i \in Nat \ {0}
    <3>0. feeds' = [t \in DOMAIN feeds \ gone |-> IF t = s THEN Tail(feeds[t]) ELSE feeds[t]]
      BY <1>7 DEF Deliver
    <3>1. feeds[s] \in Seq(Notes) /\ feeds[s] # <<>> /\ feeds'[s] = Tail(feeds[s])
      <4> HIDE DEF gone
      <4>1. feeds[s] \in Seq(Notes) /\ feeds[s] # <<>>
        BY <1>7 DEF Deliver, Typed
      <4> QED
        BY <2>1, <3>0, <4>1
    <3> QED
      BY <3>1, TailOfFeed
  <2>3. note.is \in Content /\ note.of \in Accounts
    <3>1. note \in Notes
      BY <2>2
    <3> QED
      BY <3>1 DEF Notes
  <2>4. ReadsFollowChain'
    BY <2>1 DEF DeliveryInv, ReadsFollowChain
  <2>5. FeedsTell'
    <3> SUFFICES ASSUME NEW t \in DOMAIN feeds', NEW i \in DOMAIN feeds'[t]
                 PROVE  Hears(t, feeds'[t][i].of, feeds'[t][i].is)
      BY <2>1 DEF FeedsTell, Hears
    <3>1. CASE t # s
      BY <2>1, <3>1 DEF DeliveryInv, FeedsTell
    <3>2. CASE t = s
      BY <2>2, <3>2 DEF DeliveryInv, FeedsTell
    <3> QED
      BY <3>1, <3>2
  <2>6. FeedsReachChain'
    <3> SUFFICES ASSUME NEW t \in DOMAIN feeds', NEW i \in DOMAIN feeds'[t], chain[feeds'[t][i].of].open
                 PROVE  \E j \in DOMAIN feeds'[t] :
                            j >= i /\ feeds'[t][j] = [of |-> feeds'[t][i].of, is |-> chain[feeds'[t][i].of]]
      BY <2>1 DEF FeedsReachChain
    <3>1. CASE t # s
      BY <2>1, <3>1 DEF DeliveryInv, FeedsReachChain
    <3>2. CASE t = s
      <4>1. i + 1 \in DOMAIN feeds[s] /\ feeds'[s][i] = feeds[s][i + 1] /\ i \in Nat
        BY <2>2, <3>2
      <4>2. PICK j \in DOMAIN feeds[s] :
                j >= i + 1 /\ feeds[s][j] = [of |-> feeds'[s][i].of, is |-> chain[feeds'[s][i].of]]
        BY <3>2, <4>1 DEF DeliveryInv, FeedsReachChain
      <4>3. j # 1 /\ j - 1 >= i /\ j \in Nat
        <5>1. j \in Nat /\ i \in Nat \ {0}
          BY <2>2, <3>2
        <5> QED
          BY <4>2, <5>1
      <4>4. j - 1 \in DOMAIN feeds'[s] /\ feeds'[s][j - 1] = feeds[s][j]
        BY <2>2, <4>3
      <4> QED
        BY <3>2, <4>2, <4>3, <4>4
    <3> QED
      BY <3>1, <3>2
  <2>7. OnItsWay'
    <3> SUFFICES ASSUME NEW a \in Accounts, chain[a].open, chain[a].n > lapse'[a],
                        genericCache'[a] # chain[a]
                 PROVE  \E t \in DOMAIN feeds' :
                            /\ Takes(t, a)
                            /\ \E i \in DOMAIN feeds'[t] : feeds'[t][i] = [of |-> a, is |-> chain[a]]
      BY <2>1 DEF OnItsWay, Takes
    <3>0. /\ chain[a].n > lapse[a]
          /\ \A t \in DOMAIN feeds : (\E i \in DOMAIN feeds[t] : feeds[t][i].of = a) => t \notin gone
      BY <2>1, DroppingKeeps DEF Typed
    <3>1. CASE a \in Parsed(answer, as)
      <4>1. a = note.of /\ Takes(s, a) /\ genericCache'[a] = note.is
        BY <2>1, <3>1 DEF Parsed, Updated
      <4>2. note.is # chain[a]
        BY <4>1
      <4>3. PICK j \in DOMAIN feeds[s] : feeds[s][j] = [of |-> a, is |-> chain[a]]
        BY <2>2, <4>1 DEF DeliveryInv, FeedsReachChain
      <4>4. j # 1
        BY <2>2, <4>2, <4>3
      <4>5. j - 1 \in DOMAIN feeds'[s] /\ feeds'[s][j - 1] = [of |-> a, is |-> chain[a]]
        BY <2>2, <4>3, <4>4
      <4> QED
        BY <2>1, <4>1, <4>5
    <3>2. CASE a \notin Parsed(answer, as)
      <4>1. genericCache'[a] = genericCache[a]
        BY <2>1, <3>2 DEF Updated
      <4>2. PICK t \in DOMAIN feeds :
                /\ Takes(t, a)
                /\ \E i \in DOMAIN feeds[t] : feeds[t][i] = [of |-> a, is |-> chain[a]]
        BY <3>0, <4>1 DEF DeliveryInv, OnItsWay
      <4>3. CASE t # s
        BY <2>1, <3>0, <4>2, <4>3
      <4>4. CASE t = s
        <5>1. PICK i \in DOMAIN feeds[s] : feeds[s][i] = [of |-> a, is |-> chain[a]]
          BY <4>2, <4>4
        <5>2. i # 1
          <6> SUFFICES ASSUME i = 1 PROVE FALSE
            OBVIOUS
          <6>1. note.of = a /\ note.is = chain[a]
            BY <2>2, <5>1
          <6>2. a \in as /\ answer[a].open
            BY <4>2, <4>4, <6>1
          <6> QED
            BY <3>2, <6>2 DEF Parsed
        <5>3. i - 1 \in DOMAIN feeds'[s] /\ feeds'[s][i - 1] = [of |-> a, is |-> chain[a]]
          BY <2>2, <5>1, <5>2
        <5> QED
          BY <2>1, <4>2, <4>4, <5>3
      <4> QED
        BY <4>3, <4>4
    <3> QED
      BY <3>1, <3>2
  <2> QED
    BY <2>4, <2>5, <2>6, <2>7 DEF DeliveryInv
<1> QED
  BY <1>1, <1>2, <1>3, <1>4, <1>5, <1>6, <1>7, <1>8 DEF CacheNext

(***************************************************************************)
(* The theorems.                                                           *)
(***************************************************************************)

LEMMA InitInv ==
    ASSUME CacheAssumption, CacheInit
    PROVE  Typed /\ UserAccountsOwned /\ FetchInv /\ HookInv /\ DeliveryInv
<1>1. Typed
  BY InitTyped
<1>2. UserAccountsOwned
  BY DEF CacheInit, UserAccountsOwned
<1>3. FetchInv
  BY DEF CacheInit, FetchInv, OnlyTokensClose, FetchPending, OneFetch
<1>4. HookInv
  BY DEF CacheInit, HookInv, HookOfFirstKey, HookShowsCache, NoHook
<1>5. DeliveryInv
  <2>1. \A a \in Accounts : ~(chain[a].n > lapse[a])
    BY DEF CacheInit
  <2> QED
    BY <2>1 DEF CacheInit, DeliveryInv, ReadsFollowChain, FeedsTell, FeedsReachChain, OnItsWay
<1> QED
  BY <1>1, <1>2, <1>3, <1>4, <1>5

\* The invariant of the module is inductive.
THEOREM CacheInvariant == CacheSpec => []IInv
<1> DEFINE Inv == Typed /\ UserAccountsOwned /\ FetchInv /\ HookInv /\ DeliveryInv
<1>1. CacheInit => Inv
  BY InitInv, CacheAssumption
<1>2. Inv /\ [CacheNext]_cacheVars => Inv'
  BY StepTyped, StepOwned, StepFetch, StepHook, StepDelivery, CacheAssumption
<1>3. Inv => IInv
  BY DEF IInv, FetchInv, HookInv, DeliveryInv
<1> QED
  BY <1>1, <1>2, <1>3, PTL DEF CacheSpec

\* The pages never see an account of a wallet that is not connected (selectUserAccounts).
THEOREM OwnedAlways == CacheSpec => []UserAccountsOwned
<1>1. IInv => UserAccountsOwned
  BY DEF IInv
<1> QED
  BY <1>1, CacheInvariant, PTL

\* No account is asked for twice at a time by cache.query.
THEOREM OneFetchAlways == CacheSpec => []OneFetch
<1>1. IInv => OneFetch
  BY DEF IInv
<1> QED
  BY <1>1, CacheInvariant, PTL

\* useMint shows what the cache has, as long as it keeps its first key.
THEOREM HookAlways == CacheSpec => []HookShowsCache
<1>1. IInv => HookShowsCache
  BY DEF IInv
<1> QED
  BY <1>1, CacheInvariant, PTL

\* The last change of an account reaches the cache unless one of the two things the
\* history records has happened to it.
THEOREM NothingElseMissedAlways == CacheSpec => []NothingElseMissed
<1>1. IInv => NothingElseMissed
  BY DEF IInv, OnItsWay, NothingElseMissed
<1> QED
  BY <1>1, CacheInvariant, PTL

=============================================================================
