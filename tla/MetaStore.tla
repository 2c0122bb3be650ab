------------------------------ MODULE MetaStore ------------------------------
(***************************************************************************)
(* The state that all pages of the storefront show (MetaProvider,          *)
(* common/src/contexts/meta/meta.tsx), and the loads that fill it          *)
(* (loadAccounts.ts).  The store is indexed in pages; an effect loads one  *)
(* page after the other while the pages of the site start loads of their   *)
(* own.  Nothing orders them but window.loadingData, a flag that only the  *)
(* very first load sets.                                                   *)
(*                                                                         *)
(* A load gets the state object of the render it was started from, changes *)
(* it in place and makes it the state again.  updateMints makes a copy of  *)
(* what is the state then: the copy has an index (storeIndexer) and store  *)
(* of its own, and the maps of accounts are the same objects, but for two. *)
(* In place of metadata and metadataByMint it has what the load's own      *)
(* object had in them before the mints were asked for.  Hence objects and  *)
(* maps are modelled by reference: heap holds the objects, maps what the   *)
(* maps of a family of copies hold, known the metadata of each object.     *)
(*                                                                         *)
(* React 17 renders at once when an asynchronous function sets a state,    *)
(* and runs the effects of a render before the next one.                   *)
(***************************************************************************)
EXTENDS Integers, Sequences, FiniteSets, SequencesExt

CONSTANTS
  Auctions,   (* for each page of the index, the accounts of each auction    *)
  BatchSize,  (* MULTIPLE_ACCOUNT_BATCH_SIZE                                 *)
  MaxPulls,   (* loads that pages start                                      *)
  MaxReruns,  (* changes of the connection                                   *)
  MaxFaults,  (* reads that fail                                             *)
  Fungible    (* metadata, named like auctions, of mints that are no NFTs    *)

NumPages == Len(Auctions)

ASSUME MetaAssumption ==
  /\ {BatchSize, MaxPulls, MaxReruns, MaxFaults} \subseteq Nat
  /\ Auctions \in Seq(Seq(1..BatchSize))
  /\ \A p \in 1..NumPages : Len(Auctions[p]) <= 10

VARIABLES
  heap,     (* state objects: family of maps, pages in the index, store      *)
  maps,     (* the auctions in each family of maps                           *)
  known,    (* the auctions whose metadata is in each object                 *)
  current,  (* the object that is the React state                            *)
  page, lastLength,
  ui,       (* loadingData, isLoading, updateRequestsInQueue, what runs and what waits *)
  ready,    (* the address of the store is known                             *)
  size,     (* pages of the index; none if the store was never indexed       *)
  seen      (* history: pages read; whether a page failed to load, the state *)
            (* was replaced by a copy during paging or was loaded anew; how  *)
            (* many loads, changes of the connection and failures there were *)

vars == <<heap, maps, known, current, page, lastLength, ui, ready, size, seen>>

Pages == 0..(size - 1)

-----------------------------------------------------------------------------
(* Reading the auctions of a page.                                          *)

\* The batches that the auctions of a page are read in: one that does not fit
\* ends the batch, and is not part of the next one.
Batches(sizes) ==
  LET b[i \in 0..Len(sizes)] ==
        IF i = 0 THEN [used |-> 0, read |-> {}]
        ELSE IF b[i - 1].used + sizes[i] > BatchSize
        THEN [used |-> 0, read |-> b[i - 1].read]
        ELSE [used |-> b[i - 1].used + sizes[i], read |-> b[i - 1].read \cup {i}]
  IN  b[Len(sizes)].read

AuctionsOf(p) == {<<p, i>> : i \in Batches(Auctions[p + 1])}
Everything == UNION {{p} \X DOMAIN Auctions[p + 1] : p \in 0..(NumPages - 1)}

Shown == maps[heap[current].family]
MetadataShown == known[current]

-----------------------------------------------------------------------------
(* The effect that loads a page.                                            *)

\* update: the flag is set if the state it starts from has no store yet.
StartUpdate(u, p, o) ==
  LET first == ~heap[o].store
      task == [kind |-> "update", page |-> p, base |-> o, at |-> "index", holds |-> first,
               snap |-> {}]
  IN  [u EXCEPT !.loadingData = @ \/ first, !.isLoading = @ \/ first,
                !.tasks = Append(@, task)]

\* The effect: while the flag is set the update is queued and looked at every
\* three seconds.
Effect(u, p, o) ==
  IF u.loadingData
  THEN [u EXCEPT !.queued = Append(@, [page |-> p, base |-> o]), !.requests = @ + 1]
  ELSE [StartUpdate(u, p, o) EXCEPT !.requests = 0]

StoreReady ==
  /\ ~ready /\ ready' = TRUE
  /\ ui' = Effect(ui, page, current)
  /\ UNCHANGED <<heap, maps, known, current, page, lastLength, size, seen>>

\* The user chooses another connection.
Rerun ==
  /\ ready /\ seen.reruns < MaxReruns
  /\ seen' = [seen EXCEPT !.reruns = @ + 1]
  /\ ui' = Effect(ui, page, current)
  /\ UNCHANGED <<heap, maps, known, current, page, lastLength, ready, size>>

Tick(i) ==
  /\ ~ui.loadingData
  /\ ui' = LET q == ui.queued[i]
               u == StartUpdate(ui, q.page, q.base)
           IN  [u EXCEPT !.requests = @ - 1, !.queued = RemoveAt(@, i)]
  /\ UNCHANGED <<heap, maps, known, current, page, lastLength, ready, size, seen>>

Task(i) == ui.tasks[i]
Without(i) == [ui EXCEPT !.tasks = RemoveAt(@, i)]
Goes(i, at) == [ui EXCEPT !.tasks[i].at = at]

\* queryExtendedMetadata spreads the map of the load's object, and then waits.
Spreads(i, map) == [ui EXCEPT !.tasks[i].at = "mints", !.tasks[i].snap = map]

\* The page number grows without a bound; those past the end of the index are
\* alike, and are one number here.
Following == IF page > NumPages THEN page ELSE page + 1

IndexLength(i) == Cardinality(heap'[Task(i).base].pages)
Grown(i) == IndexLength(i) # lastLength

\* How an update of a store with an index ends.  A page is followed by the next
\* one if the index has grown since the last update: the number is rendered, and
\* its effect runs with the state of before while the flag is still set.  Then
\* the flag is cleared and the object becomes the state.
PagedWith(i, grown, flag) ==
  LET u == IF grown THEN Effect(Without(i), Following, current) ELSE Without(i)
  IN  /\ page' = IF grown THEN Following ELSE page
      /\ lastLength' = IndexLength(i)
      /\ ui' = [u EXCEPT !.loadingData = flag /\ @, !.isLoading = FALSE]
      /\ current' = Task(i).base

\* Mutant of Paged: a page is followed by the next one if there is any page.
PagedOn(i) == PagedWith(i, IndexLength(i) > 0, FALSE)

\* Mutant of Paged: the flag is left as it is.
PagedHolding(i) == PagedWith(i, Grown(i), TRUE)

Paged(i) == PagedWith(i, Grown(i), FALSE)

\* The account of the page has been read.
IndexRead(i) ==
  LET t == Task(i)
  IN  /\ t.kind = "update" /\ t.at = "index" /\ t.page \in Pages
      /\ heap' = [heap EXCEPT ![t.base].pages = @ \cup {t.page}]
      /\ seen' = [seen EXCEPT !.read = @ \cup {t.page}]
      /\ ui' = Goes(i, "content")
      /\ UNCHANGED <<maps, known, current, page, lastLength, ready, size>>

\* There is no such page.
IndexMissing(i) ==
  LET t == Task(i)
  IN  /\ t.kind = "update" /\ t.at = "index" /\ t.page \notin Pages
      /\ UNCHANGED <<heap, maps, known, ready, size, seen>>
      /\ IF heap[t.base].pages # {}
         THEN Paged(i)
         ELSE ui' = Goes(i, "all") /\ UNCHANGED <<current, page, lastLength>>

\* The auctions of the page with their metadata, and with the first page the
\* store.
ContentRead(i) ==
  LET t == Task(i)
  IN  /\ t.kind = "update" /\ t.at = "content"
      /\ maps' = [maps EXCEPT ![heap[t.base].family] = @ \cup AuctionsOf(t.page)]
      /\ known' = [known EXCEPT ![t.base] = @ \cup AuctionsOf(t.page)]
      /\ heap' = [heap EXCEPT ![t.base].store = @ \/ t.page = 0]
      /\ Paged(i)
      /\ UNCHANGED <<ready, size, seen>>

\* loadAccounts: a new object with everything.
NewObject ==
  /\ heap' = Append(heap, [family |-> Len(maps) + 1, pages |-> Pages, store |-> TRUE])
  /\ maps' = Append(maps, Everything)
  /\ known' = Append(known, Everything)
  /\ current' = Len(heap) + 1

AllRead(i) ==
  LET t == Task(i)
  IN  /\ t.at = "all" /\ NewObject
      /\ ui' = IF t.kind = "update"
               THEN [Without(i) EXCEPT !.loadingData = FALSE, !.isLoading = FALSE]
               ELSE Spreads(i, Everything)
      /\ seen' = [seen EXCEPT !.anew = TRUE]
      /\ UNCHANGED <<page, lastLength, ready, size>>

-----------------------------------------------------------------------------
(* Loads of the pages.                                                      *)

\* What a load of each kind looks at before it starts: pullAuctionListData of
\* the list of auctions, pullUserMetadata of the effect on the user's accounts
\* and of the items page, and the three that wait for the store's address.
MayPull(kind) ==
  /\ ~ui.isLoading
  /\ CASE kind = "list" -> Shown # {}
       [] kind = "user" -> ui.requests <= 0 \/ ~ui.loadingMetadata
       [] OTHER -> ready

Pull(kind) ==
  /\ seen.pulls < MaxPulls /\ MayPull(kind)
  /\ seen' = [seen EXCEPT !.pulls = @ + 1]
  /\ LET task == [kind |-> kind, page |-> 0, base |-> current, holds |-> FALSE, snap |-> {},
                  at |-> IF kind = "site" THEN "all" ELSE "read"]
         loading == kind = "metadata" \/ (kind \in {"auction", "site"} /\ ~heap[current].store)
     IN  ui' = [ui EXCEPT !.tasks = Append(@, task), !.isLoading = @ \/ loading,
                          !.loadingMetadata = @ \/ kind = "user"]
  /\ UNCHANGED <<heap, maps, known, current, page, lastLength, ready, size>>

\* What was read goes to the object the load started with, which all but
\* pullUserMetadata make the state.
PullRead(i) ==
  LET t == Task(i)
  IN  /\ t.at = "read"
      /\ current' = IF t.kind = "user" THEN current ELSE t.base
      /\ ui' = [Spreads(i, known[t.base]) EXCEPT !.isLoading = @ /\ t.kind # "metadata"]
      /\ UNCHANGED <<heap, maps, known, page, lastLength, ready, size, seen>>

\* Mutant of Copy: the copy has maps of its own.
CopyDeep(map) ==
  /\ heap' = Append(heap, [heap[current] EXCEPT !.family = Len(maps) + 1])
  /\ maps' = Append(maps, Shown)
  /\ known' = Append(known, map)

\* The copy that updateMints makes of the state, with the metadata of the load.
Copy(map) ==
  /\ heap' = Append(heap, heap[current])
  /\ known' = Append(known, map)
  /\ UNCHANGED maps

Paging == page \in Pages \/ \E i \in DOMAIN ui.tasks : Task(i).kind = "update"

\* The mints have been read, and those that are no NFTs drop out, unless they
\* were in the account cache and not asked for; pullUserMetadata makes its own
\* object the state right behind the copy.
MintsRead(i) ==
  LET t == Task(i)
  IN  /\ t.at = "mints"
      /\ ui' = [Without(i) EXCEPT !.loadingMetadata = @ /\ t.kind # "user"]
      /\ IF t.kind = "user"
         THEN current' = t.base /\ UNCHANGED <<heap, maps, known, seen>>
         ELSE /\ \E out \in SUBSET (Fungible \cap t.snap) : Copy(t.snap \ out)
              /\ current' = Len(heap) + 1
              /\ seen' = [seen EXCEPT !.replaced = @ \/ Paging]
      /\ UNCHANGED <<page, lastLength, ready, size>>

\* A read fails.  The load ends where it is, and so does not clear the flag;
\* only a failure to read the mints is caught.
Fail(i) ==
  LET t == Task(i)
  IN  /\ seen.faults < MaxFaults
      /\ seen' = [seen EXCEPT !.faults = @ + 1, !.failed = @ \/ t.kind = "update"]
      /\ ui' = [Without(i) EXCEPT !.loadingMetadata = @ /\ ~(t.at = "mints" /\ t.kind = "user")]
      /\ current' = IF t.at = "mints" /\ t.kind = "user" THEN t.base ELSE current
      /\ UNCHANGED <<heap, maps, known, page, lastLength, ready, size>>

-----------------------------------------------------------------------------
Init ==
  /\ heap = <<[family |-> 1, pages |-> {}, store |-> FALSE]>>
  /\ maps = <<{}>> /\ known = <<{}>> /\ current = 1
  /\ page = 0 /\ lastLength = 0
  /\ ui = [loadingData |-> FALSE, isLoading |-> FALSE, loadingMetadata |-> FALSE, requests |-> 0,
           tasks |-> <<>>, queued |-> <<>>]
  /\ ready = FALSE /\ size \in {0, NumPages}
  /\ seen = [read |-> {}, replaced |-> FALSE, anew |-> FALSE, failed |-> FALSE,
             pulls |-> 0, reruns |-> 0, faults |-> 0]

Answer(i) ==
  IndexRead(i) \/ IndexMissing(i) \/ ContentRead(i) \/ AllRead(i) \/ PullRead(i) \/ MintsRead(i)

Kinds == {"list", "user", "auction", "metadata", "site"}

Next ==
  \/ StoreReady \/ Rerun
  \/ \E i \in DOMAIN ui.queued : Tick(i)
  \/ \E i \in DOMAIN ui.tasks : Answer(i) \/ Fail(i)
  \/ \E kind \in Kinds : Pull(kind)

\* The address of the store becomes known; every read is answered or fails,
\* and the timers of queued updates keep running.  No page has to load anything.
AnswerSome == \E i \in DOMAIN ui.tasks : Answer(i) \/ Fail(i)
TickSome == \E i \in DOMAIN ui.queued : Tick(i)

Spec == Init /\ [][Next]_vars /\ WF_vars(StoreReady) /\ WF_vars(AnswerSome) /\ WF_vars(TickSome)

-----------------------------------------------------------------------------
(* Properties.                                                              *)

TypeOK ==
  /\ DOMAIN known = DOMAIN heap /\ current \in DOMAIN heap /\ lastLength \in 0..NumPages
  /\ \A o \in DOMAIN heap : heap[o].family \in DOMAIN maps /\ heap[o].pages \subseteq Pages
  /\ \A i \in DOMAIN ui.tasks : Task(i).base \in DOMAIN heap

\* window.loadingData is set exactly while an update runs that started without
\* a store.  It stays set for ever if that update fails; and in a store that was
\* never indexed, updates that were queued before everything was loaded set it
\* again, and whichever ends first clears it.
FlagHeld ==
  seen.failed \/ (size = 0 /\ seen.anew)
    \/ (ui.loadingData <=> \E i \in DOMAIN ui.tasks : Task(i).holds)

\* A page is asked for when those before it have been read, and paging ends one
\* page behind the last, whatever loads run meanwhile; unless one of them made
\* its copy the state, or loaded everything anew, while pages were loading.
OneAfterTheOther ==
  \/ seen.replaced \/ seen.anew
  \/ /\ page <= size
     /\ \A i \in DOMAIN ui.tasks :
          Task(i).kind = "update" => 0..(Task(i).page - 1) \subseteq seen.read

\* The flag is released by the update that set it, and pages are loaded one
\* after the other.
PagesInOrder == TypeOK /\ FlagHeld /\ OneAfterTheOther

\* The metadata that is shown and that every load knows of: it is in the objects
\* that loads and queued updates start from, and in each map that was spread
\* and is to become the state's.
KnownToAll ==
  {m \in MetadataShown :
     /\ \A i \in DOMAIN ui.tasks : /\ m \in known[Task(i).base]
                                   /\ Task(i).at = "mints" => m \in Task(i).snap
     /\ \A i \in DOMAIN ui.queued : m \in known[ui.queued[i].base]}

\* Until everything is loaded anew, the auctions that are shown stay shown:
\* whichever load ends last and makes an older object the state, its maps are
\* the same.  Their metadata stays once it is known to all loads under way; what
\* came while one of them waited for its mints, or to another object, may go
\* when it ends (meta.tsx:72-76).
ShownKept ==
  [][~seen'.anew => Shown \subseteq Shown' /\ KnownToAll \ Fungible \subseteq KnownToAll']_vars

\* Of two neighbours in a page one is shown at least: an auction is only missed
\* at the end of a batch.
PageShown(p) ==
  LET auctions == DOMAIN Auctions[p + 1]
  IN  \A i \in auctions : <<p, i>> \in Shown \/ (i > 1 /\ <<p, i - 1>> \in Shown)

\* Every page is loaded and shown in the end, though all but the first have to
\* wait in the queue of updates or run beside other loads; unless a page failed
\* to load or a copy became the state during paging.
EventuallyAllPages ==
  <>(seen.failed \/ seen.replaced \/ \A p \in 0..(NumPages - 1) : PageShown(p))
=============================================================================
