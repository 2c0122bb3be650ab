-------------------------- MODULE CandyMachineUpload --------------------------
(***************************************************************************)
(* The upload and verify_upload commands of the candy machine CLI:         *)
(* cli/src/commands/upload.ts (uploadV2, writeIndices), helpers/cache.ts   *)
(* and candy-machine-v2-cli.ts.  Assets 0 .. N-1 are uploaded to storage,  *)
(* recorded in a cache file and written, in slices of consecutive cache    *)
(* keys, as lines of a candy machine account.  The process may be killed   *)
(* at any point and the command is then run again on the cache file.       *)
(***************************************************************************)
EXTENDS Integers, FiniteSets, FiniteSetsExt

CONSTANTS
  N,           (* totalNFTs, also the itemsAvailable of the machine          *)
  SliceSize,   (* lines of an addConfigLines transaction (16 in the code)    *)
  SaveEvery,   (* verify_upload saves the cache each so many items (100)     *)
  Storages,    (* the kinds of storage to consider                           *)
  BatchSize,   (* assets uploaded concurrently when not Bundle               *)
  RateLimit,   (* addConfigLines transactions in flight                      *)
  MaxRuns      (* bound: the upload command is started so many times         *)

ASSUME UploadAssumption ==
  /\ {N, SliceSize, SaveEvery, BatchSize, RateLimit, MaxRuns} \subseteq Nat \ {0}
  /\ Storages \subseteq {"single", "bundle"}

VARIABLES
  storage, (* the option --storage, the same in every run                    *)
  run,     (* how often the upload command was started                       *)
  pc,      (* where the process is; "off" when there is none                 *)
  disk,    (* the cache file                                                 *)
  mem,     (* cacheContent, the process's copy of it                         *)
  todo,    (* dedupedAssetKeys not yet processed                             *)
  queue,   (* poolArray: slices whose transaction is not on chain (yet)      *)
  landed,  (* slices whose transaction is on chain and not yet answered      *)
  clean,   (* the local uploadSuccessful of writeIndices                     *)
  lines,   (* lines[m]: the config lines of machine m on chain               *)
  said     (* the last verdict a command gave its user                       *)

vars == <<storage, run, pc, disk, mem, todo, queue, landed, clean, lines, said>>

Keys  == 0 .. N-1
Runs  == 1 .. MaxRuns
\* A line names the asset it describes and the upload (by run) its link is from.
Empty == <<N, 0>>
Line(cache, k) == <<k, cache.link[k]>>

\* arweave-bundle, arweave-sol and nft-storage upload bundles of assets.
Bundle == storage = "bundle"

Cached(cache) == {k \in Keys : cache.link[k] # 0}

\* A cache: the machine, and per item its link (0: no entry), onChain, verified.
Caches == [machine : 0 .. MaxRuns, link : [Keys -> 0 .. MaxRuns],
           onChain : SUBSET Keys, verified : SUBSET Keys]

\* Type invariant; only cached items are marked, and memory is the file's
\* contents except between a change and the save that follows it.
TypeOK ==
  /\ storage \in Storages
  /\ run \in 0 .. MaxRuns
  /\ pc \in {"off", "create", "collection", "upload", "write"}
  /\ disk \in Caches /\ mem \in Caches
  /\ todo \subseteq Keys
  /\ queue \subseteq SUBSET Keys /\ landed \subseteq SUBSET Keys
  /\ clean \in BOOLEAN
  /\ lines \in [Runs -> [Keys -> (Keys \X Runs) \cup {Empty}]]
  /\ said \in {"nothing", "successful", "unsuccessful", "ready", "notReady"}
  /\ disk.onChain \cup disk.verified \subseteq Cached(disk)
  /\ pc # "collection" => mem = disk

Init ==
  /\ storage \in Storages
  /\ run = 0 /\ pc = "off"
  /\ disk = [machine |-> 0, link |-> [k \in Keys |-> 0], onChain |-> {}, verified |-> {}]
  /\ mem = disk
  /\ todo = {} /\ queue = {} /\ landed = {} /\ clean = TRUE
  /\ lines = [m \in Runs |-> [p \in Keys |-> Empty]]
  /\ said = "nothing"

\* The process is gone and with it everything it held in memory.
Exit ==
  /\ pc' = "off" /\ mem' = disk'
  /\ todo' = {} /\ queue' = {} /\ landed' = {} /\ clean' = TRUE

\* The first c of a set of keys, in the order the code processes them.
FirstOf(keys, c) == {k \in keys : Cardinality({j \in keys : j < k}) < c}

-----------------------------------------------------------------------------
(* uploadV2: loading the cache and creating the machine.                   *)

\* Mutant of NeedingUpload: an entry that is not on chain is uploaded again.
NeedingUploadUntilOnChain(cache) == {k \in Keys : Bundle \/ k \notin cache.onChain}

\* getAssetKeysNeedingUpload: entries without a dataUri.  The bundle uploads
\* never record one (updateCacheAfterUpload).
NeedingUpload(cache) == {k \in Keys : Bundle \/ cache.link[k] = 0}

\* Mutant of Start: a machine is created although the cache names one.
StartAnew ==
  /\ pc = "off" /\ run < MaxRuns
  /\ run' = run + 1
  /\ mem' = disk
  /\ todo' = NeedingUpload(disk)
  /\ pc' = "create"
  /\ said' = "nothing"
  /\ UNCHANGED <<storage, disk, queue, landed, clean, lines>>

\* The command is run: it reads the cache file; the machine is created unless
\* the file names one.
Start ==
  /\ pc = "off" /\ run < MaxRuns
  /\ run' = run + 1
  /\ mem' = disk
  /\ todo' = NeedingUpload(disk)
  /\ pc' = IF disk.machine = 0 THEN "create" ELSE "upload"
  /\ said' = "nothing"
  /\ UNCHANGED <<storage, disk, queue, landed, clean, lines>>

\* createCandyMachineV2 creates machine number run on chain.
CreateMachine ==
  /\ pc = "create"
  /\ mem' = [mem EXCEPT !.machine = run]
  /\ pc' = "collection"
  /\ UNCHANGED <<storage, run, disk, todo, queue, landed, clean, lines, said>>

\* createCandyMachineV2 or setCollection throws: the cache is not saved.
InitializationFails ==
  /\ pc \in {"create", "collection"}
  /\ UNCHANGED <<storage, run, disk, lines, said>>
  /\ Exit

\* setCollection succeeds (or there is no collection), saveCache.
SetCollection ==
  /\ pc = "collection"
  /\ disk' = mem
  /\ pc' = "upload"
  /\ UNCHANGED <<storage, run, mem, todo, queue, landed, clean, lines, said>>

-----------------------------------------------------------------------------
(* uploadV2: uploading assets.                                             *)

\* Entries keys get the link of this upload and are to be written on chain.
Entries(cache, keys) ==
  [cache EXCEPT !.link = [k \in Keys |-> IF k \in keys THEN run ELSE @[k]],
                !.onChain = @ \ keys, !.verified = @ \ keys]

\* The pool's process function: one asset uploaded, the cache saved.
UploadAsset(k) ==
  /\ pc = "upload" /\ ~Bundle /\ k \in FirstOf(todo, BatchSize)
  /\ mem' = Entries(mem, {k}) /\ disk' = mem'
  /\ todo' = todo \ {k}
  /\ UNCHANGED <<storage, run, pc, queue, landed, clean, lines, said>>

\* The pool's handleError: the asset is skipped.
SkipAsset(k) ==
  /\ pc = "upload" /\ ~Bundle /\ k \in FirstOf(todo, BatchSize)
  /\ todo' = todo \ {k}
  /\ UNCHANGED <<storage, run, pc, disk, mem, queue, landed, clean, lines, said>>

\* The generator yields the next bundle, and the cache is saved.
UploadBundle ==
  /\ pc = "upload" /\ Bundle
  /\ \E c \in 1 .. Cardinality(todo) :
       /\ mem' = Entries(mem, FirstOf(todo, c)) /\ disk' = mem'
       /\ todo' = todo \ FirstOf(todo, c)
  /\ UNCHANGED <<storage, run, pc, queue, landed, clean, lines, said>>

\* The generator throws: uploadV2 throws and the command exits.
BundleFails ==
  /\ pc = "upload" /\ Bundle /\ todo # {}
  /\ UNCHANGED <<storage, run, disk, lines, said>>
  /\ Exit

-----------------------------------------------------------------------------
(* writeIndices.                                                           *)

\* Mutant of Slices: the offset advances by one key.
SlicesOverlap(cache) ==
  LET K == Cached(cache)
      Rank(k) == Cardinality({j \in K : j < k})
  IN {{k \in K : Rank(k) - Rank(l) \in 0 .. SliceSize-1} : l \in K}

\* Consecutive keys of the cache, SliceSize at a time.
Slices(cache) ==
  LET K == Cached(cache)
      Rank(k) == Cardinality({j \in K : j < k})
  IN {{k \in K : Rank(k) \div SliceSize = Rank(l) \div SliceSize} : l \in K}

\* The slices that are not written entirely.
NeedingWrite(cache) == {s \in Slices(cache) : ~(s \subseteq cache.onChain)}

StartWriting ==
  /\ pc = "upload" /\ todo = {}
  /\ disk' = mem
  /\ queue' = NeedingWrite(mem)
  /\ pc' = "write"
  /\ UNCHANGED <<storage, run, mem, todo, landed, clean, lines, said>>

\* The line that the transaction of slice s writes at position p: the slice
\* is written from the position that its first key names.
LineAt(s, p) ==
  {k \in s : p = Min(s) + Cardinality({j \in s : j < k})}

InFlight == {s \in queue : Cardinality({r \in queue \cup landed : Min(r) < Min(s)}) < RateLimit}

\* The addConfigLines transaction of slice s executes.
Land(s) ==
  /\ pc = "write" /\ s \in InFlight
  /\ queue' = queue \ {s} /\ landed' = landed \cup {s}
  /\ lines' = [lines EXCEPT ![mem.machine] =
       [p \in Keys |-> IF LineAt(s, p) = {} THEN @[p]
                       ELSE Line(mem, CHOOSE k \in LineAt(s, p) : TRUE)]]
  /\ UNCHANGED <<storage, run, pc, disk, mem, todo, clean, said>>

\* The response arrives: the items are marked and the cache is saved.
Mark(s) ==
  /\ pc = "write" /\ s \in landed
  /\ landed' = landed \ {s}
  /\ mem' = [mem EXCEPT !.onChain = @ \cup s, !.verified = @ \ s]
  /\ disk' = mem'
  /\ UNCHANGED <<storage, run, pc, todo, queue, clean, lines, said>>

\* Mutant of WriteFails: the failed slice is marked like a written one.
WriteFailsMarked(s) ==
  /\ pc = "write" /\ s \in InFlight \cup landed
  /\ queue' = queue \ {s} /\ landed' = landed \ {s}
  /\ clean' = FALSE
  /\ mem' = [mem EXCEPT !.onChain = @ \cup s, !.verified = @ \ s]
  /\ disk' = mem'
  /\ UNCHANGED <<storage, run, pc, todo, lines, said>>

\* Mutant of WriteFails: the handler forgets uploadSuccessful = false.
WriteFailsQuietly(s) ==
  /\ pc = "write" /\ s \in InFlight \cup landed
  /\ queue' = queue \ {s} /\ landed' = landed \ {s}
  /\ UNCHANGED <<storage, run, pc, disk, mem, todo, lines, clean, said>>

\* The call throws, whether or not its transaction executed.
WriteFails(s) ==
  /\ pc = "write" /\ s \in InFlight \cup landed
  /\ queue' = queue \ {s} /\ landed' = landed \ {s}
  /\ clean' = FALSE
  /\ UNCHANGED <<storage, run, pc, disk, mem, todo, lines, said>>

\* writeIndices returns, uploadV2 prints its verdict and the process ends.
Finish ==
  /\ pc = "write" /\ queue = {} /\ landed = {}
  /\ said' = IF clean /\ Cardinality(Cached(mem)) = N THEN "successful" ELSE "unsuccessful"
  /\ disk' = mem
  /\ Exit
  /\ UNCHANGED <<storage, run, lines>>

\* The process is killed.
Crash ==
  /\ pc # "off"
  /\ UNCHANGED <<storage, run, disk, lines, said>>
  /\ Exit

-----------------------------------------------------------------------------
(* verify_upload, on the lines of the machine the cache names.             *)

Written(cache, k) == lines[cache.machine][k] = Line(cache, k)

Unverified == Cached(disk) \ disk.verified
Bad        == {k \in Unverified : ~Written(disk, k)}
LineCount  == Cardinality({p \in Keys : lines[disk.machine][p] # Empty})

\* What the save at every SaveEvery-th item has already put in the file.
SavedEarly == FirstOf(Unverified, ((Cardinality(Unverified) - 1) \div SaveEvery) * SaveEvery)

\* The command reads the machine that the cache names.
CanVerify == pc = "off" /\ disk.machine # 0

VerifyWith(verdict, verified, unmarked) ==
  /\ said' = verdict
  /\ disk' = [disk EXCEPT !.verified = @ \cup verified, !.onChain = @ \ unmarked]
  /\ mem' = disk'
  /\ UNCHANGED <<storage, run, pc, todo, queue, landed, clean, lines>>

\* A line differs from its cache entry: it is unmarked for the next run.
VerifyFindsBad == CanVerify /\ Bad # {} /\ VerifyWith("notReady", Unverified \ Bad, Bad)

\* Too few lines: the command throws before its last save.
VerifyFindsFew == CanVerify /\ Bad = {} /\ LineCount < N
                  /\ VerifyWith("notReady", SavedEarly, {})

VerifyPasses == CanVerify /\ Bad = {} /\ LineCount >= N /\ VerifyWith("ready", Unverified, {})

-----------------------------------------------------------------------------

Next ==
  \/ Start \/ CreateMachine \/ SetCollection \/ InitializationFails
  \/ \E k \in Keys : UploadAsset(k) \/ SkipAsset(k)
  \/ UploadBundle \/ BundleFails \/ StartWriting
  \/ \E s \in queue \cup landed : Land(s) \/ Mark(s) \/ WriteFails(s)
  \/ Finish \/ Crash
  \/ VerifyFindsBad \/ VerifyFindsFew \/ VerifyPasses

Spec == Init /\ [][Next]_vars

-----------------------------------------------------------------------------
(* Properties.                                                             *)

AllWritten == \A k \in Keys : disk.link[k] # 0 /\ Written(disk, k)

\* With a bundle storage, "Done. Successful = true" (upload.ts:402) and "ready
\* to deploy!" (candy-machine-v2-cli.ts:595) mean that every asset has a line on
\* chain, at its own position and with the link that the cache holds, however
\* earlier runs ended.
BundleMessagesTrue == Bundle /\ said \in {"successful", "ready"} => AllWritten

\* With a bundle storage, an asset marked in the cache file as on chain has its line
\* there, at its position and with its present link, whatever run wrote it
\* and however that run ended: what the marks let the next run skip is done.
MarksTrue == Bundle => \A k \in disk.onChain : Written(disk, k)

\* Once verify_upload has complained, the next run writes every line that it
\* found wrong: the pair of commands can be repeated until all is well.
RepairIsQueued ==
  pc = "off" /\ said = "notReady" =>
    \A k \in Unverified : Written(disk, k) \/ k \in UNION NeedingWrite(disk)

\* A mark tells of a line that is written, and what verify_upload found wrong
\* is no longer marked.
MarkedIsWritten == MarksTrue /\ RepairIsQueued

\* The cached assets of a bundle upload are an initial segment at all times, a
\* killed or failed run included; writeIndices places its slices right only
\* because of it.
CachedIsPrefix == Bundle => \A k \in Cached(disk) : 0 .. k \subseteq Cached(disk)

\* Transactions that may be in flight together write different positions, so
\* that the outcome does not depend on the order in which they execute.
ConcurrentSlicesDisjoint ==
  /\ CachedIsPrefix
  /\ \A r, s \in queue \cup landed : r # s =>
       \A p \in Keys : LineAt(r, p) = {} \/ LineAt(s, p) = {}

\* Lines are only ever written to the machine that the cache file names, so
\* that nothing paid for is on a machine the next run does not know of.
LinesOnRecordedMachine ==
  /\ TypeOK
  /\ \A m \in Runs : (\E p \in Keys : lines[m][p] # Empty) => m = disk.machine

\* Comment of getAssetKeysNeedingUpload (upload.ts:406-411): an asset with a
\* link in the cache is not uploaded again, by whatever run.  It holds of the
\* storages that upload one asset at a time; the bundles record no dataUri.
CachedNotUploadedAgain ==
  [][~Bundle => \A k \in Keys : disk.link[k] # 0 => disk'.link[k] = disk.link[k]]_vars
=============================================================================
