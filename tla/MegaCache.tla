------------------------------- MODULE MegaCache -------------------------------
(***************************************************************************)
(* compile_cache.py: the bundle of torch.compile artifacts that processes  *)
(* with the same set of models share on disk.  A manifest names one        *)
(* bundle; a save merges the bundle it names into this run's artifacts,    *)
(* writes the union beside it, replaces the manifest and removes the rest. *)
(* Savers of one key serialize by a lock file, except where the file       *)
(* system has no locks; readers take none.                                 *)
(*                                                                         *)
(* Folding the old bundle in is best effort: what cannot be read or merged *)
(* is left out, and the save goes on.                                      *)
(*                                                                         *)
(* Bundles are named by their content, so a bundle is its set of artifacts *)
(* and the empty set stands for none.  A process keeps the same pid for    *)
(* its temporary file over restarts.                                       *)
(***************************************************************************)
EXTENDS Naturals, FiniteSets

CONSTANTS
  Processes,
  Savers,        \* processes with LOCAL_RANK 0
  Unlocked,      \* processes that find locking unsupported
  Running,       \* processes that keep running; any other may hang
  Models,
  Artifacts,     \* records [kind, id, content]
  MaxOps,        \* bound: loads and saves of all processes
  MaxCrashes     \* bound

ASSUME SaversAssumption  == Savers \subseteq Processes /\ Unlocked \subseteq Processes
ASSUME RunningAssumption == Running \subseteq Processes
ASSUME BoundsAssumption  == MaxOps \in Nat /\ MaxCrashes \in Nat

Bundles  == SUBSET Artifacts
NoBundle == {}
AllKeys  == SUBSET Models
Free     == "free"

ASSUME FreeAssumption == Free \notin Processes

VARIABLES
  manifest,      \* per key: the bundle it names
  files,         \* per key: the bundles that exist
  temps,         \* per key: whose temporary bundle files exist
  lock,          \* per key: the holder of the lock file
  models,        \* per process: the models it has loaded, which are its key
  recorded,      \* per process: what torch's artifact manager holds
  hit,           \* per process: its last load found a bundle
  pc, call,
  seen,          \* per process: the bundle named by the manifest it read
  retried,       \* per process: its load has read the pair twice
  stale,         \* per process: bundles and temporary files it will remove
  fault,         \* per process: a read or a merge of its call failed
  ops, crashes,
  \* history, read by the properties only
  spoiled,       \* per key: a saver without the lock overlapped another one
  replaced       \* per process: manifests replaced since its load began, 9 if there was none

disk    == <<manifest, files, temps>>
run     == <<models, recorded, hit>>
locals  == <<seen, retried, stale, fault>>
bounds  == <<ops, crashes>>
history == <<spoiled, replaced>>
vars == <<disk, lock, run, pc, call, locals, bounds, history>>

Nothing == [files |-> {}, temps |-> {}]
NoPair  == 9

Init ==
  /\ manifest = [k \in AllKeys |-> NoBundle]
  /\ files = [k \in AllKeys |-> {}] /\ temps = [k \in AllKeys |-> {}]
  /\ lock = [k \in AllKeys |-> Free]
  /\ models = [p \in Processes |-> {}] /\ recorded = [p \in Processes |-> {}]
  /\ hit = [p \in Processes |-> FALSE] /\ retried = [p \in Processes |-> FALSE]
  /\ fault = [p \in Processes |-> FALSE]
  /\ pc = [p \in Processes |-> "idle"] /\ call = [p \in Processes |-> "none"]
  /\ seen = [p \in Processes |-> NoBundle] /\ stale = [p \in Processes |-> Nothing]
  /\ ops = 0 /\ crashes = 0
  /\ spoiled = [k \in AllKeys |-> FALSE] /\ replaced = [p \in Processes |-> 0]

-----------------------------------------------------------------------------
(* Helpers. *)

\* _bundle_key: the set of models, not the order of the calls.
Key(p) == models[p]

\* _artifact_identity, for merging and for "is there anything new".
ContentIgnored == {"profile", "timing"}
MergeId(a)   == IF a.kind \in ContentIgnored THEN <<a.kind, a.id>> ELSE <<a.kind, a.id, a.content>>
CompareId(a) == IF a.kind = "timing" THEN <<a.kind, a.id>> ELSE <<a.kind, a.id, a.content>>
MergeIds(b)   == {MergeId(a) : a \in b}
CompareIds(b) == {CompareId(a) : a \in b}

MergeNothing(own, onDisk) == own                              \* mutant

\* _merge_recorded_artifacts: the union, this run's copy of an identity wins.
Merged(own, onDisk) == own \cup {a \in onDisk : MergeId(a) \notin MergeIds(own)}

MergeIdsCover(own, onDisk) == onDisk # NoBundle /\ MergeIds(own) \subseteq MergeIds(onDisk)   \* mutant

\* The two tests that skip a save: equal bytes, or nothing new by identity.
AlreadyHeld(own, onDisk) == onDisk # NoBundle /\ CompareIds(own) \subseteq CompareIds(onDisk)

Goto(p, where) == pc' = [pc EXCEPT ![p] = where]

Return(p) ==
  /\ Goto(p, "idle")
  /\ call' = [call EXCEPT ![p] = "none"]
  /\ seen' = [seen EXCEPT ![p] = NoBundle]
  /\ retried' = [retried EXCEPT ![p] = FALSE]
  /\ stale' = [stale EXCEPT ![p] = Nothing]
  /\ fault' = [fault EXCEPT ![p] = FALSE]

InSection(p) == call[p] = "save" /\ pc[p] \notin {"idle", "lock"}

-----------------------------------------------------------------------------
(* The run: torch compiles, and the process ends or is killed. *)

\* torch records what a run hits or compiles, one copy of an identity.
Compile(p, a) ==
  /\ pc[p] = "idle" /\ models[p] # {}
  /\ MergeId(a) \notin MergeIds(recorded[p])
  /\ recorded' = [recorded EXCEPT ![p] = @ \cup {a}]
  /\ UNCHANGED <<disk, lock, models, hit, pc, call, locals, bounds, history>>

\* The kernel drops its lock; a temporary file stays behind.
Crash(p) ==
  /\ crashes < MaxCrashes /\ models[p] # {}
  /\ crashes' = crashes + 1
  /\ models' = [models EXCEPT ![p] = {}] /\ recorded' = [recorded EXCEPT ![p] = {}]
  /\ hit' = [hit EXCEPT ![p] = FALSE]
  /\ lock' = [k \in AllKeys |-> IF lock[k] = p THEN Free ELSE lock[k]]
  /\ Return(p)
  /\ UNCHANGED <<disk, ops, history>>

-----------------------------------------------------------------------------
(* megacache_load. *)

\* The model joins the key and the hit of an earlier key is forgotten.
Load(p, m) ==
  /\ pc[p] = "idle" /\ ops < MaxOps
  /\ ops' = ops + 1
  /\ models' = [models EXCEPT ![p] = @ \cup {m}]
  /\ hit' = [hit EXCEPT ![p] = FALSE]
  /\ call' = [call EXCEPT ![p] = "load"]
  /\ Goto(p, "manifest")
  /\ replaced' = [replaced EXCEPT ![p] = IF manifest[models'[p]] = NoBundle THEN NoPair ELSE 0]
  /\ UNCHANGED <<disk, lock, recorded, locals, crashes, spoiled>>

\* _read_disk_bundle, first half.
ReadManifest(p) ==
  /\ pc[p] = "manifest"
  /\ seen' = [seen EXCEPT ![p] = manifest[Key(p)]]
  /\ Goto(p, IF call[p] = "load" /\ manifest[Key(p)] = NoBundle THEN "exists" ELSE "bundle")
  /\ UNCHANGED <<disk, lock, run, call, retried, stale, fault, bounds, history>>

\* One of the two files is there and cannot be read or does not pass its
\* checks: for a load the pair is missing, a save goes on without it.
ReadFails(p) ==
  /\ \/ pc[p] = "manifest" /\ manifest[Key(p)] # NoBundle
     \/ pc[p] = "bundle" /\ seen[p] # NoBundle
  /\ seen' = [seen EXCEPT ![p] = NoBundle]
  /\ fault' = [fault EXCEPT ![p] = TRUE]
  /\ Goto(p, IF call[p] = "load" THEN "exists" ELSE "bundle")
  /\ UNCHANGED <<disk, lock, run, call, retried, stale, bounds, history>>

\* Second half, for a load: a bundle that is there is what its name says.
LoadBundle(p) ==
  /\ pc[p] = "bundle" /\ call[p] = "load"
  /\ \/ /\ seen[p] \in files[Key(p)]
        /\ hit' = [hit EXCEPT ![p] = TRUE]
        /\ Return(p)
     \/ /\ seen[p] \notin files[Key(p)]
        /\ Goto(p, "exists")
        /\ UNCHANGED <<hit, call, locals>>
  /\ UNCHANGED <<disk, lock, models, recorded, bounds, history>>

\* torch finds nothing to load in the bundle, or raises.
LoadFails(p) ==
  /\ pc[p] = "bundle" /\ call[p] = "load" /\ seen[p] \in files[Key(p)]
  /\ Return(p)
  /\ UNCHANGED <<disk, lock, run, bounds, history>>

NeverAgain(p) == FALSE                                        \* mutant
OnceMore(p) == ~retried[p] /\ manifest[Key(p)] # NoBundle

\* A concurrent save may have replaced the manifest between the two reads.
Retry(p) ==
  /\ pc[p] = "exists"
  /\ OnceMore(p)
  /\ retried' = [retried EXCEPT ![p] = TRUE]
  /\ Goto(p, "manifest")
  /\ UNCHANGED <<disk, lock, run, call, seen, stale, fault, bounds, history>>

Miss(p) ==
  /\ pc[p] = "exists"
  /\ ~OnceMore(p)
  /\ Return(p)
  /\ UNCHANGED <<disk, lock, run, bounds, history>>

-----------------------------------------------------------------------------
(* megacache_save: the lock. *)

Save(p) ==
  /\ pc[p] = "idle" /\ p \in Savers /\ models[p] # {} /\ ops < MaxOps
  /\ ops' = ops + 1
  /\ call' = [call EXCEPT ![p] = "save"]
  /\ Goto(p, "lock")
  /\ UNCHANGED <<disk, lock, run, locals, crashes, history>>

\* Another saver of the key is at work, and one of the two has no lock.
Spoils(p) == \E q \in Processes \ {p} :
  InSection(q) /\ Key(q) = Key(p) /\ {p, q} \cap Unlocked # {}

LockIgnored(p) == TRUE                                        \* mutant
LockFree(p) == lock[Key(p)] = Free

Acquire(p) ==
  /\ pc[p] = "lock" /\ p \notin Unlocked
  /\ LockFree(p)
  /\ lock' = [lock EXCEPT ![Key(p)] = p]
  /\ Goto(p, "manifest")
  /\ spoiled' = [spoiled EXCEPT ![Key(p)] = @ \/ Spoils(p)]
  /\ UNCHANGED <<disk, run, call, locals, bounds, replaced>>

\* _locking_unsupported: save all the same.
GoUnlocked(p) ==
  /\ pc[p] = "lock" /\ p \in Unlocked
  /\ Goto(p, "manifest")
  /\ spoiled' = [spoiled EXCEPT ![Key(p)] = @ \/ Spoils(p)]
  /\ UNCHANGED <<disk, lock, run, call, locals, bounds, replaced>>

WaitOn(p) == FALSE                                            \* mutant
TimesOut(p) == pc[p] = "lock"

\* The lock's time-out, or a lock file that is not ours alone: no save.
SkipSave(p) ==
  /\ TimesOut(p)
  /\ Return(p)
  /\ UNCHANGED <<disk, lock, run, bounds, history>>

-----------------------------------------------------------------------------
(* _save_locked. *)

\* The bundle on disk, if the pair is there, is folded into what is recorded.
\* Then: nothing to save, nothing new, or a bundle to write.
FoldIn(p) ==
  /\ pc[p] = "bundle" /\ call[p] = "save"
  /\ LET existing == IF seen[p] \in files[Key(p)] THEN seen[p] ELSE NoBundle
         own      == Merged(recorded[p], existing)
     IN  /\ recorded' = [recorded EXCEPT ![p] = own]
         /\ Goto(p, IF own = {} \/ AlreadyHeld(own, existing) THEN "unlock" ELSE "temp")
  /\ UNCHANGED <<disk, lock, models, hit, call, locals, bounds, history>>

\* The old bundle cannot be deserialized, or an artifact of it not recorded:
\* the part merged so far stays, and the identities are not compared.
FoldFails(p) ==
  /\ pc[p] = "bundle" /\ call[p] = "save"
  /\ seen[p] # NoBundle /\ seen[p] \in files[Key(p)]
  /\ \E own \in SUBSET Merged(recorded[p], seen[p]) :
       /\ recorded[p] \subseteq own
       /\ recorded' = [recorded EXCEPT ![p] = own]
       /\ Goto(p, IF own = {} \/ own = seen[p] THEN "unlock" ELSE "temp")
  /\ fault' = [fault EXCEPT ![p] = TRUE]
  /\ UNCHANGED <<disk, lock, models, hit, call, seen, retried, stale, bounds, history>>

\* A bundle of that name that is there already is kept.
WriteTemp(p) ==
  /\ pc[p] = "temp"
  /\ IF recorded[p] \in files[Key(p)]
       THEN Goto(p, "publish") /\ UNCHANGED temps
       ELSE Goto(p, "replace") /\ temps' = [temps EXCEPT ![Key(p)] = @ \cup {p}]
  /\ UNCHANGED <<manifest, files, lock, run, call, locals, bounds, history>>

\* os.replace; it fails when a collection took the temporary file away.
ReplaceBundle(p) ==
  /\ pc[p] = "replace"
  /\ IF p \in temps[Key(p)]
       THEN /\ files' = [files EXCEPT ![Key(p)] = @ \cup {recorded[p]}]
            /\ temps' = [temps EXCEPT ![Key(p)] = @ \ {p}]
            /\ Goto(p, "publish")
       ELSE Goto(p, "failed") /\ UNCHANGED <<files, temps>>
  /\ UNCHANGED <<manifest, lock, run, call, locals, bounds, history>>

More(n) == IF n \in {0, 1} THEN n + 1 ELSE n

Publish(p) ==
  /\ pc[p] = "publish"
  /\ manifest' = [manifest EXCEPT ![Key(p)] = recorded[p]]
  /\ replaced' = [q \in Processes |->
       IF Key(q) = Key(p) /\ call[q] = "load" THEN More(replaced[q]) ELSE replaced[q]]
  /\ Goto(p, "list")
  /\ UNCHANGED <<files, temps, lock, run, call, locals, bounds, spoiled>>

\* No space, no permission: the exception ends the save.
WriteFails(p) ==
  /\ pc[p] \in {"temp", "replace", "publish"}
  /\ Goto(p, "failed")
  /\ UNCHANGED <<disk, lock, run, call, locals, bounds, history>>

\* Superseded bundles and temporary files, by the listing of this moment.
Superseded(p) == [files |-> files[Key(p)] \ {recorded[p]}, temps |-> temps[Key(p)]]

List(p) ==
  /\ pc[p] = "list"
  /\ stale' = [stale EXCEPT ![p] = Superseded(p)]
  /\ Goto(p, "collect")
  /\ UNCHANGED <<disk, lock, run, call, seen, retried, fault, bounds, history>>

\* One unlink at a time, in the order of the listing; each may fail.
CollectFile(p) ==
  /\ pc[p] = "collect"
  /\ \E b \in stale[p].files :
       /\ stale' = [stale EXCEPT ![p].files = @ \ {b}]
       /\ files' \in {files, [files EXCEPT ![Key(p)] = @ \ {b}]}
  /\ UNCHANGED <<manifest, temps, lock, run, pc, call, seen, retried, fault, bounds, history>>

CollectTemp(p) ==
  /\ pc[p] = "collect"
  /\ \E q \in stale[p].temps :
       /\ stale' = [stale EXCEPT ![p].temps = @ \ {q}]
       /\ temps' \in {temps, [temps EXCEPT ![Key(p)] = @ \ {q}]}
  /\ UNCHANGED <<manifest, files, lock, run, pc, call, seen, retried, fault, bounds, history>>

Collected(p) ==
  /\ pc[p] = "collect" /\ stale[p] = Nothing
  /\ Goto(p, "unlock")
  /\ UNCHANGED <<disk, lock, run, call, locals, bounds, history>>

Unlock(p) ==
  /\ pc[p] \in {"unlock", "failed"}
  /\ lock' = [lock EXCEPT ![Key(p)] = IF @ = p THEN Free ELSE @]
  /\ Return(p)
  /\ UNCHANGED <<disk, run, bounds, history>>

-----------------------------------------------------------------------------
Reading(p) ==
  ReadManifest(p) \/ ReadFails(p) \/ LoadBundle(p) \/ LoadFails(p) \/ Retry(p) \/ Miss(p)
Locking(p) == Acquire(p) \/ GoUnlocked(p) \/ SkipSave(p)
Writing(p) ==
  FoldIn(p) \/ FoldFails(p) \/ WriteTemp(p) \/ ReplaceBundle(p) \/ Publish(p) \/ WriteFails(p)
Cleaning(p) == List(p) \/ CollectFile(p) \/ CollectTemp(p) \/ Collected(p) \/ Unlock(p)

Step(p) == Reading(p) \/ Locking(p) \/ Writing(p) \/ Cleaning(p)

Next == \E p \in Processes :
  \/ \E a \in Artifacts : Compile(p, a)
  \/ \E m \in Models : Load(p, m)
  \/ Save(p) \/ Crash(p) \/ Step(p)

Spec == Init /\ [][Next]_vars

FairSpec == Spec /\ \A p \in Running : WF_vars(Step(p))

-----------------------------------------------------------------------------
(* What the runs that share a cache rely on. *)

\* The variables' types; torch's manager holds one copy of an identity, as
\* _merge_recorded_artifacts promises ("one copy per identity").
TypeOK ==
  /\ manifest \in [AllKeys -> Bundles]
  /\ files \in [AllKeys -> SUBSET Bundles]
  /\ temps \in [AllKeys -> SUBSET Processes]
  /\ lock \in [AllKeys -> Processes \cup {Free}]
  /\ models \in [Processes -> AllKeys]
  /\ recorded \in [Processes -> Bundles]
  /\ \A p \in Processes : \A a, b \in recorded[p] : MergeId(a) = MergeId(b) => a = b
  /\ hit \in [Processes -> BOOLEAN] /\ retried \in [Processes -> BOOLEAN]
  /\ fault \in [Processes -> BOOLEAN]
  /\ pc \in [Processes -> {"idle", "lock", "manifest", "bundle", "exists", "temp", "replace",
                           "publish", "list", "collect", "unlock", "failed"}]
  /\ call \in [Processes -> {"none", "load", "save"}]
  /\ seen \in [Processes -> Bundles]
  /\ stale \in [Processes -> [files : SUBSET Bundles, temps : SUBSET Processes]]
  /\ ops \in 0..MaxOps /\ crashes \in 0..MaxCrashes
  /\ spoiled \in [AllKeys -> BOOLEAN]
  /\ replaced \in [Processes -> {0, 1, 2, NoPair}]

\* _save_locked and its collection: as long as savers kept each other out,
\* the bundle the manifest names is there, at every step and after a crash
\* at any step.
PairConsistent ==
  \A k \in AllKeys : ~spoiled[k] /\ manifest[k] # NoBundle => manifest[k] \in files[k]

\* _merge_recorded_artifacts: a bundle on disk loses an identity another run
\* has saved only to a save that could not read or merge that bundle, which
\* the code puts up with ("best-effort: a failure may narrow the bundle").
FoldedShort(p, k) == Key(p) = k /\ pc[p] = "publish" /\ fault[p]
NeverNarrows ==
  [][\A k \in AllKeys :
       ~spoiled'[k] /\ ~(\E p \in Processes : FoldedShort(p, k) /\ pc'[p] = "list")
       => MergeIds(manifest[k]) \subseteq MergeIds(manifest'[k])]_vars

\* The tests that skip a write: when a save ends well, written or skipped,
\* everything new of this run is in the bundle on disk, a profile in this
\* run's version.
NothingOfThisRunLost ==
  \A p \in Processes :
    pc[p] \in {"list", "collect", "unlock"} /\ ~spoiled[Key(p)]
      => CompareIds(recorded[p]) \subseteq CompareIds(manifest[Key(p)])

\* The second read of megacache_load: a load that began with a bundle on disk
\* and could read what it opened finds none only if two saves ended under it.
MissNeedsTwoSaves ==
  [][\A p \in Processes :
       /\ pc[p] = "exists" /\ call'[p] = "none" /\ models'[p] # {}
       /\ ~fault[p] /\ ~spoiled[Key(p)]
       => replaced[p] \in {2, NoPair}]_vars

\* _LOCK_TIMEOUT: a saver that hangs with the lock hangs nobody else.
CallsReturn == \A p \in Running : pc[p] # "idle" ~> pc[p] = "idle"
=============================================================================
