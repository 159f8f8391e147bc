---------------------------- MODULE MegaCache_proof ----------------------------
(***************************************************************************)
(* The cached bundles of MegaCache, proved for any number of processes,    *)
(* models and artifacts, and of saves, loads and crashes.                  *)
(***************************************************************************)
EXTENDS MegaCache, TLAPS

\* A step of process p.
Act(p) ==
  \/ \E a \in Artifacts : Compile(p, a)
  \/ \E m \in Models : Load(p, m)
  \/ Save(p) \/ Crash(p) \/ Step(p)

LEMMA NextIsAct == [Next]_vars <=> (\E p \in Processes : Act(p)) \/ UNCHANGED vars
BY DEF Next, Act

-----------------------------------------------------------------------------
(* Types. *)

\* _merge_recorded_artifacts: "one copy per identity".
OneCopy(b) == \A a, c \in b : MergeId(a) = MergeId(c) => a = c

CopiesInv ==
  /\ \A k \in AllKeys : OneCopy(manifest[k])
  /\ \A p \in Processes : OneCopy(seen[p])

LEMMA MergeKeepsOneCopy ==
  ASSUME NEW own \in Bundles, NEW onDisk \in Bundles, OneCopy(own), OneCopy(onDisk)
  PROVE  Merged(own, onDisk) \in Bundles /\ OneCopy(Merged(own, onDisk))
<1>1. Merged(own, onDisk) \in Bundles
  BY DEF Merged, Bundles
<1>2. ASSUME NEW a \in Merged(own, onDisk), NEW c \in Merged(own, onDisk), MergeId(a) = MergeId(c)
      PROVE  a = c
  <2>1. CASE a \in own /\ c \in own
    BY <1>2, <2>1 DEF OneCopy
  <2>2. CASE a \in own /\ c \notin own
    BY <1>2, <2>2 DEF Merged, MergeIds
  <2>3. CASE a \notin own /\ c \in own
    BY <1>2, <2>3 DEF Merged, MergeIds
  <2>4. CASE a \notin own /\ c \notin own
    BY <1>2, <2>4 DEF Merged, OneCopy
  <2> QED
    BY <2>1, <2>2, <2>3, <2>4
<1> QED
  BY <1>1, <1>2 DEF OneCopy

\* What a save changes on disk is typed.
LEMMA DiskTyped ==
  ASSUME NEW p \in Processes,
         files \in [AllKeys -> SUBSET Bundles], temps \in [AllKeys -> SUBSET Processes],
         recorded[p] \in Bundles,
         WriteTemp(p) \/ ReplaceBundle(p) \/ CollectFile(p) \/ CollectTemp(p)
  PROVE  files' \in [AllKeys -> SUBSET Bundles] /\ temps' \in [AllKeys -> SUBSET Processes]
<1>1. PICK b, q :
        /\ files' \in {files, [files EXCEPT ![Key(p)] = @ \cup {recorded[p]}], [files EXCEPT ![Key(p)] = @ \ {b}]}
        /\ temps' \in {temps, [temps EXCEPT ![Key(p)] = @ \cup {p}], [temps EXCEPT ![Key(p)] = @ \ {q}]}
  <2>1. CASE WriteTemp(p)
    BY <2>1 DEF WriteTemp
  <2>2. CASE ReplaceBundle(p)
    BY <2>2 DEF ReplaceBundle
  <2>3. CASE CollectFile(p)
    BY <2>3 DEF CollectFile
  <2>4. CASE CollectTemp(p)
    BY <2>4 DEF CollectTemp
  <2> QED
    BY <2>1, <2>2, <2>3, <2>4
<1>2. /\ [files EXCEPT ![Key(p)] = @ \cup {recorded[p]}] \in [AllKeys -> SUBSET Bundles]
      /\ [files EXCEPT ![Key(p)] = @ \ {b}] \in [AllKeys -> SUBSET Bundles]
  OBVIOUS
<1>3. /\ [temps EXCEPT ![Key(p)] = @ \cup {p}] \in [AllKeys -> SUBSET Processes]
      /\ [temps EXCEPT ![Key(p)] = @ \ {q}] \in [AllKeys -> SUBSET Processes]
  OBVIOUS
<1> QED
  BY <1>1, <1>2, <1>3

LEMMA OneLessStale ==
  ASSUME NEW s \in [files : SUBSET Bundles, temps : SUBSET Processes], NEW X
  PROVE  /\ [s EXCEPT !.files = @ \ X] \in [files : SUBSET Bundles, temps : SUBSET Processes]
         /\ [s EXCEPT !.temps = @ \ X] \in [files : SUBSET Bundles, temps : SUBSET Processes]
<1>1. s.files \ X \in SUBSET Bundles /\ s.temps \ X \in SUBSET Processes
  OBVIOUS
<1> QED
  BY <1>1

\* What Return leaves is typed.
LEMMA ReturnTyped ==
  ASSUME TypeOK, CopiesInv, NEW p \in Processes, Return(p)
  PROVE  /\ pc' \in [Processes -> {"idle", "lock", "manifest", "bundle", "exists", "temp", "replace",
                                   "publish", "list", "collect", "unlock", "failed"}]
         /\ call' \in [Processes -> {"none", "load", "save"}]
         /\ seen' \in [Processes -> Bundles] /\ \A q \in Processes : OneCopy(seen'[q])
         /\ stale' \in [Processes -> [files : SUBSET Bundles, temps : SUBSET Processes]]
         /\ retried' \in [Processes -> BOOLEAN] /\ fault' \in [Processes -> BOOLEAN]
<1>1. NoBundle \in Bundles /\ OneCopy(NoBundle)
  BY DEF NoBundle, Bundles, OneCopy
<1>2. Nothing \in [files : SUBSET Bundles, temps : SUBSET Processes]
  BY DEF Nothing
<1> HIDE DEF Nothing
<1> QED
  BY <1>1, <1>2 DEF TypeOK, CopiesInv, Return, Goto

LEMMA TypesStay == TypeOK /\ CopiesInv /\ [Next]_vars => TypeOK' /\ CopiesInv'
<1> SUFFICES ASSUME TypeOK, CopiesInv, [Next]_vars PROVE TypeOK' /\ CopiesInv'
  OBVIOUS
<1>1. CASE UNCHANGED vars
  BY <1>1 DEF TypeOK, CopiesInv, vars, disk, run, locals, bounds, history
<1>2. ASSUME NEW p \in Processes, Act(p) PROVE TypeOK' /\ CopiesInv'
  <2> USE DEF TypeOK, CopiesInv, disk, run, locals, bounds, history, Goto
  <2>1. CASE \E a \in Artifacts : Compile(p, a)
    BY <2>1 DEF Compile, Bundles, MergeIds
  <2>2. ASSUME NEW m \in Models, Load(p, m) PROVE TypeOK' /\ CopiesInv'
    <3>1. models' \in [Processes -> AllKeys] /\ ops' \in 0..MaxOps
      BY <2>2, BoundsAssumption DEF Load, AllKeys
    <3>2. replaced' \in [Processes -> {0, 1, 2, NoPair}]
      BY <2>2 DEF Load
    <3> QED
      BY <2>2, <3>1, <3>2 DEF Load
  <2>3. CASE Save(p)
    BY <2>3, BoundsAssumption DEF Save
  <2>4. CASE Crash(p)
    <3>1. /\ models' \in [Processes -> AllKeys] /\ crashes' \in 0..MaxCrashes
          /\ recorded' \in [Processes -> Bundles]
          /\ hit' \in [Processes -> BOOLEAN] /\ lock' \in [AllKeys -> Processes \cup {Free}]
      BY <2>4, BoundsAssumption DEF Crash, AllKeys, Bundles
    <3>2. \A q \in Processes : \A a, b \in recorded'[q] : MergeId(a) = MergeId(b) => a = b
      BY <2>4 DEF Crash
    <3>3. TypeOK'
      BY <2>4, <3>1, <3>2, ReturnTyped DEF Crash
    <3>4. CopiesInv'
      BY <2>4, ReturnTyped DEF Crash
    <3> QED
      BY <3>3, <3>4
  <2>5. CASE ReadManifest(p)
    BY <2>5 DEF ReadManifest, Key
  <2>6. CASE LoadBundle(p)
    <3>1. CASE Return(p)
      <4>1. hit' \in [Processes -> BOOLEAN]
        BY <2>6 DEF LoadBundle
      <4> QED
        BY <2>6, <3>1, <4>1, ReturnTyped DEF LoadBundle
    <3>2. CASE Goto(p, "exists") /\ UNCHANGED <<hit, call, locals>>
      BY <2>6, <3>2 DEF LoadBundle
    <3> QED
      BY <2>6, <3>1, <3>2 DEF LoadBundle
  <2>7. CASE Retry(p)
    BY <2>7 DEF Retry
  <2>19. CASE ReadFails(p)
    BY <2>19 DEF ReadFails, NoBundle, Bundles, OneCopy
  <2>20. CASE LoadFails(p)
    BY <2>20, ReturnTyped DEF LoadFails
  <2>21. CASE FoldFails(p)
    <3>1. PICK own \in SUBSET Merged(recorded[p], seen[p]) : recorded' = [recorded EXCEPT ![p] = own]
      BY <2>21 DEF FoldFails
    <3>2. own \in Bundles /\ OneCopy(own)
      BY MergeKeepsOneCopy DEF OneCopy, Bundles
    <3>3. recorded' \in [Processes -> Bundles] /\ \A q \in Processes : OneCopy(recorded'[q])
      BY <3>1, <3>2 DEF OneCopy
    <3>4. pc' \in {[pc EXCEPT ![p] = "unlock"], [pc EXCEPT ![p] = "temp"]}
      BY <2>21 DEF FoldFails
    <3>5. fault' \in [Processes -> BOOLEAN]
      BY <2>21 DEF FoldFails
    <3> QED
      BY <2>21, <3>3, <3>4, <3>5 DEF FoldFails, OneCopy
  <2>8. CASE Miss(p) \/ SkipSave(p)
    BY <2>8, ReturnTyped DEF Miss, SkipSave
  <2>9. CASE Acquire(p) \/ GoUnlocked(p)
    <3>1. spoiled' = [spoiled EXCEPT ![Key(p)] = @ \/ Spoils(p)]
      BY <2>9 DEF Acquire, GoUnlocked
    <3>2. Spoils(p) \in BOOLEAN /\ Key(p) \in AllKeys
      BY DEF Spoils, Key
    <3>3. \A k \in AllKeys : spoiled'[k] \in BOOLEAN
      BY <3>1, <3>2
    <3>4. spoiled' \in [AllKeys -> BOOLEAN]
      BY <3>1, <3>3
    <3>5. lock' \in [AllKeys -> Processes \cup {Free}]
      BY <2>9, <3>2 DEF Acquire, GoUnlocked
    <3> QED
      BY <2>9, <3>4, <3>5 DEF Acquire, GoUnlocked
  <2>10. CASE FoldIn(p)
    <3>1. PICK e : e \in Bundles /\ OneCopy(e) /\ recorded' = [recorded EXCEPT ![p] = Merged(@, e)]
      BY <2>10 DEF FoldIn, FoldFails, NoBundle, Bundles, OneCopy
    <3>2. Merged(recorded[p], e) \in Bundles /\ OneCopy(Merged(recorded[p], e))
      BY <3>1, MergeKeepsOneCopy DEF OneCopy
    <3>3. /\ recorded' \in [Processes -> Bundles]
          /\ \A q \in Processes : OneCopy(recorded'[q])
      BY <3>1, <3>2 DEF OneCopy
    <3> QED
      BY <2>10, <3>3 DEF FoldIn, FoldFails, OneCopy
  <2>11. CASE WriteTemp(p)
    <3>1. temps' \in [AllKeys -> SUBSET Processes]
      BY <2>11, DiskTyped
    <3>2. pc' \in {[pc EXCEPT ![p] = "publish"], [pc EXCEPT ![p] = "replace"]}
      BY <2>11 DEF WriteTemp
    <3>3. pc' \in [Processes -> {"idle", "lock", "manifest", "bundle", "exists", "temp", "replace",
                                 "publish", "list", "collect", "unlock", "failed"}]
      BY <3>2
    <3>4. UNCHANGED <<manifest, files, lock, run, call, locals, bounds, history>>
      BY <2>11 DEF WriteTemp
    <3> QED
      BY <3>1, <3>3, <3>4
  <2>12. CASE ReplaceBundle(p)
    <3>1. temps' \in [AllKeys -> SUBSET Processes] /\ files' \in [AllKeys -> SUBSET Bundles]
      BY <2>12, DiskTyped
    <3>2. pc' \in {[pc EXCEPT ![p] = "publish"], [pc EXCEPT ![p] = "failed"]}
      BY <2>12 DEF ReplaceBundle
    <3> QED
      BY <2>12, <3>1, <3>2 DEF ReplaceBundle
  <2>13. CASE Publish(p)
    BY <2>13 DEF Publish, Key, More, NoPair, OneCopy
  <2>14. CASE WriteFails(p)
    BY <2>14 DEF WriteFails
  <2>15. CASE List(p)
    BY <2>15 DEF List, Superseded, Key
  <2>16. CASE CollectFile(p) \/ CollectTemp(p)
    <3>1. stale' \in [Processes -> [files : SUBSET Bundles, temps : SUBSET Processes]]
      <4> DEFINE S == [files : SUBSET Bundles, temps : SUBSET Processes]
      <4>1. CASE CollectFile(p)
        <5>1. PICK b : stale' = [stale EXCEPT ![p].files = @ \ {b}]
          BY <4>1 DEF CollectFile
        <5>2. [stale[p] EXCEPT !.files = @ \ {b}] \in S
          BY OneLessStale
        <5> HIDE DEF S
        <5> QED
          BY <5>1, <5>2 DEF S
      <4>2. CASE CollectTemp(p)
        <5>1. PICK q : stale' = [stale EXCEPT ![p].temps = @ \ {q}]
          BY <4>2 DEF CollectTemp
        <5>2. [stale[p] EXCEPT !.temps = @ \ {q}] \in S
          BY OneLessStale
        <5> HIDE DEF S
        <5> QED
          BY <5>1, <5>2 DEF S
      <4> QED
        BY <2>16, <4>1, <4>2
    <3>2. files' \in [AllKeys -> SUBSET Bundles] /\ temps' \in [AllKeys -> SUBSET Processes]
      BY <2>16, DiskTyped
    <3> QED
      BY <2>16, <3>1, <3>2 DEF CollectFile, CollectTemp
  <2>17. CASE Collected(p)
    BY <2>17 DEF Collected
  <2>18. CASE Unlock(p)
    BY <2>18, ReturnTyped DEF Unlock, Key
  <2> HIDE DEF TypeOK, CopiesInv
  <2> QED
    BY <1>2, <2>1, <2>2, <2>3, <2>4, <2>5, <2>6, <2>7, <2>8, <2>9, <2>10, <2>11, <2>12, <2>13, <2>14,
       <2>15, <2>16, <2>17, <2>18, <2>19, <2>20, <2>21 DEF Act, Step, Reading, Locking, Writing, Cleaning
<1> QED
  BY <1>1, <1>2, NextIsAct

-----------------------------------------------------------------------------
(* Where a process can be, and what a step of one leaves to the others. *)

PlaceInv == \A p \in Processes :
  /\ pc[p] = "idle" <=> call[p] = "none"
  /\ pc[p] \in {"lock", "temp", "replace", "publish", "list", "collect", "unlock", "failed"}
       => call[p] = "save"
  /\ pc[p] = "exists" => call[p] = "load"
  /\ retried[p] => call[p] = "load"

LEMMA OthersStay ==
  ASSUME TypeOK, NEW p \in Processes, NEW q \in Processes, p # q, Act(p)
  PROVE  /\ pc'[q] = pc[q] /\ call'[q] = call[q] /\ models'[q] = models[q]
         /\ recorded'[q] = recorded[q] /\ seen'[q] = seen[q] /\ stale'[q] = stale[q]
         /\ hit'[q] = hit[q] /\ retried'[q] = retried[q] /\ fault'[q] = fault[q]
<1> USE DEF TypeOK, run, locals, Goto, Return
<1>1. CASE (\E a \in Artifacts : Compile(p, a)) \/ (\E m \in Models : Load(p, m)) \/ Save(p) \/ Crash(p)
  BY <1>1 DEF Compile, Load, Save, Crash
<1>2. CASE Reading(p)
  BY <1>2 DEF Reading, ReadManifest, ReadFails, LoadBundle, LoadFails, Retry, Miss
<1>3. CASE Locking(p)
  BY <1>3 DEF Locking, Acquire, GoUnlocked, SkipSave
<1>4. CASE Writing(p)
  BY <1>4 DEF Writing, FoldIn, FoldFails, WriteTemp, ReplaceBundle, Publish, WriteFails
<1>5. CASE List(p) \/ CollectFile(p) \/ CollectTemp(p)
  BY <1>5 DEF List, CollectFile, CollectTemp
<1>6. CASE Collected(p) \/ Unlock(p)
  BY <1>6 DEF Collected, Unlock
<1> HIDE DEF TypeOK, run, locals, Goto, Return
<1> QED
  BY <1>1, <1>2, <1>3, <1>4, <1>5, <1>6 DEF Act, Step, Cleaning

\* Where a step takes the process that makes it.
LEMMA PlaceStays == TypeOK /\ PlaceInv /\ [Next]_vars => PlaceInv'
<1> SUFFICES ASSUME TypeOK, PlaceInv, [Next]_vars PROVE PlaceInv'
  OBVIOUS
<1>1. CASE UNCHANGED vars
  BY <1>1 DEF PlaceInv, vars, locals
<1>2. ASSUME NEW p \in Processes, Act(p), NEW q \in Processes
      PROVE  /\ pc'[q] = "idle" <=> call'[q] = "none"
             /\ pc'[q] \in {"lock", "temp", "replace", "publish", "list", "collect", "unlock", "failed"}
                  => call'[q] = "save"
             /\ pc'[q] = "exists" => call'[q] = "load"
             /\ retried'[q] => call'[q] = "load"
  <2>1. CASE p # q
    BY <1>2, <2>1, OthersStay DEF PlaceInv
  <2>2. CASE p = q
    <3> USE <2>2 DEF TypeOK, PlaceInv, Goto, Return, locals
    <3>1. CASE (\E a \in Artifacts : Compile(p, a)) \/ (\E m \in Models : Load(p, m)) \/ Save(p) \/ Crash(p)
      BY <3>1 DEF Compile, Load, Save, Crash
    <3>2. CASE Reading(p)
      BY <3>2 DEF Reading, ReadManifest, ReadFails, LoadBundle, LoadFails, Retry, Miss
    <3>3. CASE Locking(p)
      BY <3>3 DEF Locking, Acquire, GoUnlocked, SkipSave
    <3>4. CASE Writing(p)
      BY <3>4 DEF Writing, FoldIn, FoldFails, WriteTemp, ReplaceBundle, Publish, WriteFails
    <3>5. CASE Cleaning(p)
      BY <3>5 DEF Cleaning, List, CollectFile, CollectTemp, Collected, Unlock
    <3> HIDE DEF TypeOK, PlaceInv, Goto, Return, locals
    <3> QED
      BY <1>2, <3>1, <3>2, <3>3, <3>4, <3>5 DEF Act, Step
  <2> QED
    BY <2>1, <2>2
<1> QED
  BY <1>1, <1>2, NextIsAct DEF PlaceInv

-----------------------------------------------------------------------------
(* The lock: two savers at work on one key have spoiled it. *)

LockInv ==
  /\ \A p \in Processes : InSection(p) /\ p \notin Unlocked => lock[Key(p)] = p
  /\ \A p, q \in Processes :
       p # q /\ InSection(p) /\ InSection(q) /\ Key(p) = Key(q) => spoiled[Key(p)]

\* What a step may do to locks and spoiled keys.
LEMMA LockSteps ==
  ASSUME TypeOK, NEW p \in Processes, Act(p)
  PROVE  /\ \A k \in AllKeys : spoiled[k] => spoiled'[k]
         /\ \A k \in AllKeys : lock'[k] # lock[k] => lock[k] \in {Free, p}
         /\ InSection(p)' => (models'[p] = models[p] /\ InSection(p)) \/ Acquire(p) \/ GoUnlocked(p)
         /\ InSection(p)' /\ InSection(p) => UNCHANGED <<lock, spoiled>>
         /\ UNCHANGED spoiled \/ Acquire(p) \/ GoUnlocked(p)
<1> USE DEF TypeOK, run, locals, history, Goto, Return, InSection
<1>1. CASE (\E a \in Artifacts : Compile(p, a)) \/ (\E m \in Models : Load(p, m)) \/ Save(p) \/ Crash(p)
  BY <1>1 DEF Compile, Load, Save, Crash
<1>2. CASE Reading(p)
  BY <1>2 DEF Reading, ReadManifest, ReadFails, LoadBundle, LoadFails, Retry, Miss
<1>3. CASE Locking(p)
  BY <1>3 DEF Locking, Acquire, GoUnlocked, SkipSave, LockFree, Key
<1>4. CASE Writing(p)
  BY <1>4 DEF Writing, FoldIn, FoldFails, WriteTemp, ReplaceBundle, Publish, WriteFails
<1>5. CASE Cleaning(p)
  BY <1>5 DEF Cleaning, List, CollectFile, CollectTemp, Collected, Unlock, Key
<1> HIDE DEF TypeOK, run, locals, history, Goto, Return, InSection
<1> QED
  BY <1>1, <1>2, <1>3, <1>4, <1>5 DEF Act, Step

LEMMA LockStays == LockInv /\ TypeOK /\ [Next]_vars => LockInv'
<1> SUFFICES ASSUME LockInv, TypeOK, [Next]_vars PROVE LockInv'
  OBVIOUS
<1>1. CASE UNCHANGED vars
  BY <1>1 DEF LockInv, InSection, Key, vars, run, history
<1>2. ASSUME NEW p \in Processes, Act(p) PROVE LockInv'
  <2>1. ASSUME NEW q \in Processes, p # q
        PROVE  InSection(q)' = InSection(q) /\ Key(q)' = Key(q) /\ Key(q) \in AllKeys
    BY <1>2, <2>1, OthersStay DEF InSection, Key, TypeOK
  <2>2. ASSUME NEW q \in Processes, InSection(q)', q \notin Unlocked PROVE lock'[Key(q)'] = q
    <3>1. CASE p # q
      <4>1. lock[Key(q)] = q /\ q # Free
        BY <2>1, <2>2, <3>1, FreeAssumption DEF LockInv
      <4> QED
        BY <1>2, <2>1, <3>1, <4>1, LockSteps
    <3>2. CASE p = q /\ Acquire(p)
      BY <3>2 DEF Acquire, TypeOK, Key, run
    <3>3. CASE p = q /\ ~Acquire(p)
      <4>1. models'[p] = models[p] /\ InSection(p) /\ UNCHANGED lock
        BY <1>2, <2>2, <3>3, LockSteps DEF GoUnlocked
      <4> QED
        BY <2>2, <3>3, <4>1 DEF LockInv, Key
    <3> QED
      BY <3>1, <3>2, <3>3
  <2>3. ASSUME NEW q \in Processes, p # q, InSection(p)', InSection(q)', Key(p)' = Key(q)'
        PROVE  spoiled'[Key(p)']
    <3>1. CASE models'[p] = models[p] /\ InSection(p)
      BY <1>2, <2>1, <2>3, <3>1, LockSteps DEF LockInv, Key
    <3>2. CASE Acquire(p)
      <4>1. Key(p)' = Key(p) /\ lock[Key(p)] = Free
        BY <3>2 DEF Acquire, Key, LockFree, run
      <4>2. InSection(q) /\ Key(q) = Key(p) /\ q \in Unlocked
        BY <2>1, <2>3, <4>1, FreeAssumption DEF LockInv
      <4>3. Spoils(p)
        BY <2>3, <4>2 DEF Spoils
      <4> QED
        BY <2>1, <2>3, <3>2, <4>1, <4>2, <4>3 DEF Acquire, TypeOK
    <3>3. CASE GoUnlocked(p)
      <4>1. Key(p)' = Key(p) /\ p \in Unlocked
        BY <3>3 DEF GoUnlocked, Key, run
      <4>2. InSection(q) /\ Key(q) = Key(p)
        BY <2>1, <2>3, <4>1
      <4>3. Spoils(p)
        BY <2>3, <4>1, <4>2 DEF Spoils
      <4> QED
        BY <2>1, <2>3, <3>3, <4>1, <4>2, <4>3 DEF GoUnlocked, TypeOK
    <3> QED
      BY <1>2, <2>3, <3>1, <3>2, <3>3, LockSteps
  <2>4. ASSUME NEW q \in Processes, NEW r \in Processes, p # q, p # r, q # r,
               InSection(q)', InSection(r)', Key(q)' = Key(r)'
        PROVE  spoiled'[Key(q)']
    BY <1>2, <2>1, <2>4, LockSteps DEF LockInv
  <2>5. ASSUME NEW q \in Processes, NEW r \in Processes, q # r,
               InSection(q)', InSection(r)', Key(q)' = Key(r)'
        PROVE  spoiled'[Key(q)']
    BY <2>3, <2>4, <2>5
  <2> QED
    BY <2>2, <2>5 DEF LockInv
<1> QED
  BY <1>1, <1>2, NextIsAct

-----------------------------------------------------------------------------
(* The pair on disk and the save at work on it. *)

SaveInv == \A p \in Processes : InSection(p) /\ ~spoiled[Key(p)] =>
  /\ pc[p] = "bundle" => seen[p] = manifest[Key(p)] \/ (fault[p] /\ seen[p] = NoBundle)
  /\ pc[p] \in {"temp", "replace", "publish"} =>
       /\ recorded[p] # NoBundle
       /\ fault[p] \/ MergeIds(manifest[Key(p)]) \subseteq MergeIds(recorded[p])
  /\ pc[p] = "publish" => recorded[p] \in files[Key(p)]
  /\ pc[p] \in {"list", "collect"} => manifest[Key(p)] = recorded[p]
  /\ pc[p] = "collect" => recorded[p] \notin stale[p].files
  /\ pc[p] = "unlock" => CompareIds(recorded[p]) \subseteq CompareIds(manifest[Key(p)])

\* Only a save changes the disk, and only under its own key.
LEMMA DiskSteps ==
  ASSUME TypeOK, PlaceInv, NEW p \in Processes, Act(p), NEW k \in AllKeys
  PROVE  \/ manifest'[k] = manifest[k] /\ files'[k] = files[k]
         \/ k = Key(p) /\ InSection(p) /\ UNCHANGED <<models, spoiled>>
<1> USE DEF TypeOK, PlaceInv, disk, run, history, InSection
<1>1. CASE (\E a \in Artifacts : Compile(p, a)) \/ (\E m \in Models : Load(p, m)) \/ Save(p) \/ Crash(p)
  BY <1>1 DEF Compile, Load, Save, Crash
<1>2. CASE Reading(p)
  BY <1>2 DEF Reading, ReadManifest, ReadFails, LoadBundle, LoadFails, Retry, Miss
<1>3. CASE Locking(p)
  BY <1>3 DEF Locking, Acquire, GoUnlocked, SkipSave
<1>4. CASE FoldIn(p) \/ FoldFails(p) \/ WriteTemp(p) \/ WriteFails(p)
  BY <1>4 DEF FoldIn, FoldFails, WriteTemp, WriteFails
<1>5. CASE ReplaceBundle(p)
  BY <1>5 DEF ReplaceBundle
<1>6. CASE Publish(p)
  BY <1>6 DEF Publish
<1>7. CASE CollectFile(p)
  BY <1>7 DEF CollectFile
<1>8. CASE List(p) \/ CollectTemp(p) \/ Collected(p) \/ Unlock(p)
  BY <1>8 DEF List, CollectTemp, Collected, Unlock
<1> HIDE DEF TypeOK, PlaceInv, disk, run, history, InSection
<1> QED
  BY <1>1, <1>2, <1>3, <1>4, <1>5, <1>6, <1>7, <1>8 DEF Act, Step, Writing, Cleaning

CacheInv == TypeOK /\ CopiesInv /\ PlaceInv /\ LockInv /\ SaveInv /\ PairConsistent

\* The fold of the bundle on disk leaves none of its identities out.
LEMMA MergeCovers ==
  ASSUME NEW own, NEW onDisk
  PROVE  MergeIds(onDisk) \subseteq MergeIds(Merged(own, onDisk))
BY DEF Merged, MergeIds

\* The saver at work, p, and what it is about to write.
LEMMA SaverSteps ==
  ASSUME CacheInv, NEW p \in Processes, Act(p), InSection(p)', ~spoiled'[Key(p)']
  PROVE  /\ pc'[p] = "bundle" => seen'[p] = manifest'[Key(p)'] \/ (fault'[p] /\ seen'[p] = NoBundle)
         /\ pc'[p] \in {"temp", "replace", "publish"} =>
              /\ recorded'[p] # NoBundle
              /\ fault'[p] \/ MergeIds(manifest'[Key(p)']) \subseteq MergeIds(recorded'[p])
         /\ pc'[p] = "publish" => recorded'[p] \in files'[Key(p)']
         /\ pc'[p] \in {"list", "collect"} => manifest'[Key(p)'] = recorded'[p]
         /\ pc'[p] = "collect" => recorded'[p] \notin stale'[p].files
         /\ pc'[p] = "unlock" => CompareIds(recorded'[p]) \subseteq CompareIds(manifest'[Key(p)'])
<1> DEFINE k == Key(p)
<1>1. TypeOK /\ PlaceInv /\ SaveInv /\ PairConsistent
  BY DEF CacheInv
<1>2. CASE Acquire(p) \/ GoUnlocked(p)
  BY <1>1, <1>2 DEF Acquire, GoUnlocked, Goto, TypeOK
<1>3. CASE ~Acquire(p) /\ ~GoUnlocked(p)
  <2>1. /\ InSection(p) /\ Key(p)' = k /\ k \in AllKeys /\ ~spoiled[k]
    BY <1>1, <1>3, LockSteps DEF Key, TypeOK
  <2>2. call[p] = "save" /\ pc[p] # "idle" /\ pc'[p] # "idle"
    BY <2>1 DEF InSection
  <2>3. /\ pc[p] = "bundle" => seen[p] = manifest[k] \/ (fault[p] /\ seen[p] = NoBundle)
        /\ pc[p] \in {"temp", "replace", "publish"} =>
             /\ recorded[p] # NoBundle
             /\ fault[p] \/ MergeIds(manifest[k]) \subseteq MergeIds(recorded[p])
        /\ pc[p] = "publish" => recorded[p] \in files[k]
        /\ pc[p] \in {"list", "collect"} => manifest[k] = recorded[p]
        /\ pc[p] = "collect" => recorded[p] \notin stale[p].files
        /\ manifest[k] # NoBundle => manifest[k] \in files[k]
    BY <1>1, <2>1 DEF SaveInv, PairConsistent
  <2> HIDE DEF k
  <2>4. CASE ReadManifest(p)
    BY <1>1, <2>1, <2>2, <2>4 DEF ReadManifest, Goto, TypeOK, disk, k
  <2>5. CASE FoldIn(p)
    <3> DEFINE e == IF seen[p] \in files[k] THEN seen[p] ELSE NoBundle
               own == Merged(recorded[p], e)
    <3>1. /\ recorded'[p] = own /\ UNCHANGED <<manifest, files>>
          /\ pc'[p] = IF own = {} \/ AlreadyHeld(own, e) THEN "unlock" ELSE "temp"
      BY <1>1, <2>5 DEF FoldIn, FoldFails, Goto, TypeOK, disk, k
    <3>2. e = manifest[k] \/ (fault[p] /\ e = NoBundle)
      BY <2>3, <2>5 DEF FoldIn
    <3>5. fault'[p] = fault[p]
      BY <2>5 DEF FoldIn, locals
    <3>6. e = NoBundle /\ (own = {} \/ AlreadyHeld(own, e)) => CompareIds(own) = {}
      BY DEF AlreadyHeld, CompareIds
    <3>3. MergeIds(e) \subseteq MergeIds(own)
      BY MergeCovers
    <3>4. own = {} \/ AlreadyHeld(own, e) => CompareIds(own) \subseteq CompareIds(e)
      BY DEF AlreadyHeld, CompareIds
    <3> HIDE DEF e, own
    <3> QED
      BY <2>1, <3>1, <3>2, <3>3, <3>4, <3>5, <3>6 DEF NoBundle
  <2>16. CASE FoldFails(p)
    <3>1. PICK own \in SUBSET Merged(recorded[p], seen[p]) :
            /\ recorded'[p] = own /\ UNCHANGED <<manifest, files>> /\ fault'[p]
            /\ pc'[p] = IF own = {} \/ own = seen[p] THEN "unlock" ELSE "temp"
      BY <1>1, <2>16 DEF FoldFails, Goto, TypeOK, disk, k
    <3>2. seen[p] = manifest[k]
      BY <2>3, <2>16 DEF FoldFails
    <3>3. CompareIds({}) = {}
      BY DEF CompareIds
    <3> QED
      BY <2>1, <3>1, <3>2, <3>3 DEF NoBundle
  <2>17. CASE ReadFails(p)
    BY <1>1, <2>1, <2>2, <2>17 DEF ReadFails, Goto, TypeOK
  <2>6. CASE WriteTemp(p)
    BY <1>1, <2>1, <2>3, <2>6 DEF WriteTemp, Goto, TypeOK, run, locals, k
  <2>7. CASE ReplaceBundle(p)
    BY <1>1, <2>1, <2>3, <2>7 DEF ReplaceBundle, Goto, TypeOK, run, locals, k
  <2>8. CASE Publish(p)
    BY <1>1, <2>1, <2>3, <2>8 DEF Publish, Goto, TypeOK, run, locals, k
  <2>9. CASE WriteFails(p)
    BY <1>1, <2>9 DEF WriteFails, Goto, TypeOK
  <2>10. CASE List(p)
    BY <1>1, <2>1, <2>3, <2>10 DEF List, Superseded, Goto, TypeOK, run, disk, k
  <2>11. CASE CollectFile(p)
    BY <1>1, <2>1, <2>3, <2>11 DEF CollectFile, TypeOK, run, k
  <2>12. CASE CollectTemp(p)
    BY <1>1, <2>1, <2>3, <2>12 DEF CollectTemp, TypeOK, run, k
  <2>13. CASE Collected(p)
    BY <1>1, <2>1, <2>3, <2>13 DEF Collected, Goto, TypeOK, run, disk, k
  <2>14. CASE LoadBundle(p) \/ LoadFails(p) \/ Retry(p) \/ Miss(p) \/ SkipSave(p) \/ Unlock(p)
    BY <1>1, <2>1, <2>2, <2>14 DEF LoadBundle, LoadFails, Retry, Miss, SkipSave, TimesOut, Unlock, Return, Goto,
       PlaceInv, TypeOK, InSection
  <2>15. CASE (\E a \in Artifacts : Compile(p, a)) \/ (\E m \in Models : Load(p, m)) \/ Save(p) \/ Crash(p)
    BY <1>1, <2>2, <2>15 DEF Compile, Load, Save, Crash, Return, Goto, TypeOK
  <2> QED
    BY <1>3, <2>4, <2>5, <2>6, <2>7, <2>8, <2>9, <2>10, <2>11, <2>12, <2>13, <2>14, <2>15, <2>16, <2>17
       DEF Act, Step, Reading, Locking, Writing, Cleaning
<1> QED
  BY <1>2, <1>3

LEMMA SavesStay == CacheInv /\ [Next]_vars => SaveInv'
<1> SUFFICES ASSUME CacheInv, [Next]_vars PROVE SaveInv'
  OBVIOUS
<1>1. CASE UNCHANGED vars
  BY <1>1 DEF CacheInv, SaveInv, InSection, Key, vars, disk, run, locals, history
<1>2. ASSUME NEW p \in Processes, Act(p) PROVE SaveInv'
  <2>1. TypeOK /\ PlaceInv /\ LockInv /\ SaveInv
    BY DEF CacheInv
  <2>2. ASSUME NEW q \in Processes, p # q, InSection(q)', ~spoiled'[Key(q)']
        PROVE  /\ InSection(q) /\ ~spoiled[Key(q)] /\ Key(q)' = Key(q)
               /\ pc'[q] = pc[q] /\ seen'[q] = seen[q] /\ recorded'[q] = recorded[q] /\ stale'[q] = stale[q]
               /\ fault'[q] = fault[q]
               /\ manifest'[Key(q)] = manifest[Key(q)] /\ files'[Key(q)] = files[Key(q)]
    <3>1. /\ pc'[q] = pc[q] /\ call'[q] = call[q] /\ models'[q] = models[q]
          /\ seen'[q] = seen[q] /\ recorded'[q] = recorded[q] /\ stale'[q] = stale[q]
          /\ fault'[q] = fault[q]
      BY <1>2, <2>1, <2>2, OthersStay
    <3>2. InSection(q) /\ Key(q)' = Key(q) /\ Key(q) \in AllKeys
      BY <2>1, <2>2, <3>1 DEF InSection, Key, TypeOK
    <3>3. ~spoiled[Key(q)]
      BY <1>2, <2>1, <2>2, <3>2, LockSteps
    <3>4. ~(InSection(p) /\ Key(p) = Key(q))
      BY <2>1, <2>2, <3>2, <3>3 DEF LockInv
    <3>5. manifest'[Key(q)] = manifest[Key(q)] /\ files'[Key(q)] = files[Key(q)]
      BY <1>2, <2>1, <3>2, <3>4, DiskSteps
    <3> QED
      BY <3>1, <3>2, <3>3, <3>5
  <2>3. ASSUME NEW q \in Processes, InSection(q)', ~spoiled'[Key(q)']
        PROVE  /\ pc'[q] = "bundle" => seen'[q] = manifest'[Key(q)'] \/ (fault'[q] /\ seen'[q] = NoBundle)
               /\ pc'[q] \in {"temp", "replace", "publish"} =>
                    /\ recorded'[q] # NoBundle
                    /\ fault'[q] \/ MergeIds(manifest'[Key(q)']) \subseteq MergeIds(recorded'[q])
               /\ pc'[q] = "publish" => recorded'[q] \in files'[Key(q)']
               /\ pc'[q] \in {"list", "collect"} => manifest'[Key(q)'] = recorded'[q]
               /\ pc'[q] = "collect" => recorded'[q] \notin stale'[q].files
               /\ pc'[q] = "unlock" => CompareIds(recorded'[q]) \subseteq CompareIds(manifest'[Key(q)'])
    <3>1. CASE p # q
      <4> DEFINE W(b) == MergeIds(b)
                 C(b) == CompareIds(b)
      <4>1. /\ InSection(q) /\ ~spoiled[Key(q)] /\ Key(q)' = Key(q)
            /\ pc'[q] = pc[q] /\ seen'[q] = seen[q] /\ recorded'[q] = recorded[q] /\ stale'[q] = stale[q]
            /\ fault'[q] = fault[q]
            /\ manifest'[Key(q)] = manifest[Key(q)] /\ files'[Key(q)] = files[Key(q)]
        BY <2>2, <2>3, <3>1
      <4>2. /\ pc[q] = "bundle" => seen[q] = manifest[Key(q)] \/ (fault[q] /\ seen[q] = NoBundle)
            /\ pc[q] \in {"temp", "replace", "publish"} =>
                 recorded[q] # NoBundle /\ (fault[q] \/ W(manifest[Key(q)]) \subseteq W(recorded[q]))
            /\ pc[q] = "publish" => recorded[q] \in files[Key(q)]
            /\ pc[q] \in {"list", "collect"} => manifest[Key(q)] = recorded[q]
            /\ pc[q] = "collect" => recorded[q] \notin stale[q].files
            /\ pc[q] = "unlock" => C(recorded[q]) \subseteq C(manifest[Key(q)])
        BY <2>1, <4>1 DEF SaveInv
      <4> QED
        BY <4>1, <4>2
    <3>2. CASE p = q
      BY <1>2, <2>3, <3>2, SaverSteps
    <3> QED
      BY <3>1, <3>2
  <2> QED
    BY <2>3 DEF SaveInv, MergeIds, CompareIds
<1> QED
  BY <1>1, <1>2, NextIsAct

LEMMA PairStays == CacheInv /\ [Next]_vars => PairConsistent'
<1> SUFFICES ASSUME CacheInv, [Next]_vars PROVE PairConsistent'
  OBVIOUS
<1>1. CASE UNCHANGED vars
  BY <1>1 DEF CacheInv, PairConsistent, vars, disk, history
<1>2. ASSUME NEW p \in Processes, Act(p), NEW k \in AllKeys, ~spoiled'[k], manifest'[k] # NoBundle
      PROVE  manifest'[k] \in files'[k]
  <2>1. TypeOK /\ PlaceInv /\ SaveInv /\ PairConsistent
    BY DEF CacheInv
  <2>2. ~spoiled[k]
    BY <1>2, <2>1, LockSteps
  <2>3. CASE manifest'[k] = manifest[k] /\ files'[k] = files[k]
    BY <1>2, <2>1, <2>2, <2>3 DEF PairConsistent
  <2>4. CASE k = Key(p) /\ InSection(p)
    <3>1. /\ pc[p] = "publish" => recorded[p] \in files[k]
          /\ pc[p] = "collect" => manifest[k] = recorded[p] /\ recorded[p] \notin stale[p].files
          /\ manifest[k] # NoBundle => manifest[k] \in files[k]
      BY <2>1, <2>2, <2>4 DEF SaveInv, PairConsistent
    <3>2. CASE manifest' = manifest /\ (files' = files \/ ReplaceBundle(p))
      BY <1>2, <2>1, <2>4, <3>1, <3>2 DEF ReplaceBundle, TypeOK
    <3>3. CASE Publish(p)
      BY <2>1, <2>4, <3>1, <3>3 DEF Publish, TypeOK
    <3>4. CASE CollectFile(p)
      BY <1>2, <2>1, <2>4, <3>1, <3>4 DEF CollectFile, TypeOK
    <3> QED
      BY <1>2, <3>2, <3>3, <3>4 DEF Act, Step, Reading, Locking, Writing, Cleaning, disk, Compile, Load, Save,
         Crash, ReadManifest, ReadFails, LoadBundle, LoadFails, Retry, Miss, Acquire, GoUnlocked, SkipSave, FoldIn, FoldFails, WriteTemp,
         ReplaceBundle, WriteFails, List, CollectTemp, Collected, Unlock
  <2> QED
    BY <1>2, <2>1, <2>3, <2>4, DiskSteps
<1> QED
  BY <1>1, <1>2, NextIsAct DEF PairConsistent

-----------------------------------------------------------------------------
(* The load that reads the pair twice. *)

LoadInv == \A p \in Processes : call[p] = "load" /\ ~spoiled[Key(p)] /\ replaced[p] # NoPair =>
  /\ manifest[Key(p)] # NoBundle
  /\ replaced[p] = 0 => fault[p] \/ ~retried[p]
  /\ ~fault[p] /\ (replaced[p] = 0 \/ (replaced[p] = 1 /\ retried[p])) =>
       pc[p] # "exists" /\ (pc[p] = "bundle" => seen[p] = manifest[Key(p)])

\* The loader, p, itself.
LEMMA LoaderSteps ==
  ASSUME CacheInv, LoadInv, NEW p \in Processes, Act(p), call'[p] = "load",
         ~spoiled'[Key(p)'], replaced'[p] # NoPair
  PROVE  /\ manifest'[Key(p)'] # NoBundle
         /\ replaced'[p] = 0 => fault'[p] \/ ~retried'[p]
         /\ ~fault'[p] /\ (replaced'[p] = 0 \/ (replaced'[p] = 1 /\ retried'[p])) =>
              pc'[p] # "exists" /\ (pc'[p] = "bundle" => seen'[p] = manifest'[Key(p)'])
<1>1. TypeOK /\ PlaceInv /\ PairConsistent
  BY DEF CacheInv
<1>2. ASSUME NEW m \in Models, Load(p, m)
      PROVE  /\ manifest'[Key(p)'] # NoBundle /\ pc'[p] = "manifest" /\ ~retried'[p]
  <2>1. ~retried[p] /\ UNCHANGED <<disk, locals>> /\ pc'[p] = "manifest"
    BY <1>1, <1>2 DEF Load, Goto, PlaceInv, TypeOK
  <2>2. replaced'[p] = IF manifest[models'[p]] = NoBundle THEN NoPair ELSE 0
    BY <1>1, <1>2 DEF Load, TypeOK
  <2> QED
    BY <2>1, <2>2 DEF disk, locals, Key
<1>3. CASE ReadManifest(p) \/ ReadFails(p) \/ LoadBundle(p) \/ Retry(p)
  <2>1. /\ UNCHANGED <<manifest, files, models, spoiled, replaced>>
        /\ call[p] = "load" /\ Key(p)' = Key(p) /\ Key(p) \in AllKeys
    BY <1>1, <1>3 DEF ReadManifest, ReadFails, LoadBundle, Retry, Return, TypeOK, disk, run, history, Key
  <2>2. /\ manifest[Key(p)] # NoBundle /\ manifest[Key(p)] \in files[Key(p)]
        /\ replaced[p] = 0 => fault[p] \/ ~retried[p]
        /\ ~fault[p] /\ (replaced[p] = 0 \/ (replaced[p] = 1 /\ retried[p])) =>
             pc[p] # "exists" /\ (pc[p] = "bundle" => seen[p] = manifest[Key(p)])
    BY <1>1, <2>1 DEF LoadInv, PairConsistent
  <2>3. CASE ReadManifest(p)
    BY <1>1, <2>1, <2>2, <2>3 DEF ReadManifest, Goto, TypeOK
  <2>4. CASE LoadBundle(p)
    BY <1>1, <2>1, <2>2, <2>4 DEF LoadBundle, Goto, Return, TypeOK, locals
  <2>5. CASE Retry(p)
    BY <1>1, <2>1, <2>2, <2>5 DEF Retry, Goto, TypeOK
  <2>6. CASE ReadFails(p)
    <3>1. fault'[p]
      BY <1>1, <2>6 DEF ReadFails, TypeOK
    <3> QED
      BY <2>1, <2>2, <2>6, <3>1
  <2> QED
    BY <1>3, <2>3, <2>4, <2>5, <2>6
<1>4. CASE \E a \in Artifacts : Compile(p, a)
  BY <1>1, <1>4 DEF Compile, PlaceInv, TypeOK
<1>5. CASE Save(p) \/ Crash(p) \/ LoadFails(p) \/ Miss(p) \/ Cleaning(p)
  BY <1>1, <1>5 DEF Save, Crash, LoadFails, Miss, Cleaning, List, CollectFile, CollectTemp, Collected, Unlock, Return,
     PlaceInv, TypeOK
<1>6. CASE Locking(p) \/ Writing(p)
  BY <1>1, <1>6 DEF Locking, Acquire, GoUnlocked, SkipSave, TimesOut, Writing, FoldIn, FoldFails, WriteTemp, ReplaceBundle,
     Publish, WriteFails, Return, PlaceInv, TypeOK
<1> QED
  BY <1>2, <1>3, <1>4, <1>5, <1>6 DEF Act, Step, Reading

\* Another process, p, while q loads.
LEMMA OthersAndLoader ==
  ASSUME CacheInv, NEW p \in Processes, NEW q \in Processes, p # q, Act(p),
         call[q] = "load", ~spoiled[Key(q)]
  PROVE  \/ manifest'[Key(q)] = manifest[Key(q)] /\ replaced'[q] = replaced[q]
         \/ manifest'[Key(q)] # NoBundle /\ replaced'[q] = More(replaced[q])
<1>1. TypeOK /\ PlaceInv /\ SaveInv
  BY DEF CacheInv
<1>2. CASE Publish(p)
  <2>1. CASE Key(p) = Key(q)
    <3>1. recorded[p] # NoBundle
      BY <1>1, <1>2, <2>1 DEF Publish, SaveInv, InSection, PlaceInv
    <3> QED
      BY <1>1, <1>2, <2>1, <3>1 DEF Publish, TypeOK, Key
  <2>2. CASE Key(p) # Key(q)
    BY <1>1, <1>2, <2>2 DEF Publish, TypeOK
  <2> QED
    BY <2>1, <2>2
<1>3. CASE ~Publish(p)
  <2>1. manifest' = manifest
    BY <1>3 DEF Act, Step, Reading, Locking, Writing, Cleaning, disk, Compile, Load, Save, Crash,
       ReadManifest, ReadFails, LoadBundle, LoadFails, Retry, Miss, Acquire, GoUnlocked, SkipSave, FoldIn, FoldFails, WriteTemp,
       ReplaceBundle, WriteFails, List, CollectFile, CollectTemp, Collected, Unlock
  <2>2. replaced'[q] = replaced[q]
    BY <1>1, <1>3 DEF Act, Step, Reading, Locking, Writing, Cleaning, history, Compile, Load, Save, Crash,
       ReadManifest, ReadFails, LoadBundle, LoadFails, Retry, Miss, Acquire, GoUnlocked, SkipSave, FoldIn, FoldFails, WriteTemp,
       ReplaceBundle, WriteFails, List, CollectFile, CollectTemp, Collected, Unlock, TypeOK
  <2> QED
    BY <2>1, <2>2
<1> QED
  BY <1>2, <1>3

LEMMA LoadsStay == CacheInv /\ LoadInv /\ [Next]_vars => LoadInv'
<1> SUFFICES ASSUME CacheInv, LoadInv, [Next]_vars PROVE LoadInv'
  OBVIOUS
<1>1. CASE UNCHANGED vars
  BY <1>1 DEF LoadInv, Key, vars, disk, run, locals, history
<1>2. ASSUME NEW p \in Processes, Act(p) PROVE LoadInv'
  <2>1. ASSUME NEW q \in Processes, call'[q] = "load", ~spoiled'[Key(q)'], replaced'[q] # NoPair
        PROVE  /\ manifest'[Key(q)'] # NoBundle
               /\ replaced'[q] = 0 => fault'[q] \/ ~retried'[q]
               /\ ~fault'[q] /\ (replaced'[q] = 0 \/ (replaced'[q] = 1 /\ retried'[q])) =>
                    pc'[q] # "exists" /\ (pc'[q] = "bundle" => seen'[q] = manifest'[Key(q)'])
    <3>1. CASE p = q
      BY <1>2, <2>1, <3>1, LoaderSteps
    <3>2. CASE p # q
      <4>1. /\ pc'[q] = pc[q] /\ call[q] = "load" /\ Key(q)' = Key(q) /\ Key(q) \in AllKeys
            /\ seen'[q] = seen[q] /\ retried'[q] = retried[q] /\ fault'[q] = fault[q]
        BY <1>2, <2>1, <3>2, OthersStay DEF CacheInv, Key, TypeOK
      <4>2. ~spoiled[Key(q)]
        BY <1>2, <2>1, <4>1, LockSteps DEF CacheInv
      <4>3. /\ replaced[q] \in {0, 1, 2, NoPair}
            /\ replaced[q] = 0 => fault[q] \/ ~retried[q]
        BY <4>1, <4>2 DEF CacheInv, TypeOK, LoadInv, NoPair
      <4>4. CASE manifest'[Key(q)] = manifest[Key(q)] /\ replaced'[q] = replaced[q]
        BY <2>1, <4>1, <4>2, <4>4 DEF LoadInv
      <4>5. CASE manifest'[Key(q)] # NoBundle /\ replaced'[q] = More(replaced[q])
        BY <2>1, <4>1, <4>3, <4>5 DEF More, NoPair
      <4> QED
        BY <1>2, <3>2, <4>1, <4>2, <4>4, <4>5, OthersAndLoader
    <3> QED
      BY <3>1, <3>2
  <2> QED
    BY <2>1 DEF LoadInv
<1> QED
  BY <1>1, <1>2, NextIsAct

-----------------------------------------------------------------------------
(* Theorems. *)

LEMMA InitCache == Init => CacheInv /\ LoadInv
<1> SUFFICES ASSUME Init PROVE CacheInv /\ LoadInv
  OBVIOUS
<1>1. TypeOK /\ CopiesInv
  BY BoundsAssumption DEF Init, TypeOK, CopiesInv, OneCopy, Bundles, NoBundle, AllKeys, Nothing
<1>2. PlaceInv /\ LockInv /\ SaveInv /\ LoadInv
  BY DEF Init, PlaceInv, LockInv, SaveInv, LoadInv, InSection
<1>3. PairConsistent
  BY DEF Init, PairConsistent
<1> QED
  BY <1>1, <1>2, <1>3 DEF CacheInv

LEMMA CacheHolds == Spec => [](CacheInv /\ LoadInv)
<1>1. CacheInv /\ [Next]_vars => CacheInv'
  BY TypesStay, PlaceStays, LockStays, SavesStay, PairStays DEF CacheInv
<1> QED
  BY <1>1, InitCache, LoadsStay, PTL DEF Spec

\* The variables keep their types, and torch's manager one copy of an identity.
THEOREM CacheTyped == Spec => []TypeOK
<1>1. CacheInv => TypeOK
  BY DEF CacheInv
<1> QED
  BY <1>1, CacheHolds, PTL

\* The manifest names a bundle that is there, at any step of any savers and
\* after a crash at any of them.
THEOREM PairAlwaysThere == Spec => []PairConsistent
<1>1. CacheInv => PairConsistent
  BY DEF CacheInv
<1> QED
  BY <1>1, CacheHolds, PTL

\* A save that ended well leaves on disk everything new of its run.
THEOREM RunsAreSaved == Spec => []NothingOfThisRunLost
<1>1. CacheInv => NothingOfThisRunLost
  <2> SUFFICES ASSUME CacheInv, NEW p \in Processes,
                      pc[p] \in {"list", "collect", "unlock"}, ~spoiled[Key(p)]
               PROVE  CompareIds(recorded[p]) \subseteq CompareIds(manifest[Key(p)])
    BY DEF NothingOfThisRunLost
  <2>1. InSection(p)
    BY DEF CacheInv, PlaceInv, InSection
  <2> QED
    BY <2>1 DEF CacheInv, SaveInv
<1> QED
  BY <1>1, CacheHolds, PTL

\* No step but a save that could not fold the old bundle in drops an identity
\* from the bundle on disk.
THEOREM BundlesNeverNarrow == Spec => NeverNarrows
<1>1. CacheInv /\ [Next]_vars
        => [\A k \in AllKeys :
              ~spoiled'[k] /\ ~(\E p \in Processes : FoldedShort(p, k) /\ pc'[p] = "list")
              => MergeIds(manifest[k]) \subseteq MergeIds(manifest'[k])]_vars
  <2> SUFFICES ASSUME CacheInv, [Next]_vars, NEW k \in AllKeys, ~spoiled'[k],
                      ~(\E p \in Processes : FoldedShort(p, k) /\ pc'[p] = "list")
               PROVE  MergeIds(manifest[k]) \subseteq MergeIds(manifest'[k])
    OBVIOUS
  <2>1. CASE UNCHANGED vars
    BY <2>1 DEF vars, disk
  <2>2. ASSUME NEW p \in Processes, Act(p)
        PROVE  MergeIds(manifest[k]) \subseteq MergeIds(manifest'[k])
    <3>1. TypeOK /\ PlaceInv /\ SaveInv
      BY DEF CacheInv
    <3>2. CASE manifest'[k] = manifest[k]
      BY <3>2
    <3>3. CASE manifest'[k] # manifest[k]
      <4>1. k = Key(p) /\ InSection(p) /\ ~spoiled[k]
        BY <2>2, <3>1, <3>3, DiskSteps, LockSteps
      <4>2. Publish(p)
        BY <2>2, <3>3 DEF Act, Step, Reading, Locking, Writing, Cleaning, disk, Compile, Load, Save,
           Crash, ReadManifest, ReadFails, LoadBundle, LoadFails, Retry, Miss, Acquire, GoUnlocked,
           SkipSave, FoldIn, FoldFails, WriteTemp, ReplaceBundle, WriteFails, List, CollectFile,
           CollectTemp, Collected, Unlock
      <4>3. ~fault[p]
        BY <3>1, <4>1, <4>2 DEF Publish, FoldedShort, Goto, TypeOK
      <4>4. manifest'[k] = recorded[p] /\ MergeIds(manifest[k]) \subseteq MergeIds(recorded[p])
        BY <3>1, <4>1, <4>2, <4>3 DEF Publish, SaveInv, TypeOK
      <4> QED
        BY <4>4
    <3> QED
      BY <3>2, <3>3
  <2> QED
    BY <2>1, <2>2, NextIsAct
<1> QED
  BY <1>1, CacheHolds, PTL DEF Spec, NeverNarrows

\* A load that began with a bundle on disk and whose reads succeeded finds
\* none only after two saves.
THEOREM MissesNeedTwoSaves == Spec => MissNeedsTwoSaves
<1>1. CacheInv /\ LoadInv /\ [Next]_vars
        => [\A p \in Processes :
              /\ pc[p] = "exists" /\ call'[p] = "none" /\ models'[p] # {}
              /\ ~fault[p] /\ ~spoiled[Key(p)]
              => replaced[p] \in {2, NoPair}]_vars
  <2> SUFFICES ASSUME CacheInv, LoadInv, [Next]_vars, NEW q \in Processes,
                      pc[q] = "exists", call'[q] = "none", models'[q] # {},
                      ~fault[q], ~spoiled[Key(q)]
               PROVE  replaced[q] \in {2, NoPair}
    OBVIOUS
  <2>1. TypeOK /\ PlaceInv /\ call[q] = "load" /\ replaced[q] \in {0, 1, 2, NoPair}
    BY DEF CacheInv, PlaceInv, TypeOK
  <2>2. PICK p \in Processes : Act(p)
    BY <2>1, NextIsAct DEF vars
  <2>3. p = q
    BY <2>1, <2>2, OthersStay
  <2>4. Miss(q)
    BY <2>1, <2>2, <2>3 DEF Act, Step, Reading, Locking, Writing, Cleaning, Compile, Load, Save,
       Crash, ReadManifest, ReadFails, LoadBundle, LoadFails, Retry, Acquire, GoUnlocked, SkipSave,
       TimesOut, FoldIn, FoldFails, WriteTemp, ReplaceBundle, Publish, WriteFails, List, CollectFile,
       CollectTemp, Collected, Unlock, Return, TypeOK
  <2>5. retried[q] \/ manifest[Key(q)] = NoBundle
    BY <2>4 DEF Miss, OnceMore
  <2> QED
    BY <2>1, <2>5 DEF LoadInv
<1> QED
  BY <1>1, CacheHolds, PTL DEF Spec, MissNeedsTwoSaves
=============================================================================
