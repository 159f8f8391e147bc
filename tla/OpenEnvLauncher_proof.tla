------------------------- MODULE OpenEnvLauncher_proof -------------------------
(***************************************************************************)
(* The servers of OpenEnvLauncher, proved for any number of threads,       *)
(* ports, children, trials and launches, and a fork at any moment.         *)
(***************************************************************************)
EXTENDS OpenEnvLauncher, TLAPS

\* A step of a child, and of a thread.
Kid(c) == Bind(c) \/ Announce(c) \/ Exit(c)
Act(t) == Launch(t) \/ Step(t)

LEMMA NextIsAct ==
  [Next]_vars <=> \/ \E c \in Children : Kid(c)
                  \/ \E p \in Ports : OtherProgram(p)
                  \/ \E t \in Threads : ForkBy(t)
                  \/ \E t \in Everyone : Act(t)
                  \/ UNCHANGED vars
BY DEF Next, Machine, Kid, Act

-----------------------------------------------------------------------------
(* Types. *)

Places == {"idle", "reap", "alive", "health", "pick", "reserve", "spawn",
           "unclaim", "register", "watch", "release", "ours"}

Kids == [life : {"unborn", "starting", "bound", "lost", "dead"}, told : {"nothing", "bound", "failed"},
         by : Procs \cup {NoOne}, port : Ports \cup {NoOne}]

LocalsTyped ==
  /\ pc \in [Everyone -> Places]
  /\ at \in [Everyone -> Ports \cup {NoOne}] /\ mine \in [Everyone -> Ports \cup {NoOne}]
  /\ child \in [Everyone -> Children \cup {NoOne}]
  /\ trials \in [Everyone -> 0..(MaxTrials - 1)]
  /\ waited \in [Everyone -> BOOLEAN]
  /\ launches \in 0..MaxLaunches

SharedTyped ==
  /\ holder \in [Ports -> Children \cup {Stranger, NoOne}]
  /\ kid \in [Children -> Kids]
  /\ registry \in [Procs -> [Ports -> Children \cup {NoOne}]]
  /\ reserved \in [Procs -> SUBSET Ports]

LEMMA ProcsAre == \A t \in Everyone : Proc(t) \in Procs
BY DEF Proc, Procs

LEMMA RetryTyped ==
  ASSUME LocalsTyped, NEW t \in Everyone, Return(t) \/ Retry(t) \/ NotWorking(t)
  PROVE  /\ pc' \in [Everyone -> Places] /\ at' \in [Everyone -> Ports \cup {NoOne}]
         /\ child' \in [Everyone -> Children \cup {NoOne}]
         /\ trials' \in [Everyone -> 0..(MaxTrials - 1)] /\ waited' \in [Everyone -> BOOLEAN]
<1> USE DEF LocalsTyped, Goto, Places
<1>1. CASE Return(t)
  BY <1>1, BoundsAssumption DEF Return
<1>2. CASE ~LastTrial(t) /\ Retry(t)
  <2>1. trials[t] + 1 \in 0..(MaxTrials - 1)
    BY <1>2, BoundsAssumption DEF LastTrial
  <2> QED
    BY <1>2, <2>1 DEF Retry
<1>3. CASE child[t] = NoOne /\ NotWorking(t)
  BY <1>3 DEF NotWorking
<1> QED
  BY <1>1, <1>2, <1>3 DEF Retry, NotWorking

LEMMA LocalsStay == LocalsTyped /\ [Next]_vars => LocalsTyped'
<1> SUFFICES ASSUME LocalsTyped, [Next]_vars PROVE LocalsTyped'
  OBVIOUS
<1>1. CASE UNCHANGED vars \/ (\E c \in Children : Kid(c)) \/ (\E p \in Ports : OtherProgram(p))
  BY <1>1 DEF vars, locals, Kid, Bind, Announce, Exit, OtherProgram, Outside, LocalsTyped
<1>2. CASE \E t \in Threads : ForkBy(t)
  BY <1>2 DEF ForkBy, LocalsTyped, Everyone
<1>3. ASSUME NEW t \in Everyone, Act(t) PROVE LocalsTyped'
  <2> USE DEF LocalsTyped, locals, Goto, Places
  <2>1. CASE Launch(t)
    BY <2>1, BoundsAssumption DEF Launch
  <2>2. CASE Reap(t)
    BY <2>2 DEF Reap
  <2>3. CASE Alive(t)
    <3>1. CASE NotWorking(t)
      BY <2>3, <3>1, RetryTyped DEF Alive
    <3>2. CASE ~NotWorking(t)
      BY <2>3, <3>2 DEF Alive
    <3> QED
      BY <3>1, <3>2
  <2>4. CASE Healthy(t) \/ Unhealthy(t)
    BY <2>4, RetryTyped DEF Healthy, Unhealthy
  <2>5. CASE Pick(t)
    <3>1. CASE Retry(t)
      BY <2>5, <3>1, RetryTyped DEF Pick
    <3>2. CASE ~Retry(t)
      BY <2>5, <3>2 DEF Pick
    <3> QED
      BY <3>1, <3>2
  <2>6. CASE Reserve(t)
    <3>1. CASE Retry(t)
      BY <2>6, <3>1, RetryTyped DEF Reserve
    <3>2. CASE ~Retry(t)
      BY <2>6, <3>2 DEF Reserve
    <3> QED
      BY <3>1, <3>2
  <2>7. CASE Spawn(t) \/ SpawnFails(t)
    BY <2>7 DEF Spawn, SpawnFails
  <2>8. CASE Unclaim(t)
    BY <2>8, RetryTyped DEF Unclaim
  <2>9. CASE Register(t) \/ Wait(t)
    BY <2>9 DEF Register, Wait
  <2>10. CASE SeenBound(t) \/ SeenDead(t) \/ GracePeriod(t) \/ Release(t)
    BY <2>10 DEF SeenBound, SeenDead, GracePeriod, Release
  <2>11. CASE TimesOut(t)
    BY <2>11, RetryTyped DEF TimesOut
  <2>12. CASE Ours(t)
    <3>1. CASE Retry(t)
      BY <2>12, <3>1, RetryTyped DEF Ours
    <3>2. CASE ~Retry(t)
      BY <2>12, <3>2 DEF Ours
    <3> QED
      BY <3>1, <3>2
  <2> HIDE DEF LocalsTyped, locals, Goto, Places
  <2> QED
    BY <1>3, <2>1, <2>2, <2>3, <2>4, <2>5, <2>6, <2>7, <2>8, <2>9, <2>10, <2>11, <2>12
       DEF Act, Step, Checking, Spawning, Watching
<1> QED
  BY <1>1, <1>2, <1>3, NextIsAct

\* Where a thread has a port to work on.
AtPort == \A t \in Everyone : pc[t] \notin {"idle", "reap", "pick"} => at[t] \in Ports

LEMMA PortsStay == LocalsTyped /\ AtPort /\ [Next]_vars => AtPort'
<1> SUFFICES ASSUME LocalsTyped, AtPort, [Next]_vars PROVE AtPort'
  OBVIOUS
<1>1. CASE UNCHANGED vars \/ (\E c \in Children : Kid(c)) \/ (\E p \in Ports : OtherProgram(p))
  BY <1>1 DEF vars, locals, Kid, Bind, Announce, Exit, OtherProgram, Outside, AtPort
<1>2. CASE \E t \in Threads : ForkBy(t)
  BY <1>2 DEF ForkBy, AtPort
<1>3. ASSUME NEW t \in Everyone, Act(t) PROVE AtPort'
  <2> USE DEF LocalsTyped, AtPort, locals, Goto
  <2>1. CASE Launch(t) \/ Reap(t) \/ SpawnFails(t) \/ Wait(t)
    BY <2>1 DEF Launch, Reap, SpawnFails, Wait
  <2>2. CASE Alive(t) \/ Healthy(t) \/ Unhealthy(t) \/ Ours(t)
    BY <2>2 DEF Alive, Healthy, Unhealthy, Ours, NotWorking, Retry, Return
  <2>3. CASE Pick(t) \/ Reserve(t)
    BY <2>3 DEF Pick, Reserve, Retry, Return
  <2>4. CASE Spawn(t) \/ Unclaim(t) \/ Register(t)
    BY <2>4 DEF Spawn, Unclaim, Register, Return
  <2>5. CASE SeenBound(t) \/ SeenDead(t) \/ GracePeriod(t) \/ TimesOut(t) \/ Release(t)
    BY <2>5 DEF SeenBound, SeenDead, GracePeriod, TimesOut, Release, Return
  <2> HIDE DEF LocalsTyped, AtPort, locals, Goto
  <2> QED
    BY <1>3, <2>1, <2>2, <2>3, <2>4, <2>5 DEF Act, Step, Checking, Spawning, Watching
<1> QED
  BY <1>1, <1>2, <1>3, NextIsAct

\* A child has its port when it has bound it, and says what is the case.
KidsInv == \A c \in Children :
  /\ kid[c].life = "bound" => holder[kid[c].port] = c
  /\ kid[c].told = "bound" => kid[c].life \in {"bound", "dead"}
  /\ kid[c].told = "failed" => kid[c].life \in {"lost", "dead"}
  /\ kid[c].life # "unborn" => kid[c].by \in Procs /\ kid[c].port \in Ports

TypesInv == LocalsTyped /\ AtPort /\ SharedTyped /\ KidsInv

\* What becomes of a child that was spawned.
LEMMA KidsAge ==
  ASSUME TypesInv, [Next]_vars, NEW c \in Children, kid[c].life # "unborn"
  PROVE  /\ kid'[c].life # "unborn" /\ kid'[c].by = kid[c].by /\ kid'[c].port = kid[c].port
         /\ kid[c].told = "bound" => kid'[c].told = "bound"
         /\ kid[c].life \notin {"starting", "bound"} => kid'[c].life \notin {"starting", "bound"}
<1> USE DEF TypesInv, SharedTyped, Kids
<1>1. CASE \E d \in Children : Kid(d)
  BY <1>1 DEF Kid, Bind, Announce, Exit, Live
<1>2. CASE \E t \in Everyone : Spawn(t)
  BY <1>2 DEF Spawn, Unborn
<1>3. CASE UNCHANGED kid
  BY <1>3
<1> HIDE DEF TypesInv, SharedTyped, Kids
<1>4. CASE \E t \in Everyone : Act(t)
  BY <1>2, <1>3, <1>4 DEF Act, Launch, Step, Checking, Spawning, Watching, Reap, Alive, Healthy, Unhealthy, Ours,
     Pick, Reserve, SpawnFails, Unclaim, Register, Wait, SeenBound, SeenDead, GracePeriod, TimesOut, Release
<1> QED
  BY <1>1, <1>3, <1>4, NextIsAct DEF OtherProgram, ForkBy, vars

LEMMA SharedStay == TypesInv /\ [Next]_vars => SharedTyped' /\ KidsInv'
<1> SUFFICES ASSUME TypesInv, [Next]_vars PROVE SharedTyped' /\ KidsInv'
  OBVIOUS
<1> USE DEF TypesInv, SharedTyped, KidsInv, shared
<1>1. CASE UNCHANGED <<holder, kid, shared>>
  BY <1>1
<1>2. ASSUME NEW c \in Children, Kid(c) PROVE SharedTyped' /\ KidsInv'
  <2>1. kid[c] \in Kids /\ Children \cap {Stranger, NoOne} = {}
    BY NamesAssumption
  <2>2. CASE Bind(c)
    <3>1. kid[c].port \in Ports
      BY <2>2 DEF Bind
    <3>2. CASE holder[kid[c].port] = NoOne
      <4>1. /\ holder' = [holder EXCEPT ![kid[c].port] = c]
            /\ kid' = [kid EXCEPT ![c] = [kid[c] EXCEPT !.life = "bound"]]
            /\ UNCHANGED shared
        BY <2>2, <3>2 DEF Bind, Outside
      <4>2. [kid[c] EXCEPT !.life = "bound"] \in Kids
        BY <2>1 DEF Kids
      <4>3. SharedTyped'
        BY <3>1, <4>1, <4>2
      <4>4. ASSUME NEW d \in Children, kid'[d].life = "bound" PROVE holder'[kid'[d].port] = d
        <5>1. CASE d = c
          BY <2>1, <3>1, <4>1, <5>1 DEF Kids
        <5>2. CASE d # c
          <6>1. kid'[d] = kid[d] /\ holder[kid[d].port] = d
            BY <4>1, <4>4, <5>2
          <6>2. kid[d].port # kid[c].port
            BY <2>1, <3>2, <6>1
          <6> QED
            BY <4>1, <6>1, <6>2
        <5> QED
          BY <5>1, <5>2
      <4>5. KidsInv'
        BY <2>1, <2>2, <4>1, <4>4 DEF Bind, Kids
      <4> QED
        BY <4>3, <4>5
    <3>3. CASE holder[kid[c].port] # NoOne
      <4>1. /\ kid' = [kid EXCEPT ![c] = [kid[c] EXCEPT !.life = "lost"]]
            /\ UNCHANGED <<holder, shared>>
        BY <2>2, <3>3 DEF Bind, Outside
      <4>2. [kid[c] EXCEPT !.life = "lost"] \in Kids
        BY <2>1 DEF Kids
      <4>3. SharedTyped'
        BY <4>1, <4>2
      <4>4. KidsInv'
        BY <2>1, <2>2, <4>1 DEF Bind, Kids
      <4> QED
        BY <4>3, <4>4
    <3> QED
      BY <3>2, <3>3
  <2>3. CASE Announce(c)
    BY <2>1, <2>3 DEF Announce, Outside, Kids
  <2>4. CASE Exit(c)
    BY <2>1, <2>4 DEF Exit, Live, Outside, Kids
  <2> QED
    BY <1>2, <2>2, <2>3, <2>4 DEF Kid
<1>3. CASE \E p \in Ports : OtherProgram(p)
  BY <1>3, NamesAssumption DEF OtherProgram, Outside
<1>4. CASE \E t \in Threads : ForkBy(t)
  BY <1>4 DEF ForkBy, Procs
<1>5. ASSUME NEW t \in Everyone, Spawn(t) PROVE SharedTyped' /\ KidsInv'
  <2>1. PICK c \in Children :
          /\ kid[c] = Unborn
          /\ kid' = [kid EXCEPT ![c] = [life |-> "starting", told |-> "nothing", by |-> Proc(t), port |-> at[t]]]
    BY <1>5 DEF Spawn
  <2>2. at[t] \in Ports /\ Proc(t) \in Procs /\ UNCHANGED <<holder, shared>>
    BY <1>5, ProcsAre DEF Spawn, AtPort
  <2>3. [life |-> "starting", told |-> "nothing", by |-> Proc(t), port |-> at[t]] \in Kids
    BY <2>2 DEF Kids
  <2> QED
    BY <2>1, <2>2, <2>3
<1>6. ASSUME NEW t \in Everyone, Act(t), ~Spawn(t) PROVE SharedTyped' /\ KidsInv'
  <2>1. UNCHANGED <<holder, kid>>
    BY <1>6 DEF Act, Launch, Step, Checking, Spawning, Watching, Reap, Alive, Healthy, Unhealthy, Ours,
       Pick, Reserve, SpawnFails, Unclaim, Register, Wait, SeenBound, SeenDead, GracePeriod, TimesOut, Release
  <2>2. registry' \in [Procs -> [Ports -> Children \cup {NoOne}]] /\ reserved' \in [Procs -> SUBSET Ports]
    <3>1. CASE Reap(t)
      BY <3>1 DEF Reap
    <3>2. CASE Alive(t)
      BY <3>2 DEF Alive
    <3>3. CASE Reserve(t)
      BY <3>3 DEF Reserve, AtPort
    <3>4. CASE Unclaim(t)
      BY <3>4 DEF Unclaim, Unreserved
    <3>5. CASE Register(t)
      BY <3>5 DEF Register, LocalsTyped
    <3>6. CASE Release(t)
      BY <3>6 DEF Release, AfterRelease, Recorded, AtPort
    <3>7. CASE UNCHANGED shared
      BY <3>7
    <3> QED
      BY <1>6, <3>1, <3>2, <3>3, <3>4, <3>5, <3>6, <3>7 DEF Act, Launch, Step, Checking, Spawning, Watching,
         Healthy, Unhealthy, Ours, Pick, SpawnFails, Wait, SeenBound, SeenDead, GracePeriod, TimesOut
  <2> QED
    BY <2>1, <2>2
<1> HIDE DEF TypesInv, SharedTyped, KidsInv, shared
<1> QED
  BY <1>1, <1>2, <1>3, <1>4, <1>5, <1>6, NextIsAct DEF vars

-----------------------------------------------------------------------------
(* Who launches which child. *)

LEMMA OthersStay ==
  ASSUME LocalsTyped, NEW t \in Everyone, NEW u \in Everyone, t # u, Act(t)
  PROVE  pc'[u] = pc[u] /\ at'[u] = at[u] /\ child'[u] = child[u]
<1> USE DEF LocalsTyped, locals, Goto
<1>1. CASE Launch(t) \/ Reap(t) \/ SpawnFails(t) \/ Wait(t)
  BY <1>1 DEF Launch, Reap, SpawnFails, Wait
<1>2. CASE Alive(t) \/ Healthy(t) \/ Unhealthy(t) \/ Ours(t)
  BY <1>2 DEF Alive, Healthy, Unhealthy, Ours, NotWorking, Retry, Return
<1>3. CASE Pick(t) \/ Reserve(t)
  BY <1>3 DEF Pick, Reserve, Retry, Return
<1>4. CASE Spawn(t) \/ Unclaim(t) \/ Register(t)
  BY <1>4 DEF Spawn, Unclaim, Register, Return
<1>5. CASE SeenBound(t) \/ SeenDead(t) \/ GracePeriod(t) \/ TimesOut(t) \/ Release(t)
  BY <1>5 DEF SeenBound, SeenDead, GracePeriod, TimesOut, Release, Return
<1> HIDE DEF LocalsTyped, locals, Goto
<1> QED
  BY <1>1, <1>2, <1>3, <1>4, <1>5 DEF Act, Step, Checking, Spawning, Watching

\* A thread's child is its own; at the steps where it matters, on its port.
\* The copy launches nothing before it exists.
ChildInv ==
  /\ \A t \in Everyone : child[t] # NoOne => kid[child[t]].life # "unborn" /\ kid[child[t]].by = Proc(t)
  /\ \A t, u \in Everyone : t # u /\ child[t] = child[u] => child[t] = NoOne
  /\ \A t \in Everyone :
       /\ pc[t] \in {"idle", "reap"} => child[t] = NoOne
       /\ pc[t] \in {"register", "watch", "release", "ours"} => child[t] # NoOne
       /\ pc[t] \in {"register", "watch", "release", "ours", "alive", "health"} /\ child[t] # NoOne
            => kid[child[t]].port = at[t]
       /\ pc[t] = "release" => kid[child[t]].life \notin {"starting", "bound"}
  /\ ~forked => pc[ForkThread] = "idle" /\ \A c \in Children : kid[c].by # Fork

\* Where the thread that makes a step finds itself.
LEMMA OwnSteps ==
  ASSUME TypesInv, ChildInv, NEW t \in Everyone, Act(t), ~Spawn(t)
  PROVE  /\ child'[t] \in {child[t], NoOne}
         /\ pc'[t] \in {"idle", "reap"} => child'[t] = NoOne
         /\ pc'[t] \in {"register", "watch", "release", "ours"} => child'[t] = child[t] /\ child[t] # NoOne
         /\ pc'[t] \in {"register", "watch", "release", "ours", "alive", "health"} /\ child'[t] # NoOne
              => kid[child[t]].port = at'[t]
         /\ pc'[t] = "release" => kid[child[t]].life \notin {"starting", "bound"}
<1>1. LocalsTyped
  BY DEF TypesInv
<1> USE <1>1 DEF LocalsTyped, locals, Goto, ChildInv
<1>2. CASE Launch(t) \/ Reap(t) \/ SpawnFails(t) \/ Wait(t)
  BY <1>2 DEF Launch, Reap, SpawnFails, Wait
<1>3. CASE Alive(t) \/ Healthy(t) \/ Unhealthy(t) \/ Ours(t)
  BY <1>3 DEF Alive, Healthy, Unhealthy, Ours, NotWorking, Retry, Return
<1>4. CASE Pick(t) \/ Reserve(t)
  BY <1>4 DEF Pick, Reserve, Retry, Return
<1>5. CASE Unclaim(t) \/ Register(t)
  BY <1>5 DEF Unclaim, Register, Return
<1>6. CASE SeenBound(t) \/ GracePeriod(t) \/ TimesOut(t) \/ Release(t)
  BY <1>6 DEF SeenBound, GracePeriod, TimesOut, Release, Return
<1>7. CASE SeenDead(t)
  <2>1. child[t] \in Children /\ kid[child[t]].life # "unborn"
    BY <1>7 DEF SeenDead
  <2>2. kid[child[t]].life \notin {"starting", "bound"}
    BY <1>7, <2>1 DEF SeenDead, Dead, Live, TypesInv, KidsInv
  <2> QED
    BY <1>7, <2>2 DEF SeenDead
<1> HIDE DEF LocalsTyped, locals, Goto, ChildInv
<1> QED
  BY <1>2, <1>3, <1>4, <1>5, <1>6, <1>7 DEF Act, Step, Checking, Spawning, Watching

LEMMA ChildrenStay == TypesInv /\ ChildInv /\ [Next]_vars => ChildInv'
<1> SUFFICES ASSUME TypesInv, ChildInv, [Next]_vars PROVE ChildInv'
  OBVIOUS
<1>1. ASSUME NEW u \in Everyone, child[u] # NoOne
      PROVE  /\ child[u] \in Children /\ kid'[child[u]].life # "unborn" /\ kid'[child[u]].by = Proc(u)
             /\ kid'[child[u]].port = kid[child[u]].port
             /\ kid[child[u]].life \notin {"starting", "bound"} => kid'[child[u]].life \notin {"starting", "bound"}
  BY <1>1, KidsAge DEF ChildInv, TypesInv, LocalsTyped
<1>2. ForkThread \in Everyone /\ child[ForkThread] \in Children \cup {NoOne}
  BY DEF Everyone, TypesInv, LocalsTyped
<1>3. ASSUME UNCHANGED <<pc, at, child>>, \A c \in Children : kid'[c].by = kid[c].by, ~forked' => ~forked
      PROVE  ChildInv'
  BY <1>1, <1>3 DEF ChildInv
<1>4. CASE UNCHANGED vars \/ (\E c \in Children : Kid(c)) \/ (\E p \in Ports : OtherProgram(p))
  <2>1. UNCHANGED <<pc, at, child, forked>>
    BY <1>4 DEF vars, locals, Kid, Bind, Announce, Exit, OtherProgram, Outside
  <2>2. \A c \in Children : kid'[c].by = kid[c].by
    BY <1>4 DEF vars, Kid, Bind, Announce, Exit, OtherProgram, TypesInv, SharedTyped, Kids
  <2> QED
    BY <1>3, <2>1, <2>2
<1>5. CASE \E t \in Threads : ForkBy(t)
  BY <1>3, <1>5 DEF ForkBy
<1>6. ASSUME NEW t \in Everyone, Act(t) PROVE ChildInv'
  <2>1. UNCHANGED forked
    BY <1>6 DEF Act, Launch, Step, Checking, Spawning, Watching, Reap, Alive, Healthy, Unhealthy, Ours,
       Pick, Reserve, Spawn, SpawnFails, Unclaim, Register, Wait, SeenBound, SeenDead, GracePeriod, TimesOut, Release
  <2>2. ~forked => t # ForkThread
    BY <1>6 DEF ChildInv, Act, Launch, Step, Checking, Spawning, Watching, Reap, Alive, Healthy, Unhealthy, Ours,
       Pick, Reserve, Spawn, SpawnFails, Unclaim, Register, Wait, SeenBound, SeenDead, GracePeriod, TimesOut, Release
  <2>3. \A u \in Everyone : u # t => pc'[u] = pc[u] /\ at'[u] = at[u] /\ child'[u] = child[u]
    BY <1>6, OthersStay DEF TypesInv
  <2>4. ~forked => Proc(t) # Fork /\ pc'[ForkThread] = "idle"
    BY <1>2, <2>2, <2>3 DEF Proc, Parent, Fork, ChildInv
  <2>5. CASE ~Spawn(t)
    <3>1. UNCHANGED kid
      BY <1>6, <2>5 DEF Act, Launch, Step, Checking, Spawning, Watching, Reap, Alive, Healthy, Unhealthy, Ours,
         Pick, Reserve, SpawnFails, Unclaim, Register, Wait, SeenBound, SeenDead, GracePeriod, TimesOut, Release
    <3>2. /\ child'[t] \in {child[t], NoOne}
          /\ pc'[t] \in {"idle", "reap"} => child'[t] = NoOne
          /\ pc'[t] \in {"register", "watch", "release", "ours"} => child'[t] # NoOne
          /\ pc'[t] \in {"register", "watch", "release", "ours", "alive", "health"} /\ child'[t] # NoOne
               => kid[child'[t]].port = at'[t]
          /\ pc'[t] = "release" => kid[child'[t]].life \notin {"starting", "bound"}
      BY <1>6, <2>5, OwnSteps
    <3> QED
      BY <2>1, <2>3, <2>4, <3>1, <3>2 DEF ChildInv
  <2>6. CASE Spawn(t)
    <3>1. PICK c \in Children :
            /\ kid[c] = Unborn
            /\ kid' = [kid EXCEPT ![c] = [life |-> "starting", told |-> "nothing", by |-> Proc(t), port |-> at[t]]]
            /\ child' = [child EXCEPT ![t] = c]
      BY <2>6 DEF Spawn
    <3>2. \A u \in Everyone : child[u] # c
      BY <3>1, NamesAssumption DEF ChildInv, Unborn
    <3>3. /\ child'[t] = c /\ c # NoOne /\ pc'[t] = "register" /\ at'[t] = at[t]
          /\ kid'[c] = [life |-> "starting", told |-> "nothing", by |-> Proc(t), port |-> at[t]]
          /\ \A d \in Children : d # c => kid'[d] = kid[d]
      BY <2>6, <3>1, NamesAssumption DEF Spawn, Goto, TypesInv, LocalsTyped, SharedTyped
    <3>4. \A u \in Everyone : child'[u] # NoOne => kid'[child'[u]].life # "unborn" /\ kid'[child'[u]].by = Proc(u)
      BY <1>1, <2>3, <3>3
    <3>5. \A u, v \in Everyone : u # v /\ child'[u] = child'[v] => child'[u] = NoOne
      BY <2>3, <3>2, <3>3 DEF ChildInv
    <3>6. ASSUME NEW u \in Everyone
          PROVE  /\ pc'[u] \in {"idle", "reap"} => child'[u] = NoOne
                 /\ pc'[u] \in {"register", "watch", "release", "ours"} => child'[u] # NoOne
                 /\ pc'[u] \in {"register", "watch", "release", "ours", "alive", "health"} /\ child'[u] # NoOne
                      => kid'[child'[u]].port = at'[u]
                 /\ pc'[u] = "release" => kid'[child'[u]].life \notin {"starting", "bound"}
      <4>1. CASE u = t
        BY <3>3, <4>1
      <4>2. CASE u # t
        BY <1>1, <2>3, <4>2 DEF ChildInv
      <4> QED
        BY <4>1, <4>2
    <3>7. ~forked => \A d \in Children : kid'[d].by # Fork
      BY <2>4, <3>3 DEF ChildInv
    <3> QED
      BY <2>1, <2>4, <3>4, <3>5, <3>6, <3>7 DEF ChildInv
  <2> QED
    BY <2>5, <2>6
<1> QED
  BY <1>3, <1>4, <1>5, <1>6, NextIsAct

-----------------------------------------------------------------------------
(* Records and claims. *)

\* What a launch's step does to a record.
LEMMA RecordSteps ==
  ASSUME TypesInv, ChildInv, NEW t \in Everyone, Act(t), NEW q \in Procs, NEW p \in Ports
  PROVE  \/ registry'[q][p] = registry[q][p]
         \/ registry'[q][p] = NoOne /\ kid[registry[q][p]].life \notin {"starting", "bound"}
         \/ Register(t) /\ q = Proc(t) /\ p = at[t] /\ registry'[q][p] = child[t]
<1>1. SharedTyped /\ LocalsTyped
  BY DEF TypesInv
<1> USE <1>1 DEF SharedTyped
<1>2. CASE Reap(t)
  BY <1>2 DEF Reap, Live
<1>3. CASE Alive(t)
  BY <1>3 DEF Alive, Recorded, Live
<1>4. CASE Register(t)
  BY <1>4, ProcsAre DEF Register
<1>5. CASE Release(t)
  <2>1. kid[child[t]].life \notin {"starting", "bound"}
    BY <1>5 DEF Release, ChildInv
  <2>2. registry'[q][p] = IF q = Proc(t) /\ p = at[t] THEN AfterRelease(t) ELSE registry[q][p]
    BY <1>5 DEF Release
  <2>3. q = Proc(t) /\ p = at[t] => Recorded(t) = registry[q][p]
    BY DEF Recorded
  <2> QED
    BY <2>1, <2>2, <2>3 DEF AfterRelease
<1>6. CASE UNCHANGED registry
  BY <1>6
<1> QED
  BY <1>2, <1>3, <1>4, <1>5, <1>6 DEF Act, Launch, Step, Checking, Spawning, Watching, Healthy, Unhealthy, Ours,
     Pick, Reserve, Spawn, SpawnFails, Unclaim, Wait, SeenBound, SeenDead, GracePeriod, TimesOut, shared

\* A launch that asks its child, accepted by its word, is the one on record
\* only if the child has said that it is bound.
AdoptInv == \A t \in Everyone :
  pc[t] \in {"ours", "alive", "health"} /\ child[t] # NoOne /\ child[t] \notin grace
    => kid[child[t]].told = "bound" \/ Recorded(t) # child[t]

LEMMA AdoptsStay == TypesInv /\ ChildInv /\ AdoptInv /\ [Next]_vars => AdoptInv'
<1> SUFFICES ASSUME TypesInv, ChildInv, AdoptInv, [Next]_vars PROVE AdoptInv'
  OBVIOUS
<1>1. ASSUME NEW u \in Everyone, child[u] # NoOne, kid[child[u]].told = "bound"
      PROVE  kid'[child[u]].told = "bound"
  BY <1>1, KidsAge DEF ChildInv, TypesInv, LocalsTyped
<1>2. CASE UNCHANGED vars \/ (\E c \in Children : Kid(c)) \/ (\E p \in Ports : OtherProgram(p))
  <2>1. UNCHANGED <<pc, at, child, registry, grace>>
    BY <1>2 DEF vars, shared, locals, history, Kid, Bind, Announce, Exit, OtherProgram, Outside
  <2> QED
    BY <1>1, <2>1 DEF AdoptInv, Recorded
<1>3. CASE \E t \in Threads : ForkBy(t)
  <2>1. UNCHANGED <<pc, at, child, grace, kid>> /\ registry'[Parent] = registry[Parent]
    BY <1>3 DEF ForkBy, history, TypesInv, SharedTyped, Procs, Parent, Fork
  <2>2. pc[ForkThread] = "idle"
    BY <1>3 DEF ForkBy, ChildInv
  <2>3. \A u \in Everyone : u # ForkThread => Recorded(u)' = Recorded(u)
    BY <2>1 DEF Recorded, Proc
  <2> QED
    BY <2>1, <2>2, <2>3 DEF AdoptInv
<1>4. ASSUME NEW t \in Everyone, Act(t), NEW u \in Everyone,
             pc'[u] \in {"ours", "alive", "health"}, child'[u] # NoOne, child'[u] \notin grace',
             Recorded(u)' = child'[u]
      PROVE  kid'[child'[u]].told = "bound"
  <2>1. at'[u] \in Ports /\ Proc(u) \in Procs /\ LocalsTyped
    BY <1>4, ProcsAre, PortsStay DEF TypesInv, AtPort
  <2>2. grace \subseteq grace'
    BY <1>4 DEF Act, Launch, Step, Checking, Spawning, Watching, Reap, Alive, Healthy, Unhealthy, Ours, history,
       Pick, Reserve, Spawn, SpawnFails, Unclaim, Register, Wait, SeenBound, SeenDead, GracePeriod, TimesOut, Release
  <2>3. CASE u # t
    <3>1. pc'[u] = pc[u] /\ at'[u] = at[u] /\ child'[u] = child[u]
      BY <1>4, <2>1, <2>3, OthersStay
    <3>2. child[u] # child[t]
      BY <1>4, <2>3, <3>1 DEF ChildInv
    <3>3. Recorded(u) = child[u]
      BY <1>4, <2>1, <3>1, <3>2, RecordSteps DEF Recorded
    <3> QED
      BY <1>1, <1>4, <2>2, <3>1, <3>3 DEF AdoptInv
  <2>4. CASE u = t
    <3> USE <2>1, <2>4 DEF LocalsTyped, Goto
    <3>1. CASE SeenBound(t)
      BY <1>1, <1>4, <3>1 DEF SeenBound, SaidBound, locals
    <3>2. CASE GracePeriod(t)
      BY <1>4, <3>2 DEF GracePeriod, locals
    <3>3. CASE Release(t)
      <4>1. child'[t] = child[t] /\ at'[t] = at[t] /\ registry'[Proc(t)][at[t]] = AfterRelease(t)
        BY <1>4, <3>3 DEF Release, locals, TypesInv, SharedTyped
      <4> QED
        BY <1>4, <4>1 DEF Recorded, AfterRelease
    <3>4. CASE Ours(t) \/ Alive(t)
      <4>1. child'[t] = child[t] /\ at'[t] = at[t] /\ pc[t] \in {"ours", "alive"}
        BY <1>4, <3>4 DEF Ours, Alive, NotWorking, Retry, Return
      <4>2. Recorded(t) = child[t]
        BY <1>4, <3>4, <4>1, RecordSteps DEF Recorded, Ours, Alive, Register
      <4> QED
        BY <1>1, <1>4, <2>2, <4>1, <4>2 DEF AdoptInv
    <3>5. CASE Reap(t)
      BY <1>4, <3>5 DEF Reap, ChildInv
    <3>6. CASE Launch(t) \/ Healthy(t) \/ Unhealthy(t) \/ Wait(t) \/ SeenDead(t) \/ TimesOut(t)
      BY <1>4, <3>6 DEF Launch, Healthy, Unhealthy, NotWorking, Retry, Return, Wait, SeenDead, TimesOut
    <3>7. CASE Spawning(t)
      BY <1>4, <3>7 DEF Spawning, Pick, Reserve, Spawn, SpawnFails, Unclaim, Register, Retry, Return
    <3> QED
      BY <1>4, <3>1, <3>2, <3>3, <3>4, <3>5, <3>6, <3>7 DEF Act, Step, Checking, Watching
  <2> QED
    BY <2>3, <2>4
<1>5. CASE \E t \in Everyone : Act(t)
  BY <1>4, <1>5 DEF AdoptInv
<1> QED
  BY <1>2, <1>3, <1>5, NextIsAct

\* From its claim to its record, a launch has its port to itself.
Claiming == {"spawn", "register", "unclaim"}

ClaimInv == ~lostClaim =>
  /\ \A t \in Everyone : pc[t] \in Claiming => at[t] \in reserved[Proc(t)] /\ Recorded(t) = NoOne
  /\ \A t, u \in Everyone :
       t # u /\ pc[t] \in Claiming /\ pc[u] \in Claiming /\ Proc(t) = Proc(u) => at[t] # at[u]

LEMMA ReservedSteps ==
  ASSUME TypesInv, NEW t \in Everyone, Act(t), NEW q \in Procs, NEW p \in reserved[q], ~lostClaim'
  PROVE  p \in reserved'[q] \/ (q = Proc(t) /\ p = at[t] /\ pc[t] \in Claiming)
<1>1. SharedTyped
  BY DEF TypesInv
<1> USE <1>1 DEF SharedTyped
<1>2. CASE Reserve(t)
  BY <1>2 DEF Reserve
<1>3. CASE Unclaim(t)
  BY <1>3 DEF Unclaim, Unreserved, Claiming
<1>4. CASE Register(t)
  BY <1>4 DEF Register, Claiming
<1>5. CASE Release(t)
  BY <1>5 DEF Release
<1>6. CASE UNCHANGED reserved
  BY <1>6
<1> QED
  BY <1>2, <1>3, <1>4, <1>5, <1>6 DEF Act, Launch, Step, Checking, Spawning, Watching, Healthy, Unhealthy, Ours,
     Reap, Alive, Pick, Spawn, SpawnFails, Wait, SeenBound, SeenDead, GracePeriod, TimesOut, shared

LEMMA ClaimsStay == TypesInv /\ ChildInv /\ ClaimInv /\ [Next]_vars => ClaimInv'
<1> SUFFICES ASSUME TypesInv, ChildInv, ClaimInv, [Next]_vars PROVE ClaimInv'
  OBVIOUS
<1>1. CASE UNCHANGED vars \/ (\E c \in Children : Kid(c)) \/ (\E p \in Ports : OtherProgram(p))
  <2>1. UNCHANGED <<pc, at, registry, reserved, lostClaim>>
    BY <1>1 DEF vars, shared, locals, history, Kid, Bind, Announce, Exit, OtherProgram, Outside
  <2> QED
    BY <2>1 DEF ClaimInv, Recorded
<1>2. CASE \E t \in Threads : ForkBy(t)
  <2>1. /\ UNCHANGED <<pc, at, lostClaim>>
        /\ registry'[Parent] = registry[Parent] /\ reserved'[Parent] = reserved[Parent]
    BY <1>2 DEF ForkBy, history, TypesInv, SharedTyped, Procs, Parent, Fork
  <2>2. pc[ForkThread] \notin Claiming
    BY <1>2 DEF ForkBy, ChildInv, Claiming
  <2>3. \A u \in Everyone : u # ForkThread => Recorded(u)' = Recorded(u) /\ reserved'[Proc(u)] = reserved[Proc(u)]
    BY <2>1 DEF Recorded, Proc
  <2> QED
    BY <2>1, <2>2, <2>3 DEF ClaimInv
<1>3. ASSUME NEW t \in Everyone, Act(t), ~lostClaim' PROVE ClaimInv'
  <2>1. ~lostClaim
    BY <1>3 DEF Act, Launch, Step, Checking, Spawning, Watching, Reap, Alive, Healthy, Unhealthy, Ours, history,
       Pick, Reserve, Spawn, SpawnFails, Unclaim, Register, Wait, SeenBound, SeenDead, GracePeriod, TimesOut, Release
  <2>2. LocalsTyped /\ AtPort /\ SharedTyped
    BY DEF TypesInv
  <2>3. /\ \A u \in Everyone : pc[u] \in Claiming => at[u] \in reserved[Proc(u)] /\ Recorded(u) = NoOne
        /\ \A u, v \in Everyone :
             u # v /\ pc[u] \in Claiming /\ pc[v] \in Claiming /\ Proc(u) = Proc(v) => at[u] # at[v]
    BY <2>1 DEF ClaimInv
  <2>4. ASSUME NEW u \in Everyone, u # t
        PROVE  pc'[u] = pc[u] /\ at'[u] = at[u]
    BY <1>3, <2>2, <2>4, OthersStay
  <2>5. ASSUME NEW u \in Everyone, u # t, pc[u] \in Claiming
        PROVE  at[u] \in reserved'[Proc(u)] /\ registry'[Proc(u)][at[u]] = NoOne
    <3>1. at[u] \in reserved[Proc(u)] /\ registry[Proc(u)][at[u]] = NoOne /\ at[u] \in Ports /\ Proc(u) \in Procs
      BY <2>2, <2>3, <2>5, ProcsAre DEF Recorded, AtPort, Claiming
    <3>2. ~(pc[t] \in Claiming /\ Proc(u) = Proc(t) /\ at[u] = at[t])
      BY <2>3, <2>5
    <3>3. at[u] \in reserved'[Proc(u)]
      BY <1>3, <3>1, <3>2, ReservedSteps
    <3>4. ~(Register(t) /\ Proc(u) = Proc(t) /\ at[u] = at[t])
      BY <3>2 DEF Register, Claiming
    <3>5. registry'[Proc(u)][at[u]] = NoOne
      BY <1>3, <3>1, <3>4, RecordSteps
    <3> QED
      BY <3>3, <3>5
  <2>6. CASE pc'[t] \notin Claiming
    BY <2>3, <2>4, <2>5, <2>6 DEF ClaimInv, Recorded
  <2>7. CASE Reserve(t) /\ pc'[t] \in Claiming
    <3>1. /\ ~Claimed(t) /\ at'[t] = at[t] /\ UNCHANGED registry
          /\ reserved' = [reserved EXCEPT ![Proc(t)] = @ \cup {at[t]}]
      BY <2>2, <2>7 DEF Reserve, Retry, Return, Goto, LocalsTyped, Claiming
    <3>2. at[t] \in reserved'[Proc(t)] /\ registry'[Proc(t)][at[t]] = NoOne
      BY <2>2, <3>1, ProcsAre DEF Claimed, Recorded, SharedTyped
    <3>3. \A u \in Everyone : u # t /\ pc[u] \in Claiming /\ Proc(u) = Proc(t) => at[u] # at[t]
      BY <2>3, <3>1 DEF Claimed
    <3> QED
      BY <2>3, <2>4, <2>5, <3>1, <3>2, <3>3 DEF ClaimInv, Recorded
  <2>8. CASE ~Reserve(t) /\ pc'[t] \in Claiming
    <3>1. Spawn(t) \/ SpawnFails(t)
      BY <1>3, <2>2, <2>8 DEF Act, Launch, Step, Checking, Spawning, Watching, Reap, Alive, Healthy, Unhealthy, Ours,
         Pick, Unclaim, Register, Wait, SeenBound, SeenDead, GracePeriod, TimesOut, Release, NotWorking, Retry,
         Return, Goto, LocalsTyped, Claiming
    <3>2. pc[t] \in Claiming /\ UNCHANGED <<at, registry, reserved>>
      BY <3>1 DEF Spawn, SpawnFails, shared, locals, Claiming
    <3> QED
      BY <2>3, <2>4, <2>5, <3>2 DEF ClaimInv, Recorded
  <2> QED
    BY <2>6, <2>7, <2>8
<1>4. CASE \E t \in Everyone : Act(t)
  BY <1>3, <1>4 DEF ClaimInv
<1> QED
  BY <1>1, <1>2, <1>4, NextIsAct

LEMMA TrackedStays == TypesInv /\ ChildInv /\ ClaimInv /\ ClaimedIsTracked /\ [Next]_vars => ClaimedIsTracked'
<1> SUFFICES ASSUME TypesInv, ChildInv, ClaimInv, ClaimedIsTracked, [Next]_vars, ~lostClaim',
                    NEW c \in Children, kid'[c].life \in {"starting", "bound"}
             PROVE  \/ registry'[kid'[c].by][kid'[c].port] = c
                    \/ \E t \in Everyone : child'[t] = c /\ pc'[t] = "register"
  BY DEF ClaimedIsTracked, Tracked
<1>1. LocalsTyped /\ AtPort /\ SharedTyped /\ KidsInv
  BY DEF TypesInv
<1>2. ~lostClaim
  BY NextIsAct DEF vars, history, Kid, Bind, Announce, Exit, OtherProgram, Outside, ForkBy, Act, Launch, Step,
     Checking, Spawning, Watching, Reap, Alive, Healthy, Unhealthy, Ours,
     Pick, Reserve, Spawn, SpawnFails, Unclaim, Register, Wait, SeenBound, SeenDead, GracePeriod, TimesOut, Release
<1>3. CASE kid[c].life = "unborn"
  <2>1. PICK t \in Everyone : Spawn(t)
    <3>1. kid' # kid
      BY <1>3
    <3>2. ~\E d \in Children : Kid(d)
      BY <1>1, <1>3 DEF Kid, Bind, Announce, Exit, Live, SharedTyped, Kids
    <3> QED
      BY <3>1, <3>2, NextIsAct DEF vars, OtherProgram, ForkBy, Act, Launch, Step, Checking, Spawning, Watching,
         Reap, Alive, Healthy, Unhealthy, Ours, Pick, Reserve, SpawnFails, Unclaim, Register, Wait, SeenBound,
         SeenDead, GracePeriod, TimesOut, Release
  <2>2. child'[t] = c /\ pc'[t] = "register"
    BY <1>1, <1>3, <2>1 DEF Spawn, Goto, LocalsTyped, SharedTyped
  <2> QED
    BY <2>2
<1>4. CASE kid[c].life # "unborn"
  <2>1. /\ kid'[c].by = kid[c].by /\ kid'[c].port = kid[c].port /\ kid[c].life \in {"starting", "bound"}
        /\ kid[c].by \in Procs /\ kid[c].port \in Ports
    BY <1>1, <1>4, KidsAge DEF KidsInv
  <2>2. \/ registry[kid[c].by][kid[c].port] = c
        \/ \E t \in Everyone : child[t] = c /\ pc[t] = "register"
    BY <1>2, <2>1 DEF ClaimedIsTracked, Tracked
  <2>3. CASE UNCHANGED <<pc, child, registry>>
    BY <2>1, <2>2, <2>3
  <2>4. CASE \E t \in Threads : ForkBy(t)
    <3>1. UNCHANGED <<pc, child>> /\ registry'[Parent] = registry[Parent]
      BY <1>1, <2>4 DEF ForkBy, SharedTyped, Procs, Parent, Fork
    <3>2. kid[c].by = Parent
      BY <2>1, <2>4 DEF ForkBy, ChildInv, Procs
    <3> QED
      BY <2>1, <2>2, <3>1, <3>2
  <2>5. ASSUME NEW t \in Everyone, Act(t)
        PROVE  \/ registry'[kid[c].by][kid[c].port] = c
               \/ \E u \in Everyone : child'[u] = c /\ pc'[u] = "register"
    <3>1. CASE registry[kid[c].by][kid[c].port] = c
      <4>1. ~(Register(t) /\ kid[c].by = Proc(t) /\ kid[c].port = at[t])
        BY <1>2, <3>1, NamesAssumption DEF ClaimInv, Claiming, Register, Recorded
      <4> QED
        BY <2>1, <2>5, <3>1, <4>1, RecordSteps
    <3>2. ASSUME NEW u \in Everyone, child[u] = c, pc[u] = "register"
          PROVE  \/ registry'[kid[c].by][kid[c].port] = c
                 \/ child'[u] = c /\ pc'[u] = "register"
      <4>1. CASE u # t
        BY <1>1, <2>5, <3>2, <4>1, OthersStay
      <4>2. CASE u = t
        <5>1. Register(t)
          BY <2>5, <3>2, <4>2 DEF Act, Launch, Step, Checking, Spawning, Watching, Reap, Alive, Healthy, Unhealthy,
             Ours, Pick, Reserve, Spawn, SpawnFails, Unclaim, Wait, SeenBound, SeenDead, GracePeriod, TimesOut,
             Release
        <5>2. kid[c].by = Proc(t) /\ kid[c].port = at[t]
          BY <3>2, <4>2, NamesAssumption DEF ChildInv
        <5> QED
          BY <1>1, <2>1, <3>2, <4>2, <5>1, <5>2 DEF Register, SharedTyped
      <4> QED
        BY <4>1, <4>2
    <3> QED
      BY <2>2, <3>1, <3>2
  <2> QED
    BY <2>1, <2>3, <2>4, <2>5, NextIsAct DEF vars, shared, locals, Kid, Bind, Announce, Exit, OtherProgram, Outside
<1> QED
  BY <1>3, <1>4

-----------------------------------------------------------------------------
(* Theorems. *)

LaunchInv == TypesInv /\ ChildInv /\ AdoptInv /\ ClaimInv /\ ClaimedIsTracked

LEMMA InitLaunch == Init => LaunchInv
<1> SUFFICES ASSUME Init PROVE LaunchInv
  OBVIOUS
<1>1. LocalsTyped
  BY BoundsAssumption DEF Init, LocalsTyped, Places
<1>2. AtPort /\ SharedTyped /\ KidsInv
  BY DEF Init, AtPort, SharedTyped, KidsInv, Kids, Unborn
<1>3. ChildInv /\ AdoptInv /\ ClaimInv
  BY DEF Init, ChildInv, AdoptInv, ClaimInv, Claiming, Unborn, Everyone, NoOne, Fork
<1>4. ClaimedIsTracked
  BY DEF Init, ClaimedIsTracked, Tracked, Unborn
<1> QED
  BY <1>1, <1>2, <1>3, <1>4 DEF LaunchInv, TypesInv

LEMMA LaunchHolds == Spec => []LaunchInv
<1>1. LaunchInv /\ [Next]_vars => LaunchInv'
  BY LocalsStay, PortsStay, SharedStay, ChildrenStay, AdoptsStay, ClaimsStay, TrackedStays
     DEF LaunchInv, TypesInv
<1> QED
  BY <1>1, InitLaunch, PTL DEF Spec

\* The variables keep their types.
THEOREM LauncherTyped == Spec => []TypeOK
<1>1. LaunchInv => TypeOK
  BY DEF LaunchInv, TypesInv, LocalsTyped, SharedTyped, KidsInv, Kids, Places, TypeOK
<1> QED
  BY <1>1, LaunchHolds, PTL

\* The child a launch asks for its health after its announcement has the port.
THEOREM AnnouncementIsProof == Spec => []AnnouncedIsOurs
<1>1. LaunchInv => AnnouncedIsOurs
  <2> SUFFICES ASSUME LaunchInv, NEW t \in Everyone, child[t] \notin grace,
                      pc[t] = "health", child[t] = Recorded(t), child[t] # NoOne, Live(child[t])
               PROVE  holder[at[t]] = child[t]
    BY DEF AnnouncedIsOurs, AsksItsChild
  <2>1. child[t] \in Children /\ kid[child[t]].told = "bound" /\ kid[child[t]].port = at[t]
    BY DEF LaunchInv, AdoptInv, ChildInv, TypesInv, LocalsTyped
  <2>2. kid[child[t]].life = "bound"
    BY <2>1 DEF LaunchInv, TypesInv, KidsInv, Live
  <2> QED
    BY <2>1, <2>2 DEF LaunchInv, TypesInv, KidsInv
<1> QED
  BY <1>1, LaunchHolds, PTL

\* As long as no launch withdraws another's claim, none leaves an orphan.
THEOREM NoOrphans == Spec => []ClaimedIsTracked
<1>1. LaunchInv => ClaimedIsTracked
  BY DEF LaunchInv
<1> QED
  BY <1>1, LaunchHolds, PTL
=============================================================================
