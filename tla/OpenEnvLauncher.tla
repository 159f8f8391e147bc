---------------------------- MODULE OpenEnvLauncher ----------------------------
(***************************************************************************)
(* rl_environments.py: launch_openenv.  Threads of a process start uvicorn *)
(* servers as children on random ports and keep them in a registry; a      *)
(* forked copy of the process inherits the registry, but not the children. *)
(* Other programs take and leave ports as they like, and children crash.   *)
(*                                                                         *)
(* A port stands for an endpoint (host, port).  The process that forks is  *)
(* Parent; nobody forks from the copy.                                     *)
(***************************************************************************)
EXTENDS Naturals, FiniteSets

CONSTANTS
  Threads,      \* threads of the parent that launch
  ForkThread,   \* the one thread of the forked process
  Ports,
  Children,     \* bound: the children ever spawned
  MaxTrials,    \* 30 in the code
  MaxLaunches   \* bound

ASSUME ThreadsAssumption == ForkThread \notin Threads
ASSUME BoundsAssumption  == MaxTrials \in Nat \ {0} /\ MaxLaunches \in Nat

Parent   == "parent"
Fork     == "fork"
Procs    == {Parent, Fork}
Everyone == Threads \cup {ForkThread}
Proc(t)  == IF t = ForkThread THEN Fork ELSE Parent
NoOne    == "none"
Stranger == "stranger"

ASSUME NamesAssumption == {NoOne, Stranger} \cap Children = {} /\ NoOne \notin Ports

VARIABLES
  holder,       \* per port: who listens on it
  kid,          \* per child: life, what its reader has seen it say, spawner, port
  registry,     \* per process and port: a child or NoOne
  reserved,     \* per process: ports claimed
  forked,       \* the copy exists
  pc,
  at,           \* per thread: the port it is trying
  child,        \* per thread: the child it is launching, NoOne for a client passed in
  trials,
  waited,       \* per thread: its watch has outlasted the grace
  mine,         \* per thread: the port of the client it got from its last launch
  launches,
  \* history, read by the properties only
  grace,        \* children accepted for an open port
  lostClaim     \* a launch withdrew the claim of another

shared  == <<registry, reserved>>
locals  == <<at, child, trials, waited, mine>>
history == <<grace, lostClaim>>
vars == <<holder, kid, shared, forked, pc, locals, launches, history>>

Unborn == [life |-> "unborn", told |-> "nothing", by |-> NoOne, port |-> NoOne]

Init ==
  /\ holder = [p \in Ports |-> NoOne]
  /\ kid = [c \in Children |-> Unborn]
  /\ registry = [q \in Procs |-> [p \in Ports |-> NoOne]]
  /\ reserved = [q \in Procs |-> {}]
  /\ forked = FALSE
  /\ pc = [t \in Everyone |-> "idle"]
  /\ at = [t \in Everyone |-> NoOne] /\ mine = [t \in Everyone |-> NoOne]
  /\ child = [t \in Everyone |-> NoOne]
  /\ trials = [t \in Everyone |-> 0] /\ waited = [t \in Everyone |-> FALSE]
  /\ launches = 0
  /\ grace = {} /\ lostClaim = FALSE

Live(c) == kid[c].life \in {"starting", "bound", "lost"}

-----------------------------------------------------------------------------
(* The machine: children, other programs, the fork. *)

Outside == UNCHANGED <<shared, forked, pc, locals, launches, history>>

\* The child binds its port, or finds it taken.
Bind(c) ==
  /\ kid[c].life = "starting"
  /\ IF holder[kid[c].port] = NoOne
       THEN /\ holder' = [holder EXCEPT ![kid[c].port] = c]
            /\ kid' = [kid EXCEPT ![c].life = "bound"]
       ELSE kid' = [kid EXCEPT ![c].life = "lost"] /\ UNCHANGED holder
  /\ Outside

\* _OpenEnvChildOutput latches its announcement, or its complaint.
Announce(c) ==
  /\ kid[c].life \in {"bound", "lost"} /\ kid[c].told = "nothing"
  /\ kid' = [kid EXCEPT ![c].told = IF kid[c].life = "bound" THEN "bound" ELSE "failed"]
  /\ UNCHANGED holder /\ Outside

\* It crashes, or exits for want of its port.  A zombie and a reaped child are
\* one here, as they are to poll() and to _openenv_pid_is_alive.
Exit(c) ==
  /\ Live(c)
  /\ kid' = [kid EXCEPT ![c].life = "dead"]
  /\ holder' = [p \in Ports |-> IF holder[p] = c THEN NoOne ELSE holder[p]]
  /\ Outside

\* Another program takes or leaves a port.
OtherProgram(p) ==
  /\ holder[p] \in {NoOne, Stranger}
  /\ holder' = [holder EXCEPT ![p] = IF @ = NoOne THEN Stranger ELSE NoOne]
  /\ UNCHANGED kid /\ Outside

\* fork, by a thread outside launch_openenv that has a client or none.  The lock
\* is left out: the steps it makes atomic are atomic here, the copy gets a new
\* one, and a fork in the middle of such a step is left out.
ForkBy(t) ==
  /\ ~forked /\ pc[t] = "idle"
  /\ forked' = TRUE
  /\ registry' = [registry EXCEPT ![Fork] = registry[Parent]]
  /\ reserved' = [reserved EXCEPT ![Fork] = reserved[Parent]]
  /\ mine' = [mine EXCEPT ![ForkThread] = mine[t]]
  /\ UNCHANGED <<holder, kid, pc, at, child, trials, waited, launches, history>>

-----------------------------------------------------------------------------
(* launch_openenv. *)

Goto(t, where) == pc' = [pc EXCEPT ![t] = where]

\* Return to the caller, with a client or with an exception.
Return(t) ==
  /\ Goto(t, "idle")
  /\ at' = [at EXCEPT ![t] = NoOne]
  /\ child' = [child EXCEPT ![t] = NoOne]
  /\ trials' = [trials EXCEPT ![t] = 0]
  /\ waited' = [waited EXCEPT ![t] = FALSE]

LastTrial(t) == trials[t] + 1 = MaxTrials

\* One trial more, or TimeoutError after the last.
Retry(t) ==
  IF LastTrial(t)
    THEN Return(t)
    ELSE /\ trials' = [trials EXCEPT ![t] = @ + 1]
         /\ Goto(t, "pick")
         /\ UNCHANGED <<at, child, waited>>

\* The caller passes in its client, if it has one.
Launch(t) ==
  /\ pc[t] = "idle" /\ launches < MaxLaunches
  /\ t = ForkThread => forked
  /\ launches' = launches + 1
  /\ Goto(t, "reap")
  /\ UNCHANGED <<holder, kid, shared, forked, locals, history>>

\* _reap_exited_openenv_children: only children of this process.
Reap(t) ==
  /\ pc[t] = "reap"
  /\ LET dead == {c \in Children : kid[c].by = Proc(t) /\ ~Live(c)}
     IN  /\ registry' = [registry EXCEPT ![Proc(t)] =
              [p \in Ports |-> IF @[p] \in dead THEN NoOne ELSE @[p]]]
  /\ Goto(t, IF mine[t] = NoOne THEN "pick" ELSE "alive")
  /\ at' = [at EXCEPT ![t] = mine[t]]
  /\ UNCHANGED <<holder, kid, reserved, forked, child, trials, waited, mine, launches, history>>

Recorded(t) == registry[Proc(t)][at[t]]

\* The owner polls.  Another process asks the system about the pid, which may
\* not answer, or answer for a program that has the pid now: it may take a dead
\* child for a live one.
SeenAlive(t, c) == Live(c) \/ kid[c].by # Proc(t)

\* check_openenv_works finds no good server: the next port for a client that
\* was passed in, a trial spent for one just launched.
NotWorking(t) == IF child[t] = NoOne THEN Goto(t, "pick") /\ UNCHANGED <<at, child, trials, waited>> ELSE Retry(t)

\* _openenv_child_alive.
Alive(t) ==
  /\ pc[t] = "alive"
  /\ LET c == Recorded(t)
     IN  \/ /\ c # NoOne /\ SeenAlive(t, c)
            /\ Goto(t, "health") /\ UNCHANGED <<registry, at, child, trials, waited>>
         \/ /\ c # NoOne => ~Live(c)
            /\ NotWorking(t)
            /\ IF c # NoOne /\ kid[c].by = Proc(t)
                 THEN registry' = [registry EXCEPT ![Proc(t)][at[t]] = NoOne]
                 ELSE UNCHANGED registry
  /\ UNCHANGED <<holder, kid, reserved, forked, mine, launches, history>>

\* GET /health, outside the lock: whoever listens may answer.
Healthy(t) ==
  /\ pc[t] = "health" /\ holder[at[t]] # NoOne
  /\ mine' = [mine EXCEPT ![t] = at[t]]
  /\ Return(t)
  /\ UNCHANGED <<holder, kid, shared, forked, launches, history>>

Unhealthy(t) ==
  /\ pc[t] = "health"
  /\ NotWorking(t)
  /\ UNCHANGED <<holder, kid, shared, forked, mine, launches, history>>

\* A random port; an open one costs a trial.
Pick(t) ==
  /\ pc[t] = "pick"
  /\ \E p \in Ports :
       IF holder[p] # NoOne THEN Retry(t)
       ELSE at' = [at EXCEPT ![t] = p] /\ Goto(t, "reserve") /\ UNCHANGED <<child, trials, waited>>
  /\ UNCHANGED <<holder, kid, shared, forked, mine, launches, history>>

Claimed(t) == at[t] \in reserved[Proc(t)] \/ Recorded(t) # NoOne

\* _reserve_openenv_endpoint.
Reserve(t) ==
  /\ pc[t] = "reserve"
  /\ IF Claimed(t)
       THEN Retry(t) /\ UNCHANGED reserved
       ELSE /\ reserved' = [reserved EXCEPT ![Proc(t)] = @ \cup {at[t]}]
            /\ Goto(t, "spawn") /\ UNCHANGED <<at, child, trials, waited>>
  /\ UNCHANGED <<holder, kid, registry, forked, mine, launches, history>>

\* Popen; the children that may still be spawned are bounded.
Spawn(t) ==
  /\ pc[t] = "spawn"
  /\ \E c \in Children :
       /\ kid[c] = Unborn
       /\ kid' = [kid EXCEPT ![c] = [life |-> "starting", told |-> "nothing", by |-> Proc(t), port |-> at[t]]]
       /\ child' = [child EXCEPT ![t] = c]
  /\ Goto(t, "register")
  /\ UNCHANGED <<holder, shared, forked, at, trials, waited, mine, launches, history>>

SpawnFails(t) ==
  /\ pc[t] = "spawn"
  /\ Goto(t, "unclaim")
  /\ UNCHANGED <<holder, kid, shared, forked, locals, launches, history>>

Unreserved(t) == reserved[Proc(t)] \ {at[t]}

\* _release_openenv_endpoint without a child, then the exception.
Unclaim(t) ==
  /\ pc[t] = "unclaim"
  /\ reserved' = [reserved EXCEPT ![Proc(t)] = Unreserved(t)]
  /\ Return(t)
  /\ UNCHANGED <<holder, kid, registry, forked, mine, launches, history>>

\* _register_openenv_child.
Register(t) ==
  /\ pc[t] = "register"
  /\ registry' = [registry EXCEPT ![Proc(t)][at[t]] = child[t]]
  /\ reserved' = [reserved EXCEPT ![Proc(t)] = @ \ {at[t]}]
  /\ Goto(t, "watch")
  /\ waited' = [waited EXCEPT ![t] = FALSE]
  /\ UNCHANGED <<holder, kid, forked, at, child, trials, mine, launches, history>>

\* The watch loop, in the order of its tests.
Wait(t) ==
  /\ pc[t] = "watch" /\ ~waited[t]
  /\ waited' = [waited EXCEPT ![t] = TRUE]
  /\ UNCHANGED <<holder, kid, shared, forked, pc, at, child, trials, mine, launches, history>>

OpenPort(t) == holder[at[t]] # NoOne                           \* mutant
SaidBound(t) == kid[child[t]].told = "bound"
Dead(t) == kid[child[t]].told = "failed" \/ ~Live(child[t])

SeenBound(t) ==
  /\ pc[t] = "watch" /\ SaidBound(t)
  /\ Goto(t, "ours")
  /\ UNCHANGED <<holder, kid, shared, forked, locals, launches, history>>

SeenDead(t) ==
  /\ pc[t] = "watch" /\ ~SaidBound(t) /\ Dead(t)
  /\ Goto(t, "release")
  /\ UNCHANGED <<holder, kid, shared, forked, locals, launches, history>>

\* Nothing recognised in its log for the grace, which counts from the spawn and
\* not from the moment the port was open.
GracePeriod(t) ==
  /\ pc[t] = "watch" /\ ~SaidBound(t) /\ ~Dead(t)
  /\ waited[t] /\ holder[at[t]] # NoOne
  /\ grace' = grace \cup {child[t]}
  /\ Goto(t, "ours")
  /\ UNCHANGED <<holder, kid, shared, forked, locals, launches, lostClaim>>

\* 60 seconds: TimeoutError, and the child stays registered.
TimesOut(t) ==
  /\ pc[t] = "watch" /\ ~SaidBound(t) /\ ~Dead(t) /\ waited[t]
  /\ Return(t)
  /\ UNCHANGED <<holder, kid, shared, forked, mine, launches, history>>

NobodysRecord(t) == NoOne                                      \* mutant

\* Compare and delete: the record goes only if it is still this child's.
AfterRelease(t) == IF Recorded(t) = child[t] THEN NoOne ELSE Recorded(t)

\* _release_openenv_endpoint; the claim on the port goes whosever it is.
Release(t) ==
  /\ pc[t] = "release"
  /\ registry' = [registry EXCEPT ![Proc(t)][at[t]] = AfterRelease(t)]
  /\ reserved' = [reserved EXCEPT ![Proc(t)] = @ \ {at[t]}]
  /\ lostClaim' = (lostClaim \/ at[t] \in reserved[Proc(t)])
  /\ Goto(t, "ours")
  /\ UNCHANGED <<holder, kid, forked, locals, launches, grace>>

\* The record is still this launch's: a client, and the same checks as above.
Ours(t) ==
  /\ pc[t] = "ours"
  /\ IF Recorded(t) = child[t]
       THEN Goto(t, "alive") /\ UNCHANGED <<at, child, trials, waited>>
       ELSE Retry(t)
  /\ UNCHANGED <<holder, kid, shared, forked, mine, launches, history>>

-----------------------------------------------------------------------------
Checking(t) == Reap(t) \/ Alive(t) \/ Healthy(t) \/ Unhealthy(t) \/ Ours(t)
Spawning(t) == Pick(t) \/ Reserve(t) \/ Spawn(t) \/ SpawnFails(t) \/ Unclaim(t) \/ Register(t)
Watching(t) == Wait(t) \/ SeenBound(t) \/ SeenDead(t) \/ GracePeriod(t) \/ TimesOut(t) \/ Release(t)

Step(t) == Checking(t) \/ Spawning(t) \/ Watching(t)

Machine ==
  \/ \E c \in Children : Bind(c) \/ Announce(c) \/ Exit(c)
  \/ \E p \in Ports : OtherProgram(p)
  \/ \E t \in Threads : ForkBy(t)

Next == Machine \/ \E t \in Everyone : Launch(t) \/ Step(t)

Spec == Init /\ [][Next]_vars

-----------------------------------------------------------------------------
(* What a trainer relies on. *)

TypeOK ==
  /\ holder \in [Ports -> Children \cup {Stranger, NoOne}]
  /\ \A c \in Children :
       /\ kid[c].life \in {"unborn", "starting", "bound", "lost", "dead"}
       /\ kid[c].told \in {"nothing", "bound", "failed"}
       /\ kid[c].by \in Procs \cup {NoOne} /\ kid[c].port \in Ports \cup {NoOne}
       /\ kid[c].life = "bound" => holder[kid[c].port] = c
  /\ registry \in [Procs -> [Ports -> Children \cup {NoOne}]]
  /\ reserved \in [Procs -> SUBSET Ports]
  /\ pc \in [Everyone -> {"idle", "reap", "alive", "health", "pick", "reserve", "spawn",
                          "unclaim", "register", "watch", "release", "ours"}]
  /\ at \in [Everyone -> Ports \cup {NoOne}] /\ mine \in [Everyone -> Ports \cup {NoOne}]
  /\ child \in [Everyone -> Children \cup {NoOne}]
  /\ trials \in [Everyone -> 0..(MaxTrials - 1)]
  /\ launches \in 0..MaxLaunches

\* "the child's own announcement is the proof" (rl_environments.py:1603): when
\* a launch asks the child it spawned for its health, that child has the port
\* as long as it lives.
AsksItsChild(t) ==
  pc[t] = "health" /\ child[t] = Recorded(t) /\ child[t] # NoOne /\ Live(child[t])
    => holder[at[t]] = child[t]

AdoptedIsOurs == \A t \in Everyone : AsksItsChild(t)

\* The same for children that were not accepted for an open port.
AnnouncedIsOurs == \A t \in Everyone : child[t] \notin grace => AsksItsChild(t)

\* _OPENENV_RESERVED: a child that runs and has not lost its port is on record
\* with the process that spawned it, so that no launch leaves an orphan.
Tracked == \A c \in Children :
  kid[c].life \in {"starting", "bound"} =>
    \/ registry[kid[c].by][kid[c].port] = c
    \/ \E t \in Everyone : child[t] = c /\ pc[t] = "register"

\* The same while no launch has withdrawn another's claim.
ClaimedIsTracked == ~lostClaim => Tracked
=============================================================================
