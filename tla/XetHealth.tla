------------------------------ MODULE XetHealth ------------------------------
(***************************************************************************)
(* unsloth_zoo_downloads/hf_xet_health.py: the verdict whether downloads   *)
(* should start on Xet or on HTTP.  It lives in a state file shared by the *)
(* processes of one machine, behind a lock file that is given up on after  *)
(* some seconds, and in a memo per process that a generation counter       *)
(* guards, because an evaluation reads the file, and may probe the         *)
(* network, outside every lock.                                            *)
(*                                                                         *)
(* A state is the file's content, or NoState where it is absent or         *)
(* corrupt; "fresh" is that its age is within the verdict's TTL.  A read,  *)
(* a write or the removal of the file may fail, and the code goes on: what *)
(* it could not read counts as NoState, what it could not write stays.     *)
(***************************************************************************)
EXTENDS Naturals

CONSTANTS
  Processes,
  Workers,      \* download threads of each process
  Keys,         \* hf_xet version and endpoint a process runs with
  Running,      \* processes that keep running; any other may be suspended
  MaxOps        \* bound: calls made by all threads together

ASSUME MaxOpsAssumption  == MaxOps \in Nat
ASSUME RunningAssumption == Running \subseteq Processes

DemotionThreshold == 2

Threads == Processes \X Workers
Proc(t) == t[1]

VARIABLES
  file,         \* the state file
  epoch,        \* history: times the file was replaced or removed
  key,          \* the key of each process
  generation, memo, stateMutex,        \* per process
  fileLock,     \* the thread that holds the state file's lock
  pc, call, gen, state, answer,        \* per thread: its call and its locals
  ops,
  \* history, read by the properties only
  streak,       \* failures reported since the row in the file began
  lost,         \* one of them was not written, or written over an unread file
  raced,        \* reports of two processes, or a clear and a report, overlapped
  known         \* per process: epoch of the last outcome it invalidated for

shared  == <<file, epoch>>
process == <<generation, memo, stateMutex>>
locals  == <<gen, state, answer>>
history == <<streak, lost, raced, known>>
healthVars == <<shared, key, process, fileLock, pc, call, locals, ops, history>>

NoState == [verdict |-> "none", failures |-> 0, fresh |-> FALSE, key |-> "none"]
NoMemo  == [verdict |-> "none", source |-> "none", probe |-> FALSE, epoch |-> 0]
Free    == <<>>

States == [verdict : {"xet", "http"}, failures : 0..MaxOps, fresh : BOOLEAN, key : Keys]
Calls  == {"none", "ask", "probe", "force", "success", "failure", "clear"}

HealthTypeOK ==
  /\ file \in States \cup {NoState}
  /\ epoch \in Nat
  /\ key \in [Processes -> Keys]
  /\ generation \in [Processes -> Nat]
  /\ memo \in [Processes -> [verdict : {"xet", "http", "none"}, probe : BOOLEAN, epoch : Nat,
                             source : {"cached", "default", "probe", "none"}]]
  /\ stateMutex \in [Processes -> Threads \cup {Free}]
  /\ fileLock \in Threads \cup {Free}
  /\ pc \in [Threads -> {"idle", "evaluate", "probing", "mutex", "guard", "read", "write",
                         "unlock", "publish", "invalidate", "unlink"}]
  /\ call \in [Threads -> Calls]
  /\ gen \in [Threads -> Nat]
  /\ state \in [Threads -> States \cup {NoState}]
  /\ answer \in [Threads -> [verdict : {"xet", "http", "none"}, probe : BOOLEAN, epoch : Nat,
                             source : {"cached", "default", "probe", "none"}]]
  /\ ops \in 0..MaxOps

HealthInit ==
  /\ file = NoState /\ epoch = 0
  /\ key \in [Processes -> Keys]
  /\ generation = [p \in Processes |-> 0]
  /\ memo = [p \in Processes |-> NoMemo]
  /\ stateMutex = [p \in Processes |-> Free] /\ fileLock = Free
  /\ pc = [t \in Threads |-> "idle"] /\ call = [t \in Threads |-> "none"]
  /\ gen = [t \in Threads |-> 0] /\ state = [t \in Threads |-> NoState]
  /\ answer = [t \in Threads |-> NoMemo]
  /\ ops = 0
  /\ streak = 0 /\ lost = FALSE /\ raced = FALSE /\ known = [p \in Processes |-> 0]

-----------------------------------------------------------------------------
(* Helpers. *)

Asking   == {"ask", "probe", "force"}
Probing  == {"probe", "force"}
Outcomes == {"success", "failure"}

Goto(t, where) == pc' = [pc EXCEPT ![t] = where]

\* A call ends: its locals are gone.
Return(t) ==
  /\ Goto(t, "idle")
  /\ call' = [call EXCEPT ![t] = "none"]
  /\ gen' = [gen EXCEPT ![t] = 0]
  /\ state' = [state EXCEPT ![t] = NoState]
  /\ answer' = [answer EXCEPT ![t] = NoMemo]

\* _state_is_current
Current(s, p) == s.verdict # "none" /\ s.key = key[p] /\ s.fresh

\* Whether the memo answers this caller: an unprobed optimistic default does
\* not satisfy one that asks for a probe.
MemoHit(p, c) ==
  /\ c # "force" /\ memo[p].verdict # "none"
  /\ memo[p].probe \/ c = "ask" \/ memo[p].source # "default"

Replace(s) == file' = s /\ epoch' = epoch + 1

\* What stands when a failure does not reach the threshold.
Standing(base) == IF base.verdict = "none" THEN "xet" ELSE base.verdict

\* What _record_outcome_locked writes, given the state it read.
Recorded(s, ok, p) ==
  LET base     == IF s.key = key[p] THEN s ELSE NoState
      failures == IF ok THEN 0 ELSE base.failures + 1
  IN  [verdict  |-> CASE ok -> "xet"
                      [] ~ok /\ failures >= DemotionThreshold -> "http"
                      [] ~ok /\ failures < DemotionThreshold -> Standing(base),
       failures |-> failures, fresh |-> TRUE, key |-> key[p]]

-----------------------------------------------------------------------------
(* xet_health: the memo, then _evaluate outside the locks. *)

\* Answered from the memo, or the generation is noted and the evaluation
\* starts.
Ask(t, c) ==
  /\ pc[t] = "idle" /\ ops < MaxOps /\ c \in Asking
  /\ ~MemoHit(Proc(t), c)
  /\ ops' = ops + 1
  /\ call' = [call EXCEPT ![t] = c]
  /\ gen' = [gen EXCEPT ![t] = generation[Proc(t)]]
  /\ Goto(t, "evaluate")
  /\ UNCHANGED <<shared, key, process, fileLock, state, answer, history>>

\* A current state answers, a missing one defaults to Xet unless the caller
\* wants a probe.
Evaluate(t) ==
  /\ pc[t] = "evaluate"
  /\ \E seen \in {file, NoState} :           \* NoState: the read failed
       LET known_  == call[t] # "force" /\ Current(seen, Proc(t))
           verdict == IF known_ THEN seen.verdict ELSE "xet"
       IN  IF known_ \/ call[t] \notin Probing
             THEN /\ answer' = [answer EXCEPT ![t] =
                       [verdict |-> verdict, probe |-> call[t] \in Probing, epoch |-> epoch,
                        source |-> IF known_ THEN "cached" ELSE "default"]]
                  /\ Goto(t, "publish")
             ELSE /\ answer' = [answer EXCEPT ![t].epoch = epoch]
                  /\ Goto(t, "probing")
  /\ UNCHANGED <<shared, key, process, fileLock, call, gen, state, ops, history>>

\* The probe measures, or it is inconclusive and nothing is persisted.
Probe(t) ==
  /\ pc[t] = "probing"
  /\ \/ /\ answer' = [answer EXCEPT ![t].verdict = "xet", ![t].source = "default", ![t].probe = TRUE]
        /\ Goto(t, "publish")
     \/ /\ \E v \in {"xet", "http"} :
             answer' = [answer EXCEPT ![t].verdict = v, ![t].source = "probe", ![t].probe = TRUE]
        /\ Goto(t, "mutex")
  /\ UNCHANGED <<shared, key, process, fileLock, call, gen, state, ops, history>>

AlwaysPublish(t) == TRUE                               \* mutant
NothingRecordedSince(t) == gen[t] = generation[Proc(t)]

\* The memo takes the answer unless an outcome was recorded meanwhile.
Publish(t) ==
  /\ pc[t] = "publish"
  /\ memo' = IF NothingRecordedSince(t) THEN [memo EXCEPT ![Proc(t)] = answer[t]] ELSE memo
  /\ Return(t)
  /\ UNCHANGED <<shared, key, generation, stateMutex, fileLock, ops, history>>

-----------------------------------------------------------------------------
(* Writing the state file: a probe's verdict, or an outcome. *)

Record(t, c) ==
  /\ pc[t] = "idle" /\ ops < MaxOps /\ c \in Outcomes
  /\ ops' = ops + 1
  /\ call' = [call EXCEPT ![t] = c]
  /\ Goto(t, "mutex")
  /\ UNCHANGED <<shared, key, process, fileLock, locals, history>>

MutexFree(t) == stateMutex[Proc(t)] = Free

\* _STATE_MUTEX, between the threads of a process.
LockMutex(t) ==
  /\ pc[t] = "mutex"
  /\ MutexFree(t)
  /\ stateMutex' = [stateMutex EXCEPT ![Proc(t)] = t]
  /\ Goto(t, "guard")
  /\ UNCHANGED <<shared, key, generation, memo, fileLock, call, locals, ops, history>>

AfterGuard(t) == Goto(t, IF call[t] \in Outcomes THEN "read" ELSE "write")

\* Threads of other processes between reading and replacing the file.
Rewriting(t) == {u \in Threads : Proc(u) # Proc(t) /\ pc[u] \in {"read", "write"}}

LockIgnored == TRUE                                    \* mutant
LockFree == fileLock = Free

\* _state_file_guard, between processes.
LockFile(t) ==
  /\ pc[t] = "guard"
  /\ LockFree
  /\ fileLock' = t
  /\ raced' = (raced \/ Rewriting(t) \ {fileLock} # {})
  /\ AfterGuard(t)
  /\ UNCHANGED <<shared, key, process, call, locals, ops, streak, lost, known>>

WaitForever(t) == FALSE                                \* mutant

\* The lock's time-out, or any other failure to lock.
GivesUpLock(t) == pc[t] = "guard"

\* The wait timed out, or there is no locking on this file system: carry on
\* without the lock.
GoUnlocked(t) ==
  /\ GivesUpLock(t)
  /\ raced' = (raced \/ Rewriting(t) # {})
  /\ AfterGuard(t)
  /\ UNCHANGED <<shared, key, process, fileLock, call, locals, ops, streak, lost, known>>

ReadState(t) ==
  /\ pc[t] = "read"
  /\ state' = [state EXCEPT ![t] = file]
  /\ Goto(t, "write")
  /\ UNCHANGED <<shared, key, process, fileLock, call, gen, answer, ops, history>>

\* The file is there but cannot be read or parsed: a failure starts again
\* from one, and what the row counted before is forgotten.
ReadFails(t) ==
  /\ pc[t] = "read" /\ file # NoState
  /\ state' = [state EXCEPT ![t] = NoState]
  /\ Goto(t, "write")
  /\ lost' = (lost \/ call[t] = "failure")
  /\ UNCHANGED <<shared, key, process, fileLock, call, gen, answer, ops, streak, raced, known>>

\* A probe's verdict supersedes the streak.
WriteProbe(t) ==
  /\ pc[t] = "write" /\ call[t] \in Probing
  /\ Replace([verdict |-> answer[t].verdict, failures |-> 0, fresh |-> TRUE, key |-> key[Proc(t)]])
  /\ answer' = [answer EXCEPT ![t].epoch = epoch + 1]
  /\ streak' = 0 /\ lost' = FALSE
  /\ Goto(t, "unlock")
  /\ UNCHANGED <<key, process, fileLock, call, gen, state, ops, raced, known>>

WriteOutcome(t) ==
  /\ pc[t] = "write" /\ call[t] \in Outcomes
  /\ Replace(Recorded(state[t], call[t] = "success", Proc(t)))
  /\ streak' = IF call[t] = "success" THEN 0
               ELSE IF file.key = key[Proc(t)] THEN streak + 1 ELSE 1
  /\ lost' = (lost /\ call[t] = "failure" /\ file.key = key[Proc(t)])
  /\ Goto(t, "unlock")
  /\ UNCHANGED <<key, process, fileLock, call, locals, ops, raced, known>>

\* No disk space, no permission: _write_state leaves the old file in place.
WriteFails(t) ==
  /\ pc[t] = "write"
  /\ LET missed == call[t] = "failure" /\ file.key = key[Proc(t)]
     IN  streak' = (IF missed THEN streak + 1 ELSE streak) /\ lost' = (lost \/ missed)
  /\ Goto(t, "unlock")
  /\ UNCHANGED <<shared, key, process, fileLock, call, locals, ops, raced, known>>

Unlock(t) ==
  /\ pc[t] = "unlock"
  /\ stateMutex' = [stateMutex EXCEPT ![Proc(t)] = Free]
  /\ fileLock' = IF fileLock = t THEN Free ELSE fileLock
  /\ Goto(t, IF call[t] \in Outcomes THEN "invalidate" ELSE "publish")
  /\ UNCHANGED <<shared, key, generation, memo, call, locals, ops, history>>

\* The memo is dropped only now, under _LOCK.
Invalidate(t) ==
  /\ pc[t] = "invalidate"
  /\ memo' = [memo EXCEPT ![Proc(t)] = NoMemo]
  /\ generation' = [generation EXCEPT ![Proc(t)] = @ + 1]
  /\ known' = [known EXCEPT ![Proc(t)] = epoch]
  /\ Return(t)
  /\ UNCHANGED <<shared, key, stateMutex, fileLock, ops, streak, lost, raced>>

-----------------------------------------------------------------------------
(* clear_xet_health, time, and crashes. *)

Clear(t) ==
  /\ pc[t] = "idle" /\ ops < MaxOps
  /\ ops' = ops + 1
  /\ call' = [call EXCEPT ![t] = "clear"]
  /\ memo' = [memo EXCEPT ![Proc(t)] = NoMemo]
  /\ generation' = [generation EXCEPT ![Proc(t)] = @ + 1]
  /\ Goto(t, "unlink")
  /\ UNCHANGED <<shared, key, stateMutex, fileLock, locals, history>>

\* The file is removed under no lock at all, unless the removal fails.
Unlink(t) ==
  /\ pc[t] = "unlink"
  /\ \/ /\ Replace(NoState)
        /\ streak' = 0 /\ lost' = FALSE
        /\ raced' = (raced \/ \E u \in Threads : pc[u] = "write" /\ call[u] \in Outcomes)
     \/ UNCHANGED <<shared, streak, lost, raced>>
  /\ Return(t)
  /\ UNCHANGED <<key, process, fileLock, ops, known>>

FileExpires ==
  /\ file.fresh
  /\ file' = [file EXCEPT !.fresh = FALSE]
  /\ UNCHANGED <<epoch, key, process, fileLock, pc, call, locals, ops, history>>

MemoExpires(p) ==
  /\ memo[p] # NoMemo
  /\ memo' = [memo EXCEPT ![p] = NoMemo]
  /\ UNCHANGED <<shared, key, generation, stateMutex, fileLock, pc, call, locals, ops, history>>

\* The process dies, the kernel drops its locks, and a new one takes over.
Crash(p) ==
  /\ \E t \in Threads : Proc(t) = p /\ pc[t] # "idle"
  /\ generation' = [generation EXCEPT ![p] = 0]
  /\ memo' = [memo EXCEPT ![p] = NoMemo]
  /\ known' = [known EXCEPT ![p] = 0]
  /\ stateMutex' = [stateMutex EXCEPT ![p] = Free]
  /\ fileLock' = IF fileLock # Free /\ Proc(fileLock) = p THEN Free ELSE fileLock
  /\ pc' = [t \in Threads |-> IF Proc(t) = p THEN "idle" ELSE pc[t]]
  /\ call' = [t \in Threads |-> IF Proc(t) = p THEN "none" ELSE call[t]]
  /\ gen' = [t \in Threads |-> IF Proc(t) = p THEN 0 ELSE gen[t]]
  /\ state' = [t \in Threads |-> IF Proc(t) = p THEN NoState ELSE state[t]]
  /\ answer' = [t \in Threads |-> IF Proc(t) = p THEN NoMemo ELSE answer[t]]
  /\ UNCHANGED <<shared, key, ops, streak, lost, raced>>

-----------------------------------------------------------------------------
\* A call in progress moves on.
Step(t) ==
  \/ Evaluate(t) \/ Probe(t) \/ Publish(t) \/ LockFile(t) \/ GoUnlocked(t)
  \/ ReadState(t) \/ ReadFails(t) \/ WriteProbe(t) \/ WriteOutcome(t) \/ WriteFails(t) \/ Unlock(t)
  \/ Invalidate(t) \/ Unlink(t)

HealthNext ==
  \/ \E t \in Threads : \/ \E c \in Asking : Ask(t, c)
                        \/ \E c \in Outcomes : Record(t, c)
                        \/ Clear(t) \/ LockMutex(t) \/ Step(t)
  \/ FileExpires
  \/ \E p \in Processes : MemoExpires(p) \/ Crash(p)

HealthSpec == HealthInit /\ [][HealthNext]_healthVars

\* Only the threads of the Running processes are assumed to be scheduled.
FairHealthSpec ==
  /\ HealthSpec
  /\ \A t \in Running \X Workers : WF_healthVars(LockMutex(t)) /\ WF_healthVars(Step(t))

-----------------------------------------------------------------------------
(* What the downloads rely on. *)

\* The streak in the file is the number of failures that were reported since
\* its row began (at a success, a probe, a clear, another key or an absent
\* file): none of any process or thread is lost or counted twice.  It falls
\* short only after the disk refused one of them, a write that failed or a
\* file that could not be read before one; and even then it never exceeds the
\* reports.  Neither holds once two processes overlapped of which one went
\* without the lock file, or a clear fell in the middle of a report; the
\* threads of one process never break it.
StreakExact ==
  ~raced /\ file # NoState
    => /\ file.failures <= streak
       /\ ~lost => file.failures = streak

\* Once a process has invalidated its memo for an outcome, no answer that was
\* read from an older file is memoised, however long that evaluation took.
MemoNotOlder == \A p \in Processes : memo[p] # NoMemo => memo[p].epoch >= known[p]

\* Whatever other processes do with the lock file, stopping for good while
\* they hold it included, a report or an evaluation comes back.
NeverBlocked == \A t \in Running \X Workers : pc[t] # "idle" ~> pc[t] = "idle"

-----------------------------------------------------------------------------
(* What three texts of the repository say of this code. *)

\* "One bad download is noise": a single failure never moves the downloads
\* from Xet to HTTP.
OneFailureIsNoise ==
  [][~raced' /\ file' # file /\ file'.verdict = "http" /\ file'.failures = 1
       => file.verdict = "http" /\ file.fresh]_healthVars

\* "two consecutive failures demote to HTTP": a demotion stands until it
\* expires, a later success or probe replaces it, or it is cleared.
DemotionStands ==
  [][\A t \in Threads :
       /\ pc[t] = "write" /\ call[t] = "probe" /\ pc'[t] = "unlock" /\ ~raced
       /\ file.failures >= DemotionThreshold /\ Current(file, Proc(t))
       => file' = file]_healthVars

\* "an evaluation started before this clear ... republishes the verdict just
\* forgotten": after a clear, no verdict from before it is memoised.
ForgottenStaysForgotten ==
  file = NoState /\ epoch > 0
    => \A p \in Processes : (\A t \in Threads : Proc(t) = p => pc[t] = "idle")
         => memo[p].source # "cached"
=============================================================================
