------------------------------ MODULE ExpertSlots ------------------------------
(***************************************************************************)
(* mlx/offload.py: the experts of offloaded layers.  Each layer keeps some *)
(* of its experts in slots; a call reads the others it routes to from the  *)
(* checkpoint, over slots it takes from experts it does not use.  A wide   *)
(* prefill runs a layer on a table of all its experts instead, while a     *)
(* thread fills the next layer's table, half of it copied from the slots.  *)
(*                                                                         *)
(* Weights are named by their expert.  The routing scores that pick the    *)
(* victims are left out: any expert the call does not use may be evicted.  *)
(* Forward passes run one at a time, each in one thread.                   *)
(***************************************************************************)
EXTENDS Integers, FiniteSets, Functions

CONSTANTS
  Layers,     \* 1..n, the offloaded layers in the order of a forward pass
  Experts,    \* per layer: its experts
  Capacity,   \* per layer: its number of slots
  InPlace,    \* layers whose reads go straight into the slots; the others cast
  Threads     \* threads that run forward passes

ASSUME LayersAssumption  == IsFiniteSet(Layers) /\ Layers # {} /\ Layers = 1..Cardinality(Layers)

None == 0

ASSUME ExpertsAssumption == \A l \in Layers :
  IsFiniteSet(Experts[l]) /\ None \notin Experts[l] /\ Capacity[l] \in Nat \ {0}

Junk == -1                        \* no expert's weights: what a failed read leaves
Slots(l) == 1..Capacity[l]
NoTable == <<>>

VARIABLES
  slots,      \* per layer: slotOf, expertOf, map, data, readers, by; pending
              \* and dropped, outputs not evaluated; late, writes under way
  full,       \* per layer: the table it runs on, what each expert's row holds
  ahead,      \* per layer: the table read ahead for it, and the slots to copy
  spare,      \* per layer: the table the layer before is done with
  at,         \* the layer the forward pass is at
  thread,     \* the thread it runs in
  todo,       \* the call in progress: experts to come, those that had no slot
  broken      \* history, per layer: what has put its slots in doubt

tables == <<full, ahead, spare>>
vars == <<slots, tables, at, thread, todo, broken>>

NoCall == [rest |-> {}, missing |-> {}, lazy |-> FALSE]
NoAhead == [table |-> NoTable, from |-> <<>>, state |-> "none"]

Init ==
  /\ slots = [l \in Layers |->
       [slotOf   |-> [e \in Experts[l] |-> None],
        expertOf |-> [k \in Slots(l) |-> None],
        map      |-> [e \in Experts[l] |-> 1],
        data     |-> [k \in Slots(l) |-> None],
        readers  |-> {},
        by       |-> None,
        pending  |-> {},
        dropped  |-> {},
        late     |-> {}]]
  /\ full = [l \in Layers |-> NoTable] /\ spare = [l \in Layers |-> NoTable]
  /\ ahead = [l \in Layers |-> NoAhead]
  /\ at = 1 /\ thread \in Threads
  /\ todo = NoCall
  /\ broken = [l \in Layers |-> {}]

-----------------------------------------------------------------------------
(* The forward pass: a layer makes calls or runs wide, then the next follows. *)

\* The pass is at layer l, between two calls.
Running(l) == at = l /\ todo = NoCall /\ \A k \in Layers : full[k] = NoTable

NewPass == at' = 1 /\ thread' \in Threads
Continue == UNCHANGED <<at, thread>>

GoOn(l) == IF l + 1 \in Layers THEN at' = l + 1 /\ UNCHANGED thread ELSE NewPass

\* An exception or an interrupt between two calls.  Inside a call only a read
\* is interrupted (ReadFails); an interrupt between the assignments that follow
\* the read is left out.
Abort ==
  /\ \E l \in Layers : Running(l)
  /\ NewPass
  /\ UNCHANGED <<slots, tables, todo, broken>>

-----------------------------------------------------------------------------
(* A call on layer l: OffloadSwitchGLU.__call__, _part, _by_expert, ensure. *)

Resident(l) == {e \in Experts[l] : slots[l].slotOf[e] # None}
Missing(l, C) == C \ Resident(l)

Joined(l) == ahead[l].state \in {"none", "filled"}

\* A table read ahead that nothing used is waited for and dropped, as is a
\* spare one.  "lazy": the outputs are not evaluated, the call fits the slots.
Call(l, X) ==
  /\ Running(l) /\ Joined(l)
  /\ todo' = [rest |-> X, missing |-> Missing(l, X), lazy |-> Cardinality(X) <= Capacity[l]]
  /\ ahead' = [ahead EXCEPT ![l] = NoAhead]
  /\ spare' = [spare EXCEPT ![l] = NoTable]
  /\ Continue
  /\ UNCHANGED <<slots, full, broken>>

\* The read ahead failed: its exception ends the pass, once.
JoinFails(l) ==
  /\ Running(l) /\ ahead[l].state = "failed"
  /\ ahead' = [ahead EXCEPT ![l] = NoAhead]
  /\ NewPass
  /\ UNCHANGED <<slots, full, spare, todo, broken>>

\* A call is running on layer l.
Busy(l) == at = l /\ todo # NoCall

Smaller(m, n) == IF m < n THEN m ELSE n

\* _by_expert: experts that had a slot come before the others.
InOrder(l, C) == C \cap todo.missing = {} \/ todo.rest \ C \subseteq todo.missing

\* As many of the remaining experts as there are slots.
Chunks(l) == {C \in SUBSET todo.rest :
  Cardinality(C) = Smaller(Capacity[l], Cardinality(todo.rest)) /\ InOrder(l, C)}

\* _reserve: slots recorded for an expert of the call are not victims.
Held(l, C) == {k \in Slots(l) : slots[l].expertOf[k] \notin C \cup {None}}

\* _reserve: free slots, then victims.  There may be too few: the victim of a
\* read that failed still counts as the slot's expert.
Reservations(l, C) ==
  LET free  == {k \in Slots(l) : slots[l].expertOf[k] = None}
      count == Cardinality(Missing(l, C))
      more  == count - Cardinality(free)
  IN  IF more <= 0
        THEN {f \in SUBSET free : Cardinality(f) = count}
        ELSE {free \cup v : v \in {w \in SUBSET Held(l, C) :
                Cardinality(w) = Smaller(more, Cardinality(Held(l, C)))}}

EvictedNothing(l, X) == slots[l].slotOf                        \* mutant

\* slot_of once the experts recorded for the slots X have lost theirs.
Evicted(l, X) == [e \in Experts[l] |->
  IF \E k \in X : slots[l].expertOf[k] = e THEN None ELSE slots[l].slotOf[e]]

Overwrite(f, g) == [k \in DOMAIN f |-> IF k \in DOMAIN g THEN g[k] ELSE f[k]]

\* Outputs of a thread, as slots read and the experts in them.
Tagged(t, pairs) == {<<t, r[1], r[2]>> : r \in pairs}
Listed(s) == Tagged(s.by, s.readers)

\* _settle_readers: the listed outputs are evaluated by their own thread, and
\* dropped from the list unevaluated by another.
Settle(s) ==
  IF s.by = thread THEN [s EXCEPT !.readers = {}, !.pending = @ \ Listed(s)]
                   ELSE [s EXCEPT !.readers = {}, !.dropped = @ \cup (s.pending \cap Listed(s))]

Unsettled(l) == slots[l]                                       \* mutant

\* Before a read in place.
Settled(l) == IF l \in InPlace THEN Settle(slots[l]) ELSE slots[l]

\* read_by: the outputs join the list of the thread's.
ReadBy(s, pairs) ==
  LET own == IF s.by = thread THEN s ELSE Settle(s)
      new == Tagged(thread, pairs)
  IN  [own EXCEPT !.readers = @ \cup pairs, !.by = thread,
                  !.pending = @ \cup new, !.dropped = @ \ new]

\* A reservation takes slots that the parts of a failed read still write to.
Doubt(l, X) ==
  IF l \in InPlace /\ \E w \in slots[l].late : w[1] \in X THEN {"overtaken"} ELSE {}

\* The map is rebuilt whole, from slot_of.
Rebuilt(slotOf) == [e \in DOMAIN slotOf |-> IF slotOf[e] = None THEN 1 ELSE slotOf[e]]

\* The experts C are in place; after the last of them, read_by keeps the
\* outputs of a call that fits, or evaluates them (too many, too large).
Served(l, C, s) ==
  LET listed == ReadBy(s, {<<s.map[e], e>> : e \in C})
      last   == C = todo.rest
  IN  /\ todo' = IF last THEN NoCall ELSE [todo EXCEPT !.rest = @ \ C]
      /\ IF last /\ todo.lazy /\ l \in InPlace
           THEN \E r \in {listed, Settle(listed)} : slots' = [slots EXCEPT ![l] = r]
           ELSE slots' = [slots EXCEPT ![l] = s]
      /\ Continue \/ (last /\ GoOn(l))
      /\ UNCHANGED tables

Hit(l) ==
  /\ Busy(l)
  /\ \E C \in Chunks(l) : Missing(l, C) = {} /\ Served(l, C, slots[l])
  /\ UNCHANGED broken

\* Every missing expert is read into a slot of its own.
Read(l) ==
  /\ Busy(l)
  /\ \E C \in Chunks(l) : \E X \in Reservations(l, C) :
       /\ Missing(l, C) # {} /\ Cardinality(X) = Cardinality(Missing(l, C))
       /\ \E f \in Injection(X, Missing(l, C)) :
            LET slotOf == Overwrite(Evicted(l, X), [e \in Range(f) |-> CHOOSE k \in X : f[k] = e])
            IN  Served(l, C, [Settled(l) EXCEPT !.slotOf = slotOf,
                                                !.expertOf = Overwrite(@, f),
                                                !.map = Rebuilt(slotOf),
                                                !.data = Overwrite(@, f)])
       /\ broken' = [broken EXCEPT ![l] = @ \cup Doubt(l, X)]

\* A read fails: the victims have lost their slots, expert_of and the map have
\* not changed.  In place the slots hold whatever had arrived, and the parts of
\* the read that other threads of the pool have begun go on writing to them.
ReadFails(l) ==
  /\ Busy(l)
  /\ \E C \in Chunks(l) : \E X \in Reservations(l, C) :
       /\ Missing(l, C) # {}
       /\ \E f \in Injection(X, Missing(l, C)) :
          \E running \in SUBSET {<<k, f[k]>> : k \in X} :
            slots' = [slots EXCEPT ![l] = [Settled(l) EXCEPT
              !.slotOf = Evicted(l, X),
              !.data = IF l \in InPlace THEN Overwrite(@, [k \in X |-> Junk]) ELSE @,
              !.late = IF l \in InPlace THEN @ \cup running ELSE @]]
       /\ broken' = [broken EXCEPT ![l] = @ \cup Doubt(l, X)]
  /\ todo' = NoCall
  /\ NewPass
  /\ UNCHANGED tables

\* A part of a failed read ends; it leaves alone only the weights it brings.
LateWrite(l) ==
  /\ \E w \in slots[l].late :
       slots' = [slots EXCEPT ![l].late = @ \ {w},
                              ![l].data[w[1]] = IF @ = w[2] THEN @ ELSE Junk]
  /\ UNCHANGED <<tables, at, thread, todo, broken>>

\* Fewer slots than missing experts: the call raises.  In place, the slots
\* there are have been read, and a single slot goes to every missing expert in
\* slot_of before the assignment to expert_of finds the lengths differ.
ComesUpShort(l) ==
  /\ Busy(l)
  /\ \E C \in Chunks(l) : \E X \in Reservations(l, C) :
       LET M == Missing(l, C)
           shared == l \in InPlace /\ Cardinality(X) = 1
       IN  /\ Cardinality(X) < Cardinality(M)
           /\ \E f \in Injection(X, M) :
                slots' = [slots EXCEPT ![l] = [Settled(l) EXCEPT
                  !.slotOf = IF shared
                               THEN [e \in DOMAIN @ |-> IF e \in M THEN CHOOSE k \in X : TRUE
                                                        ELSE Evicted(l, X)[e]]
                               ELSE Evicted(l, X),
                  !.data = IF l \in InPlace THEN Overwrite(@, f) ELSE @]]
           /\ broken' = [broken EXCEPT ![l] =
                @ \cup Doubt(l, X) \cup IF shared THEN {"shared"} ELSE {}]
  /\ todo' = NoCall
  /\ NewPass
  /\ UNCHANGED tables

\* Thread t evaluates what it has computed; left in the list it is of no effect.
Without(t, s) ==
  [s EXCEPT !.readers = IF s.by = t THEN {} ELSE @,
            !.pending = {p \in @ : p[1] # t}, !.dropped = {p \in @ : p[1] # t}]

Evaluate(t) ==
  /\ \E l \in Layers : \E p \in slots[l].pending : p[1] = t
  /\ slots' = [l \in Layers |-> Without(t, slots[l])]
  /\ UNCHANGED <<tables, at, thread, todo, broken>>

-----------------------------------------------------------------------------
(* Tables: _table and its fill, _wide, _narrow. *)

Blank(l) == [e \in Experts[l] |-> <<None, None>>]

\* _fits: the layout of the layer's own table.
Fits(l, t) == DOMAIN t = Experts[l]

\* A spare table that fits, or a new one.
TableFor(l, t) == IF Fits(l, t) THEN t ELSE Blank(l)

\* What a fill copies from the slots, and what it reads.
Copied(l, t, from) == [e \in DOMAIN t |-> IF e \in DOMAIN from THEN <<l, slots[l].data[from[e]]>> ELSE t[e]]
Loaded(l, t, from) == [e \in DOMAIN t |-> IF e \in DOMAIN from THEN t[e] ELSE <<l, e>>]

Resting(l) == [e \in Resident(l) |-> slots[l].slotOf[e]]

\* Layer l runs on t; the next layer's table is read ahead, on the spare one.
Widen(l, t, a, s) ==
  /\ full' = [full EXCEPT ![l] = t]
  /\ spare' = [s EXCEPT ![l] = NoTable]
  /\ ahead' = IF l + 1 \in InPlace /\ a[l + 1].state = "none"
                THEN [a EXCEPT ![l + 1] = [table |-> TableFor(l + 1, s[l]),
                                           from |-> Resting(l + 1), state |-> "queued"]]
                ELSE a
  /\ Continue
  /\ UNCHANGED <<slots, todo, broken>>

Started(l) == ahead[l].state \in {"queued", "copied", "filled"}         \* mutant
Ready(l) == ahead[l].state = "filled"

\* _wide with a table read ahead, once it is filled.
WideAhead(l) ==
  /\ Running(l) /\ Ready(l)
  /\ Widen(l, ahead[l].table, [ahead EXCEPT ![l] = NoAhead], spare)

\* _wide without one: a pass starts, the tables an aborted pass left go first.
NothingLeft(l) == {}                                           \* mutant
LeftBehind(l) == {k \in Layers : k > l}
Clear(l, f, nothing) == [k \in Layers |-> IF k \in LeftBehind(l) THEN nothing ELSE f[k]]

Starts(l) == Running(l) /\ ahead[l].state = "none"

WideFirst(l) ==
  /\ Starts(l) /\ l \in InPlace
  /\ \A k \in LeftBehind(l) : Joined(k)
  /\ LET t == TableFor(l, spare[l])
     IN  Widen(l, Loaded(l, Copied(l, t, Resting(l)), Resting(l)),
               Clear(l, ahead, NoAhead), [Clear(l, spare, NoTable) EXCEPT ![l] = NoTable])

\* A cast field: the layer stays on its slots.
WideRefused(l) ==
  /\ Starts(l) /\ l \notin InPlace
  /\ \A k \in LeftBehind(l) : Joined(k)
  /\ ahead' = Clear(l, ahead, NoAhead)
  /\ spare' = [Clear(l, spare, NoTable) EXCEPT ![l] = NoTable]
  /\ Continue
  /\ UNCHANGED <<slots, full, todo, broken>>

\* The layer's own fill fails.
WideFails(l) ==
  /\ Starts(l) /\ l \in InPlace
  /\ \A k \in LeftBehind(l) : Joined(k)
  /\ ahead' = Clear(l, ahead, NoAhead)
  /\ spare' = [Clear(l, spare, NoTable) EXCEPT ![l] = NoTable]
  /\ NewPass
  /\ UNCHANGED <<slots, full, todo, broken>>

\* A later layer's read ahead failed: its exception ends the pass, and the
\* layers up to it are cleared.
WideJoinFails(l) ==
  /\ Starts(l)
  /\ \E k \in LeftBehind(l) :
       /\ ahead[k].state = "failed"
       /\ \A j \in LeftBehind(l) : j < k => ahead[j].state \in {"none", "filled"}
       /\ ahead' = [j \in Layers |-> IF j \in LeftBehind(l) /\ j <= k THEN NoAhead ELSE ahead[j]]
       /\ spare' = [j \in Layers |-> IF j = l \/ (j \in LeftBehind(l) /\ j <= k) THEN NoTable ELSE spare[j]]
  /\ NewPass
  /\ UNCHANGED <<slots, full, todo, broken>>

\* The steps are done and evaluated, or one raised: the next layer gets the table.
Narrow(l) ==
  /\ at = l /\ full[l] # NoTable
  /\ full' = [full EXCEPT ![l] = NoTable]
  /\ spare' = [k \in Layers |-> IF k = l + 1 THEN full[l] ELSE spare[k]]
  /\ NewPass \/ GoOn(l)
  /\ UNCHANGED <<slots, ahead, todo, broken>>

\* The thread that fills tables.
FillCopy(l) ==
  /\ ahead[l].state = "queued"
  /\ ahead' = [ahead EXCEPT ![l].table = Copied(l, @, ahead[l].from), ![l].state = "copied"]
  /\ UNCHANGED <<slots, full, spare, at, thread, todo, broken>>

FillRead(l) ==
  /\ ahead[l].state = "copied"
  /\ ahead' = [ahead EXCEPT ![l].table = Loaded(l, @, ahead[l].from), ![l].state = "filled"]
  /\ UNCHANGED <<slots, full, spare, at, thread, todo, broken>>

FillFails(l) ==
  /\ ahead[l].state = "copied"
  /\ ahead' = [ahead EXCEPT ![l].state = "failed"]
  /\ UNCHANGED <<slots, full, spare, at, thread, todo, broken>>

-----------------------------------------------------------------------------
Calling(l) ==
  \/ \E X \in SUBSET Experts[l] \ {{}} : Call(l, X)
  \/ JoinFails(l) \/ Hit(l) \/ Read(l) \/ ReadFails(l) \/ ComesUpShort(l) \/ LateWrite(l)

Widening(l) ==
  WideAhead(l) \/ WideFirst(l) \/ WideRefused(l) \/ WideFails(l) \/ WideJoinFails(l) \/ Narrow(l)

Filling(l) == FillCopy(l) \/ FillRead(l) \/ FillFails(l)

Next == Abort \/ (\E t \in Threads : Evaluate(t)) \/ \E l \in Layers : Calling(l) \/ Widening(l) \/ Filling(l)

Spec == Init /\ [][Next]_vars

-----------------------------------------------------------------------------
(* What the model relies on when it runs on slots and tables. *)

\* The causes of doubt: a slot given to two experts, or taken again while the
\* parts of a failed read were writing to it.
Doubts == {"shared", "overtaken"}

\* The variables' types; expert_of knows the slot of every resident expert.
TypeOK ==
  /\ \A l \in Layers : LET s == slots[l] IN
       /\ s.slotOf \in [Experts[l] -> Slots(l) \cup {None}]
       /\ s.expertOf \in [Slots(l) -> Experts[l] \cup {None}]
       /\ broken[l] = {} => \A e \in Resident(l) : s.expertOf[s.slotOf[e]] = e
       /\ s.map \in [Experts[l] -> Slots(l)]
       /\ s.data \in [Slots(l) -> Experts[l] \cup {None, Junk}]
       /\ s.readers \subseteq Slots(l) \X Experts[l]
       /\ s.by \in Threads \cup {None}
       /\ s.pending \cup s.dropped \subseteq Threads \X Slots(l) \X Experts[l]
       /\ s.late \subseteq Slots(l) \X Experts[l]
       /\ ahead[l].state \in {"none", "queued", "copied", "filled", "failed"}
       /\ broken[l] \subseteq Doubts
  /\ at \in Layers /\ thread \in Threads
  /\ todo.rest \subseteq Experts[at] /\ todo.missing \subseteq Experts[at]

\* "expert -> slot, valid while resident" (offload.py:629): an expert that a
\* call finds resident is in the slot the map gives, whatever reads failed and
\* whenever their parts end, unless one slot was given to two experts or taken
\* again before the parts of a failed read that write to it had ended.
WeightsRight ==
  \A l \in Layers : broken[l] = {} => \A e \in Resident(l) : slots[l].data[slots[l].map[e]] = e

\* The same, but for the slots given to two experts.
MapValidWhileResident ==
  \A l \in Layers : "overtaken" \notin broken[l] =>
    \A e \in Resident(l) : slots[l].data[slots[l].map[e]] = e

\* readers and _settle_readers: the slots that an output not yet evaluated reads
\* still hold the weights it was computed from, evaluated before a read or the
\* late parts of a failed one overwrite them.  Not so of the outputs of another
\* thread that _settle_readers drops unevaluated (offload.py:693), nor where
\* the slots are in doubt.
PendingStillRight ==
  \A l \in Layers : broken[l] = {} =>
    \A p \in slots[l].pending \ slots[l].dropped : slots[l].data[p[2]] = p[3]

\* _table and _join_ahead: a layer that runs wide finds every expert's row in
\* its table, refilled from another layer's or not, copied from slots or not,
\* unless its slots were in doubt when they were copied.
TableComplete ==
  \A l \in Layers : full[l] # NoTable /\ broken[l] = {} => \A e \in Experts[l] : full[l][e] = <<l, e>>

\* _wide: a table passes from layer to layer, and no more than two exist,
\* whatever passes were aborted before.
TwoTables ==
  Cardinality({<<l, 1>> : l \in {k \in Layers : full[k] # NoTable}}
         \cup {<<l, 2>> : l \in {k \in Layers : ahead[k].state # "none"}}
         \cup {<<l, 3>> : l \in {k \in Layers : spare[k] # NoTable}}) <= 2
=============================================================================
