--------------------------- MODULE ExpertSlots_proof ---------------------------
(***************************************************************************)
(* The slots and tables of ExpertSlots, proved for any number of layers,   *)
(* experts, slots and threads.                                             *)
(***************************************************************************)
EXTENDS ExpertSlots, FiniteSetTheorems, TLAPS

-----------------------------------------------------------------------------
(* The slots of a layer. *)

Outputs(l) == Threads \X Slots(l) \X Experts[l]

Slotted(l) ==
  [slotOf : [Experts[l] -> Slots(l) \cup {None}], expertOf : [Slots(l) -> Experts[l] \cup {None}],
   map : [Experts[l] -> Slots(l)], data : [Slots(l) -> Experts[l] \cup {None, Junk}],
   readers : SUBSET (Slots(l) \X Experts[l]), by : Threads \cup {None},
   pending : SUBSET Outputs(l), dropped : SUBSET Outputs(l), late : SUBSET (Slots(l) \X Experts[l])]

\* A resident expert has one slot by slot_of, expert_of and the map, and its
\* weights are there.
Sound(l, s) ==
  \A e \in Experts[l] : s.slotOf[e] # None =>
    /\ s.expertOf[s.slotOf[e]] = e
    /\ s.map[e] = s.slotOf[e]
    /\ s.data[s.slotOf[e]] = e

\* Outputs that wait and were not dropped are listed, for weights still there.
Waiting(s) == \A p \in s.pending \ s.dropped : p \in Listed(s) /\ s.data[p[2]] = p[3]

\* No late write goes to the slot of a resident expert or of an output that waits.
Quiet(l, s) == \A w \in s.late :
  /\ \A e \in Experts[l] : s.slotOf[e] # w[1]
  /\ \A p \in s.pending \ s.dropped : p[2] # w[1]

Good(l, s) == Sound(l, s) /\ Waiting(s) /\ Quiet(l, s)

\* Only reads into the slots leave anything waiting or late.
Plain(l, s) == l \notin InPlace => s.readers = {} /\ s.pending = {} /\ s.late = {}

SlotsInv ==
  /\ slots = [l \in Layers |-> slots[l]]
  /\ broken \in [Layers -> SUBSET Doubts]
  /\ \A l \in Layers :
       /\ slots[l] \in Slotted(l)
       /\ Plain(l, slots[l])
       /\ broken[l] = {} => Good(l, slots[l])

CallInv ==
  /\ at \in Layers /\ thread \in Threads
  /\ todo \in [rest : SUBSET Experts[at], missing : SUBSET Experts[at], lazy : BOOLEAN]

LEMMA LayersAre == \E n \in Nat \ {0} : Layers = 1..n
<1>1. Cardinality(Layers) \in Nat
  BY LayersAssumption, FS_CardinalityType
<1> QED
  BY <1>1, LayersAssumption

LEMMA SlotsNumbered == \A l \in Layers : Slots(l) \subseteq Nat /\ None \notin Slots(l) /\ 1 \in Slots(l)
BY ExpertsAssumption DEF Slots, None

\* Taking the slots X away from their experts, and writing into them, harms
\* no expert that is still resident.
LEMMA Evicting ==
  ASSUME NEW l \in Layers, NEW s \in Slotted(l), Sound(l, s), NEW X \in SUBSET Slots(l),
         NEW t \in Slotted(l),
         \A e \in Experts[l] :
           t.slotOf[e] = IF \E k \in X : s.expertOf[k] = e THEN None ELSE s.slotOf[e],
         t.expertOf = s.expertOf, t.map = s.map,
         \A k \in Slots(l) \ X : t.data[k] = s.data[k]
  PROVE  Sound(l, t)
<1> SUFFICES ASSUME NEW e \in Experts[l], t.slotOf[e] # None
             PROVE  /\ t.expertOf[t.slotOf[e]] = e /\ t.map[e] = t.slotOf[e]
                    /\ t.data[t.slotOf[e]] = e
  BY DEF Sound
<1>1. t.slotOf[e] = s.slotOf[e] /\ ~\E k \in X : s.expertOf[k] = e
  OBVIOUS
<1>2. s.slotOf[e] \in Slots(l)
  BY <1>1 DEF Slotted
<1>3. /\ s.expertOf[s.slotOf[e]] = e /\ s.map[e] = s.slotOf[e] /\ s.data[s.slotOf[e]] = e
  BY <1>1 DEF Sound
<1>4. s.slotOf[e] \notin X
  BY <1>1, <1>3
<1> QED
  BY <1>1, <1>2, <1>3, <1>4

\* Reading experts into slots of their own makes them resident there.
LEMMA Reading ==
  ASSUME NEW l \in Layers, NEW s \in Slotted(l), Sound(l, s), NEW X \in SUBSET Slots(l),
         NEW M \in SUBSET Experts[l], NEW f \in Injection(X, M), NEW t \in Slotted(l),
         \A e \in Experts[l] :
           IF e \in M THEN t.slotOf[e] \in X /\ f[t.slotOf[e]] = e
           ELSE t.slotOf[e] = IF \E k \in X : s.expertOf[k] = e THEN None ELSE s.slotOf[e],
         \A k \in Slots(l) : t.expertOf[k] = IF k \in X THEN f[k] ELSE s.expertOf[k],
         \A k \in Slots(l) : t.data[k] = IF k \in X THEN f[k] ELSE s.data[k],
         t.map = Rebuilt(t.slotOf)
  PROVE  Sound(l, t)
<1> SUFFICES ASSUME NEW e \in Experts[l], t.slotOf[e] # None
             PROVE  /\ t.expertOf[t.slotOf[e]] = e /\ t.map[e] = t.slotOf[e]
                    /\ t.data[t.slotOf[e]] = e
  BY DEF Sound
<1>1. t.map[e] = t.slotOf[e]
  BY DEF Rebuilt, Slotted
<1>2. CASE e \in M
  BY <1>1, <1>2
<1>3. CASE e \notin M
  <2>1. t.slotOf[e] = s.slotOf[e] /\ ~\E k \in X : s.expertOf[k] = e
    BY <1>3
  <2>2. s.slotOf[e] \in Slots(l)
    BY <2>1 DEF Slotted
  <2>3. s.expertOf[s.slotOf[e]] = e /\ s.data[s.slotOf[e]] = e
    BY <2>1 DEF Sound
  <2> QED
    BY <1>1, <2>1, <2>2, <2>3
<1> QED
  BY <1>2, <1>3

LEMMA NewPassTyped == NewPass => at' \in Layers /\ thread' \in Threads
BY LayersAre DEF NewPass

LEMMA NoCallTyped == \A l \in Layers : NoCall \in [rest : SUBSET Experts[l], missing : SUBSET Experts[l], lazy : BOOLEAN]
BY DEF NoCall

\* What _settle_readers leaves: no output waits on the list.
LEMMA Settling ==
  ASSUME NEW l \in Layers, NEW s \in Slotted(l)
  PROVE  LET t == Settle(s) IN
         /\ t \in Slotted(l) /\ t.readers = {} /\ t.late = s.late
         /\ t.slotOf = s.slotOf /\ t.expertOf = s.expertOf /\ t.map = s.map /\ t.data = s.data
         /\ t.pending \subseteq s.pending
         /\ Waiting(s) => t.pending \subseteq t.dropped
<1>1. CASE s.by = thread
  <2> DEFINE P == s.pending \ Listed(s)
             t == [s EXCEPT !.readers = {}, !.pending = P]
  <2>1. P \in SUBSET Outputs(l)
    BY DEF Slotted
  <2> HIDE DEF P
  <2>2. t \in Slotted(l) /\ t.readers = {} /\ t.late = s.late /\ t.pending = P /\ t.dropped = s.dropped
        /\ t.slotOf = s.slotOf /\ t.expertOf = s.expertOf /\ t.map = s.map /\ t.data = s.data
    BY <2>1 DEF Slotted
  <2>3. Settle(s) = t
    BY <1>1 DEF Settle, P
  <2>4. P \subseteq s.pending /\ (Waiting(s) => P \subseteq s.dropped)
    BY DEF P, Waiting
  <2> HIDE DEF t
  <2> QED
    BY <2>2, <2>3, <2>4
<1>2. CASE s.by # thread
  <2> DEFINE D == s.dropped \cup (s.pending \cap Listed(s))
             t == [s EXCEPT !.readers = {}, !.dropped = D]
  <2>1. D \in SUBSET Outputs(l)
    BY DEF Slotted
  <2> HIDE DEF D
  <2>2. t \in Slotted(l) /\ t.readers = {} /\ t.late = s.late /\ t.pending = s.pending /\ t.dropped = D
        /\ t.slotOf = s.slotOf /\ t.expertOf = s.expertOf /\ t.map = s.map /\ t.data = s.data
    BY <2>1 DEF Slotted
  <2>3. Settle(s) = t
    BY <1>2 DEF Settle, D
  <2>4. Waiting(s) => s.pending \subseteq D
    BY DEF D, Waiting
  <2> HIDE DEF t
  <2> QED
    BY <2>2, <2>3, <2>4
<1> QED
  BY <1>1, <1>2

LEMMA SettlingGood ==
  ASSUME NEW l \in Layers, NEW s \in Slotted(l), Good(l, s)
  PROVE  Good(l, Settle(s))
BY Settling DEF Good, Sound, Waiting, Quiet

\* Settled, whether the layer's reads go into its slots or not.
LEMMA SettledIs ==
  ASSUME SlotsInv, NEW l \in Layers
  PROVE  LET s == slots[l]  t == Settled(l) IN
         /\ t \in Slotted(l) /\ t.readers = {} /\ t.late = s.late /\ Plain(l, t)
         /\ t.slotOf = s.slotOf /\ t.expertOf = s.expertOf /\ t.map = s.map /\ t.data = s.data
         /\ broken[l] = {} => Good(l, t) /\ t.pending \subseteq t.dropped
<1>1. slots[l] \in Slotted(l) /\ Plain(l, slots[l]) /\ (broken[l] = {} => Good(l, slots[l]))
  BY DEF SlotsInv
<1>2. CASE l \in InPlace
  <2>1. Settled(l) = Settle(slots[l])
    BY <1>2 DEF Settled
  <2> QED
    BY <1>1, <1>2, <2>1, Settling, SettlingGood DEF Plain, Good
<1>3. CASE l \notin InPlace
  <2>1. Settled(l) = slots[l]
    BY <1>3 DEF Settled
  <2>2. slots[l].readers = {} /\ slots[l].pending = {}
    BY <1>1, <1>3 DEF Plain
  <2> QED
    BY <1>1, <2>1, <2>2
<1> QED
  BY <1>2, <1>3

\* What read_by leaves: the outputs of the call wait on the list.
LEMMA ReadingBy ==
  ASSUME CallInv, NEW l \in Layers, NEW s \in Slotted(l),
         NEW pairs \in SUBSET (Slots(l) \X Experts[l])
  PROVE  LET t == ReadBy(s, pairs) IN
         /\ t \in Slotted(l)
         /\ Good(l, s) /\ (\A r \in pairs : s.data[r[1]] = r[2] /\ \E e \in Experts[l] : s.slotOf[e] = r[1])
              => Good(l, t)
<1> DEFINE own == IF s.by = thread THEN s ELSE Settle(s)
           new == Tagged(thread, pairs)
           R == own.readers \cup pairs
           P == own.pending \cup new
           D == own.dropped \ new
           t == [own EXCEPT !.readers = R, !.by = thread, !.pending = P, !.dropped = D]
<1>1. ReadBy(s, pairs) = t
  BY DEF ReadBy
<1>2. own \in Slotted(l) /\ own.late = s.late
      /\ own.slotOf = s.slotOf /\ own.expertOf = s.expertOf /\ own.map = s.map /\ own.data = s.data
  BY Settling
<1>3. ASSUME Good(l, s)
      PROVE  /\ Good(l, own)
             /\ \A p \in own.pending \ own.dropped : p \in Tagged(thread, own.readers)
  <2>1. CASE s.by = thread
    BY <1>3, <2>1 DEF Good, Waiting, Listed
  <2>2. CASE s.by # thread
    BY <1>3, <2>2, Settling, SettlingGood DEF Good
  <2> QED
    BY <2>1, <2>2
<1> HIDE DEF own
<1>4. new \in SUBSET Outputs(l) /\ \A p \in new : p[1] = thread /\ <<p[2], p[3]>> \in pairs
  BY DEF Tagged, Outputs, CallInv
<1>5. R \in SUBSET (Slots(l) \X Experts[l]) /\ P \in SUBSET Outputs(l) /\ D \in SUBSET Outputs(l)
  BY <1>2, <1>4 DEF Slotted
<1>5a. thread \in Threads \cup {None}
  BY DEF CallInv
<1>6. Tagged(thread, own.readers) \cup new \subseteq Tagged(thread, R)
  BY DEF Tagged
<1>7. P \ D \subseteq (own.pending \ own.dropped) \cup new
  OBVIOUS
<1> HIDE DEF R, P, D, new
<1>8. t \in Slotted(l) /\ t.late = s.late /\ t.pending = P /\ t.dropped = D /\ t.readers = R /\ t.by = thread
      /\ t.slotOf = s.slotOf /\ t.expertOf = s.expertOf /\ t.map = s.map /\ t.data = s.data
  BY <1>2, <1>5, <1>5a DEF Slotted
<1> HIDE DEF t
<1>9. ASSUME Good(l, s), \A r \in pairs : s.data[r[1]] = r[2] /\ \E e \in Experts[l] : s.slotOf[e] = r[1]
      PROVE  Good(l, t)
  <2>1. Sound(l, t)
    BY <1>8, <1>9 DEF Good, Sound
  <2>2. Waiting(t)
    <3> SUFFICES ASSUME NEW p \in P \ D PROVE p \in Tagged(thread, R) /\ s.data[p[2]] = p[3]
      BY <1>8 DEF Waiting, Listed
    <3>1. CASE p \in new
      BY <1>4, <1>6, <1>9, <3>1
    <3>2. CASE p \in own.pending \ own.dropped
      BY <1>2, <1>3, <1>6, <1>9, <3>2 DEF Good, Waiting
    <3> QED
      BY <1>7, <3>1, <3>2
  <2>3. Quiet(l, t)
    <3> SUFFICES ASSUME NEW w \in s.late
                 PROVE  /\ \A e \in Experts[l] : s.slotOf[e] # w[1]
                        /\ \A p \in P \ D : p[2] # w[1]
      BY <1>8 DEF Quiet
    <3>1. \A e \in Experts[l] : s.slotOf[e] # w[1]
      BY <1>9 DEF Good, Quiet
    <3>2. \A p \in own.pending \ own.dropped : p[2] # w[1]
      BY <1>2, <1>3, <1>9 DEF Good, Quiet
    <3>3. \A p \in new : p[2] # w[1]
      BY <1>4, <1>9, <3>1
    <3> QED
      BY <1>7, <3>1, <3>2, <3>3
  <2> QED
    BY <2>1, <2>2, <2>3 DEF Good
<1> QED
  BY <1>1, <1>8, <1>9

\* The end of a chunk whose experts are in place.
LEMMA ServedSlots ==
  ASSUME CallInv, SlotsInv, NEW l \in Layers, Busy(l), NEW C \in Chunks(l), NEW s \in Slotted(l),
         Plain(l, s), broken' \in [Layers -> SUBSET Doubts], \A k \in Layers : broken[k] \subseteq broken'[k],
         broken'[l] = {} => Good(l, s),
         \A e \in C : s.slotOf[e] # None, Served(l, C, s)
  PROVE  SlotsInv' /\ CallInv'
<1>1. C \subseteq Experts[l] /\ C \subseteq todo.rest /\ at = l
  BY DEF CallInv, Busy, Chunks
<1>2. CallInv'
  <2>1. CASE C = todo.rest
    <3>1. todo' = NoCall
      BY <2>1 DEF Served
    <3>2. at' \in Layers /\ thread' \in Threads
      BY <1>1, NewPassTyped, LayersAre DEF Served, Continue, GoOn, CallInv
    <3> QED
      BY <3>1, <3>2, NoCallTyped DEF CallInv
  <2>2. CASE C # todo.rest
    <3>1. Continue /\ todo' = [todo EXCEPT !.rest = @ \ C]
      BY <2>2 DEF Served
    <3> QED
      BY <3>1 DEF CallInv, Continue
  <2> QED
    BY <2>1, <2>2
<1>3. PICK t \in Slotted(l) :
        /\ slots' = [slots EXCEPT ![l] = t]
        /\ Plain(l, t)
        /\ broken'[l] = {} => Good(l, t)
  <2> DEFINE pairs == {<<s.map[e], e>> : e \in C}
             listed == ReadBy(s, pairs)
  <2>1. CASE slots' = [slots EXCEPT ![l] = s]
    BY <2>1
  <2>2. CASE slots' # [slots EXCEPT ![l] = s]
    <3>1. PICK r \in {listed, Settle(listed)} : l \in InPlace /\ slots' = [slots EXCEPT ![l] = r]
      BY <2>2 DEF Served
    <3>2. pairs \in SUBSET (Slots(l) \X Experts[l])
      BY <1>1 DEF Slotted
    <3>3. ASSUME Sound(l, s) PROVE \A x \in pairs : s.data[x[1]] = x[2] /\ \E e \in Experts[l] : s.slotOf[e] = x[1]
      BY <1>1, <3>3 DEF Sound
    <3> HIDE DEF pairs
    <3>4. listed \in Slotted(l) /\ (broken'[l] = {} => Good(l, listed))
      BY <3>2, <3>3, ReadingBy DEF Good
    <3> HIDE DEF listed
    <3>5. r \in Slotted(l) /\ (broken'[l] = {} => Good(l, r))
      BY <3>1, <3>4, Settling, SettlingGood
    <3> QED
      BY <3>1, <3>5 DEF Plain
  <2> QED
    BY <2>1, <2>2
<1>4. \A k \in Layers : slots'[k] = IF k = l THEN t ELSE slots[k]
  BY <1>3 DEF SlotsInv
<1>5. \A k \in Layers : broken'[k] = {} => broken[k] = {}
  OBVIOUS
<1> QED
  BY <1>2, <1>3, <1>4, <1>5 DEF SlotsInv

\* Steps of the pass that change no slot.
LEMMA SlotsKept ==
  ASSUME CallInv, SlotsInv, UNCHANGED <<slots, broken>>,
         at' \in Layers, thread' \in Threads, todo' = NoCall \/ UNCHANGED <<at, todo>>
  PROVE  SlotsInv' /\ CallInv'
<1>1. CallInv'
  BY NoCallTyped DEF CallInv
<1> QED
  BY <1>1 DEF SlotsInv

LEMMA HitSafe == ASSUME CallInv, SlotsInv, NEW l \in Layers, Hit(l) PROVE SlotsInv' /\ CallInv'
<1>1. PICK C \in Chunks(l) : Missing(l, C) = {} /\ Served(l, C, slots[l])
  BY DEF Hit
<1>2. \A e \in C : slots[l].slotOf[e] # None
  BY <1>1 DEF Missing, Resident
<1>3. broken' = broken
  BY DEF Hit
<1> QED
  BY <1>1, <1>2, <1>3, ServedSlots DEF Hit, SlotsInv

\* Slots are taken from experts the call does not use.
LEMMA Reserved ==
  ASSUME SlotsInv, NEW l \in Layers, NEW C \in SUBSET Experts[l], NEW X \in Reservations(l, C)
  PROVE  X \subseteq Slots(l) /\ \A k \in X : slots[l].expertOf[k] \notin C
<1> DEFINE free == {k \in Slots(l) : slots[l].expertOf[k] = None}
<1>1. X \subseteq free \cup Held(l, C)
  BY DEF Reservations
<1> QED
  BY <1>1, ExpertsAssumption DEF Held

\* A read that takes the slots X for the experts f leaves the layer t.
ReadInto(l, C, X, f, t) ==
  LET slotOf == Overwrite(Evicted(l, X), [e \in Range(f) |-> CHOOSE k \in X : f[k] = e])
  IN  t = [Settled(l) EXCEPT !.slotOf = slotOf,
                             !.expertOf = Overwrite(@, f),
                             !.map = Rebuilt(slotOf),
                             !.data = Overwrite(@, f)]

LEMMA ReadIs ==
  ASSUME NEW l \in Layers, Read(l)
  PROVE  \E C \in Chunks(l) : \E X \in Reservations(l, C) :
           /\ Cardinality(X) = Cardinality(Missing(l, C))
           /\ \E f \in Injection(X, Missing(l, C)) : \E t : ReadInto(l, C, X, f, t) /\ Served(l, C, t)
           /\ broken' = [broken EXCEPT ![l] = @ \cup Doubt(l, X)]
BY DEF Read, ReadInto

LEMMA Doubted ==
  ASSUME SlotsInv, NEW l \in Layers, NEW X, NEW Y \in SUBSET Doubts,
         broken' = [broken EXCEPT ![l] = @ \cup Doubt(l, X) \cup Y]
  PROVE  /\ broken' \in [Layers -> SUBSET Doubts]
         /\ \A k \in Layers : broken[k] \subseteq broken'[k]
         /\ broken'[l] = {} => broken[l] = {} /\ Y = {} /\ (l \in InPlace => \A w \in slots[l].late : w[1] \notin X)
<1>1. Doubt(l, X) \subseteq Doubts
  BY DEF Doubt, Doubts
<1>2. Doubt(l, X) = {} => (l \in InPlace => \A w \in slots[l].late : w[1] \notin X)
  BY DEF Doubt
<1> QED
  BY <1>1, <1>2 DEF SlotsInv

LEMMA ReadSafe == ASSUME CallInv, SlotsInv, NEW l \in Layers, Read(l) PROVE SlotsInv' /\ CallInv'
<1>0. PICK C \in Chunks(l) : \E X \in Reservations(l, C) :
        /\ Cardinality(X) = Cardinality(Missing(l, C))
        /\ \E f \in Injection(X, Missing(l, C)) : \E t : ReadInto(l, C, X, f, t) /\ Served(l, C, t)
        /\ broken' = [broken EXCEPT ![l] = @ \cup Doubt(l, X)]
  BY ReadIs
<1>01. PICK X \in Reservations(l, C) :
        /\ Cardinality(X) = Cardinality(Missing(l, C))
        /\ \E f \in Injection(X, Missing(l, C)) : \E t : ReadInto(l, C, X, f, t) /\ Served(l, C, t)
        /\ broken' = [broken EXCEPT ![l] = @ \cup Doubt(l, X)]
  BY <1>0
<1>02. PICK f \in Injection(X, Missing(l, C)) : \E t : ReadInto(l, C, X, f, t) /\ Served(l, C, t)
  BY <1>01
<1>1. Cardinality(X) = Cardinality(Missing(l, C))
  BY <1>01
<1> DEFINE s == Settled(l)
           M == Missing(l, C)
           slotOf == Overwrite(Evicted(l, X), [e \in Range(f) |-> CHOOSE k \in X : f[k] = e])
           t == [s EXCEPT !.slotOf = slotOf, !.expertOf = Overwrite(@, f), !.map = Rebuilt(slotOf),
                          !.data = Overwrite(@, f)]
<1>14. Served(l, C, t)
  BY <1>02 DEF ReadInto
<1>03. /\ s \in Slotted(l) /\ s.readers = {} /\ s.late = slots[l].late /\ Plain(l, s)
       /\ s.slotOf = slots[l].slotOf /\ s.expertOf = slots[l].expertOf
       /\ broken[l] = {} => Good(l, s) /\ s.pending \subseteq s.dropped
  BY SettledIs
<1> HIDE DEF s
<1>04. /\ broken' \in [Layers -> SUBSET Doubts]
       /\ \A k \in Layers : broken[k] \subseteq broken'[k]
       /\ broken'[l] = {} => broken[l] = {} /\ (l \in InPlace => \A w \in slots[l].late : w[1] \notin X)
  <2>1. broken' = [broken EXCEPT ![l] = @ \cup Doubt(l, X) \cup {}]
    BY <1>01
  <2>2. {} \in SUBSET Doubts
    OBVIOUS
  <2> QED
    BY <2>1, <2>2, Doubted
<1>2. C \subseteq Experts[l] /\ s \in Slotted(l)
  BY <1>03 DEF CallInv, Read, Busy, Chunks
<1>3. X \subseteq Slots(l) /\ \A k \in X : s.expertOf[k] \notin C
  BY <1>03, <1>2, Reserved
<1>4. M \subseteq C /\ f \in [X -> M] /\ \A e \in C : e \in M \/ s.slotOf[e] # None
  BY <1>03, <1>2 DEF Missing, Resident, Injection
<1>5. Range(f) = M
  <2>1. IsFiniteSet(Experts[l])
    BY ExpertsAssumption
  <2>2. IsFiniteSet(M)
    BY <1>2, <1>4, <2>1, FS_Subset
  <2>3. f \in Surjection(X, M)
    BY <1>1, <2>2, FS_Injection
  <2> QED
    BY <1>4, <2>3 DEF Surjection, Range
<1>6. \A e \in Experts[l] :
        slotOf[e] = IF e \in Range(f) THEN CHOOSE k \in X : f[k] = e
                    ELSE IF \E k \in X : s.expertOf[k] = e THEN None ELSE s.slotOf[e]
  BY <1>03 DEF Overwrite, Evicted
<1>7. \A e \in M : (CHOOSE k \in X : f[k] = e) \in X /\ f[CHOOSE k \in X : f[k] = e] = e
  <2> SUFFICES ASSUME NEW e \in M PROVE \E k \in X : f[k] = e
    OBVIOUS
  <2> QED
    BY <1>4, <1>5 DEF Range
<1>7a. slotOf = [e \in Experts[l] |-> slotOf[e]]
  BY DEF Overwrite, Evicted
<1> HIDE DEF slotOf
<1>8. slotOf \in [Experts[l] -> Slots(l) \cup {None}]
  <2> SUFFICES ASSUME NEW e \in Experts[l] PROVE slotOf[e] \in Slots(l) \cup {None}
    BY <1>7a
  <2>1. CASE e \in Range(f)
    BY <1>3, <1>5, <1>6, <1>7, <2>1
  <2>2. CASE e \notin Range(f)
    <3>1. s.slotOf[e] \in Slots(l) \cup {None}
      BY <1>2 DEF Slotted
    <3> QED
      BY <1>6, <2>2, <3>1
  <2> QED
    BY <2>1, <2>2
<1>9. Rebuilt(slotOf) \in [Experts[l] -> Slots(l)]
  BY <1>8, SlotsNumbered DEF Rebuilt
<1>10. /\ Overwrite(s.expertOf, f) \in [Slots(l) -> Experts[l] \cup {None}]
       /\ Overwrite(s.data, f) \in [Slots(l) -> Experts[l] \cup {None, Junk}]
       /\ \A k \in Slots(l) : Overwrite(s.expertOf, f)[k] = IF k \in X THEN f[k] ELSE s.expertOf[k]
       /\ \A k \in Slots(l) : Overwrite(s.data, f)[k] = IF k \in X THEN f[k] ELSE s.data[k]
  BY <1>2, <1>4 DEF Overwrite, Slotted
<1> DEFINE E == Overwrite(s.expertOf, f)
           D == Overwrite(s.data, f)
           m == Rebuilt(slotOf)
<1>11. t = [s EXCEPT !.slotOf = slotOf, !.expertOf = E, !.map = m, !.data = D]
  OBVIOUS
<1> HIDE DEF E, D, m, t
<1>12. t \in Slotted(l)
  BY <1>2, <1>8, <1>9, <1>10, <1>11 DEF Slotted, E, D, m
<1>13a. /\ t.slotOf = slotOf /\ t.expertOf = E /\ t.map = m /\ t.data = D /\ t.readers = {}
        /\ t.pending = s.pending /\ t.dropped = s.dropped /\ t.late = s.late
  BY <1>2, <1>03, <1>11 DEF Slotted
<1>13. /\ t.slotOf = slotOf /\ t.expertOf = Overwrite(s.expertOf, f) /\ t.map = Rebuilt(slotOf)
       /\ t.data = Overwrite(s.data, f) /\ t.readers = {}
       /\ t.pending = s.pending /\ t.dropped = s.dropped /\ t.late = s.late
  BY <1>13a DEF E, D, m
<1>15. ASSUME broken'[l] = {} PROVE Good(l, t)
  <2>1. Sound(l, s) /\ Quiet(l, s) /\ s.pending \subseteq s.dropped
    BY <1>03, <1>04, <1>15 DEF Good
  <2>2. \A e \in Experts[l] :
          IF e \in M THEN t.slotOf[e] \in X /\ f[t.slotOf[e]] = e
          ELSE t.slotOf[e] = IF \E k \in X : s.expertOf[k] = e THEN None ELSE s.slotOf[e]
    BY <1>5, <1>6, <1>7, <1>13
  <2>3. /\ \A k \in Slots(l) : t.expertOf[k] = IF k \in X THEN f[k] ELSE s.expertOf[k]
        /\ \A k \in Slots(l) : t.data[k] = IF k \in X THEN f[k] ELSE s.data[k]
        /\ t.map = Rebuilt(t.slotOf)
    BY <1>10, <1>13
  <2>4. M \in SUBSET Experts[l] /\ X \in SUBSET Slots(l)
    BY <1>2, <1>3, <1>4
  <2> HIDE DEF M
  <2>5. f \in Injection(X, M)
    BY DEF M
  <2>6. Sound(l, t)
    BY <1>2, <1>12, <2>1, <2>2, <2>3, <2>4, <2>5, Reading
  <2>7. Quiet(l, t)
    <3> SUFFICES ASSUME NEW w \in s.late, NEW e \in Experts[l] PROVE t.slotOf[e] # w[1]
      BY <1>13, <2>1 DEF Quiet
    <3>1. w[1] \notin X /\ s.slotOf[e] # w[1] /\ w[1] \in Slots(l)
      BY <1>03, <1>04, <1>15, <2>1 DEF Quiet, Plain, Slotted
    <3> QED
      BY <2>2, <3>1, SlotsNumbered
  <2> QED
    BY <1>13, <2>1, <2>6, <2>7 DEF Good, Waiting
<1>15a. Plain(l, t)
  BY <1>03, <1>13 DEF Plain
<1>16. \A e \in C : t.slotOf[e] # None
  <2> SUFFICES ASSUME NEW e \in C PROVE slotOf[e] # None
    BY <1>13
  <2>1. CASE e \in M
    BY <1>2, <1>3, <1>5, <1>6, <1>7, <2>1, SlotsNumbered
  <2>2. CASE e \notin M
    BY <1>2, <1>3, <1>4, <1>5, <1>6, <2>2
  <2> QED
    BY <2>1, <2>2
<1>17. Served(l, C, t)
  BY <1>14 DEF t
<1> QED
  BY <1>04, <1>12, <1>15, <1>15a, <1>16, <1>17, ServedSlots DEF Read

LEMMA EvictedTyped ==
  ASSUME SlotsInv, NEW l \in Layers, NEW X
  PROVE  Evicted(l, X) \in [Experts[l] -> Slots(l) \cup {None}]
<1>1. slots[l].slotOf \in [Experts[l] -> Slots(l) \cup {None}]
  BY DEF SlotsInv, Slotted
<1> QED
  BY <1>1 DEF Evicted

\* A call that raises after it took the slots X leaves the layer t.
Raised(l, X, t) ==
  /\ X \subseteq Slots(l)
  /\ t \in Slotted(l) /\ Plain(l, t)
  /\ LET s == Settled(l) IN
       /\ t.expertOf = s.expertOf /\ t.map = s.map
       /\ t.pending = s.pending /\ t.dropped = s.dropped
       /\ \A k \in Slots(l) \ X : t.data[k] = s.data[k]
       /\ \A w \in t.late : w \in s.late \/ w[1] \in X
  /\ slots' = [slots EXCEPT ![l] = t]
  /\ broken' \in [Layers -> SUBSET Doubts] /\ \A k \in Layers : broken[k] \subseteq broken'[k]
  /\ broken'[l] = {} => t.slotOf = Evicted(l, X)
  /\ todo' = NoCall /\ NewPass

LEMMA RaisedSafe ==
  ASSUME CallInv, SlotsInv, NEW l \in Layers, NEW X, NEW t, Raised(l, X, t)
  PROVE  SlotsInv' /\ CallInv'
<1> USE DEF Raised
<1> DEFINE s == Settled(l)
<1>1. /\ s \in Slotted(l) /\ s.slotOf = slots[l].slotOf /\ s.expertOf = slots[l].expertOf
      /\ broken[l] = {} => Good(l, s) /\ s.pending \subseteq s.dropped
  BY SettledIs
<1>2. ASSUME broken'[l] = {} PROVE Good(l, t)
  <2>1. Sound(l, s) /\ Quiet(l, s) /\ s.pending \subseteq s.dropped
    <3>1. broken[l] = {}
      BY <1>2
    <3> QED
      BY <1>1, <3>1 DEF Good
  <2>2. \A e \in Experts[l] :
          t.slotOf[e] = IF \E k \in X : s.expertOf[k] = e THEN None ELSE s.slotOf[e]
    BY <1>1, <1>2 DEF Evicted
  <2>3. /\ X \in SUBSET Slots(l) /\ t \in Slotted(l) /\ \A k \in Slots(l) \ X : t.data[k] = s.data[k]
        /\ t.expertOf = s.expertOf /\ t.map = s.map /\ t.pending = s.pending /\ t.dropped = s.dropped
        /\ \A w \in t.late : w \in s.late \/ w[1] \in X
    OBVIOUS
  <2> HIDE DEF s, Raised
  <2>4. Sound(l, t)
    BY <1>1, <2>1, <2>2, <2>3, Evicting
  <2>5. Quiet(l, t)
    <3> SUFFICES ASSUME NEW w \in t.late, NEW e \in Experts[l], t.slotOf[e] = w[1] PROVE FALSE
      BY <2>1, <2>3 DEF Quiet
    <3>1. w[1] \in Slots(l)
      BY <2>3 DEF Slotted
    <3>2. s.slotOf[e] = w[1] /\ ~\E k \in X : s.expertOf[k] = e
      BY <2>2, <3>1, SlotsNumbered
    <3>3. s.expertOf[w[1]] = e
      BY <2>1, <3>1, <3>2, SlotsNumbered DEF Sound
    <3>4. w \notin s.late
      BY <2>1, <3>2 DEF Quiet
    <3> QED
      BY <2>3, <3>2, <3>3, <3>4
  <2> QED
    BY <2>1, <2>3, <2>4, <2>5 DEF Good, Waiting
<1>3. CallInv'
  BY NewPassTyped, NoCallTyped DEF CallInv
<1>4. \A k \in Layers : slots'[k] = IF k = l THEN t ELSE slots[k]
  BY DEF SlotsInv
<1>5. \A k \in Layers : broken'[k] = {} => broken[k] = {}
  OBVIOUS
<1> QED
  BY <1>2, <1>3, <1>4, <1>5 DEF SlotsInv

\* The layer a failed read over the slots X leaves, some of it still running.
FailedAs(l, X, running, t) ==
  t = [Settled(l) EXCEPT
        !.slotOf = Evicted(l, X),
        !.data = IF l \in InPlace THEN Overwrite(@, [k \in X |-> Junk]) ELSE @,
        !.late = IF l \in InPlace THEN @ \cup running ELSE @]

LEMMA ReadFailsIs ==
  ASSUME NEW l \in Layers, ReadFails(l)
  PROVE  \E C \in Chunks(l) : \E X \in Reservations(l, C) :
           /\ \E f \in Injection(X, Missing(l, C)) : \E running \in SUBSET {<<k, f[k]>> : k \in X} :
              \E t : FailedAs(l, X, running, t) /\ slots' = [slots EXCEPT ![l] = t]
           /\ broken' = [broken EXCEPT ![l] = @ \cup Doubt(l, X)]
<1> DEFINE left(X, running) ==
      [Settled(l) EXCEPT
        !.slotOf = Evicted(l, X),
        !.data = IF l \in InPlace THEN Overwrite(@, [k \in X |-> Junk]) ELSE @,
        !.late = IF l \in InPlace THEN @ \cup running ELSE @]
<1>1. \E C \in Chunks(l) : \E X \in Reservations(l, C) :
        /\ \E f \in Injection(X, Missing(l, C)) : \E running \in SUBSET {<<k, f[k]>> : k \in X} :
             slots' = [slots EXCEPT ![l] = left(X, running)]
        /\ broken' = [broken EXCEPT ![l] = @ \cup Doubt(l, X)]
  BY DEF ReadFails
<1>2. \A X, running : FailedAs(l, X, running, left(X, running))
  BY DEF FailedAs
<1> HIDE DEF left
<1> QED
  BY <1>1, <1>2

LEMMA ReadFailsSafe ==
  ASSUME CallInv, SlotsInv, NEW l \in Layers, ReadFails(l) PROVE SlotsInv' /\ CallInv'
<1>0. PICK C \in Chunks(l) : \E X \in Reservations(l, C) :
        /\ \E f \in Injection(X, Missing(l, C)) : \E running \in SUBSET {<<k, f[k]>> : k \in X} :
           \E t : FailedAs(l, X, running, t) /\ slots' = [slots EXCEPT ![l] = t]
        /\ broken' = [broken EXCEPT ![l] = @ \cup Doubt(l, X)]
  BY ReadFailsIs
<1>1. PICK X \in Reservations(l, C) :
        /\ \E f \in Injection(X, Missing(l, C)) : \E running \in SUBSET {<<k, f[k]>> : k \in X} :
           \E t : FailedAs(l, X, running, t) /\ slots' = [slots EXCEPT ![l] = t]
        /\ broken' = [broken EXCEPT ![l] = @ \cup Doubt(l, X)]
  BY <1>0
<1>1a. PICK f \in Injection(X, Missing(l, C)) : \E running \in SUBSET {<<k, f[k]>> : k \in X} :
         \E t : FailedAs(l, X, running, t) /\ slots' = [slots EXCEPT ![l] = t]
  BY <1>1
<1>1b. PICK running \in SUBSET {<<k, f[k]>> : k \in X} :
         \E t : FailedAs(l, X, running, t) /\ slots' = [slots EXCEPT ![l] = t]
  BY <1>1a
<1>2. PICK t : FailedAs(l, X, running, t) /\ slots' = [slots EXCEPT ![l] = t]
  BY <1>1b
<1> DEFINE s == Settled(l)
           q == Evicted(l, X)
           d == IF l \in InPlace THEN Overwrite(s.data, [k \in X |-> Junk]) ELSE s.data
           v == IF l \in InPlace THEN s.late \cup running ELSE s.late
<1>3. s \in Slotted(l) /\ Plain(l, s)
  BY SettledIs
<1>4. C \subseteq Experts[l]
  BY DEF CallInv, ReadFails, Busy, Chunks
<1>5. X \subseteq Slots(l)
  BY <1>4, Reserved
<1>6. d \in [Slots(l) -> Experts[l] \cup {None, Junk}] /\ \A k \in Slots(l) \ X : d[k] = s.data[k]
  BY <1>3 DEF Overwrite, Slotted
<1>7. v \in SUBSET (Slots(l) \X Experts[l]) /\ \A w \in v : w \in s.late \/ w[1] \in X
  <2>1. f \in [X -> Experts[l]]
    BY <1>4 DEF Injection, Missing
  <2> QED
    BY <1>3, <1>5, <2>1 DEF Slotted
<1>8. q \in [Experts[l] -> Slots(l) \cup {None}]
  BY EvictedTyped
<1>9. t = [s EXCEPT !.slotOf = q, !.data = d, !.late = v]
  BY <1>2 DEF FailedAs
<1>9a. l \notin InPlace => v = {}
  BY <1>3 DEF Plain
<1> HIDE DEF s, d, v, q
<1>10. /\ t \in Slotted(l) /\ t.slotOf = q /\ t.data = d /\ t.late = v
       /\ t.expertOf = s.expertOf /\ t.map = s.map /\ t.readers = s.readers
       /\ t.pending = s.pending /\ t.dropped = s.dropped
  BY <1>3, <1>6, <1>7, <1>8, <1>9 DEF Slotted
<1>11. Plain(l, t)
  BY <1>3, <1>9a, <1>10 DEF Plain
<1>12. broken' \in [Layers -> SUBSET Doubts] /\ \A k \in Layers : broken[k] \subseteq broken'[k]
  <2>1. broken' = [broken EXCEPT ![l] = @ \cup Doubt(l, X) \cup {}]
    BY <1>1
  <2>2. {} \in SUBSET Doubts
    OBVIOUS
  <2> QED
    BY <2>1, <2>2, Doubted
<1>13. todo' = NoCall /\ NewPass
  BY DEF ReadFails
<1>14. Raised(l, X, t)
  BY <1>2, <1>5, <1>6, <1>7, <1>10, <1>11, <1>12, <1>13 DEF Raised, s, q
<1> QED
  BY <1>14, RaisedSafe

\* What a reservation that came up short leaves of the layer.
Single(l, X) == l \in InPlace /\ Cardinality(X) = 1

ShortOf(l, C, X) ==
  IF Single(l, X)
    THEN [e \in DOMAIN slots[l].slotOf |-> IF e \in Missing(l, C) THEN CHOOSE k \in X : TRUE ELSE Evicted(l, X)[e]]
    ELSE Evicted(l, X)

ShortAs(l, C, X, f, t) ==
  t = [Settled(l) EXCEPT !.slotOf = ShortOf(l, C, X),
                         !.data = IF l \in InPlace THEN Overwrite(@, f) ELSE @]

LEMMA ShortCall ==
  ASSUME SlotsInv, NEW l \in Layers, ComesUpShort(l)
  PROVE  \E C \in Chunks(l) : \E X \in Reservations(l, C) :
        /\ \E f \in Injection(X, Missing(l, C)) : \E t :
             ShortAs(l, C, X, f, t) /\ slots' = [slots EXCEPT ![l] = t]
        /\ broken' = [broken EXCEPT ![l] =
             @ \cup Doubt(l, X) \cup IF Single(l, X) THEN {"shared"} ELSE {}]
<1>1. Settled(l).slotOf = slots[l].slotOf
  BY SettledIs
<1>2. \E C \in Chunks(l) : \E X \in Reservations(l, C) :
       LET M == Missing(l, C)
           shared == l \in InPlace /\ Cardinality(X) = 1
       IN  /\ Cardinality(X) < Cardinality(M)
           /\ \E f \in Injection(X, M) :
                slots' = [slots EXCEPT ![l] = [Settled(l) EXCEPT
                  !.slotOf = IF shared
                               THEN [e \in DOMAIN @ |-> IF e \in M THEN CHOOSE k \in X : TRUE
                                                        ELSE Evicted(l, X)[e]]
                               ELSE Evicted(l, X),
                  !.data = IF l \in InPlace THEN Overwrite(@, f) ELSE @]]
           /\ broken' = [broken EXCEPT ![l] =
                @ \cup Doubt(l, X) \cup IF shared THEN {"shared"} ELSE {}]
  BY DEF ComesUpShort
<1> QED
  BY <1>1, <1>2 DEF ShortAs, ShortOf, Single

LEMMA ComesUpShortSafe ==
  ASSUME CallInv, SlotsInv, NEW l \in Layers, ComesUpShort(l) PROVE SlotsInv' /\ CallInv'
<1>0. PICK C \in Chunks(l) : \E X \in Reservations(l, C) :
        /\ \E f \in Injection(X, Missing(l, C)) : \E t :
             ShortAs(l, C, X, f, t) /\ slots' = [slots EXCEPT ![l] = t]
        /\ broken' = [broken EXCEPT ![l] =
             @ \cup Doubt(l, X) \cup IF Single(l, X) THEN {"shared"} ELSE {}]
  BY ShortCall
<1>1. PICK X \in Reservations(l, C) :
        /\ \E f \in Injection(X, Missing(l, C)) : \E t :
             ShortAs(l, C, X, f, t) /\ slots' = [slots EXCEPT ![l] = t]
        /\ broken' = [broken EXCEPT ![l] =
             @ \cup Doubt(l, X) \cup IF Single(l, X) THEN {"shared"} ELSE {}]
  BY <1>0
<1>1a. PICK f \in Injection(X, Missing(l, C)) : \E t :
         ShortAs(l, C, X, f, t) /\ slots' = [slots EXCEPT ![l] = t]
  BY <1>1
<1>2. PICK t : ShortAs(l, C, X, f, t) /\ slots' = [slots EXCEPT ![l] = t]
  BY <1>1a
<1> DEFINE s == Settled(l)
           q == ShortOf(l, C, X)
           d == IF l \in InPlace THEN Overwrite(s.data, f) ELSE s.data
<1>3. s \in Slotted(l) /\ Plain(l, s)
  BY SettledIs
<1>4. C \subseteq Experts[l] /\ DOMAIN slots[l].slotOf = Experts[l]
  BY DEF CallInv, SlotsInv, Slotted, ComesUpShort, Busy, Chunks
<1>5. X \subseteq Slots(l)
  BY <1>4, Reserved
<1>6. d \in [Slots(l) -> Experts[l] \cup {None, Junk}] /\ \A k \in Slots(l) \ X : d[k] = s.data[k]
  <2>1. f \in [X -> Experts[l] \cup {None, Junk}]
    BY <1>4 DEF Injection, Missing
  <2> QED
    BY <1>3, <2>1 DEF Overwrite, Slotted
<1>7. q \in [Experts[l] -> Slots(l) \cup {None}]
  <2>1. CASE Single(l, X)
    <3>1. (CHOOSE k \in X : TRUE) \in Slots(l)
      <4>1. X # {}
        BY <2>1, FS_EmptySet DEF Single
      <4> QED
        BY <1>5, <4>1
    <3> QED
      BY <1>4, <2>1, <3>1, EvictedTyped DEF ShortOf
  <2>2. CASE ~Single(l, X)
    BY <2>2, EvictedTyped DEF ShortOf
  <2> QED
    BY <2>1, <2>2
<1>8. t = [s EXCEPT !.slotOf = q, !.data = d]
  BY <1>2 DEF ShortAs
<1> HIDE DEF s, d, q
<1>9. /\ t \in Slotted(l) /\ t.slotOf = q /\ t.data = d /\ t.late = s.late
      /\ t.expertOf = s.expertOf /\ t.map = s.map /\ t.readers = s.readers
      /\ t.pending = s.pending /\ t.dropped = s.dropped
  BY <1>3, <1>6, <1>7, <1>8 DEF Slotted
<1>10. Plain(l, t)
  BY <1>3, <1>9 DEF Plain
<1>11. /\ broken' \in [Layers -> SUBSET Doubts] /\ \A k \in Layers : broken[k] \subseteq broken'[k]
       /\ broken'[l] = {} => q = Evicted(l, X)
  <2> DEFINE Y == IF Single(l, X) THEN {"shared"} ELSE {}
  <2>1. Y \in SUBSET Doubts /\ broken' = [broken EXCEPT ![l] = @ \cup Doubt(l, X) \cup Y]
    BY <1>1 DEF Doubts
  <2>2. Y = {} => q = Evicted(l, X)
    BY DEF q, ShortOf
  <2> HIDE DEF Y
  <2> QED
    BY <2>1, <2>2, Doubted
<1>12. todo' = NoCall /\ NewPass
  BY DEF ComesUpShort
<1>13. Raised(l, X, t)
  BY <1>2, <1>5, <1>6, <1>9, <1>10, <1>11, <1>12 DEF Raised, s
<1> QED
  BY <1>13, RaisedSafe

\* The end of a part of a failed read harms nothing that counts.
LEMMA LateWriteSafe ==
  ASSUME CallInv, SlotsInv, NEW l \in Layers, LateWrite(l) PROVE SlotsInv' /\ CallInv'
<1>1. PICK w \in slots[l].late :
        slots' = [slots EXCEPT ![l].late = @ \ {w},
                               ![l].data[w[1]] = IF @ = w[2] THEN @ ELSE Junk]
  BY DEF LateWrite
<1> DEFINE s == slots[l]
           t == slots'[l]
<1>2. s \in Slotted(l) /\ Plain(l, s) /\ (broken[l] = {} => Good(l, s))
  BY DEF SlotsInv
<1>3. w \in Slots(l) \X Experts[l]
  BY <1>2 DEF Slotted
<1> DEFINE d == [s.data EXCEPT ![w[1]] = IF @ = w[2] THEN @ ELSE Junk]
           v == s.late \ {w}
<1>4. slots' = [slots EXCEPT ![l] = [s EXCEPT !.late = v, !.data = d]]
  BY <1>1 DEF SlotsInv
<1>5. t = [s EXCEPT !.late = v, !.data = d]
  BY <1>4 DEF SlotsInv
<1>6. /\ d \in [Slots(l) -> Experts[l] \cup {None, Junk}] /\ v \in SUBSET (Slots(l) \X Experts[l])
      /\ \A k \in Slots(l) : k # w[1] => d[k] = s.data[k]
  BY <1>2, <1>3 DEF Slotted
<1> HIDE DEF d, s, t
<1>7. /\ t \in Slotted(l) /\ t.data = d /\ t.late = v /\ t.slotOf = s.slotOf
      /\ t.expertOf = s.expertOf /\ t.map = s.map /\ t.readers = s.readers /\ t.by = s.by
      /\ t.pending = s.pending /\ t.dropped = s.dropped
  BY <1>2, <1>5, <1>6 DEF Slotted
<1>8. ASSUME Good(l, s) PROVE Good(l, t)
  <2>1. w \in s.late
    BY DEF s
  <2>2. \A e \in Experts[l] : s.slotOf[e] # w[1]
    BY <1>8, <2>1 DEF Good, Quiet
  <2>3. \A p \in s.pending \ s.dropped : p[2] # w[1] /\ p[2] \in Slots(l)
    BY <1>2, <1>8, <2>1 DEF Good, Quiet, Slotted, Outputs
  <2>4. Sound(l, t)
    <3> SUFFICES ASSUME NEW e \in Experts[l], s.slotOf[e] # None PROVE d[s.slotOf[e]] = e
      BY <1>7, <1>8 DEF Good, Sound
    <3>1. s.slotOf[e] \in Slots(l) /\ s.data[s.slotOf[e]] = e
      BY <1>2, <1>8 DEF Good, Sound, Slotted
    <3> QED
      BY <1>6, <2>2, <3>1
  <2>5. Waiting(t)
    BY <1>6, <1>7, <1>8, <2>3 DEF Good, Waiting, Listed
  <2>6. Quiet(l, t)
    BY <1>7, <1>8 DEF Good, Quiet, v
  <2> QED
    BY <2>4, <2>5, <2>6 DEF Good
<1>9. Plain(l, t)
  BY <1>2, <1>7 DEF Plain, v
<1>10. UNCHANGED <<at, thread, todo, broken>>
  BY DEF LateWrite
<1>11. \A k \in Layers : slots'[k] = IF k = l THEN t ELSE slots[k]
  BY <1>4, <1>5 DEF SlotsInv
<1>12. slots' = [k \in Layers |-> slots'[k]]
  BY <1>4 DEF SlotsInv
<1> QED
  BY <1>2, <1>7, <1>8, <1>9, <1>10, <1>11, <1>12 DEF SlotsInv, CallInv, s

\* A thread that evaluates what it has computed leaves nothing of its own waiting.
LEMMA EvaluateSafe ==
  ASSUME CallInv, SlotsInv, NEW u, Evaluate(u) PROVE SlotsInv' /\ CallInv'
<1>1. slots' = [l \in Layers |-> Without(u, slots[l])] /\ UNCHANGED <<at, thread, todo, broken>>
  BY DEF Evaluate
<1>2. ASSUME NEW l \in Layers
      PROVE  /\ slots'[l] \in Slotted(l) /\ Plain(l, slots'[l])
             /\ Good(l, slots[l]) => Good(l, slots'[l])
  <2> DEFINE s == slots[l]
             t == slots'[l]
             r == IF s.by = u THEN {} ELSE s.readers
             P == {p \in s.pending : p[1] # u}
             D == {p \in s.dropped : p[1] # u}
  <2>1. s \in Slotted(l) /\ Plain(l, s)
    BY DEF SlotsInv
  <2>2. t = [s EXCEPT !.readers = r, !.pending = P, !.dropped = D]
    BY <1>1 DEF Without
  <2>3. r \subseteq s.readers /\ P \in SUBSET Outputs(l) /\ D \in SUBSET Outputs(l) /\ P \subseteq s.pending
    BY <2>1 DEF Slotted
  <2>4. P \ D \subseteq {p \in s.pending \ s.dropped : p[1] # u}
    OBVIOUS
  <2>5. s.by # u => r = s.readers
    OBVIOUS
  <2> HIDE DEF s, t, r, P, D
  <2>6. /\ t \in Slotted(l) /\ t.readers = r /\ t.pending = P /\ t.dropped = D /\ t.by = s.by
        /\ t.slotOf = s.slotOf /\ t.expertOf = s.expertOf /\ t.map = s.map /\ t.data = s.data
        /\ t.late = s.late
    BY <2>1, <2>2, <2>3 DEF Slotted
  <2>7. Plain(l, t)
    BY <2>1, <2>3, <2>6 DEF Plain
  <2>8. ASSUME Good(l, s) PROVE Good(l, t)
    <3>1. Sound(l, t) /\ Quiet(l, t)
      BY <2>4, <2>6, <2>8 DEF Good, Sound, Quiet
    <3>2. Waiting(t)
      <4> SUFFICES ASSUME NEW p \in P \ D PROVE p \in Listed(t) /\ s.data[p[2]] = p[3]
        BY <2>6 DEF Waiting
      <4>1. p \in Listed(s) /\ s.data[p[2]] = p[3] /\ p[1] # u
        BY <2>4, <2>8 DEF Good, Waiting
      <4>2. s.by # u
        BY <4>1 DEF Listed, Tagged
      <4> QED
        BY <2>5, <2>6, <4>1, <4>2 DEF Listed
    <3> QED
      BY <3>1, <3>2 DEF Good
  <2> QED
    BY <2>6, <2>7, <2>8 DEF s, t
<1> QED
  BY <1>1, <1>2 DEF SlotsInv, CallInv

\* Only the layer the pass is at runs wide, and then no call is running.
WideInv ==
  /\ full = [l \in Layers |-> full[l]]
  /\ \A l \in Layers : full[l] # NoTable => at = l /\ todo = NoCall

LEMMA CallSafe ==
  ASSUME CallInv, SlotsInv, NEW l \in Layers, NEW X \in SUBSET Experts[l], Call(l, X)
  PROVE  SlotsInv' /\ CallInv'
<1>1. at = l /\ at' = l /\ thread' = thread
  BY DEF Call, Running, Continue
<1>2. todo' \in [rest : SUBSET Experts[l], missing : SUBSET Experts[l], lazy : BOOLEAN]
  BY DEF Call, Missing
<1>3. CallInv'
  BY <1>1, <1>2 DEF CallInv
<1> QED
  BY <1>3 DEF Call, SlotsInv

LEMMA CallingSafe ==
  ASSUME CallInv, SlotsInv, NEW l \in Layers, Calling(l) PROVE SlotsInv' /\ CallInv'
<1>1. CASE \E X \in SUBSET Experts[l] \ {{}} : Call(l, X)
  BY <1>1, CallSafe
<1>2. CASE JoinFails(l)
  BY <1>2, SlotsKept, NewPassTyped DEF JoinFails, Running
<1> QED
  BY <1>1, <1>2, HitSafe, ReadSafe, ReadFailsSafe, ComesUpShortSafe, LateWriteSafe DEF Calling

LEMMA WideningSafe ==
  ASSUME CallInv, SlotsInv, WideInv, NEW l \in Layers, Widening(l) PROVE SlotsInv' /\ CallInv'
<1>1. UNCHANGED <<slots, broken, todo>>
  BY DEF Widening, WideAhead, WideFirst, WideRefused, WideFails, WideJoinFails, Narrow, Widen
<1>2. CASE Continue
  <2>1. at' \in Layers /\ thread' \in Threads /\ UNCHANGED <<at, todo>>
    BY <1>1, <1>2 DEF Continue, CallInv
  <2> QED
    BY <1>1, <2>1, SlotsKept
<1>3. CASE ~Continue
  <2>1. WideFails(l) \/ WideJoinFails(l) \/ Narrow(l)
    BY <1>3 DEF Widening, WideAhead, WideFirst, WideRefused, Widen
  <2>2. todo = NoCall /\ at = l
    BY <2>1 DEF WideFails, WideJoinFails, Narrow, Starts, Running, WideInv
  <2>3. NewPass \/ GoOn(l)
    BY <2>1 DEF WideFails, WideJoinFails, Narrow
  <2>4. at' \in Layers /\ thread' \in Threads
    BY <2>3, NewPassTyped DEF GoOn, CallInv
  <2> QED
    BY <1>1, <2>2, <2>4, SlotsKept
<1> QED
  BY <1>2, <1>3

LEMMA SlotsStay == CallInv /\ SlotsInv /\ WideInv /\ [Next]_vars => CallInv' /\ SlotsInv'
<1> SUFFICES ASSUME CallInv, SlotsInv, WideInv, [Next]_vars PROVE CallInv' /\ SlotsInv'
  OBVIOUS
<1>1. CASE Abort
  BY <1>1, SlotsKept, NewPassTyped DEF Abort, Running
<1>2. CASE \E l \in Layers : Filling(l)
  <2>1. UNCHANGED <<slots, broken, at, thread, todo>>
    BY <1>2 DEF Filling, FillCopy, FillRead, FillFails
  <2> QED
    BY <2>1, SlotsKept DEF CallInv
<1>3. CASE UNCHANGED vars
  <2>1. UNCHANGED <<slots, broken, at, thread, todo>>
    BY <1>3 DEF vars
  <2> QED
    BY <2>1, SlotsKept DEF CallInv
<1> QED
  BY <1>1, <1>2, <1>3, CallingSafe, WideningSafe, EvaluateSafe DEF Next

LEMMA WideStays == CallInv /\ WideInv /\ [Next]_vars => WideInv'
<1> SUFFICES ASSUME CallInv, WideInv, [Next]_vars PROVE WideInv'
  OBVIOUS
<1>1. ASSUME NEW l \in Layers, Running(l) PROVE \A k \in Layers : full[k] = NoTable
  BY <1>1 DEF Running
<1>2. CASE Abort
  BY <1>1, <1>2 DEF Abort, WideInv, tables
<1>3. ASSUME NEW l \in Layers, Calling(l) PROVE WideInv'
  <2>1. CASE (\E X \in SUBSET Experts[l] \ {{}} : Call(l, X)) \/ JoinFails(l)
    BY <1>1, <2>1 DEF Call, JoinFails, WideInv
  <2>0. CASE LateWrite(l)
    BY <2>0 DEF LateWrite, WideInv, tables
  <2>2. CASE Hit(l) \/ Read(l) \/ ReadFails(l) \/ ComesUpShort(l)
    <3>1. todo # NoCall
      BY <2>2 DEF Hit, Read, ReadFails, ComesUpShort, Busy
    <3>2. CASE Hit(l) \/ Read(l)
      <4>1. \E C, s : Served(l, C, s)
        BY <3>2 DEF Hit, Read
      <4> QED
        BY <3>1, <4>1 DEF Served, WideInv, tables
    <3>3. CASE ReadFails(l)
      BY <3>1, <3>3 DEF ReadFails, WideInv, tables
    <3>4. CASE ComesUpShort(l)
      BY <3>1, <3>4 DEF ComesUpShort, WideInv, tables
    <3> QED
      BY <2>2, <3>2, <3>3, <3>4
  <2> QED
    BY <1>3, <2>0, <2>1, <2>2 DEF Calling
<1>4. ASSUME NEW l \in Layers, Widening(l) PROVE WideInv'
  <2>1. CASE WideAhead(l) \/ WideFirst(l)
    <3>1. Running(l) /\ UNCHANGED <<at, todo>> /\ \E t : full' = [full EXCEPT ![l] = t]
      BY <2>1 DEF WideAhead, WideFirst, Starts, Widen, Continue
    <3> QED
      BY <1>1, <3>1 DEF WideInv, Running
  <2>2. CASE WideRefused(l) \/ WideFails(l) \/ WideJoinFails(l)
    <3>1. Running(l) /\ UNCHANGED <<full, todo>>
      BY <2>2 DEF WideRefused, WideFails, WideJoinFails, Starts
    <3> QED
      BY <1>1, <3>1 DEF WideInv
  <2>3. CASE Narrow(l)
    BY <2>3 DEF Narrow, WideInv
  <2> QED
    BY <1>4, <2>1, <2>2, <2>3 DEF Widening
<1>5. CASE \E l \in Layers : Filling(l)
  BY <1>5 DEF Filling, FillCopy, FillRead, FillFails, WideInv
<1>6. CASE UNCHANGED vars
  BY <1>6 DEF vars, tables, WideInv
<1>7. CASE \E t \in Threads : Evaluate(t)
  BY <1>7 DEF Evaluate, WideInv, tables
<1> QED
  BY <1>2, <1>3, <1>4, <1>5, <1>6, <1>7 DEF Next

LEMMA InitSlots == Init => CallInv /\ SlotsInv /\ WideInv
<1> SUFFICES ASSUME Init PROVE CallInv /\ SlotsInv /\ WideInv
  OBVIOUS
<1>1. 1 \in Layers
  BY LayersAre
<1>2. CallInv
  BY <1>1, NoCallTyped DEF Init, CallInv
<1>3. ASSUME NEW l \in Layers
      PROVE  slots[l] \in Slotted(l) /\ Plain(l, slots[l]) /\ Good(l, slots[l])
  <2>1. /\ slots[l] \in Slotted(l) /\ slots[l].readers = {}
        /\ slots[l].pending = {} /\ slots[l].late = {}
    BY SlotsNumbered DEF Init, Slotted
  <2>2. \A e \in Experts[l] : slots[l].slotOf[e] = None
    BY DEF Init
  <2> QED
    BY <2>1, <2>2 DEF Good, Sound, Waiting, Quiet, Plain
<1>4. SlotsInv
  BY <1>3 DEF Init, SlotsInv
<1>5. WideInv
  BY DEF Init, WideInv
<1> QED
  BY <1>2, <1>4, <1>5

LEMMA SlotsHold == Spec => [](CallInv /\ SlotsInv /\ WideInv)
<1>1. (CallInv /\ SlotsInv /\ WideInv) /\ [Next]_vars => (CallInv /\ SlotsInv /\ WideInv)'
  BY SlotsStay, WideStays
<1> QED
  BY <1>1, InitSlots, PTL DEF Spec

\* What offload.py says of its map, for every layer none of whose slots was
\* given to two experts or taken again while a failed read still wrote to it.
THEOREM ResidentsAreRight == Spec => []WeightsRight
<1>1. SlotsInv => WeightsRight
  <2> SUFFICES ASSUME SlotsInv, NEW l \in Layers, broken[l] = {}, NEW e \in Resident(l)
               PROVE  slots[l].data[slots[l].map[e]] = e
    BY DEF WeightsRight
  <2>1. Sound(l, slots[l]) /\ e \in Experts[l] /\ slots[l].slotOf[e] # None
    BY DEF SlotsInv, Good, Resident
  <2> QED
    BY <2>1 DEF Sound
<1> QED
  BY <1>1, SlotsHold, PTL

\* An output that no other thread's call has dropped reads the weights it was
\* computed from, however late it is evaluated.
THEOREM PendingReadsRight == Spec => []PendingStillRight
<1>1. SlotsInv => PendingStillRight
  BY DEF SlotsInv, PendingStillRight, Good, Waiting
<1> QED
  BY <1>1, SlotsHold, PTL

-----------------------------------------------------------------------------
(* The tables. *)

TablesTyped ==
  /\ ahead = [l \in Layers |-> [table |-> ahead[l].table, from |-> ahead[l].from, state |-> ahead[l].state]]
  /\ spare = [l \in Layers |-> spare[l]]

\* The tables that are not in use belong to one layer, which the pass has
\* still to reach, or has reached and makes no call on; while a layer runs
\* wide that is the next one.
PlaceInv ==
  \E m \in Nat :
    /\ at <= m /\ (todo # NoCall => at < m)
    /\ \A k \in Layers : k # m => ahead[k].state = "none" /\ spare[k] = NoTable
    /\ \A l \in Layers : full[l] # NoTable => m = l + 1 /\ \A k \in Layers : spare[k] = NoTable

\* Slot k of layer l holds expert e's weights, and no late write goes there.
Safe(l, k, e) == k \in Slots(l) /\ slots[l].data[k] = e /\ \A w \in slots[l].late : w[1] # k

\* What a fill x of layer l has put into its table so far; what it will copy is
\* in place.
FillRight(l, x) ==
  /\ x.state # "none" => Fits(l, x.table)
  /\ x.state = "queued" =>
       \A e \in Experts[l] : e \in DOMAIN x.from => Safe(l, x.from[e], e)
  /\ x.state = "copied" => \A e \in Experts[l] : e \in DOMAIN x.from => x.table[e] = <<l, e>>
  /\ x.state = "filled" => \A e \in Experts[l] : x.table[e] = <<l, e>>

FillsInv == TableComplete /\ \A l \in Layers : broken[l] = {} => FillRight(l, ahead[l])

TablesInv == TablesTyped /\ PlaceInv /\ FillsInv

\* What a call on layer l that is running leaves alone.
LEMMA Elsewhere ==
  ASSUME CallInv, SlotsInv, NEW l \in Layers, Hit(l) \/ Read(l) \/ ReadFails(l) \/ ComesUpShort(l)
  PROVE  /\ at = l /\ todo # NoCall /\ UNCHANGED tables
         /\ at' \in {1, at, at + 1} /\ (todo' # NoCall => at' = at)
         /\ \A k \in Layers : k # l => slots'[k] = slots[k]
         /\ \A k \in Layers : broken[k] \subseteq broken'[k]
<1>1. at = l /\ todo # NoCall
  BY DEF Hit, Read, ReadFails, ComesUpShort, Busy
<1>2. CASE Hit(l) \/ Read(l)
  <2>1. PICK C, s : Served(l, C, s)
    BY <1>2 DEF Hit, Read
  <2>2. \E t : slots' = [slots EXCEPT ![l] = t]
    BY <2>1 DEF Served
  <2>3. UNCHANGED tables /\ (Continue \/ (todo' = NoCall /\ GoOn(l)))
    BY <2>1 DEF Served
  <2>4. \A k \in Layers : broken[k] \subseteq broken'[k]
    <3>1. CASE Hit(l)
      BY <3>1 DEF Hit
    <3>2. CASE Read(l)
      BY <3>2, ReadIs DEF SlotsInv
    <3> QED
      BY <1>2, <3>1, <3>2
  <2> QED
    BY <1>1, <2>2, <2>3, <2>4 DEF SlotsInv, Continue, GoOn, NewPass
<1>3. CASE ReadFails(l)
  <2>1. UNCHANGED tables /\ todo' = NoCall /\ at' = 1
    BY <1>3 DEF ReadFails, NewPass
  <2>2. (\E t : slots' = [slots EXCEPT ![l] = t]) /\ \A k \in Layers : broken[k] \subseteq broken'[k]
    BY <1>3, ReadFailsIs DEF SlotsInv
  <2> QED
    BY <1>1, <2>1, <2>2 DEF SlotsInv
<1>4. CASE ComesUpShort(l)
  <2>1. UNCHANGED tables /\ todo' = NoCall /\ at' = 1
    BY <1>4 DEF ComesUpShort, NewPass
  <2>2. (\E t : slots' = [slots EXCEPT ![l] = t]) /\ \A k \in Layers : broken[k] \subseteq broken'[k]
    BY <1>4, ShortCall DEF SlotsInv
  <2> QED
    BY <1>1, <2>1, <2>2 DEF SlotsInv
<1> QED
  BY <1>2, <1>3, <1>4

LEMMA TypedStay == TablesTyped /\ CallInv /\ SlotsInv /\ [Next]_vars => TablesTyped'
<1> SUFFICES ASSUME TablesTyped, CallInv, SlotsInv, [Next]_vars PROVE TablesTyped'
  OBVIOUS
<1>1. CASE UNCHANGED tables
  BY <1>1 DEF tables, TablesTyped
<1>2. ASSUME NEW l \in Layers, Calling(l) PROVE TablesTyped'
  <2>1. CASE (\E X \in SUBSET Experts[l] \ {{}} : Call(l, X)) \/ JoinFails(l)
    BY <2>1 DEF Call, JoinFails, TablesTyped, NoAhead
  <2>2. CASE LateWrite(l)
    BY <1>1, <2>2 DEF LateWrite
  <2> QED
    BY <1>1, <1>2, <2>1, <2>2, Elsewhere DEF Calling
<1>3. ASSUME NEW l \in Layers, Widening(l) PROVE TablesTyped'
  <2>1. ASSUME NEW t, NEW a, NEW s, Widen(l, t, a, s),
               a = [k \in Layers |-> [table |-> a[k].table, from |-> a[k].from, state |-> a[k].state]],
               s = [k \in Layers |-> s[k]]
        PROVE  TablesTyped'
    BY <2>1 DEF Widen, TablesTyped
  <2>2. CASE WideAhead(l)
    <3> DEFINE a == [ahead EXCEPT ![l] = NoAhead]
    <3>1. a = [k \in Layers |-> [table |-> a[k].table, from |-> a[k].from, state |-> a[k].state]]
      BY DEF TablesTyped, NoAhead
    <3> QED
      BY <2>1, <2>2, <3>1 DEF WideAhead, TablesTyped
  <2>3. CASE WideFirst(l)
    <3> DEFINE a == Clear(l, ahead, NoAhead)
               s == [Clear(l, spare, NoTable) EXCEPT ![l] = NoTable]
    <3>1. a = [k \in Layers |-> [table |-> a[k].table, from |-> a[k].from, state |-> a[k].state]]
      BY DEF TablesTyped, NoAhead, Clear
    <3>2. s = [k \in Layers |-> s[k]]
      BY DEF Clear
    <3>3. \E t : Widen(l, t, a, s)
      BY <2>3 DEF WideFirst
    <3> HIDE DEF a, s
    <3> QED
      BY <2>1, <3>1, <3>2, <3>3
  <2>4. CASE WideRefused(l) \/ WideFails(l)
    BY <2>4 DEF WideRefused, WideFails, Clear, TablesTyped, NoAhead
  <2>5. CASE WideJoinFails(l)
    BY <2>5 DEF WideJoinFails, TablesTyped, NoAhead
  <2>6. CASE Narrow(l)
    BY <2>6 DEF Narrow, TablesTyped
  <2> QED
    BY <1>3, <2>2, <2>3, <2>4, <2>5, <2>6 DEF Widening
<1>4. ASSUME NEW l \in Layers, Filling(l) PROVE TablesTyped'
  BY <1>4 DEF Filling, FillCopy, FillRead, FillFails, TablesTyped
<1> QED
  BY <1>1, <1>2, <1>3, <1>4 DEF Next, Abort, Evaluate, vars

LEMMA PlaceStays ==
  PlaceInv /\ TablesTyped /\ CallInv /\ SlotsInv /\ WideInv /\ [Next]_vars => PlaceInv'
<1> SUFFICES ASSUME PlaceInv, TablesTyped, CallInv, SlotsInv, WideInv, [Next]_vars PROVE PlaceInv'
  OBVIOUS
<1> DEFINE Alone(k, a, s) == a[k].state = "none" /\ s[k] = NoTable
<1>0. PICK m \in Nat :
        /\ at <= m /\ (todo # NoCall => at < m)
        /\ \A k \in Layers : k # m => Alone(k, ahead, spare)
        /\ \A l \in Layers : full[l] # NoTable => m = l + 1 /\ \A k \in Layers : spare[k] = NoTable
  BY DEF PlaceInv
<1>1. at \in Nat \ {0}
  BY LayersAre DEF CallInv
\* A step that moves no table and does not pass the place of the tables.
<1>2. ASSUME UNCHANGED tables, at' <= m, todo' # NoCall => at' < m PROVE PlaceInv'
  BY <1>0, <1>2 DEF PlaceInv, tables
\* A step after which no layer runs wide.
<1>3. ASSUME NEW n \in Nat, at' <= n, todo' # NoCall => at' < n,
             \A k \in Layers : k # n => Alone(k, ahead', spare'), \A k \in Layers : full'[k] = NoTable
      PROVE  PlaceInv'
  BY <1>3 DEF PlaceInv
<1>4. ASSUME NEW l \in Layers, Running(l)
      PROVE  at = l /\ todo = NoCall /\ \A k \in Layers : full[k] = NoTable
  BY <1>4 DEF Running
<1>5. CASE Abort
  BY <1>0, <1>1, <1>2, <1>4, <1>5 DEF Abort, NewPass
<1>6. ASSUME NEW l \in Layers, Calling(l) PROVE PlaceInv'
  <2>1. CASE \E X \in SUBSET Experts[l] \ {{}} : Call(l, X)
    <3>1. /\ Running(l) /\ at' = at /\ full' = full
          /\ ahead' = [ahead EXCEPT ![l] = NoAhead] /\ spare' = [spare EXCEPT ![l] = NoTable]
      BY <2>1 DEF Call, Continue
    <3>2. \A k \in Layers : k = l \/ k # m => Alone(k, ahead', spare')
      BY <1>0, <3>1 DEF TablesTyped, NoAhead
    <3>3. at = l /\ \A k \in Layers : full'[k] = NoTable
      BY <1>4, <3>1
    <3>4. CASE m = l
      BY <1>1, <1>3, <3>1, <3>2, <3>3, <3>4
    <3>5. CASE m # l
      BY <1>0, <1>1, <1>3, <3>1, <3>2, <3>3, <3>5
    <3> QED
      BY <3>4, <3>5
  <2>2. CASE JoinFails(l)
    <3>1. /\ Running(l) /\ at' = 1 /\ full' = full /\ todo' = todo
          /\ ahead' = [ahead EXCEPT ![l] = NoAhead] /\ spare' = spare
      BY <2>2 DEF JoinFails, NewPass
    <3>2. \A k \in Layers : k # m => Alone(k, ahead', spare')
      BY <1>0, <3>1 DEF TablesTyped, NoAhead
    <3> QED
      BY <1>0, <1>1, <1>3, <1>4, <3>1, <3>2
  <2>3. CASE Hit(l) \/ Read(l) \/ ReadFails(l) \/ ComesUpShort(l)
    <3>1. /\ todo # NoCall /\ UNCHANGED tables /\ at' \in {1, at, at + 1}
          /\ todo' # NoCall => at' = at
      BY <2>3, Elsewhere
    <3> QED
      BY <1>0, <1>1, <1>2, <3>1
  <2>4. CASE LateWrite(l)
    BY <1>0, <1>2, <2>4 DEF LateWrite
  <2> QED
    BY <1>6, <2>1, <2>2, <2>3, <2>4 DEF Calling
<1>7. ASSUME NEW l \in Layers, Widening(l) PROVE PlaceInv'
  \* Layer l runs wide: its own tables and those behind it are gone, or it
  \* uses the table read ahead.
  <2>1. ASSUME Running(l), NEW t, NEW a, NEW s, Widen(l, t, a, s),
               a = [k \in Layers |-> a[k]], s = [k \in Layers |-> s[k]],
               \A k \in Layers : a[k].state = "none", \A k \in Layers : k # l => s[k] = NoTable
        PROVE  PlaceInv'
    <3>1. at' = l /\ todo' = NoCall /\ l \in Nat
      BY <1>1, <1>4, <2>1 DEF Widen, Continue
    <3>2. \A k \in Layers : spare'[k] = NoTable
      BY <2>1 DEF Widen
    <3>3. \A k \in Layers : k # l + 1 => ahead'[k].state = "none"
      BY <2>1 DEF Widen
    <3>4. \A k \in Layers : full'[k] # NoTable => k = l
      BY <1>4, <2>1 DEF Widen, WideInv
    <3>5. /\ at' <= l + 1 /\ (todo' # NoCall => at' < l + 1)
          /\ \A k \in Layers : full'[k] # NoTable => l + 1 = k + 1
      BY <3>1, <3>4
    <3> QED
      BY <3>1, <3>2, <3>3, <3>5 DEF PlaceInv
  <2>2. CASE WideAhead(l)
    <3> DEFINE a == [ahead EXCEPT ![l] = NoAhead]
    <3>1. Running(l) /\ Widen(l, ahead[l].table, a, spare)
      BY <2>2 DEF WideAhead
    <3>2. m = l
      BY <1>0, <2>2 DEF WideAhead, Ready
    <3>3. a = [k \in Layers |-> a[k]] /\ \A k \in Layers : a[k].state = "none"
      BY <1>0, <3>2 DEF TablesTyped, NoAhead
    <3>4. \A k \in Layers : k # l => spare[k] = NoTable
      BY <1>0, <3>2
    <3> HIDE DEF a
    <3> QED
      BY <2>1, <3>1, <3>3, <3>4 DEF TablesTyped
  \* A pass starts at l: what lies behind is cleared, and before l there is nothing.
  <2>3. ASSUME Starts(l)
        PROVE  /\ \A k \in Layers : Clear(l, ahead, NoAhead)[k].state = "none"
               /\ \A k \in Layers : k # l => Clear(l, spare, NoTable)[k] = NoTable
    <3>1. at = l /\ ahead[l].state = "none"
      BY <1>4, <2>3 DEF Starts
    <3>2. \A k \in Layers : k < l => Alone(k, ahead, spare)
      BY <1>0, <1>1, <3>1, LayersAre
    <3>3. l \in Nat /\ Layers \subseteq Nat
      BY LayersAre
    <3> QED
      BY <3>1, <3>2, <3>3 DEF Clear, LeftBehind, NoAhead
  <2>4. CASE WideFirst(l)
    <3> DEFINE a == Clear(l, ahead, NoAhead)
               s == [Clear(l, spare, NoTable) EXCEPT ![l] = NoTable]
    <3>1. Starts(l) /\ \E t : Widen(l, t, a, s)
      BY <2>4 DEF WideFirst
    <3>2. a = [k \in Layers |-> a[k]] /\ s = [k \in Layers |-> s[k]]
      BY DEF Clear
    <3>3. \A k \in Layers : a[k].state = "none"
      BY <2>3, <3>1
    <3>4. \A k \in Layers : k # l => s[k] = NoTable
      BY <2>3, <3>1 DEF Clear
    <3>5. Running(l)
      BY <3>1 DEF Starts
    <3> HIDE DEF a, s
    <3> QED
      BY <2>1, <3>1, <3>2, <3>3, <3>4, <3>5
  <2>5. CASE WideRefused(l) \/ WideFails(l)
    <3>1. /\ Starts(l) /\ at' \in {1, at} /\ UNCHANGED <<full, todo>>
          /\ ahead' = Clear(l, ahead, NoAhead)
          /\ spare' = [Clear(l, spare, NoTable) EXCEPT ![l] = NoTable]
      BY <2>5 DEF WideRefused, WideFails, Continue, NewPass
    <3>2. \A k \in Layers : Alone(k, ahead', spare')
      BY <2>3, <3>1 DEF Clear
    <3>3. todo' = NoCall /\ (\A k \in Layers : full'[k] = NoTable) /\ at' \in Nat
      BY <1>1, <1>4, <3>1 DEF Starts
    <3> QED
      BY <1>3, <3>2, <3>3
  <2>6. CASE WideJoinFails(l)
    <3>1. Starts(l) /\ at' = 1 /\ UNCHANGED <<full, todo>>
      BY <2>6 DEF WideJoinFails, NewPass
    <3>2. \A k \in Layers : Alone(k, ahead, spare) => Alone(k, ahead', spare')
      BY <2>6 DEF WideJoinFails, NoAhead
    <3>3. \A k \in Layers : k # m => Alone(k, ahead', spare')
      BY <1>0, <3>2
    <3> QED
      BY <1>0, <1>1, <1>3, <1>4, <3>1, <3>3 DEF Starts
  <2>7. CASE Narrow(l)
    <3>1. /\ full[l] # NoTable /\ full' = [full EXCEPT ![l] = NoTable] /\ ahead' = ahead /\ todo' = todo
          /\ spare' = [k \in Layers |-> IF k = l + 1 THEN full[l] ELSE spare[k]]
          /\ at' \in {1, l + 1}
      BY <2>7 DEF Narrow, NewPass, GoOn
    <3>2. at = l /\ todo = NoCall /\ m = l + 1 /\ l \in Nat \ {0} /\ \A k \in Layers : k # l => full[k] = NoTable
      BY <1>0, <1>1, <3>1 DEF WideInv
    <3>3. (\A k \in Layers : k # m => Alone(k, ahead', spare')) /\ \A k \in Layers : full'[k] = NoTable
      BY <1>0, <3>1, <3>2 DEF WideInv
    <3> QED
      BY <1>3, <3>1, <3>2, <3>3
  <2> QED
    BY <1>7, <2>2, <2>4, <2>5, <2>6, <2>7 DEF Widening
<1>8. ASSUME NEW l \in Layers, Filling(l) PROVE PlaceInv'
  <2>1. UNCHANGED <<full, spare, at, todo>>
    BY <1>8 DEF Filling, FillCopy, FillRead, FillFails
  <2>2. \A k \in Layers : ahead[k].state = "none" => ahead'[k].state = "none"
    BY <1>8 DEF Filling, FillCopy, FillRead, FillFails, TablesTyped
  <2> QED
    BY <1>0, <2>1, <2>2 DEF PlaceInv
<1>9. CASE UNCHANGED vars
  BY <1>0, <1>2, <1>9 DEF vars
<1>10. CASE \E t \in Threads : Evaluate(t)
  BY <1>0, <1>2, <1>10 DEF Evaluate
<1> QED
  BY <1>5, <1>6, <1>7, <1>8, <1>9, <1>10 DEF Next

\* A fill that copies the resident experts and reads the others fills its table.
LEMMA Filled ==
  ASSUME SlotsInv, NEW l \in Layers, broken[l] = {}, NEW t, Fits(l, t)
  PROVE  LET u == Loaded(l, Copied(l, t, Resting(l)), Resting(l))
         IN  Fits(l, u) /\ \A e \in Experts[l] : u[e] = <<l, e>>
<1>1. Sound(l, slots[l])
  BY DEF SlotsInv, Good
<1>2. \A e \in Resident(l) : e \in Experts[l] /\ slots[l].data[slots[l].slotOf[e]] = e
  BY <1>1 DEF Sound, Resident
<1> QED
  BY <1>2 DEF Loaded, Copied, Resting, Fits

LEMMA TableFits == \A l, t : Fits(l, TableFor(l, t))
BY DEF TableFor, Fits, Blank

\* The layer goes on a complete table; what the next one's fill will copy is
\* in its slots.
LEMMA WidenFills ==
  ASSUME SlotsInv, NEW l \in Layers, NEW t, NEW a, NEW s, Widen(l, t, a, s),
         full = [k \in Layers |-> full[k]], \A k \in Layers : full[k] = NoTable,
         a = [k \in Layers |-> a[k]], \A k \in Layers : broken[k] = {} => FillRight(k, a[k]),
         broken[l] = {} => \A e \in Experts[l] : t[e] = <<l, e>>
  PROVE  FillsInv'
<1>1. UNCHANGED <<slots, broken>> /\ full' = [full EXCEPT ![l] = t]
  BY DEF Widen
<1>2. TableComplete'
  BY <1>1 DEF TableComplete
<1>3. ASSUME NEW k \in Layers, broken[k] = {} PROVE FillRight(k, ahead'[k])
  <2>1. CASE ahead'[k] = a[k]
    BY <1>3, <2>1
  <2>2. CASE ahead'[k] # a[k]
    <3>1. k = l + 1 /\ ahead'[k] = [table |-> TableFor(k, s[l]), from |-> Resting(k), state |-> "queued"]
      BY <2>2 DEF Widen
    <3>2. Good(k, slots[k])
      BY <1>3 DEF SlotsInv
    <3>3. \A e \in Experts[k] : e \in DOMAIN Resting(k) => Safe(k, Resting(k)[e], e)
      <4> SUFFICES ASSUME NEW e \in Resident(k) PROVE Safe(k, slots[k].slotOf[e], e)
        BY DEF Resting
      <4>1. e \in Experts[k] /\ slots[k].slotOf[e] # None
        BY DEF Resident
      <4>2. slots[k].slotOf[e] \in Slots(k)
        BY <4>1 DEF SlotsInv, Slotted
      <4>3. slots[k].data[slots[k].slotOf[e]] = e
        BY <3>2, <4>1 DEF Good, Sound
      <4>4. \A w \in slots[k].late : w[1] # slots[k].slotOf[e]
        BY <3>2, <4>1 DEF Good, Quiet
      <4> QED
        BY <4>2, <4>3, <4>4 DEF Safe
    <3> QED
      BY <3>1, <3>3, TableFits DEF FillRight
  <2> QED
    BY <2>1, <2>2
<1>4. (\A k \in Layers : broken[k] = {} => FillRight(k, ahead[k]))'
  BY <1>1, <1>3 DEF FillRight, Safe
<1> QED
  BY <1>2, <1>4 DEF FillsInv

LEMMA FillsStay ==
  FillsInv /\ PlaceInv /\ TablesTyped /\ CallInv /\ SlotsInv /\ WideInv /\ [Next]_vars => FillsInv'
<1> SUFFICES ASSUME FillsInv, PlaceInv, TablesTyped, CallInv, SlotsInv, WideInv, [Next]_vars
             PROVE  FillsInv'
  OBVIOUS
<1>1. ASSUME UNCHANGED <<slots, broken>>, \A k \in Layers : full'[k] \in {full[k], NoTable},
             \A k \in Layers : broken[k] = {} => FillRight(k, ahead'[k])
      PROVE  FillsInv'
  BY <1>1 DEF FillsInv, TableComplete, FillRight, Safe
<1>2. \A k \in Layers : FillRight(k, NoAhead)
  BY DEF FillRight, NoAhead
<1>3. \A k \in Layers : broken[k] = {} => FillRight(k, ahead[k])
  BY DEF FillsInv
<1>4. CASE Abort \/ UNCHANGED vars
  BY <1>1, <1>3, <1>4 DEF Abort, vars, tables
<1>5. ASSUME NEW l \in Layers, Calling(l) PROVE FillsInv'
  <2>1. CASE (\E X \in SUBSET Experts[l] \ {{}} : Call(l, X)) \/ JoinFails(l)
    <3>1. UNCHANGED <<slots, broken, full>> /\ ahead' = [ahead EXCEPT ![l] = NoAhead]
      BY <2>1 DEF Call, JoinFails
    <3>2. \A k \in Layers : ahead'[k] \in {ahead[k], NoAhead}
      BY <3>1 DEF TablesTyped
    <3> QED
      BY <1>1, <1>2, <1>3, <3>1, <3>2
  <2>2. CASE Hit(l) \/ Read(l) \/ ReadFails(l) \/ ComesUpShort(l)
    <3>1. /\ at = l /\ todo # NoCall /\ UNCHANGED tables
          /\ \A k \in Layers : k # l => slots'[k] = slots[k]
          /\ \A k \in Layers : broken[k] \subseteq broken'[k]
      BY <2>2, Elsewhere
    <3>2. ahead[l].state = "none"
      BY <3>1, LayersAre DEF PlaceInv
    <3>3. \A k \in Layers : full[k] = NoTable
      BY <3>1 DEF WideInv
    <3>4. ASSUME NEW k \in Layers, broken'[k] = {} PROVE FillRight(k, ahead[k])'
      <4>1. CASE k = l
        BY <3>1, <3>2, <4>1 DEF FillRight, Safe, tables
      <4>2. CASE k # l
        BY <1>3, <3>1, <3>4, <4>2 DEF FillRight, Safe, tables
      <4> QED
        BY <4>1, <4>2
    <3> QED
      BY <3>1, <3>3, <3>4 DEF FillsInv, TableComplete, tables
  <2>3. CASE LateWrite(l)
    <3>1. UNCHANGED <<tables, broken>>
      BY <2>3 DEF LateWrite
    <3>2. PICK w \in slots[l].late :
            slots' = [slots EXCEPT ![l].late = @ \ {w},
                                   ![l].data[w[1]] = IF @ = w[2] THEN @ ELSE Junk]
      BY <2>3 DEF LateWrite
    <3>3. slots[l] \in Slotted(l)
      BY DEF SlotsInv
    <3>4. \A k \in Slots(l) : k # w[1] => slots'[l].data[k] = slots[l].data[k]
      BY <3>2, <3>3 DEF SlotsInv, Slotted
    <3>5. slots'[l].late \subseteq slots[l].late /\ \A k \in Layers : k # l => slots'[k] = slots[k]
      BY <3>2, <3>3 DEF SlotsInv, Slotted
    <3>6. \A k \in Layers : \A i, e : Safe(k, i, e) => Safe(k, i, e)'
      BY <3>2, <3>4, <3>5 DEF Safe
    <3>7. (\A k \in Layers : broken[k] = {} => FillRight(k, ahead[k]))'
      BY <1>3, <3>1, <3>6 DEF FillRight, tables
    <3> QED
      BY <3>1, <3>7 DEF FillsInv, TableComplete, tables
  <2> QED
    BY <1>5, <2>1, <2>2, <2>3 DEF Calling
<1>6. ASSUME NEW l \in Layers, Widening(l) PROVE FillsInv'
  <2>1. ASSUME Running(l)
        PROVE  full = [k \in Layers |-> full[k]] /\ \A k \in Layers : full[k] = NoTable
    BY <2>1 DEF Running, WideInv
  <2>2. \A k \in Layers : Clear(l, ahead, NoAhead)[k] \in {ahead[k], NoAhead}
    BY DEF Clear
  <2>3. CASE WideAhead(l)
    <3> DEFINE a == [ahead EXCEPT ![l] = NoAhead]
    <3>1. Running(l) /\ Widen(l, ahead[l].table, a, spare) /\ ahead[l].state = "filled"
      BY <2>3 DEF WideAhead, Ready
    <3>2. a = [k \in Layers |-> a[k]] /\ \A k \in Layers : a[k] \in {ahead[k], NoAhead}
      BY DEF TablesTyped
    <3>3. \A k \in Layers : broken[k] = {} => FillRight(k, a[k])
      BY <1>2, <1>3, <3>2
    <3>4. broken[l] = {} => \A e \in Experts[l] : ahead[l].table[e] = <<l, e>>
      BY <1>3, <3>1 DEF FillRight
    <3> HIDE DEF a
    <3> QED
      BY <2>1, <3>1, <3>2, <3>3, <3>4, WidenFills
  <2>4. CASE WideFirst(l)
    <3> DEFINE a == Clear(l, ahead, NoAhead)
               s == [Clear(l, spare, NoTable) EXCEPT ![l] = NoTable]
               u == Loaded(l, Copied(l, TableFor(l, spare[l]), Resting(l)), Resting(l))
    <3>1. Running(l) /\ Widen(l, u, a, s)
      BY <2>4 DEF WideFirst, Starts
    <3>2. a = [k \in Layers |-> a[k]] /\ \A k \in Layers : broken[k] = {} => FillRight(k, a[k])
      <4>1. a = [k \in Layers |-> a[k]]
        BY DEF Clear
      <4>2. \A k \in Layers : a[k] \in {ahead[k], NoAhead}
        BY <2>2
      <4> HIDE DEF a
      <4> QED
        BY <1>2, <1>3, <4>1, <4>2
    <3>3. broken[l] = {} => \A e \in Experts[l] : u[e] = <<l, e>>
      BY Filled, TableFits
    <3> HIDE DEF a, s, u
    <3> QED
      BY <2>1, <3>1, <3>2, <3>3, WidenFills
  <2>5. CASE WideRefused(l) \/ WideFails(l) \/ WideJoinFails(l)
    <3>1. UNCHANGED <<slots, broken, full>> /\ \A k \in Layers : ahead'[k] \in {ahead[k], NoAhead}
      BY <2>2, <2>5 DEF WideRefused, WideFails, WideJoinFails
    <3> QED
      BY <1>1, <1>2, <1>3, <3>1
  <2>6. CASE Narrow(l)
    <3>1. /\ UNCHANGED <<slots, broken, ahead>>
          /\ \A k \in Layers : full'[k] \in {full[k], NoTable}
      BY <2>6 DEF Narrow, WideInv
    <3> QED
      BY <1>1, <1>3, <3>1
  <2> QED
    BY <1>6, <2>3, <2>4, <2>5, <2>6 DEF Widening
<1>7. ASSUME NEW l \in Layers, Filling(l) PROVE FillsInv'
  <2>1. UNCHANGED <<slots, broken, full>>
    BY <1>7 DEF Filling, FillCopy, FillRead, FillFails
  <2>2. ASSUME broken[l] = {} PROVE FillRight(l, ahead'[l])
    <3>1. FillRight(l, ahead[l])
      BY <1>3, <2>2
    <3> DEFINE x == ahead[l]
    <3>2. CASE FillCopy(l)
      <4>1. x = [table |-> x.table, from |-> x.from, state |-> x.state]
        BY DEF TablesTyped
      <4> DEFINE c == Copied(l, x.table, x.from)
      <4>2. x.state = "queued" /\ ahead' = [ahead EXCEPT ![l].table = c, ![l].state = "copied"]
        BY <3>2 DEF FillCopy
      <4> HIDE DEF c
      <4>3. ahead'[l] = [table |-> c, from |-> x.from, state |-> "copied"]
        BY <4>1, <4>2 DEF TablesTyped
      <4> QED
        <5>1. Fits(l, x.table) /\ \A e \in Experts[l] : e \in DOMAIN x.from => slots[l].data[x.from[e]] = e
          BY <3>1, <4>2 DEF FillRight, Safe
        <5>2. Fits(l, c) /\ \A e \in Experts[l] : e \in DOMAIN x.from => c[e] = <<l, e>>
          BY <5>1 DEF c, Copied, Fits
        <5> QED
          BY <4>3, <5>2 DEF FillRight
    <3>3. CASE FillRead(l)
      <4>1. x = [table |-> x.table, from |-> x.from, state |-> x.state]
        BY DEF TablesTyped
      <4> DEFINE c == Loaded(l, x.table, x.from)
      <4>2. x.state = "copied" /\ ahead' = [ahead EXCEPT ![l].table = c, ![l].state = "filled"]
        BY <3>3 DEF FillRead
      <4> HIDE DEF c
      <4>3. ahead'[l] = [table |-> c, from |-> x.from, state |-> "filled"]
        BY <4>1, <4>2 DEF TablesTyped
      <4> QED
        <5>1. Fits(l, x.table) /\ \A e \in Experts[l] : e \in DOMAIN x.from => x.table[e] = <<l, e>>
          BY <3>1, <4>2 DEF FillRight
        <5>2. Fits(l, c) /\ \A e \in Experts[l] : c[e] = <<l, e>>
          BY <5>1 DEF c, Loaded, Fits
        <5> QED
          BY <4>3, <5>2 DEF FillRight
    <3>4. CASE FillFails(l)
      <4>1. x.state = "copied" /\ ahead'[l].state = "failed" /\ ahead'[l].table = x.table
        BY <3>4 DEF FillFails, TablesTyped
      <4> QED
        BY <3>1, <4>1 DEF FillRight
    <3> QED
      BY <1>7, <3>2, <3>3, <3>4 DEF Filling
  <2>3. \A k \in Layers : k # l => ahead'[k] = ahead[k]
    BY <1>7 DEF Filling, FillCopy, FillRead, FillFails, TablesTyped
  <2> QED
    BY <1>1, <1>3, <2>1, <2>2, <2>3
<1>8. CASE \E t \in Threads : Evaluate(t)
  <2>1. PICK t : slots' = [k \in Layers |-> Without(t, slots[k])] /\ UNCHANGED <<tables, broken>>
    BY <1>8 DEF Evaluate
  <2>2. ASSUME NEW k \in Layers PROVE slots'[k].data = slots[k].data /\ slots'[k].late = slots[k].late
    <3>1. slots[k] \in Slotted(k)
      BY DEF SlotsInv
    <3> QED
      BY <2>1, <3>1 DEF Without, Slotted
  <2>3. (\A k \in Layers : broken[k] = {} => FillRight(k, ahead[k]))'
    BY <1>3, <2>1, <2>2 DEF FillRight, Safe, tables
  <2> QED
    BY <2>1, <2>3 DEF FillsInv, TableComplete, tables
<1> QED
  BY <1>4, <1>5, <1>6, <1>7, <1>8 DEF Next

LEMMA InitTables == Init => TablesInv
<1> SUFFICES ASSUME Init PROVE TablesInv
  OBVIOUS
<1>1. TablesTyped
  BY DEF Init, TablesTyped, NoAhead
<1>2. \A k \in Layers : ahead[k] = NoAhead /\ spare[k] = NoTable /\ full[k] = NoTable
  BY DEF Init
<1>3. PlaceInv
  <2>1. at <= 1 /\ todo = NoCall
    BY DEF Init
  <2> QED
    BY <1>2, <2>1 DEF PlaceInv, NoAhead
<1>4. FillsInv
  BY <1>2 DEF FillsInv, TableComplete, FillRight, NoAhead
<1> QED
  BY <1>1, <1>3, <1>4 DEF TablesInv

LEMMA TablesHold == Spec => []TablesInv
<1>1. TablesInv /\ (CallInv /\ SlotsInv /\ WideInv) /\ [Next]_vars => TablesInv'
  BY TypedStay, PlaceStays, FillsStay DEF TablesInv
<1> QED
  BY <1>1, InitTables, SlotsHold, PTL DEF Spec

\* A layer never runs wide on a table with another layer's rows or a gap.
THEOREM TablesComplete == Spec => []TableComplete
<1>1. TablesInv => TableComplete
  BY DEF TablesInv, FillsInv
<1> QED
  BY <1>1, TablesHold, PTL

\* No more than two tables exist, however many passes were aborted.
THEOREM AtMostTwoTables == Spec => []TwoTables
<1>1. TablesInv /\ WideInv => TwoTables
  <2> SUFFICES ASSUME TablesInv, WideInv PROVE TwoTables
    OBVIOUS
  <2>1. PICK m \in Nat :
          /\ \A k \in Layers : k # m => ahead[k].state = "none" /\ spare[k] = NoTable
          /\ \A l \in Layers : full[l] # NoTable => m = l + 1 /\ \A k \in Layers : spare[k] = NoTable
    BY DEF TablesInv, PlaceInv
  <2> DEFINE inUse == {<<l, 1>> : l \in {k \in Layers : full[k] # NoTable}}
             filling == {<<l, 2>> : l \in {k \in Layers : ahead[k].state # "none"}}
             idle == {<<l, 3>> : l \in {k \in Layers : spare[k] # NoTable}}
  <2>2. \E a, b : inUse \cup filling \cup idle \subseteq {a, b}
    <3>1. CASE \E l \in Layers : full[l] # NoTable
      <4>1. inUse \cup filling \cup idle \subseteq {<<at, 1>>, <<m, 2>>}
        BY <2>1, <3>1 DEF WideInv
      <4> QED
        BY <4>1
    <3>2. CASE \A l \in Layers : full[l] = NoTable
      <4>1. inUse \cup filling \cup idle \subseteq {<<m, 2>>, <<m, 3>>}
        BY <2>1, <3>2
      <4> QED
        BY <4>1
    <3> QED
      BY <3>1, <3>2
  <2>3. ASSUME NEW S, NEW a, NEW b, S \subseteq {a, b} PROVE Cardinality(S) <= 2
    <3>1. IsFiniteSet({a}) /\ Cardinality({a}) = 1
      BY FS_Singleton
    <3>2. IsFiniteSet({a} \cup {b}) /\ Cardinality({a} \cup {b}) <= 2
      BY <3>1, FS_AddElement
    <3>3. IsFiniteSet(S) /\ Cardinality(S) <= Cardinality({a} \cup {b})
      BY <2>3, <3>2, FS_Subset
    <3>4. Cardinality(S) \in Nat /\ Cardinality({a} \cup {b}) \in Nat
      BY <3>2, <3>3, FS_CardinalityType
    <3> QED
      BY <3>2, <3>3, <3>4
  <2> HIDE DEF inUse, filling, idle
  <2>4. Cardinality(inUse \cup filling \cup idle) <= 2
    BY <2>2, <2>3
  <2> QED
    BY <2>4 DEF TwoTables, inUse, filling, idle
<1> QED
  BY <1>1, TablesHold, SlotsHold, PTL
=============================================================================
