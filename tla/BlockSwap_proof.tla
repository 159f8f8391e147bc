--------------------------- MODULE BlockSwap_proof ---------------------------
(***************************************************************************)
(* The pool and the streams of BlockSwap, for any number of blocks, depth, *)
(* signatures and any program: every slot has one holder, and the two      *)
(* streams never wait for each other.  The second part is about what the   *)
(* kernels read, and the size of the pool.                                 *)
(***************************************************************************)
EXTENDS BlockSwap, SequenceTheorems, FiniteSetTheorems, TLAPS

PoolTyped ==
  /\ sig \in [Blocks -> Sigs]
  /\ slot \in [Blocks -> Slots \cup {NoSlot}]
  /\ free \in [Sigs -> Seq(Slots)]
  /\ made \in [Sigs -> 0..N]
  /\ todo \in Seq(Ops)

Distinct(q) == \A i, j \in DOMAIN q : i # j => q[i] # q[j]
Elements(q) == {q[i] : i \in DOMAIN q}

\* Slots are numbered in the order in which they were allocated.
NumberedByAge ==
  /\ \A b \in Blocks : Resident(b) => slot[b][2] <= made[sig[b]]
  /\ \A s \in Sigs : \A x \in Elements(free[s]) : x[1] = s /\ x[2] <= made[s]

\* OneHolder, without the positions in the stacks.
Unshared ==
  /\ \A b, c \in Blocks : b # c /\ Resident(b) => slot[b] # slot[c]
  /\ \A b \in Blocks : Resident(b) => slot[b][1] = sig[b] /\ slot[b] \notin Elements(free[sig[b]])
  /\ \A s \in Sigs : Distinct(free[s])

Holders(s) == {b \in Blocks : sig[b] = s /\ Resident(b)}

Accounted == \A s \in Sigs : made[s] = Len(free[s]) + Cardinality(Holders(s))

PoolInv == PoolTyped /\ NumberedByAge /\ Unshared /\ Accounted
-----------------------------------------------------------------------------
LEMMA SlotIsPair == NoSlot \notin Slots /\ \A x \in Slots : x[1] \in Sigs /\ x[2] \in Blocks
  BY DEF NoSlot, Slots

LEMMA BlocksFinite ==
  /\ IsFiniteSet(Blocks) /\ Cardinality(Blocks) = N
  /\ \A S \in SUBSET Blocks : IsFiniteSet(S) /\ Cardinality(S) \in Nat
<1>1. IsFiniteSet(Blocks) /\ Cardinality(Blocks) = N
  BY FS_Interval, SizeAssumption DEF Blocks
<1> QED
  BY <1>1, FS_Subset, FS_CardinalityType

LEMMA ArmTyped == Arm \in Seq(Ops) /\ \A i \in DOMAIN Arm : Arm[i].op = "fetch"
<1>1. Smaller(Depth, N) \in 1..N
  BY SizeAssumption DEF Smaller
<1>2. Smaller(Depth, N) \in Nat /\ \A b \in 1..Smaller(Depth, N) : Op("fetch", b) \in Ops
  BY <1>1, SizeAssumption DEF Op, Ops, Blocks
<1> QED
  BY <1>1, <1>2 DEF Arm, Op

LEMMA TodoTaken ==
  ASSUME PoolTyped, todo # <<>>
  PROVE  /\ Tail(todo) \in Seq(Ops)
         /\ Head(todo).op \in {"fetch", "steal", "wait", "release"}
         /\ Head(todo).block \in Blocks
<1>1. Head(todo) \in Ops /\ Tail(todo) \in Seq(Ops)
  BY HeadTailProperties DEF PoolTyped
<1> QED
  BY <1>1 DEF Ops

LEMMA Popped ==
  ASSUME NEW S, NEW q \in Seq(S), q # <<>>
  PROVE  /\ Len(q) \in Nat \ {0} /\ q[Len(q)] \in S
         /\ SubSeq(q, 1, Len(q) - 1) \in Seq(S)
         /\ Len(SubSeq(q, 1, Len(q) - 1)) = Len(q) - 1
         /\ \A i \in 1..(Len(q) - 1) : SubSeq(q, 1, Len(q) - 1)[i] = q[i]
<1>1. Len(q) \in Nat \ {0} /\ \A i \in 1..Len(q) : q[i] \in S
  BY EmptySeq, ElementOfSeq
<1> DEFINE n == Len(q) - 1
<1>2. n \in Int /\ 1 \in Int /\ \A i \in 1..n : q[i] \in S
  BY <1>1
<1> HIDE DEF n
<1>3. /\ SubSeq(q, 1, n) \in Seq(S)
      /\ Len(SubSeq(q, 1, n)) = IF 1 <= n THEN n - 1 + 1 ELSE 0
      /\ \A i \in 1..(n - 1 + 1) : SubSeq(q, 1, n)[i] = q[1 + i - 1]
  BY <1>2, SubSeqProperties
<1>4. n \in Nat /\ n = Len(q) - 1 /\ q[Len(q)] \in S
  BY <1>1 DEF n
<1>5. Len(SubSeq(q, 1, n)) = n /\ \A i \in 1..n : SubSeq(q, 1, n)[i] = q[i]
  BY <1>3, <1>4
<1> QED
  BY <1>1, <1>3, <1>4, <1>5

\* A stack without repetitions, popped and pushed.
LEMMA PoppedDistinct ==
  ASSUME NEW S, NEW q \in Seq(S), q # <<>>, Distinct(q)
  PROVE  /\ SubSeq(q, 1, Len(q) - 1) \in Seq(S) /\ Len(q) \in Nat \ {0}
         /\ Len(SubSeq(q, 1, Len(q) - 1)) = Len(q) - 1
         /\ Distinct(SubSeq(q, 1, Len(q) - 1))
         /\ q[Len(q)] \in Elements(q) /\ q[Len(q)] \notin Elements(SubSeq(q, 1, Len(q) - 1))
         /\ Elements(SubSeq(q, 1, Len(q) - 1)) \subseteq Elements(q)
<1> DEFINE p == SubSeq(q, 1, Len(q) - 1)
<1>1. /\ Len(q) \in Nat \ {0} /\ DOMAIN q = 1..Len(q)
      /\ p \in Seq(S) /\ Len(p) = Len(q) - 1 /\ \A i \in 1..(Len(q) - 1) : p[i] = q[i]
  BY Popped, LenProperties
<1> HIDE DEF p
<1>2. DOMAIN p = 1..(Len(q) - 1)
  BY <1>1, LenProperties
<1>3. \A i \in DOMAIN p : i \in DOMAIN q /\ i # Len(q) /\ p[i] = q[i]
  BY <1>1, <1>2
<1>4. Len(q) \in DOMAIN q
  BY <1>1
<1>5. /\ Distinct(p) /\ Elements(p) \subseteq Elements(q)
      /\ q[Len(q)] \in Elements(q) /\ q[Len(q)] \notin Elements(p)
  BY <1>3, <1>4 DEF Distinct, Elements
<1> QED
  BY <1>1, <1>5 DEF p

LEMMA PushedDistinct ==
  ASSUME NEW S, NEW q \in Seq(S), Distinct(q), NEW x \in S, x \notin Elements(q)
  PROVE  /\ Append(q, x) \in Seq(S) /\ Len(Append(q, x)) = Len(q) + 1 /\ Len(q) \in Nat
         /\ Distinct(Append(q, x)) /\ Elements(Append(q, x)) = Elements(q) \cup {x}
<1> DEFINE p == Append(q, x)
<1>1. /\ Len(q) \in Nat /\ DOMAIN q = 1..Len(q)
      /\ p \in Seq(S) /\ Len(p) = Len(q) + 1 /\ p[Len(q) + 1] = x
      /\ \A i \in 1..Len(q) : p[i] = q[i]
  BY AppendProperties, LenProperties
<1> HIDE DEF p
<1>2. DOMAIN p = 1..(Len(q) + 1)
  BY <1>1, LenProperties
<1>3. \A i \in DOMAIN p : i \in DOMAIN q \/ i = Len(q) + 1
  BY <1>1, <1>2
<1>4. \A i \in DOMAIN q : i \in DOMAIN p /\ p[i] = q[i] /\ q[i] # x
  BY <1>1, <1>2 DEF Elements
<1>5. Len(q) + 1 \in DOMAIN p
  BY <1>1, <1>2
<1>6. Distinct(p)
  BY <1>1, <1>3, <1>4, <1>5 DEF Distinct
<1>7. Elements(p) = Elements(q) \cup {x}
  BY <1>1, <1>3, <1>4, <1>5 DEF Elements
<1> QED
  BY <1>1, <1>6, <1>7 DEF p

\* One more block holds a slot of its signature, or one fewer.
LEMMA OneMoreHolder ==
  ASSUME PoolTyped, NEW b \in Blocks, ~Resident(b), PoolTyped',
         NEW x \in Slots, slot' = [slot EXCEPT ![b] = x], sig' = sig
  PROVE  /\ Cardinality(Holders(sig[b])') = Cardinality(Holders(sig[b])) + 1
         /\ \A s \in Sigs : s # sig[b] => Holders(s)' = Holders(s)
<1>1. Holders(sig[b])' = Holders(sig[b]) \cup {b}
  BY SlotIsPair DEF Holders, Resident, PoolTyped
<1>2. b \notin Holders(sig[b]) /\ IsFiniteSet(Holders(sig[b]))
  BY BlocksFinite DEF Holders
<1>3. \A s \in Sigs : s # sig[b] => Holders(s)' = Holders(s)
  BY DEF Holders, Resident, PoolTyped
<1> QED
  BY <1>1, <1>2, <1>3, FS_AddElement

LEMMA OneFewerHolder ==
  ASSUME PoolTyped, NEW b \in Blocks, Resident(b), slot' = [slot EXCEPT ![b] = NoSlot], sig' = sig
  PROVE  /\ Cardinality(Holders(sig[b])') = Cardinality(Holders(sig[b])) - 1
         /\ \A s \in Sigs : s # sig[b] => Holders(s)' = Holders(s)
<1>1. Holders(sig[b])' = Holders(sig[b]) \ {b}
  BY DEF Holders, Resident, PoolTyped
<1>2. b \in Holders(sig[b]) /\ IsFiniteSet(Holders(sig[b]))
  BY BlocksFinite DEF Holders
<1>3. \A s \in Sigs : s # sig[b] => Holders(s)' = Holders(s)
  BY DEF Holders, Resident, PoolTyped
<1> QED
  BY <1>1, <1>2, <1>3, FS_RemoveElement

LEMMA SameHolders ==
  ASSUME NEW b \in Blocks, NEW v \in Blocks, PoolTyped, Resident(v), ~Resident(b),
         sig[v] = sig[b], slot' = Taken(b, v), sig' = sig
  PROVE  \A s \in Sigs : Cardinality(Holders(s)') = Cardinality(Holders(s))
<1>1. b # v
  OBVIOUS
<1>2. Holders(sig[b])' = (Holders(sig[b]) \ {v}) \cup {b}
  BY <1>1 DEF Holders, Resident, PoolTyped, Taken
<1>3. /\ v \in Holders(sig[b]) /\ b \notin Holders(sig[b])
      /\ IsFiniteSet(Holders(sig[b])) /\ Cardinality(Holders(sig[b])) \in Nat
  BY BlocksFinite DEF Holders
<1>4. \A s \in Sigs : s # sig[b] => Holders(s)' = Holders(s)
  BY DEF Holders, Resident, PoolTyped, Taken
<1>5. /\ IsFiniteSet(Holders(sig[b]) \ {v})
      /\ Cardinality(Holders(sig[b]) \ {v}) = Cardinality(Holders(sig[b])) - 1
  BY <1>3, FS_RemoveElement
<1>6. Cardinality((Holders(sig[b]) \ {v}) \cup {b}) = Cardinality(Holders(sig[b])) - 1 + 1
  BY <1>3, <1>5, FS_AddElement
<1>7. Cardinality(Holders(sig[b])') = Cardinality(Holders(sig[b]))
  BY <1>2, <1>3, <1>6
<1> QED
  BY <1>4, <1>7

\* The other steps leave the pool alone.
LEMMA SamePool ==
  ASSUME PoolInv, sig' = sig, slot' = slot, free' = free, made' = made, todo' \in Seq(Ops)
  PROVE  PoolInv'
<1>1. PoolTyped'
  BY DEF PoolInv, PoolTyped
<1>2. NumberedByAge'
  BY DEF PoolInv, NumberedByAge, Resident
<1>3. Unshared'
  BY DEF PoolInv, Unshared, Resident
<1>4. Accounted'
  <2>1. \A s \in Sigs : Holders(s)' = Holders(s)
    BY DEF Holders, Resident
  <2> QED
    BY <2>1 DEF PoolInv, Accounted
<1> QED
  BY <1>1, <1>2, <1>3, <1>4 DEF PoolInv

LEMMA FetchFreePool == PoolInv /\ FetchFree => PoolInv'
<1> SUFFICES ASSUME PoolInv, FetchFree PROVE PoolInv'
  OBVIOUS
<1>1. PICK b \in Blocks : b = Head(todo).block
  BY TodoTaken DEF PoolInv, FetchFree, Next1
<1>2. PICK t \in Sigs : t = sig[b] /\ free[t] # <<>> /\ free[t] \in Seq(Slots) /\ ~Resident(b)
  BY <1>1 DEF PoolInv, PoolTyped, FetchFree
<1>3. PICK x \in Slots : x = free[t][Len(free[t])]
  BY <1>2, Popped
<1>4. /\ slot' = [slot EXCEPT ![b] = x] /\ sig' = sig /\ made' = made
      /\ free' = [free EXCEPT ![t] = SubSeq(free[t], 1, Len(free[t]) - 1)]
      /\ todo' \in Seq(Ops)
  BY <1>1, <1>2, <1>3, TodoTaken DEF FetchFree, fixedVars, PoolInv, Next1
<1>5. /\ slot'[b] = x /\ \A c \in Blocks : c # b => slot'[c] = slot[c]
      /\ free'[t] = SubSeq(free[t], 1, Len(free[t]) - 1)
      /\ \A s \in Sigs : s # t => free'[s] = free[s]
  BY <1>4 DEF PoolInv, PoolTyped
<1>6. /\ \A s \in Sigs : Distinct(free[s])
      /\ \A c \in Blocks : Resident(c) => slot[c][1] = sig[c] /\ slot[c] \notin Elements(free[sig[c]])
      /\ \A a, c \in Blocks : a # c /\ Resident(a) => slot[a] # slot[c]
  BY DEF PoolInv, Unshared
<1>7. /\ free'[t] \in Seq(Slots) /\ Len(free'[t]) = Len(free[t]) - 1 /\ Len(free[t]) \in Nat \ {0}
      /\ Distinct(free'[t]) /\ x \in Elements(free[t]) /\ x \notin Elements(free'[t])
      /\ Elements(free'[t]) \subseteq Elements(free[t])
  <2> DEFINE q == free[t]
  <2>1. q \in Seq(Slots) /\ q # <<>> /\ Distinct(q)
    BY <1>2, <1>6
  <2> HIDE DEF q
  <2>2. /\ SubSeq(q, 1, Len(q) - 1) \in Seq(Slots) /\ Len(q) \in Nat \ {0}
        /\ Len(SubSeq(q, 1, Len(q) - 1)) = Len(q) - 1
        /\ Distinct(SubSeq(q, 1, Len(q) - 1))
        /\ q[Len(q)] \in Elements(q) /\ q[Len(q)] \notin Elements(SubSeq(q, 1, Len(q) - 1))
        /\ Elements(SubSeq(q, 1, Len(q) - 1)) \subseteq Elements(q)
    BY <2>1, PoppedDistinct
  <2> QED
    BY <1>3, <1>5, <2>2 DEF q
<1>8. \A s \in Sigs : Elements(free'[s]) \subseteq Elements(free[s]) /\ Distinct(free'[s])
  BY <1>5, <1>6, <1>7
<1>9. PoolTyped'
  BY <1>3, <1>4, <1>7 DEF PoolInv, PoolTyped
<1>10. x[1] = t /\ x[2] <= made[t]
  BY <1>7 DEF PoolInv, NumberedByAge
<1>11. NumberedByAge'
  BY <1>2, <1>4, <1>5, <1>8, <1>10 DEF PoolInv, NumberedByAge, Resident
<1>12. \A c \in Blocks : Resident(c) => slot[c] # x
  BY <1>6, <1>7, <1>10
<1>13. Unshared'
  <2>1. \A a, c \in Blocks : a # c /\ Resident(a)' => slot'[a] # slot'[c]
    BY <1>3, <1>5, <1>6, <1>12, SlotIsPair DEF Resident
  <2>2. ASSUME NEW a \in Blocks, Resident(a)'
        PROVE  slot'[a][1] = sig[a] /\ slot'[a] \notin Elements(free'[sig[a]])
    <3>1. CASE a = b
      BY <1>2, <1>5, <1>7, <1>10, <3>1
    <3>2. CASE a # b
      <4>1. sig[a] \in Sigs /\ Resident(a) /\ slot'[a] = slot[a]
        BY <1>5, <2>2, <3>2 DEF Resident, PoolInv, PoolTyped
      <4> QED
        BY <1>6, <1>8, <4>1
    <3> QED
      BY <3>1, <3>2
  <2> QED
    BY <1>4, <1>8, <2>1, <2>2 DEF Unshared
<1>14. Accounted'
  <2>1. /\ Cardinality(Holders(t)') = Cardinality(Holders(t)) + 1
        /\ \A s \in Sigs : s # t => Holders(s)' = Holders(s)
    BY <1>2, <1>4, <1>9, OneMoreHolder DEF PoolInv
  <2>2. \A s \in Sigs : Cardinality(Holders(s)) \in Nat
    BY BlocksFinite DEF Holders
  <2>3. made[t] = Len(free'[t]) + Cardinality(Holders(t)')
    BY <1>7, <2>1, <2>2 DEF PoolInv, Accounted
  <2> QED
    BY <1>4, <1>5, <2>1, <2>3 DEF PoolInv, Accounted
<1> QED
  BY <1>9, <1>11, <1>13, <1>14 DEF PoolInv

LEMMA StealPool == PoolInv /\ Steal => PoolInv'
<1> SUFFICES ASSUME PoolInv, Steal PROVE PoolInv'
  OBVIOUS
<1>1. PICK b \in Blocks : b = Head(todo).block
  BY TodoTaken DEF PoolInv, Steal, Next1
<1>2. PICK v \in Victims(b) : slot' = Taken(b, v)
  BY <1>1 DEF Steal
<1>3. /\ v \in Blocks /\ v # b /\ sig[v] = sig[b] /\ Resident(v) /\ ~Resident(b)
      /\ sig' = sig /\ made' = made /\ free' = free /\ todo' \in Seq(Ops)
  BY <1>1, <1>2, TodoTaken DEF Steal, fixedVars, Victims, PoolInv, Next1
<1>4. /\ slot'[b] = slot[v] /\ slot'[v] = NoSlot
      /\ \A c \in Blocks : c # b /\ c # v => slot'[c] = slot[c]
  BY <1>2, <1>3 DEF Taken, PoolInv, PoolTyped
<1>5. PoolTyped'
  BY <1>2, <1>3 DEF Taken, PoolInv, PoolTyped
<1>6. NumberedByAge'
  BY <1>3, <1>4 DEF PoolInv, NumberedByAge, Resident
<1>7. Unshared'
  <2>1. \A a, c \in Blocks : a # c /\ Resident(a)' => slot'[a] # slot'[c]
    BY <1>3, <1>4 DEF PoolInv, Unshared, Resident
  <2>2. \A a \in Blocks : Resident(a)' => slot'[a][1] = sig[a] /\ slot'[a] \notin Elements(free[sig[a]])
    BY <1>3, <1>4 DEF PoolInv, Unshared, Resident
  <2> QED
    BY <1>3, <2>1, <2>2 DEF PoolInv, Unshared
<1>8. Accounted'
  BY <1>2, <1>3, SameHolders DEF PoolInv, Accounted
<1> QED
  BY <1>5, <1>6, <1>7, <1>8 DEF PoolInv

\* A pool grows only when a block of its signature holds no slot and none is
\* free, so it has fewer slots than blocks.
LEMMA RoomToGrow ==
  ASSUME PoolInv, NEW b \in Blocks, ~Resident(b), free[sig[b]] = <<>>
  PROVE  /\ made[sig[b]] + 1 <= Count(sig[b]) /\ Count(sig[b]) <= N
         /\ Count(sig[b]) \in Nat /\ made[sig[b]] \in Nat
<1> DEFINE All == {c \in Blocks : sig[c] = sig[b]}
<1>1. sig[b] \in Sigs /\ Len(free[sig[b]]) = 0
  BY EmptySeq DEF PoolInv, PoolTyped
<1>2. made[sig[b]] = Cardinality(Holders(sig[b]))
  <2>1. Cardinality(Holders(sig[b])) \in Nat
    BY BlocksFinite DEF Holders
  <2> QED
    BY <1>1, <2>1 DEF PoolInv, Accounted
<1>3. IsFiniteSet(All) /\ Cardinality(All) \in Nat /\ Cardinality(All) <= N
  <2>1. IsFiniteSet(Blocks) /\ Cardinality(Blocks) = N /\ All \in SUBSET Blocks
    BY BlocksFinite
  <2> QED
    BY <2>1, FS_Subset, FS_CardinalityType
<1>4. IsFiniteSet(All \ {b}) /\ Cardinality(All \ {b}) = Cardinality(All) - 1
  BY <1>3, FS_RemoveElement
<1>5. Holders(sig[b]) \in SUBSET (All \ {b})
  BY DEF Holders
<1>6. Cardinality(Holders(sig[b])) <= Cardinality(All \ {b})
  BY <1>4, <1>5, FS_Subset
<1>7. Cardinality(Holders(sig[b])) \in Nat
  BY BlocksFinite DEF Holders
<1> QED
  BY <1>2, <1>3, <1>4, <1>6, <1>7 DEF Count

LEMMA GrowPool == PoolInv /\ Grow => PoolInv'
<1> SUFFICES ASSUME PoolInv, Grow PROVE PoolInv'
  OBVIOUS
<1>1. PICK b \in Blocks : b = Head(todo).block
  BY TodoTaken DEF PoolInv, Grow, Next1
<1>2. PICK t \in Sigs : t = sig[b] /\ free[t] = <<>> /\ ~Resident(b)
  BY <1>1 DEF PoolInv, PoolTyped, Grow
<1>3. made[t] \in Nat /\ made[t] + 1 \in Blocks
  <2>1. /\ made[t] + 1 <= Count(t) /\ Count(t) <= N
        /\ Count(t) \in Nat /\ made[t] \in Nat
    BY <1>2, RoomToGrow
  <2> QED
    BY <2>1, SizeAssumption DEF Blocks
<1>4. PICK x \in Slots : x = <<t, made[t] + 1>>
  BY <1>3 DEF Slots
<1>5. /\ slot' = [slot EXCEPT ![b] = x] /\ made' = [made EXCEPT ![t] = @ + 1]
      /\ sig' = sig /\ free' = free /\ todo' \in Seq(Ops)
  BY <1>1, <1>2, <1>4, TodoTaken DEF Grow, fixedVars, PoolInv, Next1
<1>6. /\ slot'[b] = x /\ \A c \in Blocks : c # b => slot'[c] = slot[c]
      /\ made'[t] = made[t] + 1 /\ \A s \in Sigs : s # t => made'[s] = made[s]
      /\ x[1] = t /\ x[2] = made[t] + 1
  BY <1>4, <1>5 DEF PoolInv, PoolTyped
<1>7. /\ \A s \in Sigs : \A y \in Elements(free[s]) : y[1] = s /\ y[2] <= made[s]
      /\ \A c \in Blocks : Resident(c) => slot[c][1] = sig[c] /\ slot[c][2] <= made[sig[c]]
      /\ \A s \in Sigs : made[s] \in Nat
  BY DEF PoolInv, NumberedByAge, Unshared, PoolTyped
<1>8. PoolTyped'
  <2>1. made[t] + 1 \in 0..N
    BY <1>3 DEF Blocks
  <2> QED
    BY <1>5, <2>1 DEF PoolInv, PoolTyped
<1>9. NumberedByAge'
  <2>1. \A s \in Sigs : made[s] <= made'[s] /\ made'[s] \in Nat
    BY <1>6, <1>7
  <2>2. \A s \in Sigs : \A y \in Elements(free[s]) : y[1] = s /\ y[2] <= made'[s]
    <3>1. \A s \in Sigs : \A y \in Elements(free[s]) : y[2] \in Nat
      BY ElementOfSeq, SlotIsPair, LenProperties DEF Elements, PoolInv, PoolTyped, Blocks
    <3> QED
      BY <1>7, <2>1, <3>1
  <2>3. \A c \in Blocks : Resident(c)' => slot'[c][2] <= made'[sig[c]]
    <3>1. ASSUME NEW c \in Blocks, Resident(c) PROVE slot[c][2] \in Nat
      <4>1. slot[c] \in Slots
        BY <3>1 DEF PoolInv, PoolTyped, Resident
      <4> QED
        BY <4>1, SlotIsPair DEF Blocks
    <3>2. \A c \in Blocks : sig[c] \in Sigs
      BY DEF PoolInv, PoolTyped
    <3> QED
      BY <1>2, <1>3, <1>6, <1>7, <2>1, <3>1, <3>2 DEF Resident
  <2> QED
    BY <1>5, <2>2, <2>3 DEF NumberedByAge
<1>10. \A c \in Blocks : Resident(c) => slot[c] # x
  BY <1>3, <1>6, <1>7
<1>11. \A s \in Sigs : x \notin Elements(free[s])
  BY <1>3, <1>6, <1>7
<1>12. Unshared'
  <2>1. \A a, c \in Blocks : a # c /\ Resident(a)' => slot'[a] # slot'[c]
    BY <1>4, <1>6, <1>10, SlotIsPair DEF PoolInv, Unshared, Resident
  <2>2. \A a \in Blocks : Resident(a)' => slot'[a][1] = sig[a] /\ slot'[a] \notin Elements(free[sig[a]])
    BY <1>2, <1>6, <1>11 DEF PoolInv, Unshared, Resident
  <2> QED
    BY <1>5, <2>1, <2>2 DEF PoolInv, Unshared
<1>13. Accounted'
  <2>1. /\ Cardinality(Holders(t)') = Cardinality(Holders(t)) + 1
        /\ \A s \in Sigs : s # t => Holders(s)' = Holders(s)
    BY <1>2, <1>5, <1>8, OneMoreHolder DEF PoolInv
  <2>2. Cardinality(Holders(t)) \in Nat /\ Len(free[t]) = 0
    BY <1>2, BlocksFinite, EmptySeq DEF Holders
  <2> QED
    BY <1>5, <1>6, <2>1, <2>2 DEF PoolInv, Accounted
<1> QED
  BY <1>8, <1>9, <1>12, <1>13 DEF PoolInv

LEMMA ReleasePool == PoolInv /\ Release => PoolInv'
<1> SUFFICES ASSUME PoolInv, Release PROVE PoolInv'
  OBVIOUS
<1>1. PICK b \in Blocks : b = Head(todo).block
  BY TodoTaken DEF PoolInv, Release, Next1
<1>2. /\ slot' = [slot EXCEPT ![b] = NoSlot] /\ sig' = sig /\ made' = made /\ todo' \in Seq(Ops)
      /\ free' = IF Resident(b) THEN Returned(b) ELSE free
  BY <1>1, TodoTaken DEF Release, fixedVars, PoolInv, Next1
<1>3. CASE ~Resident(b)
  <2>1. slot' = slot /\ free' = free
    BY <1>2, <1>3 DEF Resident, PoolInv, PoolTyped
  <2> QED
    BY <1>2, <2>1, SamePool
<1>4. CASE Resident(b)
  <2>1. PICK t \in Sigs : t = sig[b] /\ free[t] \in Seq(Slots)
    BY DEF PoolInv, PoolTyped
  <2>2. PICK x \in Slots : x = slot[b]
    BY <1>4 DEF PoolInv, PoolTyped, Resident
  <2>3. free' = [free EXCEPT ![t] = Append(free[t], x)]
    BY <1>2, <1>4, <2>1, <2>2 DEF Returned
  <2>4. /\ slot'[b] = NoSlot /\ \A c \in Blocks : c # b => slot'[c] = slot[c]
        /\ free'[t] = Append(free[t], x) /\ \A s \in Sigs : s # t => free'[s] = free[s]
    BY <1>2, <2>3 DEF PoolInv, PoolTyped
  <2>5. /\ \A s \in Sigs : Distinct(free[s])
        /\ x[1] = t /\ x[2] <= made[t] /\ x \notin Elements(free[t])
        /\ \A c \in Blocks : c # b /\ Resident(c) => slot[c] # x
        /\ \A a, c \in Blocks : a # c /\ Resident(a) => slot[a] # slot[c]
        /\ \A c \in Blocks : Resident(c) => slot[c][1] = sig[c] /\ slot[c] \notin Elements(free[sig[c]])
    BY <1>4, <2>1, <2>2 DEF PoolInv, Unshared, NumberedByAge
  <2>6. /\ free'[t] \in Seq(Slots) /\ Len(free'[t]) = Len(free[t]) + 1 /\ Len(free[t]) \in Nat
        /\ Distinct(free'[t]) /\ Elements(free'[t]) = Elements(free[t]) \cup {x}
    <3> DEFINE q == free[t]
    <3>1. q \in Seq(Slots) /\ Distinct(q) /\ x \notin Elements(q)
      BY <2>1, <2>5
    <3> HIDE DEF q
    <3>2. /\ Append(q, x) \in Seq(Slots) /\ Len(Append(q, x)) = Len(q) + 1 /\ Len(q) \in Nat
          /\ Distinct(Append(q, x)) /\ Elements(Append(q, x)) = Elements(q) \cup {x}
      BY <3>1, PushedDistinct
    <3> QED
      BY <2>4, <3>2 DEF q
  <2>7. PoolTyped'
    BY <1>2, <2>3, <2>4, <2>6 DEF PoolInv, PoolTyped
  <2>8. NumberedByAge'
    BY <1>2, <2>4, <2>5, <2>6 DEF PoolInv, NumberedByAge, Resident
  <2>9. Unshared'
    <3>1. \A a, c \in Blocks : a # c /\ Resident(a)' => slot'[a] # slot'[c]
      BY <2>4, <2>5 DEF Resident
    <3>2. \A a \in Blocks : Resident(a)' => slot'[a][1] = sig[a] /\ slot'[a] \notin Elements(free'[sig[a]])
      BY <2>4, <2>5, <2>6 DEF Resident, PoolInv, PoolTyped
    <3> QED
      BY <1>2, <2>4, <2>5, <2>6, <3>1, <3>2 DEF Unshared
  <2>10. Accounted'
    <3>1. /\ Cardinality(Holders(t)') = Cardinality(Holders(t)) - 1
          /\ \A s \in Sigs : s # t => Holders(s)' = Holders(s)
      BY <1>2, <1>4, <2>1, OneFewerHolder DEF PoolInv
    <3>2. Cardinality(Holders(t)) \in Nat
      BY BlocksFinite DEF Holders
    <3> QED
      BY <1>2, <2>4, <2>6, <3>1, <3>2 DEF PoolInv, Accounted
  <2> QED
    BY <2>7, <2>8, <2>9, <2>10 DEF PoolInv
<1> QED
  BY <1>3, <1>4

-----------------------------------------------------------------------------
(* The steps that only move the hook along or append to a stream. *)

LEMMA TodoSameOrTaken ==
  ASSUME PoolInv
  PROVE  /\ SkipFetch \/ Wait \/ Device => todo' \in Seq(Ops)
         /\ SkipFetch \/ Wait \/ Device => UNCHANGED <<sig, slot, free, made>>
<1>1. SkipFetch \/ Wait => todo' \in Seq(Ops)
  BY TodoTaken DEF PoolInv, SkipFetch, Wait, Next1
<1>2. Device => todo' \in Seq(Ops)
  BY DEF PoolInv, PoolTyped, Device, RunKernel, StartCopy, FinishCopy
<1>3. SkipFetch \/ Wait \/ Device => UNCHANGED <<sig, slot, free, made>>
  BY DEF SkipFetch, Wait, Device, RunKernel, StartCopy, FinishCopy, poolVars, fixedVars
<1> QED
  BY <1>1, <1>2, <1>3

LEMMA OpTyped ==
  \A b \in Blocks : \A w \in {"fetch", "steal", "wait", "release"} : Op(w, b) \in Ops
  BY DEF Op, Ops

LEMMA TodoOfHooks ==
  ASSUME PoolInv, at \in Blocks, Hooks
  PROVE  todo' \in Seq(Ops) /\ UNCHANGED <<sig, slot, free, made>>
<1>1. UNCHANGED <<sig, slot, free, made>>
  BY DEF Hooks, Begin, BeginBackward, Pre, Run, Post, Back, Bwd, Interrupt, Reset, poolVars, fixedVars
<1> SUFFICES todo' \in Seq(Ops)
  BY <1>1
<1>2. CASE Pre
  <2> DEFINE next == IF KeepsWeights THEN at - Depth ELSE at + Depth
             more == IF next \in Blocks THEN <<Op("fetch", next)>> ELSE <<>>
  <2>1. todo' = MustFetch(at) \o more
    BY <1>2 DEF Pre
  <2>2. MustFetch(at) \in Seq(Ops)
    BY OpTyped DEF MustFetch
  <2>3. more \in Seq(Ops)
    BY OpTyped
  <2> HIDE DEF more
  <2> QED
    BY <2>1, <2>2, <2>3, ConcatProperties
<1>3. CASE Post
  <2> DEFINE keep    == ~KeepsWeights /\ Training /\ at > N - Depth
             release == ~keep /\ ~(KeepsWeights /\ NeedsGrad(at))
             first   == IF release THEN <<Op("release", at)>> ELSE <<>>
             second  == IF pass = "infer" /\ at = N THEN Arm ELSE <<>>
  <2>1. todo' = first \o second
    BY <1>3 DEF Post
  <2>2. first \in Seq(Ops)
    BY OpTyped
  <2>3. second \in Seq(Ops)
    BY ArmTyped
  <2> HIDE DEF first, second
  <2> QED
    BY <2>1, <2>2, <2>3, ConcatProperties
<1>4. CASE Bwd
  <2> DEFINE second == IF at = 1 THEN Arm ELSE <<>>
  <2>1. todo' = <<Op("release", at)>> \o second
    BY <1>4 DEF Bwd
  <2>2. <<Op("release", at)>> \in Seq(Ops)
    BY OpTyped
  <2>3. second \in Seq(Ops)
    BY ArmTyped
  <2> HIDE DEF second
  <2> QED
    BY <2>1, <2>2, <2>3, ConcatProperties
<1>5. CASE Reset
  <2> DEFINE all == [b \in Blocks |-> Op("release", b)]
  <2>1. todo' = all \o Arm
    BY <1>5 DEF Reset
  <2>2. all \in Seq(Ops)
    BY OpTyped, SizeAssumption DEF Blocks
  <2> HIDE DEF all
  <2> QED
    BY <2>1, <2>2, ArmTyped, ConcatProperties
<1>6. CASE Interrupt
  BY <1>6 DEF Interrupt
<1>7. CASE (\E p \in Passes : Begin(p)) \/ BeginBackward \/ Run \/ Back
  BY <1>7 DEF PoolInv, PoolTyped, Begin, BeginBackward, Run, Back
<1> QED
  BY <1>2, <1>3, <1>4, <1>5, <1>6, <1>7 DEF Hooks

LEMMA InitPool == Init => PoolInv
<1> SUFFICES ASSUME Init PROVE PoolInv
  OBVIOUS
<1>1. ASSUME NEW s \in Sigs
      PROVE  PoolSize(s) \in 0..N
  <2>1. {b \in Blocks : sig[b] = s} \in SUBSET Blocks
    OBVIOUS
  <2>2. Count(s) \in Nat /\ Count(s) <= N
    BY <2>1, BlocksFinite, FS_Subset DEF Count
  <2> QED
    BY <2>2, SizeAssumption DEF PoolSize, Smaller
<1>2. ASSUME NEW s \in Sigs
      PROVE  /\ free[s] \in Seq(Slots) /\ Len(free[s]) = PoolSize(s)
             /\ DOMAIN free[s] = 1..PoolSize(s)
             /\ \A i \in 1..PoolSize(s) : free[s][i] = <<s, i>>
  <2>1. free[s] = [k \in 1..PoolSize(s) |-> <<s, k>>]
    BY DEF Init
  <2>2. PoolSize(s) \in Nat /\ \A k \in 1..PoolSize(s) : <<s, k>> \in Slots
    BY <1>1, SizeAssumption DEF Slots, Blocks
  <2> QED
    BY <2>1, <2>2
<1>3. PoolTyped
  BY <1>1, <1>2, ArmTyped DEF Init, PoolTyped, Smaller
<1>4. \A b \in Blocks : ~Resident(b)
  BY DEF Init, Resident
<1>5. NumberedByAge
  BY <1>1, <1>2, <1>4 DEF Init, NumberedByAge, Elements
<1>6. Unshared
  BY <1>2, <1>4 DEF Unshared, Distinct
<1>7. Accounted
  <2>1. \A s \in Sigs : Holders(s) = {}
    BY <1>4 DEF Holders
  <2>2. Cardinality({}) = 0
    BY FS_EmptySet
  <2> QED
    <3>1. ASSUME NEW s \in Sigs PROVE made[s] = Len(free[s]) + Cardinality(Holders(s))
      <4>1. made[s] = PoolSize(s) /\ Len(free[s]) = PoolSize(s) /\ PoolSize(s) \in Nat
        BY <1>1, <1>2 DEF Init
      <4>2. Cardinality(Holders(s)) = 0
        BY <2>1, <2>2
      <4> QED
        BY <4>1, <4>2
    <3> QED
      BY <3>1 DEF Accounted
<1> QED
  BY <1>3, <1>5, <1>6, <1>7 DEF PoolInv

\* Where the pass is.
AtInv == at \in Blocks /\ firstGrad \in Blocks

LEMMA AtStays == AtInv /\ [Next]_vars => AtInv'
<1> SUFFICES ASSUME AtInv, [Next]_vars PROVE AtInv'
  OBVIOUS
<1>1. CASE UNCHANGED vars
  BY <1>1 DEF AtInv, vars, driverVars, fixedVars
<1>2. CASE Pool \/ Device
  BY <1>2 DEF AtInv, Pool, Device, SkipFetch, FetchFree, Steal, Grow, Wait, Release,
              RunKernel, StartCopy, FinishCopy, driverVars, fixedVars
<1>3. CASE Hooks
  <2>1. firstGrad' = firstGrad
    BY <1>3 DEF Hooks, Begin, BeginBackward, Pre, Run, Post, Back, Bwd, Interrupt, Reset, fixedVars
  <2>2. 1 \in Blocks /\ N \in Blocks
    BY SizeAssumption DEF Blocks
  <2> SUFFICES at' \in Blocks
    BY <2>1 DEF AtInv
  <2>3. CASE Post
    <3>1. at' = at \/ at' = 1 \/ (at < N /\ at' = at + 1)
      BY <2>3 DEF Post
    <3> QED
      BY <2>2, <3>1, SizeAssumption DEF AtInv, Blocks
  <2>4. CASE Bwd
    <3>1. at' = 1 \/ (at > firstGrad /\ at' = at - 1)
      BY <2>4 DEF Bwd
    <3> QED
      BY <2>2, <3>1, SizeAssumption DEF AtInv, Blocks
  <2>5. CASE (\E p \in Passes : Begin(p)) \/ BeginBackward \/ Pre \/ Run \/ Back \/ Interrupt \/ Reset
    BY <2>2, <2>5 DEF AtInv, Begin, BeginBackward, Pre, Run, Back, Interrupt, Reset
  <2> QED
    BY <1>3, <2>3, <2>4, <2>5 DEF Hooks
<1> QED
  BY <1>1, <1>2, <1>3 DEF Next

LEMMA PoolStays == PoolInv /\ AtInv /\ [Next]_vars => PoolInv'
<1> SUFFICES ASSUME PoolInv, AtInv, [Next]_vars PROVE PoolInv'
  OBVIOUS
<1>1. CASE UNCHANGED vars
  <2>1. UNCHANGED <<sig, slot, free, made, todo>>
    BY <1>1 DEF vars, poolVars, fixedVars
  <2> QED
    BY <2>1, SamePool DEF PoolInv, PoolTyped
<1>2. CASE Pool \/ Device
  BY <1>2, TodoSameOrTaken, SamePool, FetchFreePool, StealPool, GrowPool, ReleasePool DEF Pool
<1>3. CASE Hooks
  BY <1>3, TodoOfHooks, SamePool DEF AtInv
<1> QED
  BY <1>1, <1>2, <1>3 DEF Next

LEMMA PoolAlways == Spec => [](PoolInv /\ AtInv)
<1>1. Init => PoolInv /\ AtInv
  BY InitPool, SizeAssumption DEF Init, AtInv, Blocks
<1>2. PoolInv /\ AtInv /\ [Next]_vars => (PoolInv /\ AtInv)'
  BY PoolStays, AtStays
<1> QED
  BY <1>1, <1>2, PTL DEF Spec

\* Every slot that was ever allocated is held by exactly one block or lies
\* once in the free stack of its signature, through any interleaving of the
\* hooks with prefetches, steals, growth, exceptions and resets: _release and
\* _acquire neither lose a buffer nor hand one out twice.
THEOREM SlotsHaveOneHolder == Spec => []EverySlotHasOneHolder
<1>1. PoolInv => EverySlotHasOneHolder
  <2> SUFFICES ASSUME PoolInv PROVE EverySlotHasOneHolder
    OBVIOUS
  <2>1. \A s \in Sigs : FreeSlots(s) = Elements(free[s])
    BY DEF FreeSlots, Elements
  <2>2. \A b \in Blocks : sig[b] \in Sigs
    BY DEF PoolInv, PoolTyped
  <2>3. OneHolder
    BY <2>1, <2>2 DEF PoolInv, Unshared, Distinct, OneHolder
  <2>4. NoSlotLost
    BY DEF PoolInv, Accounted, Holders, NoSlotLost
  <2> QED
    BY <2>3, <2>4 DEF EverySlotHasOneHolder
<1> QED
  BY <1>1, PoolAlways, PTL

-----------------------------------------------------------------------------
(* The streams: a kernel waits only for copies enqueued before it, and a   *)
(* copy only for kernels enqueued before it.                               *)

Kernels == [block : Blocks, slot : Slots \cup {NoSlot}, needs : Nat]
Copies  == [block : Blocks, slot : Slots, after : Nat]

StreamsTyped ==
  /\ compute \in Seq(Kernels) /\ copies \in Seq(Copies)
  /\ event \in [Blocks -> Nat] /\ saved \in [Blocks -> Slots \cup {NoSlot}]

Ordered ==
  /\ \A b \in Blocks : event[b] <= Len(copies)
  /\ \A j \in 1..Len(copies) : copies[j].after <= Len(compute)
  /\ \A i, j \in 1..Len(copies) : i < j => copies[i].after <= copies[j].after
  /\ \A k \in 1..Len(compute) :
       compute[k].needs > 0
         => compute[k].needs <= Len(copies) /\ copies[compute[k].needs].after < k
  /\ copying => copies # <<>>

StreamsInv == StreamsTyped /\ Ordered

LEMMA SeqFacts ==
  ASSUME NEW S, NEW q \in Seq(S)
  PROVE  Len(q) \in Nat /\ (q # <<>> <=> Len(q) > 0) /\ \A i \in 1..Len(q) : q[i] \in S
BY EmptySeq, ElementOfSeq, LenProperties

LEMMA Beheaded ==
  ASSUME NEW S, NEW q \in Seq(S), q # <<>>
  PROVE  /\ Len(q) \in Nat \ {0} /\ Head(q) = q[1]
         /\ Tail(q) \in Seq(S) /\ Len(Tail(q)) = Len(q) - 1
         /\ \A i \in 1..(Len(q) - 1) : Tail(q)[i] = q[i + 1]
<1>1. Len(q) \in Nat \ {0}
  BY SeqFacts
<1>2. Head(q) = q[1] /\ Tail(q) \in Seq(S) /\ Len(Tail(q)) = Len(q) - 1
  BY HeadTailProperties
<1>3. \A i \in 1..(Len(q) - 1) : Tail(q)[i] = q[i + 1]
  BY <1>2, HeadTailProperties
<1> QED
  BY <1>1, <1>2, <1>3

LEMMA SeqOfFunction ==
  ASSUME NEW S, NEW n \in Nat, NEW q \in [1..n -> S]
  PROVE  q \in Seq(S) /\ Len(q) = n
BY LenProperties

LEMMA StreamElements ==
  ASSUME StreamsTyped
  PROVE  /\ Len(compute) \in Nat /\ Len(copies) \in Nat
         /\ \A k \in 1..Len(compute) : compute[k] \in Kernels /\ compute[k].needs \in Nat
         /\ \A j \in 1..Len(copies) : copies[j] \in Copies /\ copies[j].after \in Nat
<1>1. Len(compute) \in Nat /\ \A k \in 1..Len(compute) : compute[k] \in Kernels
  BY SeqFacts DEF StreamsTyped
<1>2. Len(copies) \in Nat /\ \A j \in 1..Len(copies) : copies[j] \in Copies
  BY SeqFacts DEF StreamsTyped
<1> QED
  BY <1>1, <1>2 DEF Kernels, Copies

\* A copy is appended behind all kernels enqueued so far.
LEMMA CopyAppended ==
  ASSUME StreamsInv, NEW b \in Blocks, NEW x \in Slots, EnqueueCopy(b, x), saved' = saved
  PROVE  StreamsInv'
<1> DEFINE c == [block |-> b, slot |-> x, after |-> Len(compute)]
<1>1. Len(compute) \in Nat /\ Len(copies) \in Nat
  BY LenProperties DEF StreamsInv, StreamsTyped
<1>2. c \in Copies /\ c.after = Len(compute)
  BY <1>1 DEF Copies
<1>3. /\ copies' = Append(copies, c) /\ event' = [event EXCEPT ![b] = Len(copies) + 1]
      /\ compute' = compute /\ copying' = copying
  BY DEF EnqueueCopy, CopyWaitsFor, EventFollows
<1> HIDE DEF c
<1>4. /\ copies' \in Seq(Copies) /\ Len(copies') = Len(copies) + 1
      /\ copies'[Len(copies) + 1] = c
      /\ \A j \in 1..Len(copies) : copies'[j] = copies[j]
  BY <1>2, <1>3, AppendProperties DEF StreamsInv, StreamsTyped
<1>5. StreamsTyped'
  BY <1>1, <1>3, <1>4 DEF StreamsInv, StreamsTyped
<1>6. \A a \in Blocks : event'[a] <= Len(copies')
  BY <1>1, <1>3, <1>4 DEF StreamsInv, StreamsTyped, Ordered
<1>7. \A j \in 1..Len(copies) : copies[j].after \in Nat /\ copies[j].after <= Len(compute)
  BY StreamElements DEF StreamsInv, Ordered
<1>8. \A j \in 1..Len(copies') : copies'[j].after <= Len(compute')
  BY <1>1, <1>2, <1>3, <1>4, <1>7
<1>9. ASSUME NEW i \in 1..Len(copies'), NEW j \in 1..Len(copies'), i < j
      PROVE  copies'[i].after <= copies'[j].after
  <2>1. i \in 1..Len(copies) /\ copies'[i] = copies[i]
    BY <1>1, <1>4, <1>9
  <2>2. CASE j \in 1..Len(copies)
    <3>1. copies'[j] = copies[j]
      BY <1>4, <2>2
    <3> QED
      BY <1>9, <2>1, <2>2, <3>1 DEF StreamsInv, Ordered
  <2>3. CASE j = Len(copies) + 1
    <3>1. copies'[j].after = Len(compute)
      BY <1>2, <1>4, <2>3
    <3> QED
      BY <1>7, <2>1, <3>1
  <2> QED
    BY <1>1, <1>4, <2>2, <2>3
<1>10. \A k \in 1..Len(compute') :
         compute'[k].needs > 0
           => compute'[k].needs <= Len(copies') /\ copies'[compute'[k].needs].after < k
  <2> SUFFICES ASSUME NEW k \in 1..Len(compute), compute[k].needs > 0
               PROVE  compute[k].needs <= Len(copies) + 1 /\ copies'[compute[k].needs].after < k
    BY <1>3, <1>4
  <2>1. compute[k].needs \in Nat
    BY StreamElements DEF StreamsInv
  <2>2. compute[k].needs <= Len(copies) /\ copies[compute[k].needs].after < k
    BY DEF StreamsInv, Ordered
  <2>3. compute[k].needs \in 1..Len(copies)
    BY <1>1, <2>1, <2>2
  <2> QED
    BY <1>1, <1>4, <2>1, <2>2, <2>3
<1>11. copying' => copies' # <<>>
  BY <1>1, <1>4, EmptySeq
<1>12. Ordered'
  BY <1>6, <1>8, <1>9, <1>10, <1>11 DEF Ordered
<1> QED
  BY <1>5, <1>12 DEF StreamsInv

\* A kernel or a wait for a block's event is appended.
LEMMA KernelAppended ==
  ASSUME StreamsInv, NEW x \in Kernels, x.needs <= Len(copies),
         compute' = Append(compute, x), saved' = saved \/ saved' \in [Blocks -> Slots \cup {NoSlot}],
         UNCHANGED <<copies, copying, event>>
  PROVE  StreamsInv'
<1>1. Len(compute) \in Nat /\ Len(copies) \in Nat /\ x.needs \in Nat
  BY LenProperties DEF StreamsInv, StreamsTyped, Kernels
<1>2. /\ compute' \in Seq(Kernels) /\ Len(compute') = Len(compute) + 1
      /\ compute'[Len(compute) + 1] = x
      /\ \A k \in 1..Len(compute) : compute'[k] = compute[k]
  BY AppendProperties DEF StreamsInv, StreamsTyped
<1>3. StreamsTyped'
  BY <1>2 DEF StreamsInv, StreamsTyped
<1>4. \A j \in 1..Len(copies) : copies[j].after \in Nat /\ copies[j].after <= Len(compute)
  BY StreamElements DEF StreamsInv, Ordered
<1>5. \A j \in 1..Len(copies) : copies[j].after <= Len(compute')
  BY <1>1, <1>2, <1>4
<1>6. ASSUME NEW k \in 1..Len(compute'), compute'[k].needs > 0
      PROVE  compute'[k].needs <= Len(copies) /\ copies[compute'[k].needs].after < k
  <2>1. CASE k \in 1..Len(compute)
    BY <1>2, <1>6, <2>1 DEF StreamsInv, Ordered
  <2>2. CASE k = Len(compute) + 1
    <3>1. x.needs \in 1..Len(copies) /\ compute'[k] = x
      BY <1>1, <1>2, <1>6, <2>2
    <3>2. copies[x.needs].after \in Nat /\ copies[x.needs].after <= Len(compute)
      BY <1>4, <3>1
    <3> QED
      BY <1>1, <2>2, <3>1, <3>2
  <2> QED
    BY <1>1, <1>2, <2>1, <2>2
<1>7. Ordered'
  BY <1>5, <1>6 DEF StreamsInv, Ordered
<1> QED
  BY <1>3, <1>7 DEF StreamsInv

LEMMA LessTyped == \A n \in Nat : Less(n) \in Nat /\ Less(n) <= n /\ (n > 0 => Less(n) = n - 1)
  BY DEF Less

LEMMA KernelTaken ==
  ASSUME StreamsInv, RunKernel
  PROVE  /\ Len(compute) \in Nat \ {0} /\ Len(copies) \in Nat
         /\ Len(compute') = Len(compute) - 1 /\ compute' \in Seq(Kernels)
         /\ \A k \in 1..Len(compute') : compute'[k] = compute[k + 1]
         /\ Head(compute) = compute[1]
         /\ copies' \in Seq(Copies) /\ Len(copies') = Len(copies)
         /\ \A j \in 1..Len(copies) : /\ copies'[j].after = Less(copies[j].after)
                                      /\ copies'[j].slot = copies[j].slot
                                      /\ copies'[j].block = copies[j].block
<1>1. /\ Len(compute) \in Nat \ {0} /\ Len(copies) \in Nat
      /\ Len(compute') = Len(compute) - 1 /\ compute' \in Seq(Kernels)
      /\ \A k \in 1..Len(compute') : compute'[k] = compute[k + 1]
      /\ Head(compute) = compute[1]
  <2>1. compute # <<>> /\ compute' = Tail(compute) /\ compute \in Seq(Kernels)
    BY DEF RunKernel, StreamsInv, StreamsTyped
  <2> QED
    BY <2>1, Beheaded, StreamElements DEF StreamsInv
<1>2. \A j \in 1..Len(copies) : copies[j] \in Copies /\ copies[j].after \in Nat
  BY StreamElements DEF StreamsInv
<1>3. /\ copies' \in Seq(Copies) /\ Len(copies') = Len(copies)
      /\ \A j \in 1..Len(copies) : /\ copies'[j].after = Less(copies[j].after)
                                   /\ copies'[j].slot = copies[j].slot
                                   /\ copies'[j].block = copies[j].block
  <2>1. copies' = [j \in 1..Len(copies) |-> [copies[j] EXCEPT !.after = Less(@)]]
    BY LenProperties DEF RunKernel, StreamsInv, StreamsTyped
  <2>2. \A j \in 1..Len(copies) : [copies[j] EXCEPT !.after = Less(@)] \in Copies
    BY <1>2, LessTyped DEF Copies
  <2>3. \A j \in 1..Len(copies) :
          LET c == [copies[j] EXCEPT !.after = Less(@)]
          IN  c.after = Less(copies[j].after) /\ c.slot = copies[j].slot /\ c.block = copies[j].block
    BY <1>2 DEF Copies
  <2>4. copies' \in [1..Len(copies) -> Copies]
    BY <2>1, <2>2
  <2>5. copies' \in Seq(Copies) /\ Len(copies') = Len(copies)
    BY <1>1, <2>4, SeqOfFunction
  <2>6. \A j \in 1..Len(copies) : copies'[j] = [copies[j] EXCEPT !.after = Less(@)]
    BY <2>1
  <2> QED
    BY <2>3, <2>5, <2>6
<1> QED
  BY <1>1, <1>3

LEMMA KernelRun == StreamsInv /\ RunKernel => StreamsInv'
<1> SUFFICES ASSUME StreamsInv, RunKernel PROVE StreamsInv'
  OBVIOUS
<1>1. /\ Len(compute) \in Nat \ {0} /\ Len(copies) \in Nat
      /\ Len(compute') = Len(compute) - 1 /\ compute' \in Seq(Kernels)
      /\ \A k \in 1..Len(compute') : compute'[k] = compute[k + 1]
  BY KernelTaken
<1>2. \A j \in 1..Len(copies) : copies[j] \in Copies /\ copies[j].after \in Nat
  BY StreamElements DEF StreamsInv
<1>3. /\ copies' \in Seq(Copies) /\ Len(copies') = Len(copies)
      /\ \A j \in 1..Len(copies) : copies'[j].after = Less(copies[j].after)
  BY KernelTaken
<1>4. event' = event /\ copying' = copying /\ saved' = saved
  BY DEF RunKernel, driverVars
<1>5. StreamsTyped'
  <2>1. event \in [Blocks -> Nat] /\ saved \in [Blocks -> Slots \cup {NoSlot}]
    BY DEF StreamsInv, StreamsTyped
  <2>2. compute' \in Seq(Kernels)
    BY <1>1
  <2>3. copies' \in Seq(Copies)
    BY <1>3
  <2>4. event' \in [Blocks -> Nat] /\ saved' \in [Blocks -> Slots \cup {NoSlot}]
    BY <1>4, <2>1
  <2> QED
    BY <2>2, <2>3, <2>4 DEF StreamsTyped
<1>6. ASSUME NEW j \in 1..Len(copies') PROVE copies'[j].after <= Len(compute')
  <2>1. j \in 1..Len(copies) /\ copies'[j].after = Less(copies[j].after)
    BY <1>3
  <2>2. copies[j].after \in Nat /\ copies[j].after <= Len(compute)
    BY <1>2, <2>1 DEF StreamsInv, Ordered
  <2> QED
    BY <1>1, <2>1, <2>2 DEF Less
<1>7. \A i, j \in 1..Len(copies') : i < j => copies'[i].after <= copies'[j].after
  BY <1>1, <1>2, <1>3 DEF StreamsInv, Ordered, Less
<1>8. ASSUME NEW k \in 1..Len(compute'), compute'[k].needs > 0
      PROVE  compute'[k].needs <= Len(copies') /\ copies'[compute'[k].needs].after < k
  <2>1. k + 1 \in 1..Len(compute) /\ compute'[k] = compute[k + 1] /\ k >= 1 /\ k \in Nat
    BY <1>1
  <2>2. compute[k + 1].needs \in Nat /\ compute[k + 1].needs > 0
    BY <1>8, <2>1, StreamElements DEF StreamsInv
  <2>3. compute[k + 1].needs <= Len(copies) /\ copies[compute[k + 1].needs].after < k + 1
    BY <2>1, <2>2 DEF StreamsInv, Ordered
  <2>4. compute[k + 1].needs \in 1..Len(copies)
    BY <1>1, <2>2, <2>3
  <2>5. copies'[compute'[k].needs].after = Less(copies[compute[k + 1].needs].after)
    BY <1>3, <2>1, <2>4
  <2>6. copies[compute[k + 1].needs].after \in Nat
    BY <1>2, <2>4
  <2> QED
    BY <1>3, <2>1, <2>3, <2>5, <2>6 DEF Less
<1>9. copying' => copies' # <<>>
  BY <1>1, <1>3, <1>4, EmptySeq DEF StreamsInv, StreamsTyped, Ordered
<1>10. Ordered'
  BY <1>3, <1>4, <1>6, <1>7, <1>8, <1>9 DEF StreamsInv, Ordered
<1> QED
  BY <1>5, <1>10 DEF StreamsInv

LEMMA CopyTaken ==
  ASSUME StreamsInv, FinishCopy
  PROVE  /\ Len(copies) \in Nat \ {0} /\ Len(compute) \in Nat
         /\ Len(copies') = Len(copies) - 1 /\ copies' \in Seq(Copies)
         /\ \A j \in 1..Len(copies') : copies'[j] = copies[j + 1]
         /\ Head(copies) = copies[1]
         /\ compute' \in Seq(Kernels) /\ Len(compute') = Len(compute)
         /\ \A k \in 1..Len(compute) : /\ compute'[k].needs = Less(compute[k].needs)
                                       /\ compute'[k].slot = compute[k].slot
                                       /\ compute'[k].block = compute[k].block
<1>1. copies # <<>>
  BY DEF FinishCopy, StreamsInv, Ordered
<1>2. /\ Len(copies) \in Nat \ {0} /\ Len(compute) \in Nat
      /\ Len(copies') = Len(copies) - 1 /\ copies' \in Seq(Copies)
      /\ \A j \in 1..Len(copies') : copies'[j] = copies[j + 1]
      /\ Head(copies) = copies[1]
  <2>1. copies' = Tail(copies) /\ copies \in Seq(Copies)
    BY DEF FinishCopy, StreamsInv, StreamsTyped
  <2> QED
    BY <1>1, <2>1, Beheaded, StreamElements DEF StreamsInv
<1>3. \A k \in 1..Len(compute) : compute[k] \in Kernels /\ compute[k].needs \in Nat
  BY StreamElements DEF StreamsInv
<1>4. /\ compute' \in Seq(Kernels) /\ Len(compute') = Len(compute)
      /\ \A k \in 1..Len(compute) : /\ compute'[k].needs = Less(compute[k].needs)
                                    /\ compute'[k].slot = compute[k].slot
                                    /\ compute'[k].block = compute[k].block
  <2>1. compute' = [k \in 1..Len(compute) |-> [compute[k] EXCEPT !.needs = Less(@)]]
    BY LenProperties DEF FinishCopy, StreamsInv, StreamsTyped
  <2>2. \A k \in 1..Len(compute) : [compute[k] EXCEPT !.needs = Less(@)] \in Kernels
    BY <1>3, LessTyped DEF Kernels
  <2>3. \A k \in 1..Len(compute) :
          LET c == [compute[k] EXCEPT !.needs = Less(@)]
          IN  c.needs = Less(compute[k].needs) /\ c.slot = compute[k].slot /\ c.block = compute[k].block
    BY <1>3 DEF Kernels
  <2>4. compute' \in [1..Len(compute) -> Kernels]
    BY <2>1, <2>2
  <2>5. compute' \in Seq(Kernels) /\ Len(compute') = Len(compute)
    BY <1>2, <2>4, SeqOfFunction
  <2>6. \A k \in 1..Len(compute) : compute'[k] = [compute[k] EXCEPT !.needs = Less(@)]
    BY <2>1
  <2> QED
    BY <2>3, <2>5, <2>6
<1> QED
  BY <1>2, <1>4

LEMMA CopyFinished == StreamsInv /\ FinishCopy => StreamsInv'
<1> SUFFICES ASSUME StreamsInv, FinishCopy PROVE StreamsInv'
  OBVIOUS
<1>2. /\ Len(copies) \in Nat \ {0} /\ Len(compute) \in Nat
      /\ Len(copies') = Len(copies) - 1 /\ copies' \in Seq(Copies)
      /\ \A j \in 1..Len(copies') : copies'[j] = copies[j + 1]
  BY CopyTaken
<1>3. \A k \in 1..Len(compute) : compute[k] \in Kernels /\ compute[k].needs \in Nat
  BY StreamElements DEF StreamsInv
<1>4. /\ compute' \in Seq(Kernels) /\ Len(compute') = Len(compute)
      /\ \A k \in 1..Len(compute) : compute'[k].needs = Less(compute[k].needs)
  BY CopyTaken
<1>5. event' = [b \in Blocks |-> Less(event[b])] /\ copying' = FALSE /\ saved' = saved
  BY DEF FinishCopy, driverVars
<1>6. StreamsTyped'
  BY <1>2, <1>4, <1>5, LessTyped DEF StreamsInv, StreamsTyped
<1>7. \A b \in Blocks : event'[b] <= Len(copies')
  BY <1>2, <1>5 DEF StreamsInv, StreamsTyped, Ordered, Less
<1>8. \A j \in 1..Len(copies') : j \in Nat /\ j + 1 \in 1..Len(copies)
  BY <1>2
<1>9. \A j \in 1..Len(copies') : copies'[j].after <= Len(compute')
  BY <1>2, <1>4, <1>8 DEF StreamsInv, Ordered
<1>10. \A i, j \in 1..Len(copies') : i < j => copies'[i].after <= copies'[j].after
  BY <1>2, <1>8 DEF StreamsInv, Ordered
<1>11. ASSUME NEW k \in 1..Len(compute'), compute'[k].needs > 0
       PROVE  compute'[k].needs <= Len(copies') /\ copies'[compute'[k].needs].after < k
  <2>1. k \in 1..Len(compute) /\ compute[k].needs \in Nat /\ compute'[k].needs = Less(compute[k].needs)
    BY <1>3, <1>4
  <2>2. compute[k].needs > 1 /\ compute'[k].needs = compute[k].needs - 1
    BY <1>11, <2>1 DEF Less
  <2>3. compute[k].needs <= Len(copies) /\ copies[compute[k].needs].after < k
    BY <2>1, <2>2 DEF StreamsInv, Ordered
  <2>4. compute'[k].needs \in 1..Len(copies') /\ compute'[k].needs + 1 = compute[k].needs
    <3>1. compute[k].needs \in 2..Len(copies)
      <4>1. \A m, n \in Nat : m > 1 /\ m <= n => m \in 2..n
        OBVIOUS
      <4> QED
        BY <1>2, <2>1, <2>2, <2>3, <4>1
    <3>2. ASSUME NEW n \in 2..Len(copies) PROVE n - 1 \in 1..Len(copies') /\ (n - 1) + 1 = n
      BY <1>2
    <3> QED
      BY <2>2, <3>1, <3>2
  <2>5. copies'[compute'[k].needs] = copies[compute[k].needs]
    BY <1>2, <2>4
  <2> QED
    BY <1>2, <2>3, <2>4, <2>5
<1>12. Ordered'
  BY <1>5, <1>7, <1>9, <1>10, <1>11 DEF Ordered
<1> QED
  BY <1>6, <1>12 DEF StreamsInv

LEMMA StreamsSame ==
  ASSUME StreamsInv, UNCHANGED <<compute, copies, event>>, copying' => copies # <<>>,
         saved' \in [Blocks -> Slots \cup {NoSlot}]
  PROVE  StreamsInv'
BY DEF StreamsInv, StreamsTyped, Ordered

LEMMA StreamsStay == PoolInv /\ PoolInv' /\ AtInv /\ StreamsInv /\ [Next]_vars => StreamsInv'
<1> SUFFICES ASSUME PoolInv, PoolInv', AtInv, StreamsInv, [Next]_vars PROVE StreamsInv'
  OBVIOUS
<1>1. CASE UNCHANGED vars
  <2>1. UNCHANGED <<compute, copies, event, copying, saved>>
    BY <1>1 DEF vars, gpuVars, driverVars
  <2> QED
    BY <2>1 DEF StreamsInv, StreamsTyped, Ordered
<1>2. CASE SkipFetch \/ Release
  <2>1. UNCHANGED <<compute, copies, event, copying, saved>>
    BY <1>2 DEF SkipFetch, Release, gpuVars, driverVars
  <2> QED
    BY <2>1 DEF StreamsInv, StreamsTyped, Ordered
<1>3. ASSUME FetchFree \/ Steal \/ Grow PROVE StreamsInv'
  <2>1. PICK b \in Blocks : b = Head(todo).block
    BY <1>3, TodoTaken DEF PoolInv, FetchFree, Steal, Grow, Next1
  <2>2. saved' = saved
    BY <1>3 DEF FetchFree, Steal, Grow, driverVars
  <2>3. slot' \in [Blocks -> Slots \cup {NoSlot}] /\ slot \in [Blocks -> Slots \cup {NoSlot}]
    BY DEF PoolInv, PoolTyped
  <2>4. \E x \in Slots : EnqueueCopy(b, x)
    <3>1. CASE FetchFree
      <4>1. free[sig[b]] \in Seq(Slots) /\ free[sig[b]] # <<>>
        BY <2>1, <3>1 DEF FetchFree, PoolInv, PoolTyped
      <4>2. free[sig[b]][Len(free[sig[b]])] \in Slots
        BY <4>1, Popped
      <4> QED
        BY <2>1, <3>1, <4>2 DEF FetchFree
    <3>2. CASE Steal
      BY <2>1, <2>3, <3>2 DEF Steal, Victims, Resident
    <3>3. CASE Grow
      <4>1. EnqueueCopy(b, slot'[b]) /\ slot'[b] # NoSlot
        BY <2>1, <2>3, <3>3 DEF Grow, NoSlot
      <4> QED
        BY <2>3, <4>1
    <3> QED
      BY <1>3, <3>1, <3>2, <3>3
  <2> QED
    BY <2>2, <2>4, CopyAppended
<1>4. CASE Wait
  <2>1. PICK b \in Blocks : b = Head(todo).block
    BY <1>4, TodoTaken DEF PoolInv, Wait, Next1
  <2>2. /\ compute' = Append(compute, [block |-> b, slot |-> NoSlot, needs |-> event[b]])
        /\ saved' = saved /\ UNCHANGED <<copies, copying, event>>
    BY <1>4, <2>1 DEF Wait, driverVars
  <2>3. [block |-> b, slot |-> NoSlot, needs |-> event[b]] \in Kernels /\ event[b] <= Len(copies)
    BY DEF Kernels, StreamsInv, StreamsTyped, Ordered
  <2> QED
    BY <2>2, <2>3, KernelAppended
<1>5. CASE StartCopy
  BY <1>5, StreamsSame DEF StartCopy, driverVars, StreamsInv, StreamsTyped
<1>6. CASE Run \/ Back
  <2>1. PICK x \in Slots \cup {NoSlot} : compute' = Append(compute, [block |-> at, slot |-> x, needs |-> 0])
    BY <1>6 DEF Run, Back, PoolInv, PoolTyped, StreamsInv, StreamsTyped, AtInv
  <2>2. saved' \in [Blocks -> Slots \cup {NoSlot}] /\ UNCHANGED <<copies, copying, event>>
    BY <1>6 DEF Run, Back, PoolInv, PoolTyped, StreamsInv, StreamsTyped, AtInv
  <2>3. [block |-> at, slot |-> x, needs |-> 0] \in Kernels /\ 0 <= Len(copies)
    BY LenProperties DEF Kernels, AtInv, StreamsInv, StreamsTyped
  <2> QED
    BY <2>1, <2>2, <2>3, KernelAppended
<1>7. CASE (\E p \in Passes : Begin(p)) \/ BeginBackward \/ Pre \/ Post \/ Bwd \/ Interrupt \/ Reset
  <2>1. saved' \in [Blocks -> Slots \cup {NoSlot}]
    BY <1>7 DEF Begin, BeginBackward, Pre, Post, Bwd, Interrupt, Reset, StreamsInv, StreamsTyped
  <2>2. UNCHANGED gpuVars
    BY <1>7 DEF Begin, BeginBackward, Pre, Post, Bwd, Interrupt, Reset
  <2> QED
    BY <2>1, <2>2, StreamsSame DEF gpuVars, StreamsInv, Ordered
<1> QED
  BY <1>1, <1>2, <1>3, <1>4, <1>5, <1>6, <1>7, KernelRun, CopyFinished DEF Next, Pool, Device, Hooks

LEMMA StreamsAlways == Spec => []StreamsInv
<1>1. Init => StreamsInv
  <2> SUFFICES ASSUME Init PROVE StreamsInv
    OBVIOUS
  <2>1. Len(compute) = 0 /\ Len(copies) = 0 /\ compute \in Seq(Kernels) /\ copies \in Seq(Copies)
    BY EmptySeq DEF Init
  <2> QED
    BY <2>1 DEF Init, StreamsInv, StreamsTyped, Ordered
<1> QED
  BY <1>1, PoolAlways, StreamsStay, PTL DEF Spec

\* The copy stream and the compute stream never wait for each other: while
\* either has a command left, one of the two can execute its head.  An event
\* recorded in front of its copy, or a copy that waited for a later kernel,
\* would hang the device.
THEOREM StreamsProgress == Spec => []StreamsNeverStuck
<1>1. StreamsInv => StreamsNeverStuck
  <2> SUFFICES ASSUME StreamsInv, compute # <<>> \/ copies # <<>>
               PROVE  \/ compute # <<>> /\ Head(compute).needs = 0
                      \/ copies # <<>> /\ Head(copies).after = 0
    BY DEF StreamsNeverStuck
  <2>1. CASE compute = <<>>
    <3>1. Len(compute) = 0 /\ Head(copies) = copies[1] /\ 1 \in 1..Len(copies)
      BY <2>1, EmptySeq, Beheaded DEF StreamsInv, StreamsTyped
    <3>2. copies[1].after \in Nat /\ copies[1].after <= 0
      BY <3>1, StreamElements DEF StreamsInv, Ordered
    <3> QED
      BY <2>1, <3>1, <3>2
  <2>2. CASE compute # <<>> /\ Head(compute).needs # 0
    <3>1. Head(compute) = compute[1] /\ 1 \in 1..Len(compute)
      BY <2>2, Beheaded DEF StreamsInv, StreamsTyped
    <3>2. compute[1].needs \in Nat /\ compute[1].needs > 0
      BY <2>2, <3>1, StreamElements DEF StreamsInv
    <3>3. compute[1].needs \in 1..Len(copies) /\ copies[compute[1].needs].after < 1 /\ Len(copies) \in Nat
      BY <3>1, <3>2, StreamElements DEF StreamsInv, Ordered
    <3>4. 1 \in 1..Len(copies) /\ copies # <<>> /\ Head(copies) = copies[1]
      <4>1. 1 \in 1..Len(copies) /\ copies # <<>>
        BY <3>3, SeqFacts DEF StreamsInv, StreamsTyped
      <4> QED
        BY <4>1, Beheaded DEF StreamsInv, StreamsTyped
    <3>5. copies[1].after \in Nat /\ copies[compute[1].needs].after \in Nat
      BY <3>3, <3>4, StreamElements DEF StreamsInv
    <3>6. copies[1].after <= copies[compute[1].needs].after
      BY <3>3, <3>4, <3>5 DEF StreamsInv, Ordered
    <3> QED
      BY <3>3, <3>4, <3>5, <3>6
  <2> QED
    BY <2>1, <2>2
<1> QED
  BY <1>1, StreamsAlways, PTL
-----------------------------------------------------------------------------
(***************************************************************************)
(* What the kernels read: a slot that autograd saved stays with its block  *)
(* until the block's backward has run (SavedKept), and every kernel finds  *)
(* its own block's weights (RightWeights).  Both hold for programs that    *)
(* run no no-grad pass between a plain forward and its backward (~Nested), *)
(* and with Nested the model checker refutes them.  The bound on the pool  *)
(* at the end holds for any program.                                       *)
(***************************************************************************)

\* Where a pass may be, with what left to do.
Course ==
  /\ pending \in [Blocks -> BOOLEAN]
  /\ pass = "none" => step = "pre"
  /\ step = "post" => todo = <<>>
  /\ step \in {"back", "bwd"} => sweep = "backward"

\* A plain graph is alive only between its forward and its backward.
Control == Course /\ ~Nested /\ (graph = "plain" => pass \in {"none", "plain"})

Saved(b) == saved[b] # NoSlot

\* A block with a saved slot is pending, or about to become so, and only
\* while the graph that will read the slot is alive.
SavedPending ==
  \A b \in Blocks : Saved(b) =>
    /\ b >= firstGrad /\ (pending[b] \/ (b = at /\ step = "post"))
    /\ graph = "plain" \/ pass = "plain" \/ (pass = "ckpt" /\ sweep = "backward")
    /\ pass = "ckpt" /\ sweep = "backward" => b = at /\ step \in {"post", "back", "bwd"}
    /\ pass = "plain" /\ sweep = "backward" => b <= at

\* No release that is still to be done is of such a block.
SavedNotReleased == \A x \in Elements(todo) : x.op = "release" => ~Saved(x.block)

SavedInv == Control /\ SavedKept /\ SavedPending /\ SavedNotReleased

-----------------------------------------------------------------------------
LEMMA TailElements ==
  ASSUME NEW S, NEW q \in Seq(S), q # <<>>
  PROVE  Head(q) \in Elements(q) /\ Elements(Tail(q)) \subseteq Elements(q)
<1>1. /\ Len(q) \in Nat \ {0} /\ Head(q) = q[1] /\ DOMAIN q = 1..Len(q)
      /\ DOMAIN Tail(q) = 1..(Len(q) - 1)
      /\ \A i \in 1..(Len(q) - 1) : Tail(q)[i] = q[i + 1]
  BY Beheaded, LenProperties
<1>2. \A i \in 1..(Len(q) - 1) : i + 1 \in 1..Len(q)
  BY <1>1
<1> QED
  BY <1>1, <1>2 DEF Elements

LEMMA ConcatElements ==
  ASSUME NEW S, NEW p \in Seq(S), NEW q \in Seq(S)
  PROVE  Elements(p \o q) = Elements(p) \cup Elements(q)
<1>1. /\ Len(p) \in Nat /\ Len(q) \in Nat /\ DOMAIN p = 1..Len(p) /\ DOMAIN q = 1..Len(q)
      /\ DOMAIN (p \o q) = 1..(Len(p) + Len(q))
      /\ \A i \in 1..(Len(p) + Len(q)) :
           (p \o q)[i] = IF i <= Len(p) THEN p[i] ELSE q[i - Len(p)]
  BY ConcatProperties, LenProperties
<1>2. Elements(p \o q) \subseteq Elements(p) \cup Elements(q)
  <2> SUFFICES ASSUME NEW i \in 1..(Len(p) + Len(q))
               PROVE  (p \o q)[i] \in Elements(p) \cup Elements(q)
    BY <1>1 DEF Elements
  <2>1. CASE i <= Len(p)
    <3>1. i \in DOMAIN p /\ (p \o q)[i] = p[i]
      BY <1>1, <2>1
    <3> QED
      BY <3>1 DEF Elements
  <2>2. CASE i > Len(p)
    <3>1. i - Len(p) \in DOMAIN q /\ (p \o q)[i] = q[i - Len(p)]
      BY <1>1, <2>2
    <3> QED
      BY <3>1 DEF Elements
  <2> QED
    BY <1>1, <2>1, <2>2
<1>3. Elements(p) \subseteq Elements(p \o q)
  BY <1>1 DEF Elements
<1>4. Elements(q) \subseteq Elements(p \o q)
  <2> SUFFICES ASSUME NEW i \in 1..Len(q) PROVE q[i] \in Elements(p \o q)
    BY <1>1 DEF Elements
  <2>1. Len(p) + i \in 1..(Len(p) + Len(q)) /\ (p \o q)[Len(p) + i] = q[i]
    BY <1>1
  <2> QED
    BY <1>1, <2>1 DEF Elements
<1> QED
  BY <1>2, <1>3, <1>4

LEMMA FewElements ==
  /\ Elements(<<>>) = {}
  /\ \A x : Elements(<<x>>) = {x}
  /\ \A x, y : Elements(<<x, y>>) = {x, y}
BY DEF Elements

LEMMA ArmElements == \A x \in Elements(Arm) : x.op = "fetch"
BY ArmTyped DEF Elements

\* What the hooks put on the list.
LEMMA PreTodo ==
  ASSUME AtInv, Pre
  PROVE  \E r \in Seq(Ops) :
           /\ todo' = MustFetch(at) \o r
           /\ \A x \in Elements(r) : x.op = "fetch"
           /\ MustFetch(at) \in Seq(Ops)
<1> DEFINE next == IF KeepsWeights THEN at - Depth ELSE at + Depth
           more == IF next \in Blocks THEN <<Op("fetch", next)>> ELSE <<>>
<1>1. todo' = MustFetch(at) \o more
  BY DEF Pre
<1>2. more \in Seq(Ops) /\ MustFetch(at) \in Seq(Ops)
  BY OpTyped DEF AtInv, MustFetch
<1>3. \A x \in Elements(more) : x.op = "fetch"
  BY FewElements DEF Op
<1> HIDE DEF more
<1> QED
  BY <1>1, <1>2, <1>3

LEMMA PostTodo ==
  ASSUME AtInv, Post, NEW x \in Elements(todo'), x.op = "release"
  PROVE  x.block = at /\ ~(KeepsWeights /\ NeedsGrad(at))
<1> DEFINE keep    == ~KeepsWeights /\ Training /\ at > N - Depth
           release == ~keep /\ ~(KeepsWeights /\ NeedsGrad(at))
           first   == IF release THEN <<Op("release", at)>> ELSE <<>>
           second  == IF pass = "infer" /\ at = N THEN Arm ELSE <<>>
<1>1. todo' = first \o second
  BY DEF Post
<1>2. first \in Seq(Ops) /\ second \in Seq(Ops)
  BY OpTyped, ArmTyped DEF AtInv
<1>3. \A y \in Elements(second) : y.op = "fetch"
  BY FewElements, ArmElements
<1>4. \A y \in Elements(first) : y.block = at /\ ~(KeepsWeights /\ NeedsGrad(at))
  BY FewElements DEF Op
<1> HIDE DEF first, second
<1>5. x \in Elements(first) \cup Elements(second)
  BY <1>1, <1>2, ConcatElements
<1> QED
  BY <1>3, <1>4, <1>5

LEMMA BwdTodo ==
  ASSUME AtInv, Bwd, NEW x \in Elements(todo'), x.op = "release"
  PROVE  x.block = at
<1> DEFINE second == IF at = 1 THEN Arm ELSE <<>>
<1>1. todo' = <<Op("release", at)>> \o second
  BY DEF Bwd
<1>2. <<Op("release", at)>> \in Seq(Ops) /\ second \in Seq(Ops)
  BY OpTyped, ArmTyped DEF AtInv
<1>3. \A y \in Elements(second) : y.op = "fetch"
  BY FewElements, ArmElements
<1>4. \A y \in Elements(<<Op("release", at)>>) : y.block = at
  BY FewElements DEF Op
<1> HIDE DEF second
<1>5. x \in Elements(<<Op("release", at)>>) \cup Elements(second)
  BY <1>1, <1>2, ConcatElements
<1> QED
  BY <1>3, <1>4, <1>5

-----------------------------------------------------------------------------
LEMMA CourseStays == Course /\ [Next]_vars => Course'
<1> SUFFICES ASSUME Course, [Next]_vars PROVE Course'
  OBVIOUS
<1>1. CASE UNCHANGED vars
  BY <1>1 DEF Course, vars, driverVars, poolVars
<1> SUFFICES ASSUME Next PROVE Course'
  BY <1>1
<1>0. pending' \in [Blocks -> BOOLEAN]
  BY DEF Course, Next, Pool, SkipFetch, FetchFree, Steal, Grow, Wait, Release,
         Device, RunKernel, StartCopy, FinishCopy, Hooks, Begin, BeginBackward,
         Pre, Run, Post, Back, Bwd, Interrupt, Reset, poolVars
<1>2. CASE Pool
  <2>1. todo # <<>> /\ UNCHANGED driverVars
    BY <1>2 DEF Pool, SkipFetch, FetchFree, Steal, Grow, Wait, Release, Next1
  <2> QED
    BY <1>0, <2>1 DEF Course, driverVars
<1>3. CASE Device
  <2>1. todo' = todo /\ UNCHANGED driverVars
    BY <1>3 DEF Device, RunKernel, StartCopy, FinishCopy
  <2> QED
    BY <1>0, <2>1 DEF Course, driverVars
<1>4. ASSUME NEW p \in Passes, Begin(p) PROVE Course'
  <2>1. step' = "pre"
    BY <1>4 DEF Begin
  <2> QED
    BY <1>0, <2>1 DEF Course
<1>5. CASE BeginBackward
  <2>1. pass' = graph /\ sweep' = "backward" /\ step' \in {"pre", "back"} /\ graph' = graph /\ graph # "none"
    BY <1>5 DEF BeginBackward
  <2> QED
    BY <1>0, <2>1 DEF Course
<1>6. CASE Pre
  BY <1>0, <1>6 DEF Pre, Course
<1>7. CASE Run
  BY <1>0, <1>7 DEF Run, Course
<1>8. CASE Post
  <2>1. \/ sweep = "backward" /\ step' = "back" /\ UNCHANGED <<pass, graph, sweep>>
        \/ step' = "pre" /\ UNCHANGED <<pass, graph, sweep>>
        \/ pass' = "none" /\ step' = "pre"
    BY <1>8 DEF Post
  <2> QED
    BY <1>0, <1>8, <2>1 DEF Course, Post
<1>9. CASE Back
  BY <1>0, <1>9 DEF Back, Course
<1>10. CASE Bwd
  <2>1. /\ sweep = "backward" /\ sweep' = sweep
        /\ \/ step' \in {"pre", "back"} /\ UNCHANGED <<pass, graph>>
           \/ pass' = "none" /\ graph' = "none" /\ step' = "pre"
    BY <1>10 DEF Bwd, Course
  <2>2. pass # "none"
    BY <1>10 DEF Bwd
  <2> QED
    BY <1>0, <2>1, <2>2 DEF Course
<1>11. CASE Interrupt
  BY <1>0, <1>11 DEF Interrupt, Course
<1>12. CASE Reset
  BY <1>0, <1>12 DEF Reset, Course
<1> QED
  BY <1>1, <1>2, <1>3, <1>4, <1>5, <1>6, <1>7, <1>8, <1>9, <1>10, <1>11, <1>12 DEF Next, Hooks

LEMMA ControlStays == Control /\ [Next]_vars => Control'
<1> SUFFICES ASSUME Control, [Next]_vars, graph' = "plain" PROVE pass' \in {"none", "plain"}
  BY CourseStays DEF Control
<1>1. CASE UNCHANGED vars \/ Pool \/ Device
  <2>1. UNCHANGED driverVars
    BY <1>1 DEF vars, Pool, SkipFetch, FetchFree, Steal, Grow, Wait, Release,
                Device, RunKernel, StartCopy, FinishCopy
  <2> QED
    BY <2>1 DEF Control, driverVars
<1>2. ASSUME NEW p \in Passes, Begin(p) PROVE pass' \in {"none", "plain"}
  BY <1>2 DEF Begin, Control
<1>3. CASE BeginBackward
  BY <1>3 DEF BeginBackward
<1>4. CASE Pre \/ Run \/ Back \/ Interrupt \/ Reset
  BY <1>4 DEF Pre, Run, Back, Interrupt, Reset, Control
<1>5. CASE Post
  <2>1. UNCHANGED <<pass, graph>> \/ pass' = "none"
    BY <1>5 DEF Post
  <2> QED
    BY <2>1 DEF Control
<1>6. CASE Bwd
  <2>1. UNCHANGED <<pass, graph>> \/ pass' = "none"
    BY <1>6 DEF Bwd
  <2> QED
    BY <2>1 DEF Control
<1> QED
  BY <1>1, <1>2, <1>3, <1>4, <1>5, <1>6 DEF Next, Hooks

\* A step of the pool leaves the slots that are still to be read.
LEMMA SavedThroughPool == PoolInv /\ SavedInv /\ Pool => SavedKept' /\ SavedPending' /\ SavedNotReleased'
<1> SUFFICES ASSUME PoolInv, SavedInv, Pool
             PROVE  SavedKept' /\ SavedPending' /\ SavedNotReleased'
  OBVIOUS
<1>1. /\ todo # <<>> /\ todo' = Tail(todo)
      /\ UNCHANGED <<firstGrad, saved, pass, sweep, at, step, graph>>
  BY DEF Pool, SkipFetch, FetchFree, Steal, Grow, Wait, Release, Next1, driverVars, fixedVars
<1>2. PICK b \in Blocks : b = Head(todo).block
  BY <1>1, TodoTaken DEF PoolInv
<1>3. Head(todo) \in Elements(todo) /\ Elements(todo') \subseteq Elements(todo)
  BY <1>1, TailElements DEF PoolInv, PoolTyped
<1>4. SavedNotReleased'
  BY <1>1, <1>3 DEF SavedInv, SavedNotReleased, Saved
<1>5. slot \in [Blocks -> Slots \cup {NoSlot}]
  BY DEF PoolInv, PoolTyped
<1>6. step # "post"
  BY <1>1 DEF SavedInv, Control, Course
<1>7. \A c \in Blocks : Saved(c) => pending[c] /\ slot[c] = saved[c] /\ Resident(c)
  BY <1>6 DEF SavedInv, SavedKept, SavedPending, Saved, Resident
<1> SUFFICES ASSUME NEW c \in Blocks, Saved(c) PROVE slot'[c] = slot[c] /\ pending'[c]
  <2> SUFFICES ASSUME \A c \in Blocks : Saved(c) => slot'[c] = slot[c] /\ pending'[c]
               PROVE  SavedKept' /\ SavedPending'
    BY <1>4
  <2>1. SavedKept'
    BY <1>1 DEF SavedInv, SavedKept, Saved
  <2>2. SavedPending'
    <3>1. \A c \in Blocks : Saved(c)' <=> Saved(c)
      BY <1>1 DEF Saved
    <3> QED
      BY <1>1, <3>1 DEF SavedInv, SavedPending
  <2> QED
    BY <2>1, <2>2
<1>8. CASE SkipFetch \/ Wait
  BY <1>7, <1>8 DEF SkipFetch, Wait, poolVars
<1>9. CASE FetchFree \/ Grow
  <2>1. /\ ~Resident(b) /\ pending' = pending
        /\ \A x \in Blocks : x # b => slot'[x] = slot[x]
    BY <1>2, <1>5, <1>9 DEF FetchFree, Grow
  <2> QED
    BY <1>7, <2>1
<1>10. CASE Steal
  <2>1. PICK v \in Victims(b) : slot' = Taken(b, v)
    BY <1>2, <1>10 DEF Steal
  <2>2. /\ ~Resident(b) /\ ~pending[v] /\ pending' = pending
        /\ \A x \in Blocks : x # b /\ x # v => slot'[x] = slot[x]
    BY <1>2, <1>5, <1>10, <2>1 DEF Steal, Victims, Taken
  <2> QED
    BY <1>7, <2>2
<1>11. CASE Release
  <2>1. ~Saved(b)
    BY <1>2, <1>3, <1>11 DEF Release, Next1, SavedInv, SavedNotReleased
  <2>2. \A x \in Blocks : x # b => slot'[x] = slot[x] /\ (pending[x] => pending'[x])
    BY <1>2, <1>5, <1>11 DEF Release
  <2> QED
    BY <1>7, <2>1, <2>2
<1> QED
  BY <1>4, <1>8, <1>9, <1>10, <1>11 DEF Pool

LEMMA SavedThroughHooks ==
  PoolInv /\ AtInv /\ StreamsInv /\ SavedInv /\ Hooks
    => SavedKept' /\ SavedPending' /\ SavedNotReleased'
<1> SUFFICES ASSUME PoolInv, AtInv, StreamsInv, SavedInv, Hooks
             PROVE  SavedKept' /\ SavedPending' /\ SavedNotReleased'
  OBVIOUS
<1>1. /\ slot' = slot /\ firstGrad' = firstGrad
      /\ at \in Int /\ firstGrad \in Int /\ \A b \in Blocks : b \in Int
  <2>1. slot' = slot /\ firstGrad' = firstGrad
    BY DEF Hooks, Begin, BeginBackward, Pre, Run, Post, Back, Bwd, Interrupt, Reset,
           poolVars, fixedVars
  <2> QED
    BY <2>1, SizeAssumption DEF AtInv, Blocks
<1>2. ASSUME \A b \in Blocks : saved'[b] = NoSlot, \A x \in Elements(todo') : x.block \in Blocks
      PROVE  SavedKept' /\ SavedPending' /\ SavedNotReleased'
  BY <1>2 DEF SavedKept, SavedPending, SavedNotReleased, Saved
<1>3. \A x \in Elements(todo') : x.block \in Blocks
  <2>1. todo' \in Seq(Ops)
    BY TodoOfHooks DEF AtInv
  <2>2. \A x \in Elements(todo') : x \in Ops
    BY <2>1, SeqFacts, LenProperties DEF Elements
  <2> QED
    BY <2>2 DEF Ops
<1>4. Elements(<<>>) = {}
  BY FewElements
<1>5. ASSUME NEW p \in Passes, Begin(p) PROVE SavedKept' /\ SavedPending' /\ SavedNotReleased'
  <2>1. /\ pass = "none" /\ graph # "plain" /\ saved' = saved
    BY <1>5 DEF Begin, SavedInv, Control, Course
  <2>2. \A b \in Blocks : saved'[b] = NoSlot
    BY <2>1 DEF SavedInv, SavedPending, Saved
  <2> QED
    BY <1>2, <1>3, <2>2
<1>6. CASE BeginBackward
  <2>1. /\ pass = "none" /\ step = "pre" /\ saved' = saved /\ pending' = pending /\ todo' = <<>>
        /\ pass' = graph /\ sweep' = "backward" /\ at' = N /\ graph' = graph
    BY <1>6 DEF BeginBackward, SavedInv, Control, Course, poolVars
  <2>2. SavedKept' /\ SavedNotReleased'
    BY <1>1, <1>4, <2>1 DEF SavedInv, SavedKept, SavedNotReleased
  <2>3. \A b \in Blocks : Saved(b) => b >= firstGrad /\ pending[b] /\ graph = "plain" /\ b <= N
    BY <2>1, SizeAssumption DEF SavedInv, SavedPending, Blocks
  <2>4. SavedPending'
    BY <1>1, <2>1, <2>3 DEF SavedPending, Saved
  <2> QED
    BY <2>2, <2>4
<1>7. CASE Pre
  <2>1. /\ step = "pre" /\ step' = "run" /\ UNCHANGED <<pass, sweep, at, graph, saved, pending>>
    BY <1>7 DEF Pre, poolVars
  <2>2. SavedKept' /\ SavedPending'
    BY <1>1, <2>1 DEF SavedInv, SavedKept, SavedPending, Saved
  <2>3. \A x \in Elements(todo') : x.op # "release"
    <3>1. PICK r \in Seq(Ops) : /\ todo' = MustFetch(at) \o r /\ MustFetch(at) \in Seq(Ops)
                                /\ \A x \in Elements(r) : x.op = "fetch"
      BY <1>7, PreTodo
    <3>2. \A x \in Elements(MustFetch(at)) : x.op # "release"
      BY FewElements DEF MustFetch, Op
    <3> QED
      BY <3>1, <3>2, ConcatElements
  <2> QED
    BY <2>2, <2>3 DEF SavedNotReleased
<1>8. CASE Run
  <2>1. /\ step = "run" /\ step' = "post" /\ todo' = <<>>
        /\ UNCHANGED <<pass, sweep, at, graph, pending>>
        /\ saved' = IF KeepsWeights /\ NeedsGrad(at) THEN [saved EXCEPT ![at] = slot[at]] ELSE saved
    BY <1>8 DEF Run, poolVars
  <2>2. \A b \in Blocks : saved'[b] = saved[b] \/ (b = at /\ KeepsWeights /\ NeedsGrad(at) /\ saved'[b] = slot[at])
    BY <2>1
  <2>3. SavedKept' /\ SavedNotReleased'
    BY <1>1, <1>4, <2>1, <2>2 DEF SavedInv, SavedKept, SavedNotReleased
  <2>4. SavedPending'
    <3> SUFFICES ASSUME NEW b \in Blocks, Saved(b)'
                 PROVE  /\ b >= firstGrad /\ (pending[b] \/ b = at)
                        /\ graph = "plain" \/ pass = "plain" \/ (pass = "ckpt" /\ sweep = "backward")
                        /\ pass = "ckpt" /\ sweep = "backward" => b = at
                        /\ pass = "plain" /\ sweep = "backward" => b <= at
      BY <1>1, <2>1 DEF SavedPending
    <3>1. CASE saved'[b] = saved[b]
      BY <2>1, <3>1 DEF Saved, SavedInv, SavedPending
    <3>2. CASE b = at /\ KeepsWeights /\ NeedsGrad(at)
      BY <1>1, <3>2 DEF KeepsWeights, NeedsGrad
    <3> QED
      BY <2>2, <3>1, <3>2
  <2> QED
    BY <2>3, <2>4
<1>9. CASE Post
  <2>1. /\ step = "post" /\ saved' = saved /\ sweep' = sweep
        /\ pending' = IF KeepsWeights /\ NeedsGrad(at) THEN [pending EXCEPT ![at] = TRUE] ELSE pending
    BY <1>9 DEF Post
  <2>2. SavedKept'
    BY <1>1, <2>1 DEF SavedInv, SavedKept
  <2>3. ASSUME NEW b \in Blocks, Saved(b) PROVE pending'[b]
    <3>1. pending \in [Blocks -> BOOLEAN] /\ (pending[b] \/ b = at)
      BY <2>3 DEF SavedInv, SavedPending, Control, Course
    <3>2. CASE KeepsWeights /\ NeedsGrad(at)
      BY <2>1, <3>1, <3>2
    <3>3. CASE ~(KeepsWeights /\ NeedsGrad(at))
      <4>1. b >= firstGrad /\ KeepsWeights
        BY <1>9, <2>3 DEF SavedInv, SavedPending, Control, Course, KeepsWeights, Post
      <4>2. b # at
        BY <3>3, <4>1 DEF NeedsGrad
      <4> QED
        BY <2>1, <3>1, <3>3, <4>2
    <3> QED
      BY <3>2, <3>3
  <2>4. SavedPending'
    <3> SUFFICES ASSUME NEW b \in Blocks, Saved(b)
                 PROVE  /\ graph' = "plain" \/ pass' = "plain" \/ (pass' = "ckpt" /\ sweep = "backward")
                        /\ pass' = "ckpt" /\ sweep = "backward" => b = at' /\ step' \in {"post", "back", "bwd"}
                        /\ pass' = "plain" /\ sweep = "backward" => b <= at'
      BY <1>1, <2>1, <2>3 DEF SavedInv, SavedPending, Saved
    <3>1. /\ graph = "plain" \/ pass = "plain" \/ (pass = "ckpt" /\ sweep = "backward")
          /\ pass = "ckpt" /\ sweep = "backward" => b = at
          /\ pass = "plain" /\ sweep = "backward" => b <= at
          /\ graph = "plain" => pass = "plain"
      BY <1>9 DEF SavedInv, SavedPending, Control, Course, Post
    <3>2. \/ sweep = "backward" /\ step' = "back" /\ UNCHANGED <<pass, at, graph>>
          \/ sweep = "forward" /\ UNCHANGED <<pass, graph>>
          \/ /\ sweep = "forward" /\ pass' = "none"
             /\ graph' = IF pass \in {"ckpt", "plain"} THEN pass ELSE graph
      BY <1>9 DEF Post
    <3> QED
      BY <3>1, <3>2
  <2>5. SavedNotReleased'
    <3> SUFFICES ASSUME NEW x \in Elements(todo'), x.op = "release", Saved(x.block)
                 PROVE  FALSE
      BY <2>1 DEF SavedNotReleased, Saved
    <3>1. x.block = at /\ ~(KeepsWeights /\ NeedsGrad(at))
      BY <1>9, PostTodo
    <3> QED
      BY <1>9, <3>1 DEF AtInv, SavedInv, SavedPending, Control, Course, KeepsWeights, NeedsGrad, Post
  <2> QED
    BY <2>2, <2>4, <2>5
<1>10. CASE Back
  <2>1. /\ step = "back" /\ step' = "bwd" /\ todo' = <<>>
        /\ UNCHANGED <<pass, sweep, at, graph, saved, pending>>
    BY <1>10 DEF Back, poolVars
  <2> QED
    BY <1>1, <1>4, <2>1 DEF SavedInv, SavedKept, SavedPending, SavedNotReleased, Saved
<1>11. CASE Bwd
  <2>1. /\ step = "bwd" /\ sweep = "backward" /\ pass # "none" /\ sweep' = sweep /\ pending' = pending
        /\ saved' = [saved EXCEPT ![at] = NoSlot]
        /\ \/ at > firstGrad /\ at' = at - 1 /\ UNCHANGED <<pass, graph>>
           \/ ~(at > firstGrad)
    BY <1>11 DEF Bwd, SavedInv, Control, Course, poolVars
  <2>2. \A b \in Blocks : Saved(b)' => Saved(b) /\ b # at
    BY <2>1 DEF Saved, StreamsInv, StreamsTyped, AtInv
  <2>3. \A b \in Blocks : Saved(b)' => b >= firstGrad /\ pending[b] /\ pass = "plain" /\ b <= at
    BY <2>1, <2>2 DEF SavedInv, SavedPending, Control, Course
  <2>4. \A b \in Blocks : Saved(b)' => pass' = "plain" /\ b <= at'
    BY <1>1, <2>1, <2>2, <2>3
  <2>5. SavedPending'
    BY <1>1, <2>1, <2>3, <2>4 DEF SavedPending
  <2>6. SavedKept'
    BY <1>1, <2>1 DEF SavedInv, SavedKept
  <2>7. SavedNotReleased'
    <3>1. \A x \in Elements(todo') : x.op = "release" => x.block = at
      BY <1>11, BwdTodo
    <3>2. at \in Blocks
      BY DEF AtInv
    <3> QED
      BY <2>2, <3>1, <3>2 DEF SavedNotReleased
  <2> QED
    BY <2>5, <2>6, <2>7
<1>12. CASE Interrupt
  BY <1>2, <1>3, <1>12 DEF Interrupt
<1>13. CASE Reset
  <2>1. saved' = saved /\ pass = "none" /\ graph = "none"
    BY <1>13 DEF Reset
  <2>2. \A b \in Blocks : saved'[b] = NoSlot
    BY <2>1 DEF SavedInv, SavedPending, Saved
  <2> QED
    BY <1>2, <1>3, <2>2
<1> QED
  BY <1>5, <1>6, <1>7, <1>8, <1>9, <1>10, <1>11, <1>12, <1>13 DEF Hooks

LEMMA SavedStays == PoolInv /\ AtInv /\ StreamsInv /\ SavedInv /\ [Next]_vars => SavedInv'
<1> SUFFICES ASSUME PoolInv, AtInv, StreamsInv, SavedInv, [Next]_vars PROVE SavedInv'
  OBVIOUS
<1>1. Control'
  BY ControlStays DEF SavedInv
<1>2. CASE UNCHANGED vars \/ Device
  <2>1. UNCHANGED <<firstGrad, slot, pending, todo, saved, pass, sweep, at, step, graph>>
    BY <1>2 DEF vars, poolVars, driverVars, fixedVars, Device, RunKernel, StartCopy, FinishCopy
  <2> QED
    BY <1>1, <2>1 DEF SavedInv, SavedKept, SavedPending, SavedNotReleased, Saved
<1> QED
  BY <1>1, <1>2, SavedThroughPool, SavedThroughHooks DEF SavedInv, Next

LEMMA SavedAlways == ~Nested /\ Spec => []SavedInv
<1>1. ~Nested /\ Init => SavedInv
  <2> SUFFICES ASSUME ~Nested, Init PROVE SavedInv
    OBVIOUS
  <2>1. \A b \in Blocks : saved[b] = NoSlot
    BY DEF Init
  <2>2. \A x \in Elements(todo) : x.op # "release"
    BY ArmElements DEF Init
  <2> QED
    BY <2>1, <2>2 DEF Init, SavedInv, Control, Course, SavedKept, SavedPending, SavedNotReleased, Saved
<1> QED
  BY <1>1, PoolAlways, StreamsAlways, SavedStays, PTL DEF Spec

\* Until a block's backward has run, the slot that autograd saved for it is
\* still its own: no prefetch, steal, release or later pass moves the block
\* or gives its weights away between its forward and its backward.
THEOREM SavedSlotsKept == ~Nested /\ Spec => []SavedKept
BY SavedAlways, PTL DEF SavedInv

\* The comment in _acquire, "a pending block's slot is still read by
\* backward": with no no-grad pass between a forward and its backward, no
\* slot that autograd still reads is given to another block.
THEOREM SavedSlotsUnshared == ~Nested /\ Spec => []PendingNeverReused
<1>1. PoolInv /\ SavedInv => PendingNeverReused
  BY DEF PoolInv, Unshared, SavedInv, SavedKept, PendingNeverReused, Resident
<1> QED
  BY <1>1, PoolAlways, SavedAlways, PTL

-----------------------------------------------------------------------------
(* What a kernel finds in its slot. *)

\* The e-th copy of the queue puts the weights of b in slot s, or, for e = 0,
\* they are there already.
Serves(e, b, s) == IF e = 0 THEN data[s] = b ELSE copies[e].slot = s /\ copies[e].block = b

\* The compute stream has been told to wait for the block's last copy.
Waited(b) == event[b] = 0 \/ \E i \in 1..Len(compute) : compute[i].needs = event[b]

\* The copy a block's event follows is the last one into the block's slot.
ResidentServed ==
  \A b \in Blocks : Resident(b) =>
    /\ Serves(event[b], b, slot[b])
    /\ \A j \in (event[b] + 1)..Len(copies) : copies[j].slot # slot[b]

\* A kernel comes after a wait for the copy that serves it, and all later
\* copies into its slot wait for the kernel.
KernelServed(k) ==
  \E e \in 0..Len(copies) :
    /\ Serves(e, compute[k].block, compute[k].slot)
    /\ e > 0 => \E i \in 1..(k - 1) : compute[i].needs >= e
    /\ \A j \in (e + 1)..Len(copies) : copies[j].slot = compute[k].slot => copies[j].after >= k

KernelsServed == \A k \in 1..Len(compute) : compute[k].slot # NoSlot => KernelServed(k)

OnlyFetches(q) == \A x \in Elements(q) : x.op = "fetch"

\* Before a layer is run its block is made resident and waited for.
Ready ==
  step = "run" =>
    \/ /\ todo # <<>> /\ Head(todo) = Op("steal", at)
       /\ Tail(todo) # <<>> /\ Head(Tail(todo)) = Op("wait", at)
       /\ OnlyFetches(Tail(Tail(todo)))
    \/ /\ Resident(at)
       /\ todo # <<>> /\ Head(todo) = Op("wait", at) /\ OnlyFetches(Tail(todo))
    \/ Resident(at) /\ Waited(at) /\ OnlyFetches(todo)

SavedWaited == \A b \in Blocks : Saved(b) => Waited(b)

Started == data \in [Slots -> 0..N] /\ (copying => copies[1].after = 0)

ReadInv == Started /\ ResidentServed /\ KernelsServed /\ Ready /\ SavedWaited

-----------------------------------------------------------------------------
LEMMA CopyQueued ==
  ASSUME StreamsInv, NEW b \in Blocks, NEW x \in Slots, EnqueueCopy(b, x)
  PROVE  /\ Len(copies) \in Nat /\ Len(copies') = Len(copies) + 1
         /\ \A j \in 1..Len(copies) : copies'[j] = copies[j]
         /\ copies'[Len(copies) + 1].slot = x /\ copies'[Len(copies) + 1].block = b
         /\ copies'[Len(copies) + 1].after = Len(compute)
         /\ event'[b] = Len(copies) + 1 /\ \A c \in Blocks : c # b => event'[c] = event[c]
         /\ \A c \in Blocks : event[c] \in 0..Len(copies)
         /\ UNCHANGED <<compute, copying, data>>
<1> DEFINE c == [block |-> b, slot |-> x, after |-> Len(compute)]
<1>1. /\ copies' = Append(copies, c) /\ event' = [event EXCEPT ![b] = Len(copies) + 1]
      /\ UNCHANGED <<compute, copying, data>>
  BY DEF EnqueueCopy, CopyWaitsFor, EventFollows
<1>2. c \in Copies /\ Len(copies) \in Nat /\ c.slot = x /\ c.block = b /\ c.after = Len(compute)
  BY StreamElements DEF Copies, StreamsInv
<1> HIDE DEF c
<1>3. /\ Len(copies') = Len(copies) + 1
      /\ copies'[Len(copies) + 1] = c
      /\ \A j \in 1..Len(copies) : copies'[j] = copies[j]
  BY <1>1, <1>2, AppendProperties DEF StreamsInv, StreamsTyped
<1>4. /\ event'[b] = Len(copies) + 1 /\ \A a \in Blocks : a # b => event'[a] = event[a]
      /\ \A a \in Blocks : event[a] \in 0..Len(copies)
  BY <1>1, <1>2 DEF StreamsInv, StreamsTyped, Ordered
<1> QED
  BY <1>1, <1>2, <1>3, <1>4

\* A copy is enqueued for b, into a slot no other block holds.
LEMMA ServedAfterCopy ==
  ASSUME StreamsInv, ResidentServed, KernelsServed, Started,
         NEW b \in Blocks, NEW x \in Slots, EnqueueCopy(b, x), slot'[b] = x,
         \A c \in Blocks : c # b => slot'[c] \in {slot[c], NoSlot} /\ slot'[c] # x
  PROVE  ResidentServed' /\ KernelsServed' /\ Started'
<1>1. /\ Len(copies) \in Nat /\ Len(copies') = Len(copies) + 1
      /\ \A j \in 1..Len(copies) : copies'[j] = copies[j]
      /\ copies'[Len(copies) + 1].slot = x /\ copies'[Len(copies) + 1].block = b
      /\ copies'[Len(copies) + 1].after = Len(compute)
      /\ event'[b] = Len(copies) + 1 /\ \A c \in Blocks : c # b => event'[c] = event[c]
      /\ \A c \in Blocks : event[c] \in 0..Len(copies)
      /\ UNCHANGED <<compute, copying, data>>
  BY CopyQueued
<1>2. \A e \in 0..Len(copies) : \A c, s : Serves(e, c, s) => Serves(e, c, s)'
  BY <1>1 DEF Serves
<1>3. ResidentServed'
  <2> SUFFICES ASSUME NEW c \in Blocks, Resident(c)'
               PROVE  /\ Serves(event[c], c, slot[c])'
                      /\ \A j \in (event'[c] + 1)..Len(copies') : copies'[j].slot # slot'[c]
    BY DEF ResidentServed
  <2>1. CASE c = b
    BY <1>1, <2>1 DEF Serves
  <2>2. CASE c # b
    <3>1. /\ slot'[c] = slot[c] /\ Resident(c) /\ slot[c] # x
          /\ event'[c] = event[c] /\ event[c] \in 0..Len(copies)
      BY <1>1, <2>2 DEF Resident
    <3>2. /\ Serves(event[c], c, slot[c])
          /\ \A j \in (event[c] + 1)..Len(copies) : copies[j].slot # slot[c]
      BY <3>1 DEF ResidentServed
    <3>3. Serves(event[c], c, slot[c])'
      BY <1>1, <3>1, <3>2 DEF Serves
    <3>4. ASSUME NEW j \in (event[c] + 1)..(Len(copies) + 1) PROVE copies'[j].slot # slot[c]
      BY <1>1, <3>1, <3>2
    <3> QED
      BY <1>1, <3>1, <3>3, <3>4
  <2> QED
    BY <2>1, <2>2
<1>4. KernelsServed'
  <2> SUFFICES ASSUME NEW k \in 1..Len(compute), compute[k].slot # NoSlot PROVE KernelServed(k)'
    BY <1>1 DEF KernelsServed
  <2>1. PICK e \in 0..Len(copies) :
          /\ Serves(e, compute[k].block, compute[k].slot)
          /\ e > 0 => \E i \in 1..(k - 1) : compute[i].needs >= e
          /\ \A j \in (e + 1)..Len(copies) : copies[j].slot = compute[k].slot => copies[j].after >= k
    BY DEF KernelsServed, KernelServed
  <2>2. Len(compute) \in Nat
    BY StreamElements DEF StreamsInv
  <2>3. ASSUME NEW j \in (e + 1)..(Len(copies) + 1), copies'[j].slot = compute[k].slot
        PROVE  copies'[j].after >= k
    <3>1. CASE j = Len(copies) + 1
      BY <1>1, <2>2, <3>1
    <3>2. CASE j # Len(copies) + 1
      <4>1. j \in (e + 1)..Len(copies) /\ j \in 1..Len(copies)
        BY <1>1, <3>2
      <4> QED
        BY <1>1, <2>1, <2>3, <4>1
    <3> QED
      BY <3>1, <3>2
  <2>4. Serves(e, compute[k].block, compute[k].slot)'
    BY <1>1, <2>1 DEF Serves
  <2>5. e \in 0..Len(copies')
    BY <1>1
  <2> QED
    BY <1>1, <2>1, <2>3, <2>4, <2>5 DEF KernelServed
<1>5. Started'
  <2>1. copying => 1 \in 1..Len(copies)
    BY <1>1, SeqFacts DEF StreamsInv, StreamsTyped, Ordered
  <2> QED
    BY <1>1, <2>1 DEF Started
<1> QED
  BY <1>3, <1>4, <1>5

\* A command is appended to the compute stream: a wait, or a kernel of a
\* resident block that has been waited for.
LEMMA ServedAfterAppend ==
  ASSUME StreamsInv, ResidentServed, KernelsServed, Started,
         NEW x \in Kernels, compute' = Append(compute, x),
         UNCHANGED <<slot, copies, copying, event, data>>,
         x.slot = NoSlot \/ (slot[x.block] = x.slot /\ Waited(x.block))
  PROVE  ResidentServed' /\ KernelsServed' /\ Started'
<1>1. /\ Len(compute) \in Nat /\ Len(copies) \in Nat
      /\ Len(compute') = Len(compute) + 1 /\ compute'[Len(compute) + 1] = x
      /\ \A k \in 1..Len(compute) : compute'[k] = compute[k]
      /\ \A b \in Blocks : event[b] \in 0..Len(copies)
      /\ x.block \in Blocks
  BY AppendProperties, StreamElements DEF StreamsInv, StreamsTyped, Ordered, Kernels
<1>2. ResidentServed' /\ Started'
  BY DEF ResidentServed, Resident, Serves, Started
<1>3. ASSUME NEW k \in 1..Len(compute), compute[k].slot # NoSlot PROVE KernelServed(k)'
  <2>1. PICK e \in 0..Len(copies) :
          /\ Serves(e, compute[k].block, compute[k].slot)
          /\ e > 0 => \E i \in 1..(k - 1) : compute[i].needs >= e
          /\ \A j \in (e + 1)..Len(copies) : copies[j].slot = compute[k].slot => copies[j].after >= k
    BY <1>3 DEF KernelsServed, KernelServed
  <2>2. compute'[k] = compute[k] /\ \A i \in 1..(k - 1) : compute'[i] = compute[i]
    <3>1. \A i \in 1..(k - 1) : i \in 1..Len(compute)
      BY <1>1
    <3> QED
      BY <1>1, <3>1
  <2>3. Serves(e, compute[k].block, compute[k].slot)'
    BY <2>1, <2>2 DEF Serves
  <2> QED
    BY <2>1, <2>2, <2>3 DEF KernelServed
<1> PICK n \in Nat : n = Len(compute) + 1 /\ n - 1 = Len(compute)
  BY <1>1
<1>4. ASSUME x.slot # NoSlot PROVE KernelServed(n)'
  <2> DEFINE b == x.block
  <2>1. b \in Blocks /\ Resident(b) /\ slot[b] = x.slot /\ Waited(b)
    BY <1>1, <1>4 DEF Resident
  <2>2. /\ event[b] \in 0..Len(copies) /\ Serves(event[b], b, x.slot)
        /\ \A j \in (event[b] + 1)..Len(copies) : copies[j].slot # x.slot
    BY <1>1, <2>1 DEF ResidentServed
  <2>3. event[b] > 0 => \E i \in 1..Len(compute) : compute'[i].needs >= event[b]
    BY <1>1, <2>1, <2>2 DEF Waited
  <2>4. Serves(event[b], b, x.slot)'
    BY <2>2 DEF Serves
  <2> HIDE DEF b
  <2>5. compute'[Len(compute) + 1].block = b /\ compute'[Len(compute) + 1].slot = x.slot
    BY <1>1 DEF b
  <2>7. PICK e \in 0..Len(copies) : e = event[b]
    BY <2>2
  <2>9. /\ Serves(e, compute[n].block, compute[n].slot)'
        /\ e > 0 => \E i \in 1..(n - 1) : compute'[i].needs >= e
        /\ \A j \in (e + 1)..Len(copies) : copies[j].slot # compute'[n].slot
    BY <2>2, <2>3, <2>4, <2>5, <2>7 DEF Serves
  <2> QED
    BY <2>9 DEF KernelServed
<1>5. KernelsServed'
  <2> SUFFICES ASSUME NEW k \in 1..Len(compute'), compute'[k].slot # NoSlot PROVE KernelServed(k)'
    BY DEF KernelsServed
  <2>1. CASE k \in 1..Len(compute)
    BY <1>1, <1>3, <2>1
  <2>2. CASE k = Len(compute) + 1
    BY <1>1, <1>4, <2>2
  <2> QED
    BY <1>1, <2>1, <2>2
<1> QED
  BY <1>2, <1>5

-----------------------------------------------------------------------------
(* The device's own steps. *)

LEMMA ServedAfterKernel ==
  StreamsInv /\ Started /\ ResidentServed /\ KernelsServed /\ RunKernel
    => Started' /\ ResidentServed' /\ KernelsServed'
<1> SUFFICES ASSUME StreamsInv, Started, ResidentServed, KernelsServed, RunKernel
             PROVE  Started' /\ ResidentServed' /\ KernelsServed'
  OBVIOUS
<1>1. /\ Len(compute) \in Nat \ {0} /\ Len(copies) \in Nat
      /\ Len(compute') = Len(compute) - 1
      /\ \A k \in 1..Len(compute') : compute'[k] = compute[k + 1]
      /\ compute[1].needs = 0
      /\ Len(copies') = Len(copies)
      /\ \A j \in 1..Len(copies) : /\ copies'[j].after = Less(copies[j].after)
                                   /\ copies'[j].slot = copies[j].slot
                                   /\ copies'[j].block = copies[j].block
      /\ UNCHANGED <<slot, event, data, copying>>
  BY KernelTaken DEF RunKernel, poolVars
<1>2. \A b \in Blocks : event[b] \in 0..Len(copies)
  BY <1>1 DEF StreamsInv, StreamsTyped, Ordered
<1>3. Started'
  <2>1. copying => 1 \in 1..Len(copies)
    BY <1>1, SeqFacts DEF StreamsInv, StreamsTyped, Ordered
  <2> QED
    BY <1>1, <2>1 DEF Started, Less
<1>4. ResidentServed'
  <2> SUFFICES ASSUME NEW b \in Blocks, Resident(b)
               PROVE  /\ Serves(event[b], b, slot[b])'
                      /\ \A j \in (event[b] + 1)..Len(copies) : copies'[j].slot # slot[b]
    BY <1>1 DEF ResidentServed, Resident
  <2>1. /\ Serves(event[b], b, slot[b])
        /\ \A j \in (event[b] + 1)..Len(copies) : copies[j].slot # slot[b]
    BY DEF ResidentServed
  <2>2. Serves(event[b], b, slot[b])'
    BY <1>1, <1>2, <2>1 DEF Serves
  <2>3. \A j \in (event[b] + 1)..Len(copies) : j \in 1..Len(copies)
    BY <1>1, <1>2
  <2> QED
    BY <1>1, <2>1, <2>2, <2>3
<1>5. KernelsServed'
  <2> SUFFICES ASSUME NEW k \in 1..Len(compute'), compute'[k].slot # NoSlot PROVE KernelServed(k)'
    BY DEF KernelsServed
  <2>1. k + 1 \in 1..Len(compute) /\ compute'[k] = compute[k + 1] /\ k \in Nat /\ k >= 1
    BY <1>1
  <2>2. PICK e \in 0..Len(copies) :
          /\ Serves(e, compute[k + 1].block, compute[k + 1].slot)
          /\ e > 0 => \E i \in 1..((k + 1) - 1) : compute[i].needs >= e
          /\ \A j \in (e + 1)..Len(copies) : copies[j].slot = compute[k + 1].slot => copies[j].after >= k + 1
    BY <2>1 DEF KernelsServed, KernelServed
  <2>3. Serves(e, compute[k].block, compute[k].slot)'
    BY <1>1, <2>1, <2>2 DEF Serves
  <2>4. ASSUME e > 0 PROVE \E i \in 1..(k - 1) : compute'[i].needs >= e
    <3>1. PICK i \in 1..k : compute[i].needs >= e
      BY <2>1, <2>2, <2>4
    <3>2. i # 1
      BY <1>1, <2>4, <3>1
    <3>3. i - 1 \in 1..(k - 1) /\ i - 1 \in 1..Len(compute') /\ (i - 1) + 1 = i
      BY <1>1, <2>1, <3>2
    <3>4. compute'[i - 1] = compute[i]
      BY <1>1, <3>3
    <3> QED
      BY <3>1, <3>3, <3>4
  <2>5. ASSUME NEW j \in (e + 1)..Len(copies), copies'[j].slot = compute'[k].slot
        PROVE  copies'[j].after >= k
    <3>1. j \in 1..Len(copies)
      BY <1>1
    <3>2. copies[j].after \in Nat /\ copies[j].after >= k + 1 /\ copies'[j].after = Less(copies[j].after)
      BY <1>1, <2>1, <2>2, <2>5, <3>1, StreamElements DEF StreamsInv
    <3> QED
      BY <2>1, <3>2 DEF Less
  <2> QED
    BY <1>1, <2>3, <2>4, <2>5 DEF KernelServed
<1> QED
  BY <1>3, <1>4, <1>5

\* A copy that starts waits for no kernel, so no kernel or resident block is
\* served by what it overwrites.
LEMMA ServedAfterStart ==
  StreamsInv /\ Started /\ ResidentServed /\ KernelsServed /\ StartCopy
    => Started' /\ ResidentServed' /\ KernelsServed'
<1> SUFFICES ASSUME StreamsInv, Started, ResidentServed, KernelsServed, StartCopy
             PROVE  Started' /\ ResidentServed' /\ KernelsServed'
  OBVIOUS
<1>1. /\ copies # <<>> /\ Head(copies) = copies[1] /\ 1 \in 1..Len(copies) /\ Len(copies) \in Nat
      /\ copies[1].after = 0 /\ copies[1].slot \in Slots
      /\ data' = [data EXCEPT ![copies[1].slot] = 0]
      /\ UNCHANGED <<slot, event, copies, compute>>
  <2>1. Head(copies) = copies[1] /\ 1 \in 1..Len(copies)
    BY Beheaded DEF StartCopy, StreamsInv, StreamsTyped
  <2>2. copies[1] \in Copies /\ Len(copies) \in Nat
    BY <2>1, StreamElements DEF StreamsInv
  <2> QED
    BY <2>1, <2>2 DEF StartCopy, poolVars, Copies
<1>2. \A s : s # copies[1].slot => data'[s] = data[s]
  BY <1>1 DEF Started
<1>3. Started'
  BY <1>1, SizeAssumption DEF Started
<1>4. ResidentServed'
  <2> SUFFICES ASSUME NEW b \in Blocks, Resident(b)
               PROVE  /\ Serves(event[b], b, slot[b])'
                      /\ \A j \in (event[b] + 1)..Len(copies) : copies[j].slot # slot[b]
    BY <1>1 DEF ResidentServed, Resident
  <2>1. /\ Serves(event[b], b, slot[b])
        /\ \A j \in (event[b] + 1)..Len(copies) : copies[j].slot # slot[b]
    BY DEF ResidentServed
  <2>2. event[b] = 0 => copies[1].slot # slot[b]
    BY <1>1, <2>1
  <2> QED
    BY <1>1, <1>2, <2>1, <2>2 DEF Serves
<1>5. KernelsServed'
  <2> SUFFICES ASSUME NEW k \in 1..Len(compute), compute[k].slot # NoSlot PROVE KernelServed(k)'
    BY <1>1 DEF KernelsServed
  <2>1. PICK e \in 0..Len(copies) :
          /\ Serves(e, compute[k].block, compute[k].slot)
          /\ e > 0 => \E i \in 1..(k - 1) : compute[i].needs >= e
          /\ \A j \in (e + 1)..Len(copies) : copies[j].slot = compute[k].slot => copies[j].after >= k
    BY DEF KernelsServed, KernelServed
  <2>2. e = 0 => copies[1].slot # compute[k].slot
    BY <1>1, <2>1
  <2>3. Serves(e, compute[k].block, compute[k].slot)'
    BY <1>1, <1>2, <2>1, <2>2 DEF Serves
  <2> QED
    BY <1>1, <2>1, <2>3 DEF KernelServed
<1> QED
  BY <1>3, <1>4, <1>5

LEMMA ServedAfterFinish ==
  StreamsInv /\ Started /\ ResidentServed /\ KernelsServed /\ FinishCopy
    => Started' /\ ResidentServed' /\ KernelsServed'
<1> SUFFICES ASSUME StreamsInv, Started, ResidentServed, KernelsServed, FinishCopy
             PROVE  Started' /\ ResidentServed' /\ KernelsServed'
  OBVIOUS
<1>1. /\ Len(copies) \in Nat \ {0} /\ Len(compute) \in Nat
      /\ Len(copies') = Len(copies) - 1
      /\ \A j \in 1..Len(copies') : copies'[j] = copies[j + 1]
      /\ Len(compute') = Len(compute)
      /\ \A k \in 1..Len(compute) : /\ compute'[k].needs = Less(compute[k].needs)
                                    /\ compute'[k].slot = compute[k].slot
                                    /\ compute'[k].block = compute[k].block
      /\ copies[1].after = 0 /\ copying' = FALSE
      /\ data' = [data EXCEPT ![copies[1].slot] = copies[1].block]
      /\ event' = [b \in Blocks |-> Less(event[b])] /\ slot' = slot
  BY CopyTaken DEF FinishCopy, poolVars, Started
<1>2. /\ copies[1].slot \in Slots /\ copies[1].block \in 1..N
      /\ \A b \in Blocks : event[b] \in 0..Len(copies)
  <2>1. copies[1] \in Copies
    BY <1>1, StreamElements DEF StreamsInv
  <2>2. copies[1].slot \in Slots /\ copies[1].block \in 1..N
    BY <2>1 DEF Copies, Blocks
  <2>3. \A b \in Blocks : event[b] \in 0..Len(copies)
    BY <1>1 DEF StreamsInv, StreamsTyped, Ordered
  <2> QED
    BY <2>2, <2>3
<1>3. /\ data'[copies[1].slot] = copies[1].block
      /\ \A s : s # copies[1].slot => data'[s] = data[s]
  BY <1>1, <1>2 DEF Started
<1>4. Started'
  BY <1>1, <1>2, SizeAssumption DEF Started
\* Copy e becomes copy e - 1, and the first one what the slot holds.
<1>5. ASSUME NEW e \in 0..Len(copies), NEW b, NEW s, Serves(e, b, s),
             e = 0 => copies[1].slot # s
      PROVE  Serves(Less(e), b, s)' /\ Less(e) \in 0..Len(copies')
  <2>1. CASE e = 0
    BY <1>1, <1>3, <1>5, <2>1 DEF Serves, Less
  <2>2. CASE e = 1
    BY <1>1, <1>3, <1>5, <2>2 DEF Serves, Less
  <2>3. CASE e > 1
    <3>1. Less(e) = e - 1 /\ e - 1 \in 1..Len(copies') /\ (e - 1) + 1 = e
      BY <1>1, <2>3 DEF Less
    <3>2. copies'[e - 1] = copies[e]
      BY <1>1, <3>1
    <3> QED
      BY <1>1, <1>5, <2>3, <3>1, <3>2 DEF Serves
  <2> QED
    BY <1>1, <2>1, <2>2, <2>3
<1>6. ASSUME NEW e \in 0..Len(copies), NEW j \in (Less(e) + 1)..Len(copies')
      PROVE  j + 1 \in (e + 1)..Len(copies) /\ copies'[j] = copies[j + 1]
  BY <1>1 DEF Less
<1>7. ResidentServed'
  <2> SUFFICES ASSUME NEW b \in Blocks, Resident(b)
               PROVE  /\ Serves(event[b], b, slot[b])'
                      /\ \A j \in (event'[b] + 1)..Len(copies') : copies'[j].slot # slot[b]
    BY <1>1 DEF ResidentServed, Resident
  <2>1. /\ Serves(event[b], b, slot[b])
        /\ \A j \in (event[b] + 1)..Len(copies) : copies[j].slot # slot[b]
    BY DEF ResidentServed
  <2>2. PICK e \in 0..Len(copies) : e = event[b] /\ event'[b] = Less(e)
    BY <1>1, <1>2
  <2>3. PICK s : s = slot[b] /\ slot'[b] = s
    BY <1>1
  <2>4. e = 0 => copies[1].slot # s
    BY <1>1, <2>1, <2>2, <2>3
  <2>5. Serves(e, b, s)
    BY <2>1, <2>2, <2>3
  <2>6. Serves(Less(e), b, s)'
    BY <1>5, <2>4, <2>5
  <2>7. Serves(event[b], b, slot[b])'
    BY <2>2, <2>3, <2>6 DEF Serves
  <2>8. \A j \in (event'[b] + 1)..Len(copies') : copies'[j].slot # slot[b]
    BY <1>6, <2>1, <2>2
  <2> QED
    BY <2>7, <2>8
<1>8. KernelsServed'
  <2> SUFFICES ASSUME NEW k \in 1..Len(compute), compute[k].slot # NoSlot PROVE KernelServed(k)'
    BY <1>1 DEF KernelsServed
  <2>1. PICK e \in 0..Len(copies) :
          /\ Serves(e, compute[k].block, compute[k].slot)
          /\ e > 0 => \E i \in 1..(k - 1) : compute[i].needs >= e
          /\ \A j \in (e + 1)..Len(copies) : copies[j].slot = compute[k].slot => copies[j].after >= k
    BY DEF KernelsServed, KernelServed
  <2>2. PICK b, s : /\ b = compute[k].block /\ s = compute[k].slot
                    /\ compute'[k].block = b /\ compute'[k].slot = s
    BY <1>1
  <2>3. e = 0 => copies[1].slot # s
    BY <1>1, <2>1, <2>2
  <2>4. Serves(Less(e), b, s)' /\ Less(e) \in 0..Len(copies')
    BY <1>5, <2>1, <2>2, <2>3
  <2>5. PICK d \in 0..Len(copies') : d = Less(e)
    BY <2>4
  <2>6. ASSUME d > 0 PROVE \E i \in 1..(k - 1) : compute'[i].needs >= d
    <3>1. e > 0 /\ d = e - 1
      BY <2>5, <2>6 DEF Less
    <3>2. PICK i \in 1..(k - 1) : compute[i].needs >= e
      BY <2>1, <3>1
    <3>3. i \in 1..Len(compute) /\ compute[i].needs \in Nat /\ compute'[i].needs = Less(compute[i].needs)
      <4>1. i \in 1..Len(compute)
        BY <1>1
      <4> QED
        BY <1>1, <4>1, StreamElements DEF StreamsInv
    <3> QED
      BY <3>1, <3>2, <3>3 DEF Less
  <2>7. \A j \in (d + 1)..Len(copies') : copies'[j].slot = s => copies'[j].after >= k
    BY <1>6, <2>1, <2>2, <2>5
  <2>8. Serves(d, compute[k].block, compute[k].slot)'
    BY <2>2, <2>4, <2>5 DEF Serves
  <2> QED
    BY <2>2, <2>6, <2>7, <2>8 DEF KernelServed
<1> QED
  BY <1>4, <1>7, <1>8

-----------------------------------------------------------------------------
(* A wait that was enqueued stays ahead of the kernels that need it. *)

LEMMA WaitedAfterAppend ==
  ASSUME StreamsInv, NEW b \in Blocks, NEW x \in Kernels,
         compute' = Append(compute, x), event' = event, Waited(b) \/ x.needs = event[b]
  PROVE  Waited(b)'
<1>1. /\ Len(compute) \in Nat /\ Len(compute') = Len(compute) + 1
      /\ compute'[Len(compute) + 1] = x
      /\ \A k \in 1..Len(compute) : compute'[k] = compute[k]
  BY AppendProperties, StreamElements DEF StreamsInv, StreamsTyped
<1>2. CASE x.needs = event[b]
  <2>1. Len(compute) + 1 \in 1..Len(compute')
    BY <1>1
  <2> QED
    BY <1>1, <1>2, <2>1 DEF Waited
<1>3. CASE Waited(b)
  <2>1. \A k \in 1..Len(compute) : k \in 1..Len(compute')
    BY <1>1
  <2> QED
    BY <1>1, <1>3, <2>1 DEF Waited
<1> QED
  BY <1>2, <1>3

LEMMA WaitedThroughDevice ==
  ASSUME StreamsInv, NEW b \in Blocks, Waited(b), Device
  PROVE  Waited(b)'
<1>1. CASE RunKernel
  <2>1. /\ Len(compute) \in Nat /\ Len(compute') = Len(compute) - 1
        /\ \A k \in 1..Len(compute') : compute'[k] = compute[k + 1]
        /\ compute[1].needs = 0 /\ event' = event
    BY <1>1, KernelTaken DEF RunKernel
  <2>2. ASSUME event[b] # 0 PROVE Waited(b)'
    <3>1. PICK i \in 1..Len(compute) : compute[i].needs = event[b]
      BY <2>2 DEF Waited
    <3>2. i # 1
      BY <2>1, <2>2, <3>1
    <3>3. i - 1 \in 1..Len(compute') /\ (i - 1) + 1 = i
      BY <2>1, <3>2
    <3>4. compute'[i - 1] = compute[i]
      BY <2>1, <3>3
    <3> QED
      BY <2>1, <3>1, <3>3, <3>4 DEF Waited
  <2> QED
    BY <2>1, <2>2 DEF Waited
<1>2. CASE StartCopy
  BY <1>2 DEF StartCopy, Waited
<1>3. CASE FinishCopy
  <2>1. /\ Len(compute') = Len(compute) /\ event'[b] = Less(event[b])
        /\ \A k \in 1..Len(compute) : compute'[k].needs = Less(compute[k].needs)
    BY <1>3, CopyTaken DEF FinishCopy
  <2> QED
    BY <2>1 DEF Waited, Less
<1> QED
  BY <1>1, <1>2, <1>3 DEF Device

\* A copy for another block touches neither the block's slot nor its event.
LEMMA FetchedApart ==
  ASSUME PoolInv, PoolInv', FetchFree \/ Steal \/ Grow
  PROVE  \E b \in Blocks, x \in Slots :
           /\ b = Head(todo).block /\ ~Resident(b)
           /\ EnqueueCopy(b, x) /\ slot'[b] = x
           /\ \A c \in Blocks : c # b => slot'[c] \in {slot[c], NoSlot} /\ slot'[c] # x
           /\ FetchFree \/ Grow => \A c \in Blocks : c # b => slot'[c] = slot[c]
<1>1. PICK b \in Blocks : b = Head(todo).block
  BY TodoTaken DEF PoolInv, FetchFree, Steal, Grow, Next1
<1>2. slot \in [Blocks -> Slots \cup {NoSlot}] /\ slot' \in [Blocks -> Slots \cup {NoSlot}]
  BY DEF PoolInv, PoolTyped
<1>3. ~Resident(b) /\ EnqueueCopy(b, slot'[b]) /\ slot'[b] \in Slots
  <2>1. CASE FetchFree
    <3>1. free[sig[b]] \in Seq(Slots) /\ free[sig[b]] # <<>>
      BY <1>1, <2>1 DEF FetchFree, PoolInv, PoolTyped
    <3>2. free[sig[b]][Len(free[sig[b]])] \in Slots
      BY <3>1, Popped
    <3> QED
      BY <1>1, <1>2, <2>1, <3>2 DEF FetchFree
  <2>2. CASE Steal
    <3>1. PICK v \in Victims(b) : slot' = Taken(b, v) /\ EnqueueCopy(b, slot[v]) /\ ~Resident(b)
      BY <1>1, <2>2 DEF Steal
    <3>2. v \in Blocks /\ v # b /\ slot[v] \in Slots
      BY <1>2, <3>1 DEF Victims, Resident
    <3>3. slot'[b] = slot[v]
      BY <1>2, <3>1, <3>2 DEF Taken
    <3> QED
      BY <3>1, <3>2, <3>3
  <2>3. CASE Grow
    <3>1. EnqueueCopy(b, slot'[b]) /\ slot'[b] # NoSlot /\ ~Resident(b)
      BY <1>1, <1>2, <2>3 DEF Grow, NoSlot
    <3> QED
      BY <1>2, <3>1
  <2> QED
    BY <2>1, <2>2, <2>3
<1>4. FetchFree \/ Grow => \A c \in Blocks : c # b => slot'[c] = slot[c]
  BY <1>1, <1>2 DEF FetchFree, Grow
<1>5. ASSUME NEW c \in Blocks, c # b PROVE slot'[c] \in {slot[c], NoSlot}
  <2>1. CASE FetchFree \/ Grow
    BY <1>4, <1>5, <2>1
  <2>2. CASE Steal
    <3>1. PICK v \in Victims(b) : slot' = Taken(b, v)
      BY <1>1, <2>2 DEF Steal
    <3> QED
      BY <1>2, <1>5, <3>1 DEF Taken, Victims
  <2> QED
    BY <2>1, <2>2
<1>6. \A c \in Blocks : c # b => slot'[c] # slot'[b]
  BY <1>3, SlotIsPair DEF PoolInv, Unshared, Resident
<1> QED
  BY <1>1, <1>3, <1>4, <1>5, <1>6

-----------------------------------------------------------------------------
LEMMA PrefetchFirst ==
  ASSUME NEW r \in Seq(Ops), NEW b \in Blocks
  PROVE  LET q == MustFetch(b) \o r
         IN  /\ q # <<>> /\ Head(q) = Op("steal", b)
             /\ Tail(q) # <<>> /\ Head(Tail(q)) = Op("wait", b)
             /\ Tail(Tail(q)) = r
<1> DEFINE m == MustFetch(b)
           q == m \o r
<1>1. m \in Seq(Ops) /\ Len(m) = 2 /\ m[1] = Op("steal", b) /\ m[2] = Op("wait", b)
  BY OpTyped DEF MustFetch
<1> HIDE DEF m
<1>2. /\ q \in Seq(Ops) /\ Len(q) = Len(r) + 2 /\ Len(r) \in Nat
      /\ q[1] = m[1] /\ q[2] = m[2] /\ \A i \in 1..Len(r) : q[i + 2] = r[i]
  <2>1. /\ q \in Seq(Ops) /\ Len(q) = 2 + Len(r) /\ Len(r) \in Nat
        /\ \A i \in 1..(2 + Len(r)) : q[i] = IF i <= 2 THEN m[i] ELSE r[i - 2]
    <3>1. /\ q \in Seq(Ops) /\ Len(q) = Len(m) + Len(r) /\ Len(r) \in Nat
          /\ \A i \in 1..(Len(m) + Len(r)) : q[i] = IF i <= Len(m) THEN m[i] ELSE r[i - Len(m)]
      BY <1>1, ConcatProperties, LenProperties
    <3> QED
      BY <1>1, <3>1
  <2>2. \A i \in 1..Len(r) : i + 2 \in 1..(2 + Len(r)) /\ ~(i + 2 <= 2) /\ (i + 2) - 2 = i
    BY <2>1
  <2>3. 1 \in 1..(2 + Len(r)) /\ 2 \in 1..(2 + Len(r))
    BY <2>1
  <2> QED
    BY <2>1, <2>2, <2>3
<1> HIDE DEF q
<1>3. q # <<>>
  BY <1>2, SeqFacts
<1>4. /\ Head(q) = q[1] /\ Tail(q) \in Seq(Ops) /\ Len(Tail(q)) = Len(r) + 1
      /\ \A i \in 1..(Len(r) + 1) : Tail(q)[i] = q[i + 1]
  BY <1>2, <1>3, Beheaded
<1> DEFINE t == Tail(q)
<1>5. t \in Seq(Ops) /\ Len(t) = Len(r) + 1 /\ \A i \in 1..(Len(r) + 1) : t[i] = q[i + 1]
  BY <1>4
<1> HIDE DEF t
<1>6. t # <<>>
  BY <1>2, <1>5, SeqFacts
<1>7. /\ Head(t) = t[1] /\ Tail(t) \in Seq(Ops) /\ Len(Tail(t)) = Len(r)
      /\ \A i \in 1..Len(r) : Tail(t)[i] = t[i + 1]
  BY <1>2, <1>5, <1>6, Beheaded
<1>8. t[1] = q[2] /\ \A i \in 1..Len(r) : t[i + 1] = q[i + 2]
  <2>1. 1 \in 1..(Len(r) + 1) /\ \A i \in 1..Len(r) : i + 1 \in 1..(Len(r) + 1) /\ (i + 1) + 1 = i + 2
    BY <1>2
  <2> QED
    BY <1>5, <2>1
<1>9. Tail(t) = r
  <2>1. \A i \in 1..Len(r) : Tail(t)[i] = r[i]
    BY <1>2, <1>7, <1>8
  <2> QED
    BY <1>7, <2>1, SeqEqual
<1> QED
  BY <1>1, <1>2, <1>3, <1>4, <1>6, <1>7, <1>8, <1>9 DEF q, m, t

LEMMA FetchesLeft ==
  ASSUME NEW q \in Seq(Ops), q # <<>>, OnlyFetches(q)
  PROVE  Head(q).op = "fetch" /\ OnlyFetches(Tail(q))
BY TailElements DEF OnlyFetches

LEMMA ReadyThroughPool ==
  ASSUME PoolInv, PoolInv', StreamsInv, Ready, AtInv, Pool, step = "run"
  PROVE  Ready'
<1>1. /\ todo # <<>> /\ todo' = Tail(todo) /\ todo \in Seq(Ops) /\ step' = step /\ at' = at
  BY DEF Pool, SkipFetch, FetchFree, Steal, Grow, Wait, Release, Next1, driverVars, PoolInv, PoolTyped
<1>2. \A w : Op(w, at).op = w /\ Op(w, at).block = at
  BY DEF Op
<1>3. CASE /\ Head(todo) = Op("steal", at)
           /\ Tail(todo) # <<>> /\ Head(Tail(todo)) = Op("wait", at)
           /\ OnlyFetches(Tail(Tail(todo)))
  <2>1. Resident(at)'
    <3>1. CASE SkipFetch
      BY <1>1, <1>2, <1>3, <3>1 DEF SkipFetch, Resident, poolVars
    <3>2. CASE FetchFree \/ Steal \/ Grow
      BY <1>1, <1>2, <1>3, <3>2, FetchedApart, SlotIsPair DEF Resident
    <3>3. CASE Wait \/ Release
      BY <1>2, <1>3, <3>3 DEF Wait, Release, Next1
    <3> QED
      BY <3>1, <3>2, <3>3 DEF Pool
  <2> QED
    BY <1>1, <1>3, <2>1 DEF Ready
<1>4. CASE Resident(at) /\ Head(todo) = Op("wait", at) /\ OnlyFetches(Tail(todo))
  <2>1. Wait
    BY <1>2, <1>4 DEF Pool, SkipFetch, FetchFree, Steal, Grow, Release, Next1
  <2>2. /\ compute' = Append(compute, [block |-> at, slot |-> NoSlot, needs |-> event[at]])
        /\ event' = event /\ slot' = slot
    BY <1>2, <1>4, <2>1 DEF Wait, poolVars
  <2>3. [block |-> at, slot |-> NoSlot, needs |-> event[at]] \in Kernels
    BY DEF Kernels, StreamsInv, StreamsTyped, AtInv
  <2>4. Waited(at)'
    <3>1. PICK b \in Blocks : b = at
      BY DEF AtInv
    <3>2. Waited(b)'
      BY <2>2, <2>3, <3>1, WaitedAfterAppend
    <3> QED
      BY <1>1, <3>1, <3>2 DEF Waited
  <2> QED
    BY <1>1, <1>4, <2>2, <2>4 DEF Ready, Resident, OnlyFetches
<1>5. CASE Resident(at) /\ Waited(at) /\ OnlyFetches(todo)
  <2>1. Head(todo).op = "fetch" /\ OnlyFetches(Tail(todo))
    BY <1>1, <1>5, FetchesLeft
  <2>2. SkipFetch \/ FetchFree
    BY <2>1 DEF Pool, Steal, Grow, Wait, Release, Next1
  <2>3. CASE SkipFetch
    BY <1>1, <1>5, <2>1, <2>3 DEF SkipFetch, poolVars, gpuVars, Ready, Resident, Waited, OnlyFetches
  <2>4. CASE FetchFree
    <3>1. PICK b \in Blocks, x \in Slots :
            /\ ~Resident(b) /\ EnqueueCopy(b, x)
            /\ \A c \in Blocks : c # b => slot'[c] = slot[c]
      BY <2>4, FetchedApart
    <3>2. at # b /\ at \in Blocks
      BY <1>5, <3>1 DEF AtInv
    <3>3. slot'[at] = slot[at] /\ event'[at] = event[at] /\ compute' = compute
      BY <3>1, <3>2, CopyQueued
    <3> QED
      BY <1>1, <1>5, <2>1, <3>3 DEF Ready, Resident, Waited, OnlyFetches
  <2> QED
    BY <2>2, <2>3, <2>4
<1> QED
  BY <1>3, <1>4, <1>5 DEF Ready

LEMMA ReadyStays ==
  PoolInv /\ PoolInv' /\ AtInv /\ StreamsInv /\ Course /\ Ready /\ [Next]_vars => Ready'
<1> SUFFICES ASSUME PoolInv, PoolInv', AtInv, StreamsInv, Course, Ready, [Next]_vars, step' = "run"
             PROVE  Ready'
  BY DEF Ready
<1>1. CASE UNCHANGED vars
  BY <1>1 DEF vars, poolVars, driverVars, gpuVars, Ready, Resident, Waited, OnlyFetches
<1>2. CASE Pool
  <2>1. step = "run"
    BY <1>2 DEF Pool, SkipFetch, FetchFree, Steal, Grow, Wait, Release, driverVars
  <2> QED
    BY <1>2, <2>1, ReadyThroughPool
<1>3. CASE Device
  <2>1. UNCHANGED <<slot, todo, step, at>>
    BY <1>3 DEF Device, RunKernel, StartCopy, FinishCopy, poolVars, driverVars
  <2>2. PICK b \in Blocks : b = at
    BY DEF AtInv
  <2>3. Waited(b) => Waited(b)'
    BY <1>3, WaitedThroughDevice
  <2>4. Waited(at) => Waited(at)'
    BY <2>1, <2>2, <2>3 DEF Waited
  <2> QED
    BY <2>1, <2>4 DEF Ready, Resident, OnlyFetches
<1>4. CASE Pre
  <2>1. PICK r \in Seq(Ops) : todo' = MustFetch(at) \o r /\ \A x \in Elements(r) : x.op = "fetch"
    BY <1>4, PreTodo
  <2>2. PICK b \in Blocks : b = at /\ at' = b
    BY <1>4 DEF Pre, AtInv
  <2>3. /\ todo' # <<>> /\ Head(todo') = Op("steal", b)
        /\ Tail(todo') # <<>> /\ Head(Tail(todo')) = Op("wait", b)
        /\ Tail(Tail(todo')) = r
    BY <2>1, <2>2, PrefetchFirst
  <2> QED
    BY <2>1, <2>2, <2>3 DEF Ready, OnlyFetches
<1>5. CASE (\E p \in Passes : Begin(p)) \/ BeginBackward \/ Run \/ Post \/ Back \/ Bwd \/ Interrupt
  BY <1>5 DEF Begin, BeginBackward, Run, Post, Back, Bwd, Interrupt
<1>6. CASE Reset
  BY <1>6 DEF Reset, Course
<1> QED
  BY <1>1, <1>2, <1>3, <1>4, <1>5, <1>6 DEF Next, Hooks

-----------------------------------------------------------------------------
LEMMA ServedStays ==
  /\ PoolInv /\ PoolInv' /\ AtInv /\ StreamsInv /\ Ready /\ SavedInv /\ SavedWaited
  /\ Started /\ ResidentServed /\ KernelsServed /\ [Next]_vars
  => Started' /\ ResidentServed' /\ KernelsServed'
<1> SUFFICES ASSUME PoolInv, PoolInv', AtInv, StreamsInv, Ready, SavedInv, SavedWaited,
                    Started, ResidentServed, KernelsServed, [Next]_vars
             PROVE  Started' /\ ResidentServed' /\ KernelsServed'
  OBVIOUS
<1>1. ASSUME UNCHANGED gpuVars, \A b \in Blocks : slot'[b] \in {slot[b], NoSlot}
      PROVE  Started' /\ ResidentServed' /\ KernelsServed'
  <2>1. Started' /\ KernelsServed'
    BY <1>1 DEF gpuVars, Started, KernelsServed, KernelServed, Serves
  <2>2. ResidentServed'
    BY <1>1 DEF gpuVars, ResidentServed, Resident, Serves
  <2> QED
    BY <2>1, <2>2
<1>2. CASE UNCHANGED vars \/ SkipFetch
  BY <1>1, <1>2 DEF vars, poolVars, SkipFetch
<1>3. CASE Release
  <2>1. PICK b \in Blocks : slot' = [slot EXCEPT ![b] = NoSlot]
    BY <1>3, TodoTaken DEF PoolInv, Release, Next1
  <2> QED
    BY <1>1, <1>3, <2>1 DEF Release, PoolInv, PoolTyped
<1>4. CASE FetchFree \/ Steal \/ Grow
  <2>1. PICK b \in Blocks, x \in Slots :
          /\ EnqueueCopy(b, x) /\ slot'[b] = x
          /\ \A c \in Blocks : c # b => slot'[c] \in {slot[c], NoSlot} /\ slot'[c] # x
    BY <1>4, FetchedApart
  <2> QED
    BY <2>1, ServedAfterCopy
<1>5. CASE Wait
  <2>1. PICK b \in Blocks : b = Head(todo).block
    BY <1>5, TodoTaken DEF PoolInv, Wait, Next1
  <2>2. PICK x \in Kernels : /\ compute' = Append(compute, x) /\ x.slot = NoSlot
                             /\ UNCHANGED <<slot, copies, copying, event, data>>
    <3>1. [block |-> b, slot |-> NoSlot, needs |-> event[b]] \in Kernels
      BY DEF Kernels, StreamsInv, StreamsTyped
    <3> QED
      BY <1>5, <2>1, <3>1 DEF Wait, poolVars
  <2> QED
    BY <2>2, ServedAfterAppend
<1>6. CASE Run
  <2>1. Resident(at) /\ Waited(at) /\ slot[at] \in Slots
    BY <1>6 DEF Run, Ready, Resident, PoolInv, PoolTyped, AtInv
  <2>2. PICK x \in Kernels : /\ compute' = Append(compute, x) /\ x.slot = slot[at] /\ x.block = at
                             /\ UNCHANGED <<slot, copies, copying, event, data>>
    <3>1. [block |-> at, slot |-> slot[at], needs |-> 0] \in Kernels
      BY <2>1 DEF Kernels, AtInv
    <3> QED
      BY <1>6, <3>1 DEF Run, poolVars
  <2>3. slot[x.block] = x.slot /\ Waited(x.block)
    BY <2>1, <2>2
  <2> QED
    BY <2>2, <2>3, ServedAfterAppend
<1>7. CASE Back
  <2>1. saved[at] \in Slots \cup {NoSlot} /\ (Saved(at) => slot[at] = saved[at] /\ Waited(at))
    BY DEF AtInv, StreamsInv, StreamsTyped, SavedInv, SavedKept, SavedWaited, Saved
  <2>2. PICK x \in Kernels : /\ compute' = Append(compute, x) /\ x.slot = saved[at] /\ x.block = at
                             /\ UNCHANGED <<slot, copies, copying, event, data>>
    <3>1. [block |-> at, slot |-> saved[at], needs |-> 0] \in Kernels
      BY <2>1 DEF Kernels, AtInv
    <3> QED
      BY <1>7, <3>1 DEF Back, poolVars
  <2>3. x.slot = NoSlot \/ (slot[x.block] = x.slot /\ Waited(x.block))
    BY <2>1, <2>2 DEF Saved
  <2> QED
    BY <2>2, <2>3, ServedAfterAppend
<1>8. CASE (\E p \in Passes : Begin(p)) \/ BeginBackward \/ Pre \/ Post \/ Bwd \/ Interrupt \/ Reset
  <2>1. UNCHANGED gpuVars /\ slot' = slot
    BY <1>8 DEF Begin, BeginBackward, Pre, Post, Bwd, Interrupt, Reset, poolVars
  <2> QED
    BY <1>1, <2>1
<1>9. CASE Device
  BY <1>9, ServedAfterKernel, ServedAfterStart, ServedAfterFinish DEF Device
<1> QED
  BY <1>2, <1>3, <1>4, <1>5, <1>6, <1>7, <1>8, <1>9 DEF Next, Pool, Hooks

LEMMA SavedWaitedStays ==
  PoolInv /\ PoolInv' /\ AtInv /\ StreamsInv /\ Ready /\ SavedInv /\ SavedWaited /\ [Next]_vars
  => SavedWaited'
<1> SUFFICES ASSUME PoolInv, PoolInv', AtInv, StreamsInv, Ready, SavedInv, SavedWaited, [Next]_vars,
                    NEW b \in Blocks, Saved(b)'
             PROVE  Waited(b)'
  BY DEF SavedWaited
<1>1. Saved(b) => Waited(b) /\ Resident(b)
  BY DEF SavedWaited, SavedInv, SavedKept, Saved, Resident
<1>2. CASE UNCHANGED vars \/ SkipFetch \/ Release
  <2>1. UNCHANGED <<saved, compute, event>>
    BY <1>2 DEF vars, driverVars, gpuVars, SkipFetch, Release
  <2> QED
    BY <1>1, <2>1 DEF Saved, Waited
<1>3. CASE FetchFree \/ Steal \/ Grow
  <2>1. PICK c \in Blocks, x \in Slots : EnqueueCopy(c, x) /\ ~Resident(c)
    BY <1>3, FetchedApart
  <2>2. saved' = saved
    BY <1>3 DEF FetchFree, Steal, Grow, driverVars
  <2>3. Saved(b) /\ b # c
    BY <1>1, <2>1, <2>2 DEF Saved
  <2>4. event'[b] = event[b] /\ compute' = compute
    BY <2>1, <2>3, CopyQueued
  <2> QED
    BY <1>1, <2>3, <2>4 DEF Waited
<1>4. CASE Wait
  <2>1. PICK c \in Blocks : c = Head(todo).block
    BY <1>4, TodoTaken DEF PoolInv, Wait, Next1
  <2>2. [block |-> c, slot |-> NoSlot, needs |-> event[c]] \in Kernels
    BY DEF Kernels, StreamsInv, StreamsTyped
  <2>3. /\ compute' = Append(compute, [block |-> c, slot |-> NoSlot, needs |-> event[c]])
        /\ event' = event /\ saved' = saved
    BY <1>4, <2>1 DEF Wait, driverVars
  <2> QED
    BY <1>1, <2>2, <2>3, WaitedAfterAppend DEF Saved
<1>5. CASE Run
  <2>1. Resident(at) /\ Waited(at) /\ slot[at] \in Slots
    BY <1>5 DEF Run, Ready, Resident, PoolInv, PoolTyped, AtInv
  <2>2. [block |-> at, slot |-> slot[at], needs |-> 0] \in Kernels
    BY <2>1 DEF Kernels, AtInv
  <2>3. /\ compute' = Append(compute, [block |-> at, slot |-> slot[at], needs |-> 0])
        /\ event' = event /\ (saved'[b] = saved[b] \/ b = at)
    BY <1>5 DEF Run
  <2>4. Waited(b)
    BY <1>1, <2>1, <2>3 DEF Saved
  <2> QED
    BY <2>2, <2>3, <2>4, WaitedAfterAppend
<1>6. CASE Back
  <2>1. [block |-> at, slot |-> saved[at], needs |-> 0] \in Kernels
    BY DEF Kernels, AtInv, StreamsInv, StreamsTyped
  <2>2. /\ compute' = Append(compute, [block |-> at, slot |-> saved[at], needs |-> 0])
        /\ event' = event /\ saved' = saved
    BY <1>6 DEF Back
  <2>3. Waited(b)
    BY <1>1, <2>2 DEF Saved
  <2> QED
    BY <2>1, <2>2, <2>3, WaitedAfterAppend
<1>7. CASE (\E p \in Passes : Begin(p)) \/ BeginBackward \/ Pre \/ Post \/ Bwd \/ Interrupt \/ Reset
  <2>1. UNCHANGED <<compute, event>>
    BY <1>7 DEF Begin, BeginBackward, Pre, Post, Bwd, Interrupt, Reset, gpuVars
  <2>2. Saved(b)
    BY <1>7 DEF Begin, BeginBackward, Pre, Post, Bwd, Interrupt, Reset, Saved, StreamsInv, StreamsTyped
  <2> QED
    BY <1>1, <2>1, <2>2 DEF Waited
<1>8. CASE Device
  <2>1. saved' = saved
    BY <1>8 DEF Device, RunKernel, StartCopy, FinishCopy, driverVars
  <2> QED
    BY <1>1, <1>8, <2>1, WaitedThroughDevice DEF Saved
<1> QED
  BY <1>2, <1>3, <1>4, <1>5, <1>6, <1>7, <1>8 DEF Next, Pool, Hooks

LEMMA ReadAlways == ~Nested /\ Spec => []ReadInv
<1>1. ~Nested /\ Init => ReadInv
  <2> SUFFICES ASSUME Init PROVE ReadInv
    OBVIOUS
  <2>1. Len(compute) = 0 /\ compute = <<>>
    BY EmptySeq DEF Init
  <2>2. KernelsServed
    BY <2>1 DEF KernelsServed
  <2>3. Started /\ ResidentServed /\ Ready /\ SavedWaited
    BY SizeAssumption DEF Init, Started, ResidentServed, Resident, Ready, SavedWaited, Saved
  <2> QED
    BY <2>2, <2>3 DEF ReadInv
<1>2. PoolInv /\ PoolInv' /\ AtInv /\ StreamsInv /\ SavedInv /\ ReadInv /\ [Next]_vars => ReadInv'
  BY ServedStays, SavedWaitedStays, ReadyStays DEF ReadInv, SavedInv, Control
<1> QED
  BY <1>1, <1>2, PoolAlways, StreamsAlways, SavedAlways, PTL DEF Spec

\* Every kernel, forward or backward, reads its own block's weights, all of
\* them: the event of prefetch orders it after the copy that brings them,
\* and wait_stream orders every later copy into its slot after it.
THEOREM KernelsReadTheirWeights == ~Nested /\ Spec => []RightWeights
<1>1. StreamsInv /\ ReadInv => RightWeights
  <2> SUFFICES ASSUME StreamsInv, ReadInv,
                      compute # <<>>, Head(compute).slot # NoSlot
               PROVE  data[Head(compute).slot] = Head(compute).block
    BY DEF RightWeights
  <2>1. Head(compute) = compute[1] /\ 1 \in 1..Len(compute)
    BY Beheaded DEF StreamsInv, StreamsTyped
  <2>2. KernelServed(1)
    BY <2>1 DEF ReadInv, KernelsServed
  <2>3. PICK e \in 0..Len(copies) :
          /\ Serves(e, compute[1].block, compute[1].slot)
          /\ e > 0 => \E i \in 1..(1 - 1) : compute[i].needs >= e
    BY <2>2 DEF KernelServed
  <2>4. e = 0
    BY <2>3, StreamElements DEF StreamsInv
  <2> QED
    BY <2>1, <2>3, <2>4 DEF Serves
<1> QED
  BY <1>1, StreamsAlways, ReadAlways, PTL

-----------------------------------------------------------------------------
(* The size of the pool.  It grows only for a block about to run while all *)
(* the other slots of its signature are pending.                           *)

Bounded == \A s \in Sigs : made[s] <= Count(s)

PendingHeld == (\A b \in Blocks : pending[b] => Resident(b)) /\ (step = "post" => Resident(at))

StealsToRun == \A x \in Elements(todo) : x.op = "steal" => step = "run"

\* While nothing was plain or interrupted, the one pending block is that of
\* the recomputed layer, until the release that ends its backward.
Calm ==
  ~disturbed =>
    /\ \A s \in Sigs : made[s] = PoolSize(s)
    /\ pass # "plain" /\ graph # "plain"
    /\ \A b \in Blocks : pending[b] =>
         \/ step \in {"back", "bwd"} /\ b = at
         \/ todo # <<>> /\ Head(todo) = Op("release", b)

SizeInv == Bounded /\ PendingHeld /\ StealsToRun /\ Calm

LEMMA CourseAlways == Spec => [](Course /\ Ready)
<1>1. Init => Course /\ Ready
  BY DEF Init, Course, Ready
<1>2. PoolInv /\ PoolInv' /\ AtInv /\ StreamsInv /\ Course /\ Ready /\ [Next]_vars => (Course /\ Ready)'
  BY CourseStays, ReadyStays
<1> QED
  BY <1>1, <1>2, PoolAlways, StreamsAlways, PTL DEF Spec

LEMMA CountTyped ==
  ASSUME NEW s
  PROVE  Count(s) \in Nat /\ PoolSize(s) \in Nat /\ PoolSize(s) <= Count(s)
         /\ (Count(s) > 0 => PoolSize(s) > 0)
<1>1. {b \in Blocks : sig[b] = s} \in SUBSET Blocks
  OBVIOUS
<1>2. Count(s) \in Nat
  BY <1>1, BlocksFinite DEF Count
<1> QED
  BY <1>2, SizeAssumption DEF PoolSize, Smaller

\* No step of the pool grows it while all is calm.
LEMMA CalmDoesNotGrow ==
  ASSUME PoolInv, StealsToRun, Calm, Grow
  PROVE  disturbed
<1> SUFFICES ASSUME ~disturbed PROVE FALSE
  OBVIOUS
<1>1. PICK b \in Blocks : b = Head(todo).block
  BY TodoTaken DEF PoolInv, Grow, Next1
<1>2. todo # <<>> /\ Head(todo).op = "steal" /\ Head(todo) \in Elements(todo)
  BY TailElements DEF Grow, Next1, PoolInv, PoolTyped
<1>3. ~Resident(b) /\ free[sig[b]] = <<>> /\ Victims(b) = {} /\ sig[b] \in Sigs
  BY <1>1 DEF Grow, PoolInv, PoolTyped
<1>4. \A c \in Blocks : ~pending[c]
  BY <1>2 DEF StealsToRun, Calm, Op
<1>5. Holders(sig[b]) = {}
  BY <1>3, <1>4 DEF Holders, Victims
<1>6. made[sig[b]] = 0
  <2>1. Len(free[sig[b]]) = 0
    BY <1>3, EmptySeq
  <2>2. Cardinality(Holders(sig[b])) = 0
    BY <1>5, FS_EmptySet
  <2> QED
    BY <1>3, <2>1, <2>2 DEF PoolInv, Accounted
<1>7. Count(sig[b]) > 0
  <2>1. {c \in Blocks : sig[c] = sig[b]} \in SUBSET Blocks /\ b \in {c \in Blocks : sig[c] = sig[b]}
    OBVIOUS
  <2>2. Count(sig[b]) # 0 /\ Count(sig[b]) \in Nat
    BY <2>1, BlocksFinite, FS_EmptySet DEF Count
  <2> QED
    BY <2>2
<1> QED
  BY <1>3, <1>6, <1>7, CountTyped DEF Calm

LEMMA CountKept == ASSUME sig' = sig, NEW s PROVE Count(s)' = Count(s) /\ PoolSize(s)' = PoolSize(s)
BY DEF Count, PoolSize

LEMMA SizeThroughPool == PoolInv /\ PoolInv' /\ Course /\ SizeInv /\ Pool => SizeInv'
<1> SUFFICES ASSUME PoolInv, PoolInv', Course, SizeInv, Pool PROVE SizeInv'
  OBVIOUS
<1>1. /\ todo # <<>> /\ todo' = Tail(todo) /\ todo \in Seq(Ops) /\ sig' = sig
      /\ UNCHANGED <<pass, at, step, graph, disturbed>>
  BY DEF Pool, SkipFetch, FetchFree, Steal, Grow, Wait, Release, Next1, driverVars, fixedVars, PoolInv, PoolTyped
<1>2. Head(todo) \in Elements(todo) /\ Elements(todo') \subseteq Elements(todo)
  BY <1>1, TailElements
<1>3. StealsToRun'
  BY <1>1, <1>2 DEF SizeInv, StealsToRun
<1>4. PICK b \in Blocks : b = Head(todo).block
  BY <1>1, TodoTaken DEF PoolInv
<1>5. slot \in [Blocks -> Slots \cup {NoSlot}] /\ pending \in [Blocks -> BOOLEAN] /\ step # "post"
  BY <1>1 DEF PoolInv, PoolTyped, Course
<1>6. Bounded'
  <2>1. CASE Grow
    <3>1. PICK t \in Sigs : t = sig[b] /\ made[t] + 1 <= Count(t)
      BY <1>4, <2>1, RoomToGrow DEF Grow, PoolInv, PoolTyped
    <3>2. made' = [made EXCEPT ![t] = @ + 1]
      BY <1>4, <2>1, <3>1 DEF Grow
    <3>3. \A s \in Sigs : made'[s] <= Count(s)
      BY <3>1, <3>2 DEF SizeInv, Bounded, PoolInv, PoolTyped
    <3> QED
      BY <1>1, <3>3, CountKept DEF Bounded
  <2>2. CASE ~Grow
    <3>1. made' = made
      BY <2>2 DEF Pool, SkipFetch, FetchFree, Steal, Wait, Release, poolVars
    <3> QED
      BY <1>1, <3>1, CountKept DEF SizeInv, Bounded
  <2> QED
    BY <2>1, <2>2
<1>7. PendingHeld' /\ \A c \in Blocks : pending'[c] => pending[c]
  <2> SUFFICES /\ \A c \in Blocks : pending'[c] => pending[c]
               /\ \A c \in Blocks : pending'[c] => Resident(c)'
    BY <1>1, <1>5 DEF PendingHeld
  <2>1. CASE SkipFetch \/ Wait
    BY <2>1 DEF SkipFetch, Wait, poolVars, SizeInv, PendingHeld, Resident
  <2>2. CASE FetchFree \/ Steal \/ Grow
    <3>1. pending' = pending
      BY <2>2 DEF FetchFree, Steal, Grow
    <3>2. ASSUME NEW c \in Blocks, pending[c] PROVE slot'[c] = slot[c]
      <4>1. Resident(c)
        BY <3>2 DEF SizeInv, PendingHeld
      <4>2. c # b
        BY <1>4, <2>2, <4>1 DEF FetchFree, Steal, Grow
      <4>3. CASE FetchFree \/ Grow
        BY <1>4, <1>5, <4>2, <4>3 DEF FetchFree, Grow
      <4>4. CASE Steal
        BY <1>4, <1>5, <3>2, <4>2, <4>4 DEF Steal, Victims, Taken
      <4> QED
        BY <2>2, <4>3, <4>4
    <3> QED
      BY <3>1, <3>2 DEF SizeInv, PendingHeld, Resident
  <2>3. CASE Release
    BY <1>4, <1>5, <2>3 DEF Release, SizeInv, PendingHeld, Resident
  <2> QED
    BY <2>1, <2>2, <2>3 DEF Pool
<1>8. Calm'
  <2> SUFFICES ASSUME ~disturbed PROVE Calm'
    BY <1>1 DEF Calm
  <2>1. ~Grow
    BY CalmDoesNotGrow DEF SizeInv
  <2>2. made' = made
    BY <2>1 DEF Pool, SkipFetch, FetchFree, Steal, Wait, Release, poolVars
  <2>3. \A s \in Sigs : made'[s] = PoolSize(s)'
    BY <1>1, <2>2, CountKept DEF SizeInv, Calm
  <2>4. ASSUME NEW c \in Blocks, pending'[c] PROVE step \in {"back", "bwd"} /\ c = at
    <3>1. \/ step \in {"back", "bwd"} /\ c = at
          \/ Head(todo) = Op("release", c)
      BY <1>7, <2>4 DEF SizeInv, Calm
    <3>2. ASSUME Head(todo) = Op("release", c) PROVE FALSE
      <4>1. c = b /\ Release
        BY <1>4, <3>2 DEF Op, Pool, SkipFetch, FetchFree, Steal, Grow, Wait, Next1
      <4>2. Resident(b)
        BY <1>7, <2>4, <4>1 DEF SizeInv, PendingHeld
      <4> QED
        BY <1>4, <1>5, <2>4, <4>1, <4>2 DEF Release
    <3> QED
      BY <3>1, <3>2
  <2> QED
    BY <1>1, <2>3, <2>4 DEF SizeInv, Calm
<1> QED
  BY <1>3, <1>6, <1>7, <1>8 DEF SizeInv

LEMMA NoSteals ==
  ASSUME AtInv, Post \/ Bwd \/ Reset, NEW x \in Elements(todo')
  PROVE  x.op # "steal"
<1>1. \E p, q \in Seq(Ops) : /\ todo' = p \o q
                             /\ \A y \in Elements(p) : y.op = "release"
                             /\ \A y \in Elements(q) : y.op = "fetch"
  <2>1. CASE Post
    <3> DEFINE keep    == ~KeepsWeights /\ Training /\ at > N - Depth
               release == ~keep /\ ~(KeepsWeights /\ NeedsGrad(at))
               first   == IF release THEN <<Op("release", at)>> ELSE <<>>
               second  == IF pass = "infer" /\ at = N THEN Arm ELSE <<>>
    <3>1. todo' = first \o second
      BY <2>1 DEF Post
    <3>2. first \in Seq(Ops) /\ second \in Seq(Ops)
      BY OpTyped, ArmTyped DEF AtInv
    <3>3. \A y \in Elements(second) : y.op = "fetch"
      BY FewElements, ArmElements
    <3>4. \A y \in Elements(first) : y.op = "release"
      BY FewElements DEF Op
    <3> HIDE DEF first, second
    <3> QED
      BY <3>1, <3>2, <3>3, <3>4
  <2>2. CASE Bwd
    <3> DEFINE first  == <<Op("release", at)>>
               second == IF at = 1 THEN Arm ELSE <<>>
    <3>1. todo' = first \o second
      BY <2>2 DEF Bwd
    <3>2. first \in Seq(Ops) /\ second \in Seq(Ops)
      BY OpTyped, ArmTyped DEF AtInv
    <3>3. \A y \in Elements(second) : y.op = "fetch"
      BY FewElements, ArmElements
    <3>4. \A y \in Elements(first) : y.op = "release"
      BY FewElements DEF Op
    <3> HIDE DEF first, second
    <3> QED
      BY <3>1, <3>2, <3>3, <3>4
  <2>3. CASE Reset
    <3> DEFINE all == [b \in Blocks |-> Op("release", b)]
    <3>1. todo' = all \o Arm
      BY <2>3 DEF Reset
    <3>2. all \in Seq(Ops)
      BY OpTyped, SizeAssumption DEF Blocks
    <3>3. \A y \in Elements(all) : y.op = "release"
      BY DEF Elements, Op
    <3> HIDE DEF all
    <3> QED
      BY <3>1, <3>2, <3>3, ArmTyped, ArmElements
  <2> QED
    BY <2>1, <2>2, <2>3
<1>2. PICK p \in Seq(Ops), q \in Seq(Ops) :
        /\ todo' = p \o q
        /\ \A y \in Elements(p) : y.op = "release"
        /\ \A y \in Elements(q) : y.op = "fetch"
  BY <1>1
<1>3. x \in Elements(p) \cup Elements(q)
  BY <1>2, ConcatElements
<1> QED
  BY <1>2, <1>3

LEMMA BwdReleasesFirst == AtInv /\ Bwd => todo' # <<>> /\ Head(todo') = Op("release", at)
<1> SUFFICES ASSUME AtInv, Bwd PROVE todo' # <<>> /\ Head(todo') = Op("release", at)
  OBVIOUS
<1> DEFINE first  == <<Op("release", at)>>
           second == IF at = 1 THEN Arm ELSE <<>>
<1>1. todo' = first \o second
  BY DEF Bwd
<1>2. first \in Seq(Ops) /\ second \in Seq(Ops) /\ Len(first) = 1 /\ first[1] = Op("release", at)
  BY OpTyped, ArmTyped DEF AtInv
<1> HIDE DEF first, second
<1>3. /\ todo' \in Seq(Ops) /\ Len(todo') = 1 + Len(second) /\ Len(second) \in Nat
      /\ todo'[1] = first[1]
  <2>1. /\ todo' \in Seq(Ops) /\ Len(todo') = Len(first) + Len(second) /\ Len(second) \in Nat
        /\ \A i \in 1..(Len(first) + Len(second)) :
             todo'[i] = IF i <= Len(first) THEN first[i] ELSE second[i - Len(first)]
    BY <1>1, <1>2, ConcatProperties, LenProperties
  <2> QED
    BY <1>2, <2>1
<1>4. todo' # <<>>
  BY <1>3, SeqFacts
<1> QED
  BY <1>2, <1>3, <1>4, Beheaded

LEMMA SizeThroughHooks ==
  PoolInv /\ AtInv /\ Course /\ Ready /\ SizeInv /\ Hooks => SizeInv'
<1> SUFFICES ASSUME PoolInv, AtInv, Course, Ready, SizeInv, Hooks PROVE SizeInv'
  OBVIOUS
<1>1. UNCHANGED <<sig, slot, made>>
  BY TodoOfHooks DEF AtInv
<1>2. Bounded' /\ \A s \in Sigs : PoolSize(s)' = PoolSize(s)
  BY <1>1, CountKept DEF SizeInv, Bounded
<1>3. Elements(<<>>) = {}
  BY FewElements
<1>4. \A b \in Blocks : Resident(b)' = Resident(b)
  BY <1>1 DEF Resident
\* Calm, for the actions that leave the pending blocks.
<1>5. ASSUME pending' = pending, disturbed' <=> disturbed, todo = <<>>, step \notin {"back", "bwd"},
             ~disturbed => pass' # "plain" /\ graph' # "plain"
      PROVE  Calm'
  <2> SUFFICES ASSUME ~disturbed PROVE Calm'
    BY <1>5 DEF Calm
  <2>1. \A s \in Sigs : made'[s] = PoolSize(s)'
    BY <1>1, <1>2 DEF SizeInv, Calm
  <2>2. \A b \in Blocks : ~pending'[b]
    BY <1>5 DEF SizeInv, Calm
  <2> QED
    BY <1>5, <2>1, <2>2 DEF Calm
<1>6. ASSUME NEW p \in Passes, Begin(p) PROVE SizeInv'
  <2>1. /\ todo = <<>> /\ todo' = todo /\ step = "pre" /\ step' = "pre" /\ pending' = pending
        /\ pass' = p /\ graph' = graph /\ disturbed' = (disturbed \/ p = "plain")
    BY <1>6 DEF Begin, Course, poolVars
  <2>2. StealsToRun' /\ PendingHeld'
    BY <1>3, <1>4, <2>1 DEF SizeInv, StealsToRun, PendingHeld
  <2>3. Calm'
    <3>1. CASE p = "plain"
      BY <2>1, <3>1 DEF Calm
    <3>2. CASE p # "plain"
      <4>1. disturbed' <=> disturbed
        BY <2>1, <3>2
      <4>2. ~disturbed => graph # "plain"
        BY DEF SizeInv, Calm
      <4> QED
        BY <1>5, <2>1, <3>2, <4>1, <4>2
    <3> QED
      BY <3>1, <3>2
  <2> QED
    BY <1>2, <2>2, <2>3 DEF SizeInv
<1>7. CASE BeginBackward
  <2>1. /\ todo = <<>> /\ todo' = todo /\ step = "pre" /\ step' \in {"pre", "back"}
        /\ pending' = pending /\ pass' = graph /\ graph' = graph /\ disturbed' = disturbed
    BY <1>7 DEF BeginBackward, Course, poolVars
  <2>2. StealsToRun' /\ PendingHeld'
    BY <1>3, <1>4, <2>1 DEF SizeInv, StealsToRun, PendingHeld
  <2>3. Calm'
    BY <1>5, <2>1 DEF SizeInv, Calm
  <2> QED
    BY <1>2, <2>2, <2>3 DEF SizeInv
<1>8. CASE Pre
  <2>1. /\ todo = <<>> /\ step = "pre" /\ step' = "run"
        /\ UNCHANGED <<pending, pass, graph, disturbed>>
    BY <1>8 DEF Pre, poolVars
  <2>2. StealsToRun' /\ PendingHeld'
    BY <1>4, <2>1 DEF SizeInv, StealsToRun, PendingHeld
  <2>3. Calm'
    BY <1>5, <2>1 DEF SizeInv, Calm
  <2> QED
    BY <1>2, <2>2, <2>3 DEF SizeInv
<1>9. CASE Run
  <2>1. /\ todo = <<>> /\ todo' = todo /\ step = "run" /\ step' = "post"
        /\ UNCHANGED <<pending, pass, at, graph, disturbed>>
    BY <1>9 DEF Run, poolVars
  <2>2. Resident(at)
    BY <2>1 DEF Ready
  <2>3. StealsToRun' /\ PendingHeld'
    BY <1>1, <1>3, <1>4, <2>1, <2>2 DEF SizeInv, StealsToRun, PendingHeld, Resident
  <2>4. Calm'
    BY <1>5, <2>1 DEF SizeInv, Calm
  <2> QED
    BY <1>2, <2>3, <2>4 DEF SizeInv
<1>10. CASE Post
  <2>1. /\ todo = <<>> /\ step = "post" /\ step' # "post" /\ disturbed' = disturbed
        /\ pending' = IF KeepsWeights /\ NeedsGrad(at) THEN [pending EXCEPT ![at] = TRUE] ELSE pending
        /\ \/ sweep = "backward" /\ step' = "back" /\ UNCHANGED <<pass, at, graph>>
           \/ sweep = "forward" /\ UNCHANGED <<pass, graph>>
           \/ /\ sweep = "forward" /\ pass' = "none"
              /\ graph' = IF pass \in {"ckpt", "plain"} THEN pass ELSE graph
    BY <1>10 DEF Post
  <2>2. StealsToRun'
    BY <1>10, NoSteals DEF StealsToRun
  <2>3. PendingHeld'
    <3>1. \A b \in Blocks : pending'[b] => pending[b] \/ b = at
      BY <2>1 DEF Course
    <3> QED
      BY <1>4, <2>1, <3>1 DEF SizeInv, PendingHeld
  <2>4. Calm'
    <3>1. CASE disturbed
      BY <2>1, <3>1 DEF Calm
    <3>2. CASE ~disturbed /\ KeepsWeights /\ NeedsGrad(at)
      <4>1. sweep = "backward" /\ \A b \in Blocks : ~pending[b]
        BY <2>1, <3>2 DEF SizeInv, Calm, KeepsWeights
      <4>2. step' = "back" /\ UNCHANGED <<pass, at, graph>>
        BY <2>1, <4>1
      <4>3. \A b \in Blocks : pending'[b] => b = at
        BY <2>1, <3>2, <4>1 DEF Course
      <4> QED
        BY <1>1, <1>2, <2>1, <3>2, <4>2, <4>3 DEF SizeInv, Calm
    <3>3. CASE ~disturbed /\ ~(KeepsWeights /\ NeedsGrad(at))
      <4>1. pending' = pending
        BY <2>1, <3>3
      <4>2. pass' # "plain" /\ graph' # "plain"
        BY <2>1, <3>3 DEF SizeInv, Calm
      <4> QED
        BY <1>5, <2>1, <4>1, <4>2
    <3> QED
      BY <3>1, <3>2, <3>3
  <2> QED
    BY <1>2, <2>2, <2>3, <2>4 DEF SizeInv
<1>11. CASE Back
  <2>1. /\ todo = <<>> /\ todo' = todo /\ step = "back" /\ step' = "bwd"
        /\ UNCHANGED <<pending, pass, at, graph, disturbed>>
    BY <1>11 DEF Back, poolVars
  <2>2. StealsToRun' /\ PendingHeld'
    BY <1>3, <1>4, <2>1 DEF SizeInv, StealsToRun, PendingHeld
  <2>3. Calm'
    BY <1>1, <1>2, <2>1 DEF SizeInv, Calm
  <2> QED
    BY <1>2, <2>2, <2>3 DEF SizeInv
<1>12. CASE Bwd
  <2>1. /\ todo = <<>> /\ step' # "post" /\ UNCHANGED <<pending, disturbed>>
        /\ UNCHANGED <<pass, graph>> \/ (pass' = "none" /\ graph' = "none")
    BY <1>12 DEF Bwd, poolVars
  <2>2. StealsToRun'
    BY <1>12, NoSteals DEF StealsToRun
  <2>3. PendingHeld'
    BY <1>4, <2>1 DEF SizeInv, PendingHeld
  <2>4. Calm'
    <3> SUFFICES ASSUME ~disturbed PROVE Calm'
      BY <2>1 DEF Calm
    <3>1. \A s \in Sigs : made'[s] = PoolSize(s)'
      BY <1>1, <1>2 DEF SizeInv, Calm
    <3>2. PICK b \in Blocks : b = at
      BY DEF AtInv
    <3>3. todo' # <<>> /\ Head(todo') = Op("release", b)
      BY <1>12, <3>2, BwdReleasesFirst
    <3>4. \A c \in Blocks : pending'[c] => c = b
      BY <2>1, <3>2 DEF SizeInv, Calm
    <3> QED
      BY <2>1, <3>1, <3>3, <3>4 DEF SizeInv, Calm
  <2> QED
    BY <1>2, <2>2, <2>3, <2>4 DEF SizeInv
<1>13. CASE Interrupt
  <2>1. todo' = <<>> /\ step' = "pre" /\ pending' = pending /\ disturbed'
    BY <1>13 DEF Interrupt, poolVars
  <2> QED
    BY <1>2, <1>3, <1>4, <2>1 DEF SizeInv, StealsToRun, PendingHeld, Calm
<1>14. CASE Reset
  <2>1. UNCHANGED <<pending, step, at>> /\ disturbed'
    BY <1>14 DEF Reset, poolVars
  <2>2. StealsToRun'
    BY <1>14, NoSteals DEF StealsToRun
  <2> QED
    BY <1>1, <1>2, <1>4, <2>1, <2>2 DEF SizeInv, PendingHeld, Calm, Resident
<1> QED
  BY <1>6, <1>7, <1>8, <1>9, <1>10, <1>11, <1>12, <1>13, <1>14 DEF Hooks

LEMMA SizeAlways == Spec => []SizeInv
<1>1. Init => SizeInv
  <2> SUFFICES ASSUME Init PROVE SizeInv
    OBVIOUS
  <2>1. \A x \in Elements(todo) : x.op # "steal"
    BY ArmElements DEF Init
  <2>2. \A s \in Sigs : made[s] = PoolSize(s) /\ made[s] <= Count(s)
    BY CountTyped DEF Init
  <2>3. \A b \in Blocks : ~pending[b]
    BY DEF Init
  <2> QED
    BY <2>1, <2>2, <2>3 DEF Init, SizeInv, Bounded, PendingHeld, StealsToRun, Calm
<1>2. PoolInv /\ PoolInv' /\ AtInv /\ Course /\ Ready /\ SizeInv /\ [Next]_vars => SizeInv'
  <2> SUFFICES ASSUME PoolInv, PoolInv', AtInv, Course, Ready, SizeInv, UNCHANGED vars \/ Device
               PROVE  SizeInv'
    BY SizeThroughPool, SizeThroughHooks DEF Next
  <2>1. UNCHANGED <<sig, slot, pending, made, todo, pass, at, step, graph, disturbed>>
    BY DEF vars, poolVars, driverVars, fixedVars, Device, RunKernel, StartCopy, FinishCopy
  <2> QED
    BY <2>1, CountKept DEF SizeInv, Bounded, PendingHeld, StealsToRun, Calm, Resident
<1> QED
  BY <1>1, <1>2, PoolAlways, CourseAlways, PTL DEF Spec

\* The pool never has more slots than blocks of a signature, and until a
\* plain pass, an exception or a reset it keeps the size it was given: with
\* checkpointing only the layer being recomputed is pending, so there is
\* always a slot to steal and device memory stays bounded by the setting.
THEOREM PoolStaysBounded == Spec => []PoolBounded
<1>1. SizeInv => PoolBounded
  BY DEF SizeInv, Bounded, Calm, PoolBounded
<1> QED
  BY <1>1, SizeAlways, PTL
=============================================================================
