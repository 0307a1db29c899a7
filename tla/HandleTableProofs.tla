------------------------- MODULE HandleTableProofs -------------------------
(***************************************************************************)
(* Proofs about HandleTable, for every finite set of descriptors.          *)
(***************************************************************************)
EXTENDS HandleTable, FiniteSetTheorems, TLAPS

(* Slots in the free list and open descriptors add up to the array. *)
Counted == num_handles = Len(free) + Cardinality(openfds)

InUse(i) == handle_is_ok(i, HANDLE_FILE) \/ handle_is_ok(i, HANDLE_DIR)

Inv == TypeOK /\ FreeListExact /\ OneOwner /\ Counted /\ Bounded

(* The array cannot have wrapped while it is no longer than Fds. *)
LEMMA SmallMod ==
    ASSUME NEW a \in Nat, NEW b \in Nat, a < b
    PROVE  a % b = a
  BY Z3

LEMMA NoWrap ==
    ASSUME NEW n \in Nat, n <= Cardinality(Fds)
    PROVE  ~((n + 1) % (UINT_MAX + 1) <= n)
<1>1. Cardinality(Fds) \in Nat /\ INT_MAX \in Nat /\ n <= INT_MAX
  BY FdsAssumption, FS_CardinalityType
<1>2. n + 1 \in Nat /\ UINT_MAX + 1 \in Nat /\ n + 1 < UINT_MAX + 1
  BY <1>1 DEF UINT_MAX
<1>3. (n + 1) % (UINT_MAX + 1) = n + 1
  BY <1>2, SmallMod
<1> QED
  BY <1>3

LEMMA InitInv == Init => Inv
<1> SUFFICES ASSUME Init PROVE Inv
  OBVIOUS
<1> USE FdsAssumption DEF Init
<1>1. TypeOK
  BY DEF TypeOK, Slots
<1>2. FreeListExact
  BY DEF FreeListExact, Slots, Used
<1>3. OneOwner
  BY DEF OneOwner, Slots, Used
<1>4. Cardinality({}) = 0
  BY FS_EmptySet
<1>5. Counted
  BY <1>4 DEF Counted
<1>6. Bounded
  BY FS_CardinalityType, NoWrap DEF Bounded, Overflows
<1> QED
  BY <1>1, <1>2, <1>3, <1>5, <1>6 DEF Inv

(* Adding an element to, or removing one from, a set of open descriptors. *)
LEMMA CountFds ==
    ASSUME NEW S \in SUBSET Fds, NEW fd \in Fds
    PROVE  /\ Cardinality(S) \in Nat
           /\ Cardinality(Fds) \in Nat
           /\ Cardinality(S) <= Cardinality(Fds)
           /\ fd \notin S => Cardinality(S \cup {fd}) = Cardinality(S) + 1
           /\ fd \in S => Cardinality(S \ {fd}) = Cardinality(S) - 1
<1>1. IsFiniteSet(S) /\ IsFiniteSet(Fds)
  BY FdsAssumption, FS_Subset
<1>2. Cardinality(S) \in Nat /\ Cardinality(Fds) \in Nat
  BY <1>1, FS_CardinalityType
<1>3. Cardinality(S) <= Cardinality(Fds)
  BY <1>1, FdsAssumption, FS_Subset
<1>4. fd \notin S => Cardinality(S \cup {fd}) = Cardinality(S) + 1
  BY <1>1, FS_AddElement
<1>5. fd \in S => Cardinality(S \ {fd}) = Cardinality(S) - 1
  BY <1>1, FS_RemoveElement
<1> QED
  BY <1>2, <1>3, <1>4, <1>5

(* Opening into the slot at the head of the free list. *)
LEMMA TakeFreeInv ==
    ASSUME Inv, NEW use \in {HANDLE_FILE, HANDLE_DIR}, NEW name \in Names,
           NEW fd \in Fds \ openfds, first_unused_handle # -1,
           TakeFree(use, name, fd), openfds' = openfds \cup {fd}
    PROVE  Inv'
<1> DEFINE i == first_unused_handle
<1> USE DEF Inv
<1>1. /\ free \in Seq(Slots) /\ Len(free) \in Nat /\ Len(free) > 0
      /\ free[1] = i /\ i \in Slots \ Used
      /\ num_handles \in Nat /\ handles \in [Slots -> Handle]
  BY DEF TypeOK, FreeListExact
<1>2. /\ handles[i] \in Handle /\ handles[i].use = HANDLE_UNUSED
      /\ handles'[i].use = use /\ handles'[i].fd = fd /\ handles'[i].name = name
      /\ handles'[i].next_unused = handles[i].next_unused
      /\ \A j \in Slots \ {i} : handles'[j] = handles[j]
      /\ DOMAIN handles' = Slots
      /\ handles'[i] \in Handle
  BY <1>1 DEF TakeFree, Used, Handle
<1>3. Slots' = Slots /\ num_handles' = num_handles
  BY DEF TakeFree, Slots
<1>4. Used' = Used \cup {i} /\ i \notin Used
  <2>1. use # HANDLE_UNUSED
    BY DEF HANDLE_UNUSED, HANDLE_FILE, HANDLE_DIR
  <2>2. \A j \in Slots : j \in Used' <=> j \in Used \/ j = i
    BY <2>1, <1>1, <1>2, <1>3 DEF Used
  <2>3. Used' \subseteq Slots /\ Used \subseteq Slots
    BY <1>3 DEF Used
  <2> QED
    BY <2>2, <2>3, <1>1
<1>5. /\ free' \in Seq(Slots) /\ Len(free') = Len(free) - 1
      /\ \A k \in 1 .. Len(free') : free'[k] = free[k + 1]
  BY <1>1 DEF TakeFree
<1>6. handles[i].next_unused = IF Len(free) = 1 THEN -1 ELSE free[2]
  <2>1. 1 \in 1 .. Len(free)
    BY <1>1
  <2> QED
    <3>1. handles[free[1]].next_unused = IF 1 = Len(free) THEN -1 ELSE free[1 + 1]
      BY <2>1 DEF FreeListExact
    <3> QED
      BY <3>1, <1>1
<1>7. TypeOK'
  <2>1. handles' \in [Slots -> Handle]
    BY <1>1, <1>2 DEF TakeFree
  <2>2. first_unused_handle' \in Slots \cup {-1}
    <3>1. \A n \in Nat : n > 0 => n = 1 \/ n > 1
      OBVIOUS
    <3>2. Len(free) > 1 => 2 \in 1 .. Len(free)
      BY <1>1
    <3>3. Len(free) > 1 => free[2] \in Slots
      BY <3>2 DEF FreeListExact
    <3> QED
      BY <3>1, <3>3, <1>1, <1>6 DEF TakeFree
  <2> QED
    BY <2>1, <2>2, <1>1, <1>3, <1>5 DEF TypeOK
<1>8. FreeListExact'
  <2>1. {free'[k] : k \in 1 .. Len(free')} = {free[k] : k \in 1 .. Len(free)} \ {i}
    <3>1. \A k \in 2 .. Len(free) : free[k] # i /\ k - 1 \in 1 .. Len(free')
            /\ free'[k - 1] = free[k]
      BY <1>1, <1>5 DEF FreeListExact
    <3> QED
      BY <3>1, <1>1, <1>5, SMTT(30)
  <2>2. {free'[k] : k \in 1 .. Len(free')} = (Slots \ Used)'
    BY <2>1, <1>3, <1>4 DEF FreeListExact
  <2>3. \A k, l \in 1 .. Len(free') : free'[k] = free'[l] => k = l
    BY <1>1, <1>5 DEF FreeListExact
  <2>4. first_unused_handle' = IF free' = << >> THEN -1 ELSE free'[1]
    BY <1>1, <1>5, <1>6 DEF TakeFree
  <2>5. \A k \in 1 .. Len(free') : handles'[free'[k]].next_unused
                                    = IF k = Len(free') THEN -1 ELSE free'[k + 1]
    <3> TAKE k \in 1 .. Len(free')
    <3>1. k + 1 \in 1 .. Len(free) /\ free[k + 1] # i /\ free[k + 1] \in Slots
      BY <1>1, <1>5 DEF FreeListExact
    <3>2. handles[free[k + 1]].next_unused
            = IF k + 1 = Len(free) THEN -1 ELSE free[k + 2]
      BY <3>1 DEF FreeListExact
    <3>3. k # Len(free') => free'[k + 1] = free[k + 2]
      BY <1>5
    <3> QED
      BY <3>1, <3>2, <3>3, <1>1, <1>2, <1>5
  <2> QED
    BY <2>2, <2>3, <2>4, <2>5 DEF FreeListExact
<1>9. OneOwner'
  <2>1. \A j \in Used : handles'[j] = handles[j] /\ handles[j].fd # fd
    BY <1>2, <1>4 DEF OneOwner, Used
  <2>2. {handles'[j].fd : j \in Used'} = {handles[j].fd : j \in Used} \cup {fd}
    BY <2>1, <1>2, <1>4
  <2>3. openfds' = {handles'[j].fd : j \in Used'}
    BY <2>2 DEF OneOwner
  <2>4. \A j, k \in Used' : handles'[j].fd = handles'[k].fd => j = k
    BY <2>1, <1>2, <1>4 DEF OneOwner
  <2> QED
    BY <2>3, <2>4 DEF OneOwner
<1>10. Counted'
  BY <1>1, <1>3, <1>5, CountFds DEF Counted, TypeOK
<1>11. Bounded'
  BY <1>3 DEF Bounded, Overflows, UINT_MAX
<1> QED
  BY <1>7, <1>8, <1>9, <1>10, <1>11

(* Opening into a slot appended to the array. *)
LEMMA GrowInv ==
    ASSUME Inv, NEW use \in {HANDLE_FILE, HANDLE_DIR}, NEW name \in Names,
           NEW fd \in Fds \ openfds, first_unused_handle = -1,
           Grow(use, name, fd), openfds' = openfds \cup {fd}
    PROVE  Inv'
<1> DEFINE n == num_handles
<1> USE DEF Inv
<1>1. n \in Nat /\ handles \in [Slots -> Handle] /\ openfds \in SUBSET Fds
  BY DEF TypeOK
<1>2. free = << >>
  <2>1. free # << >> => free[1] \in Slots
    BY DEF TypeOK
  <2>2. -1 \notin Slots
    BY <1>1 DEF Slots
  <2> QED
    BY <2>1, <2>2 DEF FreeListExact
<1>3. Used = Slots
  BY <1>2 DEF FreeListExact, Used
<1>4. Slots' = Slots \cup {n} /\ n \notin Slots /\ num_handles' = n + 1
  BY <1>1 DEF Grow, Slots
<1>5. /\ DOMAIN handles' = Slots'
      /\ handles'[n] \in Handle
      /\ handles'[n].use = use /\ handles'[n].fd = fd
      /\ handles'[n].name = name
      /\ \A j \in Slots : handles'[j] = handles[j]
  <2>1. handles' = [j \in 0 .. n |->
                      IF j = n THEN [use |-> use, fd |-> fd, name |-> name,
                                     next_unused |-> first_unused_handle]
                               ELSE handles[j]]
    BY DEF Grow
  <2>2. 0 .. n = Slots'
    BY <1>1 DEF Grow, Slots
  <2>3. [use |-> use, fd |-> fd, name |-> name,
         next_unused |-> first_unused_handle] \in Handle
    BY DEF Handle
  <2> QED
    BY <2>1, <2>2, <2>3, <1>1, <1>4
<1>6. handles' \in [Slots' -> Handle]
  <2>1. \A j \in Slots' : handles'[j] \in Handle
    BY <1>1, <1>4, <1>5
  <2>2. handles' = [j \in Slots' |-> handles'[j]]
    BY <1>1, <1>4, <1>5 DEF Grow, Slots
  <2> QED
    BY <2>1, <2>2
<1>7. Used' = Slots' /\ Used' = Used \cup {n} /\ n \notin Used
  <2>1. use # HANDLE_UNUSED
    BY DEF HANDLE_UNUSED, HANDLE_FILE, HANDLE_DIR
  <2>2. \A j \in Slots' : handles'[j].use # HANDLE_UNUSED
    BY <2>1, <1>3, <1>4, <1>5 DEF Used
  <2> QED
    BY <2>2, <1>3, <1>4 DEF Used
<1>8. TypeOK'
  BY <1>1, <1>2, <1>4, <1>6 DEF TypeOK, Grow
<1>9. FreeListExact'
  <2>1. free' = << >> /\ first_unused_handle' = -1
    BY <1>2 DEF Grow
  <2> QED
    BY <2>1, <1>7 DEF FreeListExact
<1>10. OneOwner'
  <2>1. \A j \in Used : handles'[j] = handles[j] /\ handles[j].fd # fd
    BY <1>3, <1>5 DEF OneOwner
  <2>2. {handles'[j].fd : j \in Used'} = {handles[j].fd : j \in Used} \cup {fd}
    BY <2>1, <1>5, <1>7
  <2>3. openfds' = {handles'[j].fd : j \in Used'}
    BY <2>2 DEF OneOwner
  <2>4. \A j, k \in Used' : handles'[j].fd = handles'[k].fd => j = k
    BY <2>1, <1>5, <1>7 DEF OneOwner
  <2> QED
    BY <2>3, <2>4 DEF OneOwner
<1>11. Cardinality(openfds') = Cardinality(openfds) + 1 /\ Cardinality(openfds) \in Nat
  BY <1>1, CountFds
<1>12. Cardinality(openfds) = n
  BY <1>2, <1>11 DEF Counted
<1>13. Counted'
  BY <1>2, <1>4, <1>11, <1>12 DEF Counted, Grow
<1>14. Bounded'
  <2>1. openfds' \in SUBSET Fds
    BY <1>1
  <2>2. num_handles' <= Cardinality(Fds)
    BY <2>1, <1>4, <1>11, <1>12, CountFds
  <2>3. num_handles' \in Nat
    BY <1>1, <1>4
  <2> QED
    BY <2>2, <2>3, NoWrap DEF Bounded, Overflows
<1> QED
  BY <1>8, <1>9, <1>10, <1>13, <1>14

(* Closing a live handle. *)
LEMMA CloseInv ==
    ASSUME Inv, NEW i \in Used, handle_unused(i),
           openfds' = openfds \ {handles[i].fd}
    PROVE  Inv'
<1> USE DEF Inv
<1>1. /\ i \in Slots /\ num_handles \in Nat /\ handles \in [Slots -> Handle]
      /\ openfds \in SUBSET Fds /\ free \in Seq(Slots) /\ Len(free) \in Nat
      /\ handles[i].fd \in openfds
  BY DEF TypeOK, Used, OneOwner
<1>2. Slots' = Slots /\ num_handles' = num_handles
  BY DEF handle_unused, Slots
<1>3. /\ DOMAIN handles' = Slots
      /\ handles'[i] \in Handle
      /\ handles'[i].use = HANDLE_UNUSED
      /\ handles'[i].next_unused = first_unused_handle
      /\ \A j \in Slots \ {i} : handles'[j] = handles[j]
  <2>1. first_unused_handle \in Int
    BY <1>1 DEF TypeOK, Slots
  <2> QED
    BY <2>1, <1>1 DEF handle_unused, Handle
<1>4. Used' = Used \ {i}
  BY <1>1, <1>2, <1>3 DEF Used
<1>5. /\ free' \in Seq(Slots) /\ Len(free') = Len(free) + 1 /\ free'[1] = i
      /\ \A k \in 1 .. Len(free) : free'[k + 1] = free[k]
  BY <1>1 DEF handle_unused
<1>6. \A k \in 1 .. Len(free) : free[k] # i
  BY DEF FreeListExact
<1>7. TypeOK'
  <2>1. handles' \in [Slots -> Handle]
    BY <1>1, <1>3 DEF handle_unused
  <2> QED
    BY <2>1, <1>1, <1>2, <1>5 DEF TypeOK, handle_unused
<1>8. FreeListExact'
  <2>1. {free'[k] : k \in 1 .. Len(free')} = {free[k] : k \in 1 .. Len(free)} \cup {i}
    <3>1. \A k \in 1 .. Len(free') : k = 1 \/ k - 1 \in 1 .. Len(free)
      BY <1>1, <1>5
    <3>2. \A k \in 1 .. Len(free') : free'[k] = i \/ free'[k] \in {free[l] : l \in 1 .. Len(free)}
      <4> TAKE k \in 1 .. Len(free')
      <4>1. CASE k = 1
        BY <4>1, <1>5
      <4>2. CASE k - 1 \in 1 .. Len(free)
        <5>1. free'[(k - 1) + 1] = free[k - 1]
          BY <4>2, <1>5
        <5> QED
          BY <5>1, <4>2
      <4> QED
        BY <4>1, <4>2, <3>1
    <3>3. \A k \in 1 .. Len(free) : k + 1 \in 1 .. Len(free')
      BY <1>1, <1>5
    <3>4. 1 \in 1 .. Len(free')
      BY <1>1, <1>5
    <3> QED
      BY <3>2, <3>3, <3>4, <1>5
  <2>2. {free'[k] : k \in 1 .. Len(free')} = (Slots \ Used)'
    BY <2>1, <1>1, <1>2, <1>4 DEF FreeListExact
  <2>3. \A k, l \in 1 .. Len(free') : free'[k] = free'[l] => k = l
    <3>1. \A k \in 1 .. Len(free') : k = 1 \/ (k - 1 \in 1 .. Len(free) /\ free'[k] = free[k - 1])
      BY <1>1, <1>5
    <3>2. \A k, l \in 1 .. Len(free) : free[k] = free[l] => k = l
      BY DEF FreeListExact
    <3> TAKE k, l \in 1 .. Len(free')
    <3>3. CASE k = 1 /\ l = 1
      BY <3>3
    <3>4. CASE k = 1 /\ l # 1
      BY <3>1, <3>4, <1>5, <1>6
    <3>5. CASE k # 1 /\ l = 1
      BY <3>1, <3>5, <1>5, <1>6
    <3>6. CASE k # 1 /\ l # 1
      <4>1. /\ k - 1 \in 1 .. Len(free) /\ free'[k] = free[k - 1]
            /\ l - 1 \in 1 .. Len(free) /\ free'[l] = free[l - 1]
        BY <3>1, <3>6
      <4>2. free'[k] = free'[l] => k - 1 = l - 1
        BY <4>1, <3>2
      <4> QED
        BY <4>2
    <3> QED
      BY <3>3, <3>4, <3>5, <3>6
  <2>4. first_unused_handle' = IF free' = << >> THEN -1 ELSE free'[1]
    BY <1>1, <1>5 DEF handle_unused
  <2>5. \A k \in 1 .. Len(free') : handles'[free'[k]].next_unused
                                    = IF k = Len(free') THEN -1 ELSE free'[k + 1]
    <3> TAKE k \in 1 .. Len(free')
    <3>1. CASE k = 1
      <4>1. handles'[free'[1]].next_unused = first_unused_handle
        BY <1>3, <1>5
      <4>2. CASE free = << >>
        BY <4>1, <4>2, <3>1, <1>5 DEF FreeListExact
      <4>3. CASE free # << >>
        <5>1. Len(free) \in Nat /\ Len(free) > 0 /\ 1 \in 1 .. Len(free)
          BY <4>3, <1>1
        <5>2. free'[1 + 1] = free[1] /\ first_unused_handle = free[1]
          BY <5>1, <4>3, <1>5 DEF FreeListExact
        <5>3. Len(free') > 1
          BY <5>1, <1>5
        <5> QED
          BY <4>1, <5>2, <5>3, <3>1
      <4> QED
        BY <4>2, <4>3
    <3>2. CASE k > 1
      <4> DEFINE l == k - 1
      <4>1. l \in 1 .. Len(free) /\ k = l + 1
        BY <3>2, <1>1, <1>5
      <4>2. free'[k] = free[l] /\ free[l] # i /\ free[l] \in Slots
        BY <4>1, <1>1, <1>5, <1>6
      <4>3. handles'[free'[k]].next_unused
              = IF l = Len(free) THEN -1 ELSE free[l + 1]
        BY <4>1, <4>2, <1>3 DEF FreeListExact
      <4>4. CASE l = Len(free)
        BY <4>1, <4>3, <4>4, <1>1, <1>5
      <4>5. CASE l < Len(free)
        <5>1. l + 1 \in 1 .. Len(free) /\ k < Len(free')
          BY <4>1, <4>5, <1>1, <1>5
        <5>2. free'[k + 1] = free[k]
          BY <5>1, <4>1, <1>5
        <5> QED
          BY <5>1, <5>2, <4>1, <4>3, <4>5
      <4> QED
        BY <4>1, <4>4, <4>5
    <3> QED
      BY <3>1, <3>2
  <2> QED
    BY <2>2, <2>3, <2>4, <2>5 DEF FreeListExact
<1>9. OneOwner'
  <2>1. \A j \in Used' : handles'[j] = handles[j] /\ handles[j].fd # handles[i].fd
    BY <1>3, <1>4 DEF OneOwner, Used
  <2>2. {handles'[j].fd : j \in Used'} = {handles[j].fd : j \in Used} \ {handles[i].fd}
    BY <2>1, <1>4
  <2>3. openfds' = {handles'[j].fd : j \in Used'}
    BY <2>2 DEF OneOwner
  <2>4. \A j, k \in Used' : handles'[j].fd = handles'[k].fd => j = k
    BY <2>1, <1>4 DEF OneOwner
  <2> QED
    BY <2>3, <2>4 DEF OneOwner
<1>10. Counted'
  <2>1. Cardinality(openfds') = Cardinality(openfds) - 1 /\ Cardinality(openfds) \in Nat
    BY <1>1, CountFds
  <2> QED
    BY <2>1, <1>1, <1>2, <1>5 DEF Counted
<1>11. Bounded'
  BY <1>2 DEF Bounded, Overflows, UINT_MAX
<1> QED
  BY <1>7, <1>8, <1>9, <1>10, <1>11

-----------------------------------------------------------------------------
LEMMA HandleNewInv ==
    ASSUME Inv, NEW use \in {HANDLE_FILE, HANDLE_DIR}, NEW name \in Names,
           NEW fd \in Fds \ openfds, handle_new(use, name, fd)
    PROVE  Inv'
<1>1. ~Overflows
  BY DEF Inv, Bounded
<1>2. CASE first_unused_handle # -1
  <2>1. TakeFree(use, name, fd) /\ openfds' = openfds \cup {fd}
    BY <1>2 DEF handle_new
  <2> QED
    BY <2>1, <1>2, TakeFreeInv
<1>3. CASE first_unused_handle = -1
  <2>1. Grow(use, name, fd) /\ openfds' = openfds \cup {fd}
    BY <1>1, <1>3 DEF handle_new
  <2> QED
    BY <2>1, <1>3, GrowInv
<1> QED
  BY <1>2, <1>3

(* What process_close does to a handle that is in use. *)
LEMMA CloseCases ==
    ASSUME NEW i, process_close(i)
    PROVE  \/ /\ i \in Used /\ handle_unused(i)
              /\ openfds' = openfds \ {handles[i].fd}
           \/ UNCHANGED vars
<1>1. HANDLE_FILE # HANDLE_UNUSED /\ HANDLE_DIR # HANDLE_UNUSED
  BY DEF HANDLE_FILE, HANDLE_DIR, HANDLE_UNUSED
<1> QED
  BY <1>1 DEF process_close, handle_is_ok, Used

LEMMA StutterInv == Inv /\ UNCHANGED vars => Inv'
<1> SUFFICES ASSUME Inv, UNCHANGED vars PROVE Inv'
  OBVIOUS
<1>1. Slots' = Slots
  BY DEF vars, Slots
<1>2. Used' = Used
  BY <1>1 DEF vars, Used
<1>3. TypeOK' /\ Counted'
  BY <1>1 DEF vars, Inv, TypeOK, Counted
<1>4. FreeListExact'
  BY <1>1, <1>2 DEF vars, Inv, FreeListExact
<1>5. OneOwner'
  BY <1>2 DEF vars, Inv, OneOwner
<1>6. Bounded'
  BY DEF vars, Inv, Bounded, Overflows, UINT_MAX
<1> QED
  BY <1>3, <1>4, <1>5, <1>6 DEF Inv

LEMMA NextInv == Inv /\ [Next]_vars => Inv'
<1> SUFFICES ASSUME Inv, [Next]_vars PROVE Inv'
  OBVIOUS
<1>1. ASSUME NEW name \in Names, NEW fd \in Fds, process_open(name, fd)
      PROVE  Inv'
  BY <1>1, HandleNewInv DEF process_open
<1>2. ASSUME NEW name \in Names, NEW fd \in Fds, process_opendir(name, fd)
      PROVE  Inv'
  BY <1>2, HandleNewInv DEF process_opendir
<1>3. ASSUME NEW i \in -1 .. INT_MAX, process_close(i)
      PROVE  Inv'
  BY <1>3, CloseCases, CloseInv, StutterInv
<1>4. CASE UNCHANGED vars
  BY <1>4, StutterInv
<1> QED
  BY <1>1, <1>2, <1>3, <1>4 DEF Next

(* The inductive invariant: the free list, the ownership of descriptors and *)
(* the count that ties the two to the length of the array only hold         *)
(* together.                                                                *)
THEOREM InvHolds == Spec => []Inv
<1>1. Init => Inv
  BY InitInv
<1>2. Inv /\ [Next]_vars => Inv'
  BY NextInv
<1> QED
  BY <1>1, <1>2, PTL DEF Spec

(* The table is always well formed. *)
THEOREM TypeCorrect == Spec => []TypeOK
<1>1. Inv => TypeOK
  BY DEF Inv
<1> QED
  BY <1>1, InvHolds, PTL

(* handle_new and handle_unused keep the list of free slots exact, for any *)
(* number of descriptors and any sequence of requests.                     *)
THEOREM FreeListIsExact == Spec => []FreeListExact
<1>1. Inv => FreeListExact
  BY DEF Inv
<1> QED
  BY <1>1, InvHolds, PTL

(* No descriptor is leaked or shared by process_open, process_opendir and *)
(* handle_close.                                                          *)
THEOREM DescriptorsHaveOneOwner == Spec => []OneOwner
<1>1. Inv => OneOwner
  BY DEF Inv
<1> QED
  BY <1>1, InvHolds, PTL

(* The overflow branch of handle_new is never taken, and the array is no    *)
(* longer than the largest number of descriptors ever open at once.         *)
THEOREM TableIsBounded == Spec => []Bounded
<1>1. Inv => Bounded
  BY DEF Inv
<1> QED
  BY <1>1, InvHolds, PTL

-----------------------------------------------------------------------------
(* How the two forms of handle_new change the set of live handles. *)
LEMMA NewHandle ==
    ASSUME Inv, NEW use \in {HANDLE_FILE, HANDLE_DIR}, NEW name \in Names,
           NEW fd \in Fds \ openfds, handle_new(use, name, fd)
    PROVE  \E i \in Slots' :
              /\ i \notin Used
              /\ Used' = Used \cup {i}
              /\ handles'[i].use = use
              /\ handles'[i].fd = fd
              /\ handles'[i].name = name
              /\ \A j \in Used : handles'[j] = handles[j]
<1>1. ~Overflows /\ num_handles \in Nat /\ handles \in [Slots -> Handle]
  BY DEF Inv, Bounded, TypeOK
<1>2. use # HANDLE_UNUSED
  BY DEF HANDLE_UNUSED, HANDLE_FILE, HANDLE_DIR
<1>3. CASE first_unused_handle # -1
  <2> DEFINE i == first_unused_handle
  <2>1. TakeFree(use, name, fd)
    BY <1>3 DEF handle_new
  <2>2. Slots' = Slots
    BY <2>1 DEF TakeFree, Slots
  <2>3. i \in Slots \ Used
    BY <1>3 DEF Inv, TypeOK, FreeListExact
  <2>4. handles[i] \in Handle
    BY <2>3, <1>1
  <2>5. /\ handles'[i].use = use /\ handles'[i].fd = fd /\ handles'[i].name = name
        /\ \A j \in Slots \ {i} : handles'[j] = handles[j]
    BY <2>1, <2>3, <2>4, <1>1 DEF TakeFree, Handle
  <2>6. Used' = Used \cup {i}
    <3>1. \A j \in Slots : j \in Used' <=> j \in Used \/ j = i
      BY <2>2, <2>3, <2>5, <1>2 DEF Used
    <3> QED
      BY <3>1, <2>2, <2>3 DEF Used
  <2> QED
    BY <2>2, <2>3, <2>5, <2>6 DEF Used
<1>4. CASE first_unused_handle = -1
  <2> DEFINE n == num_handles
  <2>1. Grow(use, name, fd)
    BY <1>1, <1>4 DEF handle_new
  <2>2. Slots' = Slots \cup {n} /\ n \notin Slots
    BY <2>1, <1>1 DEF Grow, Slots
  <2>3. /\ handles'[n].use = use /\ handles'[n].fd = fd /\ handles'[n].name = name
        /\ \A j \in Slots : handles'[j] = handles[j]
    BY <2>1, <1>1 DEF Grow, Slots
  <2>4. Used' = Used \cup {n}
    <3>1. \A j \in Slots' : j \in Used' <=> j \in Used \/ j = n
      BY <2>2, <2>3, <1>2 DEF Used
    <3> QED
      BY <3>1, <2>2 DEF Used
  <2> QED
    BY <2>2, <2>3, <2>4 DEF Used
<1> QED
  BY <1>3, <1>4

LEMMA OpenImplements ==
    ASSUME Inv, NEW use \in {HANDLE_FILE, HANDLE_DIR}, NEW name \in Names,
           NEW fd \in Fds \ openfds, handle_new(use, name, fd)
    PROVE  Promise!Next
<1>1. Inv'
  BY HandleNewInv
<1>2. PICK i \in Slots' :
              /\ i \notin Used
              /\ Used' = Used \cup {i}
              /\ handles'[i].use = use
              /\ handles'[i].fd = fd
              /\ handles'[i].name = name
              /\ \A j \in Used : handles'[j] = handles[j]
  BY NewHandle
<1> DEFINE g == [id |-> i, use |-> use, fd |-> fd, name |-> name]
<1>3. i \in 0 .. Cardinality(Fds) - 1
  <2>1. Cardinality(Fds) \in Nat
    BY CountFds
  <2>2. num_handles' \in Nat /\ num_handles' <= Cardinality(Fds)
    BY <1>1 DEF Inv, TypeOK, Bounded
  <2>3. i \in 0 .. num_handles' - 1
    BY DEF Slots
  <2>4. \A m, n \in Nat : m <= n => 0 .. m - 1 \subseteq 0 .. n - 1
    OBVIOUS
  <2> QED
    BY <2>1, <2>2, <2>3, <2>4
<1>4. g \in Promise!Grants
  <2>1. use \in {"FILE", "DIR"}
    BY DEF HANDLE_FILE, HANDLE_DIR
  <2> QED
    BY <2>1, <1>3 DEF Promise!Grants
<1>5. \A j \in Used : handles[j].fd # fd
  BY DEF Inv, OneOwner
<1>6. \A h \in Live : h.id # g.id /\ h.fd # g.fd
  BY <1>2, <1>5 DEF Live
<1>7. Live' = Live \cup {g}
  BY <1>2 DEF Live
<1>8. Promise!Open(g)
  BY <1>6, <1>7 DEF Promise!Open
<1> QED
  BY <1>4, <1>8 DEF Promise!Next

LEMMA CloseImplements ==
    ASSUME Inv, NEW i \in Used, handle_unused(i)
    PROVE  Promise!Next
<1> DEFINE g == [id |-> i, use |-> handles[i].use, fd |-> handles[i].fd,
                 name |-> handles[i].name]
<1>1. Slots' = Slots
  BY DEF handle_unused, Slots
<1>2. i \in Slots /\ handles \in [Slots -> Handle] /\ handles[i] \in Handle
  BY DEF Inv, TypeOK, Used
<1>3. /\ handles'[i].use = HANDLE_UNUSED
      /\ \A j \in Slots \ {i} : handles'[j] = handles[j]
  BY <1>2 DEF handle_unused, Handle
<1>4. Used' = Used \ {i}
  BY <1>1, <1>2, <1>3 DEF Used
<1>5. g \in Live
  BY DEF Live
<1>6. \A j \in Used' : handles'[j] = handles[j] /\ j \in Used
  BY <1>3, <1>4 DEF Used
<1>7. Live' = Live \ {g}
  <2>1. Live' \subseteq Live \ {g}
    BY <1>4, <1>6 DEF Live
  <2>2. Live \ {g} \subseteq Live'
    BY <1>4, <1>6 DEF Live
  <2> QED
    BY <2>1, <2>2
<1>8. Promise!Close(g)
  BY <1>5, <1>7 DEF Promise!Close
<1> QED
  BY <1>5, <1>8 DEF Promise!Next

(* Every step of the table is a step HandleAlloc allows or leaves the live *)
(* handles alone: the array and its free list implement the promise.       *)
THEOREM Implementation == Spec => ImplementsHandleAlloc
<1>1. Init => Promise!Init
  BY DEF Init, Promise!Init, Live, Used, Slots
<1>2. Inv /\ [Next]_vars => [Promise!Next]_Live
  <2> SUFFICES ASSUME Inv, [Next]_vars PROVE [Promise!Next]_Live
    OBVIOUS
  <2>1. ASSUME NEW name \in Names, NEW fd \in Fds, process_open(name, fd)
        PROVE  Promise!Next
    BY <2>1, OpenImplements DEF process_open
  <2>2. ASSUME NEW name \in Names, NEW fd \in Fds, process_opendir(name, fd)
        PROVE  Promise!Next
    BY <2>2, OpenImplements DEF process_opendir
  <2>3. UNCHANGED vars => UNCHANGED Live
    BY DEF vars, Live, Used, Slots
  <2>4. ASSUME NEW i \in -1 .. INT_MAX, process_close(i)
        PROVE  Promise!Next \/ UNCHANGED Live
    BY <2>3, <2>4, CloseCases, CloseImplements
  <2> QED
    BY <2>1, <2>2, <2>3, <2>4 DEF Next
<1> QED
  BY <1>1, <1>2, InvHolds, PTL DEF Spec, ImplementsHandleAlloc, Promise!Spec
=============================================================================
