-------------------------- MODULE RingQueueProofs --------------------------
(***************************************************************************)
(* The ring buffer keeps its two indices and its count consistent, and     *)
(* implements the bounded sequence of Deque, for every capacity.           *)
(***************************************************************************)
EXTENDS RingQueue, TLAPS

(* What keeps the buffer in order: the types, and that `end' is where the  *)
(* entry after the youngest one goes.                                      *)
RingInv == TypeOK /\ EndAgrees

LEMMA NextPrev ==
  ASSUME NEW i \in Slots
  PROVE  /\ next(i) \in Slots /\ prev(i) \in Slots
         /\ next(i) = IF i = Capacity - 1 THEN 0 ELSE i + 1
         /\ prev(i) = IF i = 0 THEN Capacity - 1 ELSE i - 1
<1>1. i \in Int /\ Capacity \in Int /\ 0 <= i /\ i <= Capacity - 1 /\ Capacity >= 1
  BY RingAssumption DEF Slots
<1>2. next(i) = IF i = Capacity - 1 THEN 0 ELSE i + 1
  BY <1>1 DEF next
<1>3. prev(i) = IF i = 0 THEN Capacity - 1 ELSE i - 1
  BY <1>1 DEF prev
<1> QED BY <1>1, <1>2, <1>3 DEF Slots

LEMMA RingInit == Init => RingInv
  BY RingAssumption DEF Init, RingInv, TypeOK, EndAgrees, Slots

LEMMA RingStep == RingInv /\ [Next]_ringVars => RingInv'
<1> SUFFICES ASSUME RingInv, [Next]_ringVars PROVE RingInv'
  OBVIOUS
<1> USE RingAssumption DEF RingInv, TypeOK, EndAgrees
<1>1. ASSUME NEW value \in Values, queue_push(value) PROVE RingInv'
  <2>1. CASE current_size = Capacity
    BY <1>1, <2>1 DEF queue_push
  <2>2. CASE current_size # Capacity
    <3>1. threads' \in [Slots -> Values]
      BY <1>1, <2>2 DEF queue_push
    <3>2. end' \in Slots /\ end' = IF end = Capacity - 1 THEN 0 ELSE end + 1
      BY <1>1, <2>2, NextPrev DEF queue_push
    <3>3. start' = start /\ current_size' = current_size + 1 /\ ret' = 1
      BY <1>1, <2>2 DEF queue_push
    <3> QED BY <2>2, <3>1, <3>2, <3>3 DEF Slots
  <2> QED BY <2>1, <2>2
<1>2. CASE queue_empty
  BY <1>2 DEF queue_empty
<1>3. CASE queue_pop
  <2>1. start' \in Slots /\ start' = IF start = Capacity - 1 THEN 0 ELSE start + 1
    BY <1>3, NextPrev DEF queue_pop
  <2> QED BY <1>3, <2>1 DEF queue_pop, Slots
<1>4. CASE queue_pop_last
  <2>1. end' \in Slots /\ end' = IF end = 0 THEN Capacity - 1 ELSE end - 1
    BY <1>4, NextPrev DEF queue_pop_last
  <2> QED BY <1>4, <2>1 DEF queue_pop_last, Slots
<1>5. CASE UNCHANGED ringVars
  BY <1>5 DEF ringVars
<1> QED BY <1>1, <1>2, <1>3, <1>4, <1>5 DEF Next

(* The types of the queue and the indices hold in every state: `end' never *)
(* leaves the array, and agrees with start and current_size.               *)
THEOREM RingTypeCorrect == Spec => []TypeOK
<1>1. RingInv => TypeOK
  BY DEF RingInv
<1> QED BY RingInit, RingStep, <1>1, PTL DEF Spec

(* The two indices and the count of the ring buffer agree after any mix of *)
(* queue_push, queue_pop and queue_pop_last, on a queue of any size.       *)
THEOREM RingEndAgrees == Spec => []EndAgrees
<1>1. RingInv => EndAgrees
  BY DEF RingInv
<1> QED BY RingInit, RingStep, <1>1, PTL DEF Spec

------------------------------------------------------------------------------
(* The stored values, oldest first: what the mapping gives for `seq'. *)
Contents == [i \in 1 .. current_size |-> threads[Slot(i)]]

LEMMA SlotType ==
  ASSUME RingInv, NEW i \in 1 .. current_size
  PROVE  Slot(i) \in Slots /\ (current_size # Capacity => Slot(i) # end)
  BY RingAssumption DEF RingInv, TypeOK, EndAgrees, Slot, Slots

LEMMA ContentsType ==
  ASSUME RingInv
  PROVE  Contents \in Seq(Values) /\ Len(Contents) = current_size
  BY SlotType DEF RingInv, TypeOK, Contents

LEMMA PushMaps ==
  ASSUME RingInv, NEW value \in Values, queue_push(value), RingInv'
  PROVE  D!Push(value)
<1> USE RingAssumption
<1>1. CASE current_size = Capacity
  <2>1. UNCHANGED Contents
    BY <1>1 DEF queue_push, Contents, Slot
  <2> QED BY <1>1, <2>1, ContentsType DEF D!Push, queue_push, Contents
<1>2. CASE current_size # Capacity
  <2>1. /\ threads' = [threads EXCEPT ![end] = value] /\ ret' = 1
        /\ start' = start /\ current_size' = current_size + 1
    BY <1>2 DEF queue_push
  <2>2. Slot(current_size + 1) = end /\ end \in Slots
    BY <1>2 DEF RingInv, TypeOK, EndAgrees, Slot, Slots
  <2>3. \A i \in 1 .. current_size' : Slot(i)' = Slot(i)
    BY <2>1 DEF Slot
  <2>4. Contents' = Append(Contents, value)
    <3>1. \A i \in 1 .. current_size : threads'[Slot(i)] = threads[Slot(i)]
      BY <1>2, <2>1, SlotType DEF RingInv, TypeOK
    <3>2. threads'[Slot(current_size + 1)] = value
      BY <2>1, <2>2 DEF RingInv, TypeOK
    <3>3. Contents' = [i \in 1 .. current_size + 1 |-> threads'[Slot(i)]]
      BY <2>1, <2>3 DEF Contents
    <3>4. /\ Append(Contents, value) \in Seq(Values)
          /\ Len(Append(Contents, value)) = current_size + 1
          /\ \A i \in 1 .. current_size : Append(Contents, value)[i] = threads[Slot(i)]
          /\ Append(Contents, value)[current_size + 1] = value
      BY ContentsType DEF Contents, RingInv, TypeOK
    <3>5. Contents' \in Seq(Values) /\ Len(Contents') = current_size + 1
      <4>1. \A i \in 1 .. current_size + 1 : threads'[Slot(i)] \in Values
        BY <3>1, <3>2, SlotType DEF RingInv, TypeOK
      <4>2. current_size + 1 \in Nat
        BY DEF RingInv, TypeOK
      <4> QED BY <3>3, <4>1, <4>2
    <3>6. \A i \in 1 .. current_size + 1 : Contents'[i] = Append(Contents, value)[i]
      BY <3>1, <3>2, <3>3, <3>4 DEF RingInv, TypeOK
    <3> QED BY <3>4, <3>5, <3>6
  <2>5. Len(Contents) < Capacity
    BY <1>2, ContentsType DEF RingInv, TypeOK
  <2> QED BY <2>1, <2>4, <2>5 DEF D!Push, Contents
<1> QED BY <1>1, <1>2

LEMMA PopMaps ==
  ASSUME RingInv, queue_pop
  PROVE  D!PopFirst
<1> USE RingAssumption
<1>1. /\ current_size # 0 /\ threads' = threads /\ current_size' = current_size - 1
      /\ start' = IF start = Capacity - 1 THEN 0 ELSE start + 1
      /\ ret' = threads[start]
  BY NextPrev DEF queue_pop, RingInv, TypeOK
<1>2. Slot(1) = start
  BY DEF Slot, RingInv, TypeOK, Slots
<1>3. \A i \in 1 .. current_size' : Slot(i)' = Slot(i + 1)
  BY <1>1 DEF Slot, RingInv, TypeOK, Slots
<1>4. Contents' = [i \in 1 .. current_size - 1 |-> threads[Slot(i + 1)]]
  BY <1>1, <1>3 DEF Contents
<1>5. Contents' = Tail(Contents)
  <2>1. Contents \in Seq(Values) /\ Contents # <<>> /\ Len(Contents) = current_size
        /\ current_size \in Nat \ {0}
    BY <1>1, ContentsType DEF RingInv, TypeOK
  <2>2. /\ Tail(Contents) \in Seq(Values)
        /\ Len(Tail(Contents)) = current_size - 1
        /\ \A i \in 1 .. current_size - 1 : Tail(Contents)[i] = Contents[i + 1]
    BY <2>1
  <2>3. \A i \in 1 .. current_size - 1 : Contents[i + 1] = threads[Slot(i + 1)]
    BY DEF Contents, RingInv, TypeOK
  <2>4. /\ Contents' \in Seq(Values)
        /\ Len(Contents') = current_size - 1
        /\ \A i \in 1 .. current_size - 1 : Contents'[i] = Contents[i + 1]
    <3>1. \A i \in 1 .. current_size - 1 : threads[Slot(i + 1)] \in Values
      BY <2>1, <2>3
    <3> QED BY <1>4, <2>1, <2>3, <3>1
  <2> QED BY <2>2, <2>4
<1>6. Contents # <<>> /\ Contents[1] = threads[start]
  BY <1>1, <1>2, ContentsType DEF Contents, RingInv, TypeOK
<1> QED BY <1>1, <1>5, <1>6 DEF D!PopFirst, Contents

LEMMA PopLastMaps ==
  ASSUME RingInv, queue_pop_last
  PROVE  D!PopLast
<1> USE RingAssumption
<1>1. /\ current_size # 0 /\ threads' = threads /\ current_size' = current_size - 1
      /\ start' = start
      /\ end' = IF end = 0 THEN Capacity - 1 ELSE end - 1
      /\ ret' = threads[end']
  BY NextPrev DEF queue_pop_last, RingInv, TypeOK
<1>2. Slot(current_size) = end'
  BY <1>1 DEF Slot, RingInv, TypeOK, EndAgrees, Slots
<1>3. Contents' = [i \in 1 .. current_size - 1 |-> threads[Slot(i)]]
  BY <1>1 DEF Contents, Slot
<1>4. Contents' = SubSeq(Contents, 1, Len(Contents) - 1)
  <2>1. SubSeq(Contents, 1, Len(Contents) - 1) = [i \in 1 .. current_size - 1 |-> Contents[i]]
    BY <1>1, ContentsType DEF RingInv, TypeOK
  <2>2. \A i \in 1 .. current_size - 1 : Contents[i] = threads[Slot(i)]
    BY DEF Contents, RingInv, TypeOK
  <2> QED BY <1>3, <2>1, <2>2
<1>5. Contents # <<>> /\ Contents[Len(Contents)] = threads[end']
  BY <1>1, <1>2, ContentsType DEF Contents, RingInv, TypeOK
<1> QED BY <1>1, <1>4, <1>5 DEF D!PopLast, Contents

LEMMA EmptyMaps ==
  ASSUME RingInv, queue_empty
  PROVE  D!PopEmpty
<1>1. Contents = <<>>
  BY ContentsType DEF queue_empty
<1>2. UNCHANGED Contents
  BY DEF queue_empty, Contents, Slot
<1> QED BY <1>1, <1>2 DEF D!PopEmpty, queue_empty, Contents

(* Every step of the ring buffer is a step of the bounded sequence: a      *)
(* value that was pushed comes out once, in order, from the end it is      *)
(* taken from, and a push on a full queue changes nothing.                 *)
THEOREM RingImplements == Spec => Implements
<1>1. Init => D!Init
  <2> SUFFICES ASSUME Init PROVE D!Init
    OBVIOUS
  <2>1. Contents = <<>>
    BY DEF Init, Contents
  <2> QED BY <2>1 DEF Init, D!Init, Contents
<1>2. RingInv /\ RingInv' /\ [Next]_ringVars => [D!Next]_(D!dequeVars)
  <2> SUFFICES ASSUME RingInv, RingInv', [Next]_ringVars PROVE [D!Next]_(D!dequeVars)
    OBVIOUS
  <2>1. CASE \E value \in Values : queue_push(value)
    BY <2>1, PushMaps DEF D!Next
  <2>2. CASE queue_empty
    BY <2>2, EmptyMaps DEF D!Next
  <2>3. CASE queue_pop
    BY <2>3, PopMaps DEF D!Next
  <2>4. CASE queue_pop_last
    BY <2>4, PopLastMaps DEF D!Next
  <2>5. CASE UNCHANGED ringVars
    BY <2>5 DEF ringVars, D!dequeVars, Slot
  <2> QED BY <2>1, <2>2, <2>3, <2>4, <2>5 DEF Next
<1> QED BY RingInit, RingStep, <1>1, <1>2, PTL DEF Spec, Implements, D!Spec
============================================================================
