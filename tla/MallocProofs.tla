---------------------------- MODULE MallocProofs ----------------------------
(***************************************************************************)
(* Proofs about Malloc369, for any number of threads, calls and            *)
(* interruptions.                                                          *)
(***************************************************************************)
EXTENDS Malloc369, HashProofs

------------------------------------------------------------------------------
(* The threads whose call has not been counted yet: in free369 the counter *)
(* is reached only past the look-up and the first assertion.               *)
FreeLabels == {"get", "in_get", "size", "value", "element", "load_mallocs", "assert_frees",
               "num_frees"}
Mallocing == {t \in Threads : pc[t] = "num_mallocs"}
Freeing == {t \in Threads : pc[t] \in FreeLabels}

(* Where a thread holds what it has loaded, but for the copy of a counter  *)
(* that it is to store. *)
RegLabels == {"element", "set_element", "assert_frees", "assert_bytes", "mark_load",
              "mark_again", "mark_store"}

(* Counter c and the loaded copies of it leave room for the calls under    *)
(* way, the threads of P.                                                  *)
Leaves(c, P, calls) ==
  /\ IsFiniteSet(P)
  /\ counter[c] \in Nat /\ calls \in Nat
  /\ counter[c] + Cardinality(P) <= calls
  /\ \A t \in P : pc[t] = c /\ reg[t] # None => reg[t] \in Nat /\ reg[t] + Cardinality(P) <= calls

(* At most one malloc369 more is missing than there were interruptions, and*)
(* that only while one is to be counted.                                   *)
Missing ==
  /\ interrupts \in Nat
  /\ counter["num_mallocs"] + (IF Mallocing = {} THEN 0 ELSE 1) >= mallocs - interrupts
  /\ \A t \in Mallocing : reg[t] # None => reg[t] + 1 >= mallocs - interrupts

Counting ==
  /\ DOMAIN counter = Counters /\ DOMAIN pc = Threads /\ DOMAIN reg = Threads
  /\ \A t \in Threads : reg[t] # None => pc[t] \in Counters \cup RegLabels
  /\ Leaves("num_mallocs", Mallocing, mallocs)
  /\ Leaves("num_frees", Freeing, frees)
  /\ Missing

(* A step of thread t that counts nothing. *)
Moves(t) ==
  /\ counter' = counter /\ mallocs' = mallocs /\ frees' = frees /\ interrupts' = interrupts
  /\ \/ pc' = pc /\ reg' = reg
     \/ /\ pc[t] \notin Counters
        /\ reg' = reg \/ \E v : reg' = [reg EXCEPT ![t] = v]
        /\ \E l : /\ pc' = [pc EXCEPT ![t] = l]
                  /\ l # "num_mallocs" /\ (l \in FreeLabels => pc[t] \in FreeLabels)
                  /\ reg'[t] # None => l \in RegLabels

LEMMA QuietSteps ==
  ASSUME Counting, NEW t \in Threads,
         \/ malloc(t) \/ malloc_returns(t) \/ kh_put(t) \/ kh_resize(t) \/ kh_put_returns(t)
         \/ set_size(t) \/ get(t) \/ get_returns(t) \/ find(t) \/ get_size(t)
         \/ load_minuend(t) \/ asserts(t)
         \/ fill_and_free(t) \/ free_returns(t) \/ mark_load(t) \/ mark_freed(t)
         \/ load_vals(t) \/ stale_vals(t) \/ clash(t)
  PROVE  Moves(t)
<1> DEFINE Same == /\ counter' = counter /\ mallocs' = mallocs /\ frees' = frees
                   /\ interrupts' = interrupts
<1>1. /\ DOMAIN pc = Threads /\ DOMAIN reg = Threads
      /\ reg[t] # None => pc[t] \in Counters \cup RegLabels
  BY DEF Counting
<1>2. ASSUME NEW how, Stop(how) PROVE Moves(t)
  BY <1>2 DEF Stop, locals, Moves
<1>3. ASSUME NEW from, NEW l, pc[t] = from, pc' = [pc EXCEPT ![t] = l], Same, reg' = reg,
             from \notin Counters, from \in RegLabels => l \in RegLabels,
             l # "num_mallocs", l \in FreeLabels => from \in FreeLabels
      PROVE  Moves(t)
  BY <1>1, <1>3 DEF Moves
<1>4. ASSUME NEW from, NEW l, NEW v, pc[t] = from, pc' = [pc EXCEPT ![t] = l], Same,
             reg' = [reg EXCEPT ![t] = v],
             from \notin Counters, v = None \/ l \in RegLabels,
             l # "num_mallocs", l \in FreeLabels => from \in FreeLabels
      PROVE  Moves(t)
  BY <1>1, <1>4 DEF Moves
<1>5. CASE malloc(t) \/ get(t) \/ get_returns(t) \/ kh_put_returns(t) \/ mark_load(t)
  BY <1>3, <1>5 DEF malloc, get, get_returns, kh_put_returns, mark_load, At, Goto, Set,
                    Counters, FreeLabels, RegLabels
<1>6. CASE malloc_returns(t)
  <2>1. CASE ~ Stop("exit")
    <3>1. pc[t] = "in_malloc" /\ pc' = [pc EXCEPT ![t] = "kh_put"] /\ Same /\ reg' = reg
      BY <1>6, <2>1 DEF malloc_returns, At, Goto, Set
    <3>2. /\ "in_malloc" \notin Counters /\ "in_malloc" \notin RegLabels
          /\ "kh_put" # "num_mallocs" /\ "kh_put" \notin FreeLabels
      BY DEF Counters, FreeLabels, RegLabels
    <3> QED BY <1>3, <3>1, <3>2
  <2> QED BY <1>2, <2>1
<1>7. CASE kh_put(t)
  <2>1. /\ pc[t] = "kh_put" /\ Same /\ reg' = reg
        /\ pc' = [pc EXCEPT ![t] = IF Full THEN "resize" ELSE "insert"]
    BY <1>7 DEF kh_put, At, Goto, Set
  <2> QED BY <1>3, <2>1 DEF Counters, FreeLabels, RegLabels
<1>8. CASE kh_resize(t)
  <2>1. CASE ~ Stop("put failed")
    <3>1. /\ pc[t] \in {"resize", "rehash", "kfree"} /\ Same /\ reg' = reg
          /\ \E l \in {"rehash", "kfree", "insert"} : pc' = [pc EXCEPT ![t] = l]
      BY <1>8, <2>1 DEF kh_resize, At, Goto, Set
    <3> QED BY <1>3, <3>1 DEF Counters, FreeLabels, RegLabels
  <2> QED BY <1>2, <2>1
<1>9. CASE Leave(t) /\ Same /\ pc[t] \notin Counters
  <2>1. pc' = [pc EXCEPT ![t] = "idle"] /\ reg' = [reg EXCEPT ![t] = None]
    BY <1>9 DEF Leave, Goto, Set
  <2>2. "idle" # "num_mallocs" /\ "idle" \notin FreeLabels
    BY DEF FreeLabels
  <2> QED BY <1>4, <1>9, <2>1, <2>2
<1>10. CASE set_size(t) \/ mark_freed(t)
  BY <1>9, <1>10 DEF set_size, mark_freed, At, Leave, Goto, Counters
<1>11. CASE find(t)
  <2>1. /\ pc[t] = "size" /\ Same /\ reg' = reg
        /\ pc' = [pc EXCEPT ![t] = IF k[t] = n_buckets THEN "free_only" ELSE "value"]
    BY <1>11 DEF find, At, Goto, Set
  <2> QED BY <1>3, <2>1 DEF Counters, FreeLabels, RegLabels
<1>12. CASE get_size(t)
  <2>1. CASE ~ Stop("undefined")
    <3>1. /\ pc[t] = "element" /\ Same /\ reg' = [reg EXCEPT ![t] = None]
          /\ \E l \in {"free_only", "load_mallocs"} : pc' = [pc EXCEPT ![t] = l]
      BY <1>12, <2>1 DEF get_size, At, Goto, Set
    <3> QED BY <1>4, <3>1 DEF Counters, FreeLabels
  <2> QED BY <1>2, <2>1
<1>13. CASE load_minuend(t)
  <2>1. PICK a \in {"load_mallocs", "load_bytes"} :
          /\ pc[t] = a /\ Same /\ reg' = [reg EXCEPT ![t] = counter[Minuend(a)]]
          /\ pc' = [pc EXCEPT ![t] = IF a = "load_mallocs" THEN "assert_frees" ELSE "assert_bytes"]
    BY <1>13 DEF load_minuend, At, Goto, Set
  <2> QED BY <1>4, <2>1 DEF Counters, FreeLabels, RegLabels
<1>14. CASE asserts(t)
  <2>1. CASE ~ Stop("assert")
    <3>1. PICK a \in {"assert_frees", "assert_bytes"} :
            /\ pc[t] = a /\ Same /\ reg' = [reg EXCEPT ![t] = None]
            /\ pc' = [pc EXCEPT ![t] = IF a = "assert_frees" THEN "num_frees" ELSE "bytes_freed"]
      BY <1>14, <2>1 DEF asserts, At, Goto, Set
    <3> QED BY <1>4, <3>1 DEF Counters, FreeLabels
  <2> QED BY <1>2, <2>1
<1>15. CASE fill_and_free(t)
  <2>1. CASE ~ Stop("undefined")
    <3>1. /\ pc[t] \in {"fill", "free_only"} /\ Same /\ reg' = reg
          /\ \E l \in {"in_free", "in_free_only"} : pc' = [pc EXCEPT ![t] = l]
      BY <1>15, <2>1 DEF fill_and_free, At, Goto, Set
    <3> QED BY <1>3, <3>1 DEF Counters, FreeLabels, RegLabels
  <2> QED BY <1>2, <2>1
<1>16. CASE free_returns(t)
  <2>1. CASE Leave(t)
    BY <1>9, <1>16, <2>1 DEF free_returns, At, Leave, Goto, Counters
  <2>2. CASE ~ Leave(t)
    <3>1. pc[t] = "in_free" /\ pc' = [pc EXCEPT ![t] = "mark"] /\ Same /\ reg' = reg
      BY <1>16, <2>2 DEF free_returns, At, Goto, Set
    <3> QED BY <1>3, <3>1 DEF Counters, FreeLabels, RegLabels
  <2> QED BY <2>1, <2>2
<1>17. CASE load_vals(t)
  <2>1. PICK l \in {"set_value", "value", "mark", "mark_again"} :
          /\ pc[t] = l /\ Same /\ reg' = [reg EXCEPT ![t] = vals_length]
          /\ pc' = [pc EXCEPT ![t] = AfterVals(l)]
    BY <1>17 DEF load_vals, At, Goto, Set
  <2>2. /\ AfterVals(l) \in RegLabels /\ AfterVals(l) # "num_mallocs" /\ l \notin Counters
        /\ AfterVals(l) \in FreeLabels => l \in FreeLabels
    BY DEF AfterVals, RegLabels, FreeLabels, Counters
  <2> QED BY <1>4, <2>1, <2>2
<1>18. CASE stale_vals(t) \/ clash(t)
  BY <1>2, <1>18 DEF stale_vals, clash
<1> QED BY <1>5, <1>6, <1>7, <1>8, <1>10, <1>11, <1>12, <1>13, <1>14, <1>15, <1>16, <1>17, <1>18

LEMMA InitCounting == Init => Counting
<1> SUFFICES ASSUME Init PROVE Counting
  OBVIOUS
<1>1. Mallocing = {} /\ Freeing = {}
  BY DEF Init, Mallocing, Freeing, FreeLabels
<1>2. IsFiniteSet({}) /\ Cardinality({}) = 0
  BY FS_EmptySet
<1>3. counter["num_mallocs"] = 0 /\ counter["num_frees"] = 0
  BY DEF Init, Counters
<1> QED BY <1>1, <1>2, <1>3 DEF Init, Counting, Leaves, Missing

(* Fewer calls under way leave more room, and so does one more call with   *)
(* its own place.                                                          *)
LEMMA LeavesAfter ==
  ASSUME NEW c, NEW P, NEW Q \in SUBSET P, NEW calls, Leaves(c, P, calls),
         counter'[c] = counter[c],
         \A u \in Q : pc'[u] = c /\ reg'[u] # None => pc[u] = c /\ reg'[u] = reg[u]
  PROVE  /\ IsFiniteSet(Q)
         /\ counter'[c] \in Nat
         /\ counter'[c] + Cardinality(Q) <= calls
         /\ \A u \in Q : pc'[u] = c /\ reg'[u] # None => reg'[u] \in Nat /\ reg'[u] + Cardinality(Q) <= calls
<1>1. IsFiniteSet(Q) /\ Cardinality(Q) <= Cardinality(P)
  BY FS_Subset DEF Leaves
<1>2. Cardinality(P) \in Nat /\ Cardinality(Q) \in Nat
  BY <1>1, FS_CardinalityType DEF Leaves
<1> QED BY <1>1, <1>2 DEF Leaves

LEMMA MovesCounting ==
  ASSUME Counting, NEW t \in Threads, Moves(t)
  PROVE  Counting'
<1>1. Mallocing' = Mallocing /\ Freeing' \subseteq Freeing
  BY DEF Counting, Moves, Mallocing, Freeing, Counters, FreeLabels
<1>2. /\ DOMAIN counter' = Counters /\ DOMAIN pc' = Threads /\ DOMAIN reg' = Threads
      /\ counter' = counter /\ mallocs' = mallocs /\ frees' = frees /\ interrupts' = interrupts
  BY DEF Counting, Moves
<1>3. \A u \in Threads : reg'[u] # None =>
        /\ pc'[u] \in Counters \cup RegLabels
        /\ pc'[u] \in Counters => reg'[u] = reg[u] /\ pc'[u] = pc[u]
  <2>1. Counters \cap RegLabels = {}
    BY DEF Counters, RegLabels
  <2> QED BY <2>1 DEF Counting, Moves
<1> "num_mallocs" \in Counters /\ "num_frees" \in Counters
  BY DEF Counters
<1>4. Leaves("num_mallocs", Mallocing, mallocs)'
  BY <1>1, <1>2, <1>3, LeavesAfter DEF Counting, Leaves, Mallocing
<1>5. Leaves("num_frees", Freeing, frees)'
  <2>1. \A u \in Freeing' : pc'[u] = "num_frees" /\ reg'[u] # None => pc[u] = "num_frees" /\ reg'[u] = reg[u]
    BY <1>3 DEF Freeing
  <2>2. Leaves("num_frees", Freeing, frees)
    BY DEF Counting
  <2> QED BY <1>1, <1>2, <2>1, <2>2, LeavesAfter DEF Leaves
<1>6. Missing'
  BY <1>1, <1>2, <1>3 DEF Counting, Missing, Mallocing
<1> QED BY <1>2, <1>3, <1>4, <1>5, <1>6 DEF Counting

LEMMA EnterCounting ==
  ASSUME Counting, NEW t \in Threads, malloc369(t) \/ free369(t)
  PROVE  Counting'
<1>1. pc[t] = "idle" /\ reg[t] = None /\ t \notin Mallocing /\ t \notin Freeing
  BY DEF Counting, malloc369, free369, At, Mallocing, Freeing, FreeLabels, RegLabels, Counters
<1>2. /\ counter' = counter /\ reg' = reg /\ DOMAIN pc' = Threads
      /\ \A u \in Threads : pc'[u] # pc[u] => u = t
      /\ interrupts' \in Nat /\ interrupts' >= interrupts
      /\ (\E u \in Threads \ {t} : pc[u] # "idle") => interrupts' = interrupts + 1
  BY DEF Counting, Missing, malloc369, free369, Enter, Set
<1>3. \A u \in Threads : reg'[u] # None =>
        pc'[u] = pc[u] /\ reg'[u] = reg[u] /\ pc[u] \in Counters \cup RegLabels
  BY <1>1, <1>2 DEF Counting
<1>4. /\ counter["num_mallocs"] \in Nat /\ counter["num_frees"] \in Nat
      /\ mallocs \in Nat /\ frees \in Nat /\ interrupts \in Nat
  BY DEF Counting, Leaves, Missing
<1>5. Leaves("num_mallocs", Mallocing, mallocs) /\ Leaves("num_frees", Freeing, frees)
  BY DEF Counting
<1>6. IsFiniteSet(Mallocing) /\ IsFiniteSet(Freeing)
      /\ Cardinality(Mallocing) \in Nat /\ Cardinality(Freeing) \in Nat
  BY <1>5, FS_CardinalityType DEF Leaves
<1>7. CASE malloc369(t)
  <2>1. mallocs' = mallocs + 1 /\ frees' = frees /\ pc' = [pc EXCEPT ![t] = "num_mallocs"]
    BY <1>7 DEF malloc369, Enter, Set
  <2>2. Mallocing' = Mallocing \cup {t} /\ Freeing' = Freeing
    BY <1>1, <2>1 DEF Mallocing, Freeing, FreeLabels, Counting
  <2>3. IsFiniteSet(Mallocing') /\ Cardinality(Mallocing') = Cardinality(Mallocing) + 1
    BY <1>1, <1>6, <2>2, FS_AddElement
  <2>4. Leaves("num_mallocs", Mallocing, mallocs)'
    <3>1. \A u \in Mallocing' : reg'[u] # None => u \in Mallocing /\ reg'[u] = reg[u] /\ pc'[u] = pc[u]
      BY <1>1, <1>2, <1>3, <2>2 DEF Mallocing
    <3> QED BY <1>2, <1>4, <1>5, <1>6, <2>1, <2>3, <3>1 DEF Leaves
  <2>5. Leaves("num_frees", Freeing, frees)'
    BY <1>2, <1>3, <1>5, <2>1, <2>2 DEF Leaves, Freeing
  <2>6. Mallocing # {} => interrupts' = interrupts + 1
    BY <1>1, <1>2 DEF Mallocing
  <2>7. Missing'
    <3>1. counter'["num_mallocs"] + (IF Mallocing' = {} THEN 0 ELSE 1) >= mallocs' - interrupts'
      BY <1>2, <1>4, <2>1, <2>2, <2>6 DEF Missing, Counting
    <3>2. \A u \in Mallocing' : reg'[u] # None => reg'[u] + 1 >= mallocs' - interrupts'
      <4> SUFFICES ASSUME NEW u \in Mallocing, reg[u] # None
                   PROVE  reg[u] + 1 >= mallocs' - interrupts'
        BY <1>1, <1>2, <2>2
      <4>1. reg[u] \in Nat /\ reg[u] + 1 >= mallocs - interrupts
        BY <1>5 DEF Leaves, Mallocing, Missing, Counting
      <4> QED BY <1>2, <1>4, <2>1, <2>6, <4>1
    <3> QED BY <1>2, <3>1, <3>2 DEF Missing
  <2> QED BY <1>2, <1>3, <2>4, <2>5, <2>7 DEF Counting
<1>8. CASE free369(t)
  <2>1. mallocs' = mallocs /\ frees' = frees + 1 /\ pc' = [pc EXCEPT ![t] = "get"]
    BY <1>8 DEF free369, Enter, Set
  <2>2. Mallocing' = Mallocing /\ Freeing' = Freeing \cup {t}
    BY <1>1, <2>1 DEF Mallocing, Freeing, FreeLabels, Counting
  <2>3. IsFiniteSet(Freeing') /\ Cardinality(Freeing') = Cardinality(Freeing) + 1
    BY <1>1, <1>6, <2>2, FS_AddElement
  <2>4. Leaves("num_mallocs", Mallocing, mallocs)'
    BY <1>2, <1>3, <1>5, <2>1, <2>2 DEF Leaves, Mallocing
  <2>5. Leaves("num_frees", Freeing, frees)'
    <3>1. \A u \in Freeing' : reg'[u] # None => u \in Freeing /\ reg'[u] = reg[u] /\ pc'[u] = pc[u]
      BY <1>1, <1>2, <1>3, <2>2 DEF Freeing
    <3> QED BY <1>2, <1>4, <1>5, <1>6, <2>1, <2>3, <3>1 DEF Leaves
  <2>6. Missing'
    BY <1>2, <1>3, <1>4, <1>5, <2>1, <2>2 DEF Missing, Counting, Leaves, Mallocing
  <2> QED BY <1>2, <1>3, <2>4, <2>5, <2>6 DEF Counting
<1> QED BY <1>7, <1>8

LEMMA LoadCounting ==
  ASSUME Counting, NEW t \in Threads, load(t)
  PROVE  Counting'
<1>1. PICK c \in Counters : /\ pc[t] = c /\ reg[t] = None
                            /\ reg' = [reg EXCEPT ![t] = counter[c]]
                            /\ pc' = [pc EXCEPT ![t] = c]
  BY DEF load, At, Goto, Set
<1>2. DOMAIN pc' = Threads /\ DOMAIN reg' = Threads /\ \A u \in Threads : pc'[u] = pc[u]
  BY <1>1 DEF Counting
<1>3. UNCHANGED <<counter, mallocs, frees, interrupts, Mallocing, Freeing>>
  BY <1>2 DEF load, Goto, Mallocing, Freeing
<1>4. \A u \in Threads : pc[u] = c \/ reg'[u] = reg[u]
  BY <1>1 DEF Counting
<1>5. \A u \in Threads : reg'[u] = reg[u] \/ reg'[u] = counter[pc[u]]
  BY <1>1 DEF Counting
<1>6. Leaves("num_mallocs", Mallocing, mallocs)' /\ Leaves("num_frees", Freeing, frees)'
  BY <1>2, <1>3, <1>5 DEF Counting, Leaves, Mallocing, Freeing
<1>7. Missing'
  BY <1>2, <1>3, <1>5 DEF Counting, Missing, Mallocing
<1>8. \A u \in Threads : reg'[u] # None => pc'[u] \in Counters \cup RegLabels
  BY <1>1, <1>2 DEF Counting
<1> QED BY <1>2, <1>3, <1>6, <1>7, <1>8 DEF Counting

LEMMA StoreCounting ==
  ASSUME Counting, NEW t \in Threads, store(t)
  PROVE  Counting'
<1>1. PICK c \in Counters : /\ pc[t] = c /\ reg[t] # None
                            /\ counter' = [counter EXCEPT ![c] = reg[t] + Amount(t, c)]
                            /\ reg' = [reg EXCEPT ![t] = None]
                            /\ pc' = [pc EXCEPT ![t] = After(c)]
  BY DEF store, At, Goto, Set
<1>2. After(c) \notin FreeLabels /\ After(c) # "num_mallocs"
  BY DEF After, Counters, FreeLabels
<1>3. /\ DOMAIN counter' = Counters /\ DOMAIN pc' = Threads /\ DOMAIN reg' = Threads
      /\ mallocs' = mallocs /\ frees' = frees /\ interrupts' = interrupts
  BY <1>1 DEF Counting, store, Goto
<1>4. \A u \in Threads : u # t => pc'[u] = pc[u] /\ reg'[u] = reg[u]
  BY <1>1 DEF Counting
<1>5. reg'[t] = None /\ pc'[t] = After(c)
  BY <1>1 DEF Counting
<1>6. /\ Mallocing' = Mallocing \ {t} /\ Freeing' = Freeing \ {t}
      /\ Mallocing \subseteq Threads /\ Freeing \subseteq Threads
  BY <1>2, <1>4, <1>5 DEF Mallocing, Freeing
<1>7. Leaves("num_mallocs", Mallocing, mallocs) /\ Leaves("num_frees", Freeing, frees)
  BY DEF Counting
<1>8. Cardinality(Mallocing) \in Nat /\ Cardinality(Freeing) \in Nat
  BY <1>7, FS_CardinalityType DEF Leaves
<1>9. \A d \in Counters \ {c} : counter'[d] = counter[d]
  BY <1>1 DEF Counting
<1>10. Leaves("num_mallocs", Mallocing, mallocs)'
  <2>1. CASE c = "num_mallocs"
    <3>1. t \in Mallocing /\ reg[t] \in Nat /\ reg[t] + Cardinality(Mallocing) <= mallocs
      BY <1>1, <1>7, <2>1 DEF Leaves, Mallocing
    <3>2. IsFiniteSet(Mallocing') /\ Cardinality(Mallocing') = Cardinality(Mallocing) - 1
      BY <1>6, <1>7, <3>1, FS_RemoveElement DEF Leaves
    <3>3. counter'["num_mallocs"] = reg[t] + 1
      BY <1>1, <2>1 DEF Amount, Counting, Counters
    <3>4. \A u \in Mallocing' : reg'[u] # None => u \in Mallocing /\ reg'[u] = reg[u] /\ pc'[u] = pc[u]
      BY <1>4, <1>6
    <3> QED BY <1>3, <1>7, <1>8, <3>1, <3>2, <3>3, <3>4 DEF Leaves
  <2>2. CASE c # "num_mallocs"
    <3>1. counter'["num_mallocs"] = counter["num_mallocs"] /\ Mallocing' \subseteq Mallocing
      BY <1>6, <1>9, <2>2 DEF Counters
    <3>2. \A u \in Mallocing' : pc'[u] = "num_mallocs" /\ reg'[u] # None => pc[u] = "num_mallocs" /\ reg'[u] = reg[u]
      BY <1>4, <1>6 DEF Mallocing
    <3> QED BY <1>3, <1>7, <3>1, <3>2, LeavesAfter DEF Leaves
  <2> QED BY <2>1, <2>2
<1>11. Leaves("num_frees", Freeing, frees)'
  <2>1. CASE c = "num_frees"
    <3>1. t \in Freeing /\ reg[t] \in Nat /\ reg[t] + Cardinality(Freeing) <= frees
      BY <1>1, <1>7, <2>1 DEF Leaves, Freeing, FreeLabels
    <3>2. IsFiniteSet(Freeing') /\ Cardinality(Freeing') = Cardinality(Freeing) - 1
      BY <1>6, <1>7, <3>1, FS_RemoveElement DEF Leaves
    <3>3. counter'["num_frees"] = reg[t] + 1
      BY <1>1, <2>1 DEF Amount, Counting, Counters
    <3>4. \A u \in Freeing' : reg'[u] # None => u \in Freeing /\ reg'[u] = reg[u] /\ pc'[u] = pc[u]
      BY <1>4, <1>6
    <3> QED BY <1>3, <1>7, <1>8, <3>1, <3>2, <3>3, <3>4 DEF Leaves
  <2>2. CASE c # "num_frees"
    <3>1. counter'["num_frees"] = counter["num_frees"] /\ Freeing' \subseteq Freeing
      BY <1>6, <1>9, <2>2 DEF Counters
    <3>2. \A u \in Freeing' : pc'[u] = "num_frees" /\ reg'[u] # None => pc[u] = "num_frees" /\ reg'[u] = reg[u]
      BY <1>4, <1>6 DEF Freeing
    <3> QED BY <1>3, <1>7, <3>1, <3>2, LeavesAfter DEF Leaves
  <2> QED BY <2>1, <2>2
<1>12. Missing'
  <2>1. CASE c = "num_mallocs"
    <3>1. reg[t] \in Nat /\ reg[t] + 1 >= mallocs - interrupts
      BY <1>1, <1>7, <2>1 DEF Leaves, Mallocing, Missing, Counting
    <3>2. counter'["num_mallocs"] = reg[t] + 1
      BY <1>1, <2>1 DEF Amount, Counting, Counters
    <3>3. counter'["num_mallocs"] \in Nat /\ mallocs \in Nat /\ interrupts \in Nat
      BY <1>7, <3>1, <3>2 DEF Leaves, Missing, Counting
    <3>4. \A u \in Mallocing' : reg'[u] # None => u \in Mallocing /\ reg'[u] = reg[u]
      BY <1>4, <1>6
    <3> QED BY <1>3, <3>1, <3>2, <3>3, <3>4 DEF Missing, Counting
  <2>2. CASE c # "num_mallocs"
    <3>1. counter'["num_mallocs"] = counter["num_mallocs"] /\ Mallocing' = Mallocing
      BY <1>1, <1>6, <1>9, <2>2 DEF Counters, Mallocing
    <3>2. \A u \in Mallocing' : reg'[u] # None => u \in Mallocing /\ reg'[u] = reg[u]
      BY <1>4, <1>6
    <3> QED BY <1>3, <3>1, <3>2 DEF Missing, Counting
  <2> QED BY <2>1, <2>2
<1>13. \A u \in Threads : reg'[u] # None => pc'[u] \in Counters \cup RegLabels
  BY <1>4, <1>5 DEF Counting
<1> QED BY <1>3, <1>10, <1>11, <1>12, <1>13 DEF Counting

LEMMA StepCounting == Counting /\ [Next]_mallocVars => Counting'
<1> SUFFICES ASSUME Counting, [Next]_mallocVars PROVE Counting'
  OBVIOUS
<1>1. CASE Next
  <2> SUFFICES ASSUME NEW t \in Threads,
        \/ malloc369(t) \/ free369(t) \/ load(t) \/ store(t)
        \/ malloc(t) \/ malloc_returns(t)
        \/ kh_put(t) \/ kh_resize(t) \/ kh_put_returns(t) \/ set_size(t)
        \/ get(t) \/ get_returns(t) \/ find(t) \/ get_size(t) \/ load_minuend(t) \/ asserts(t)
        \/ fill_and_free(t) \/ free_returns(t) \/ mark_load(t) \/ mark_freed(t)
        \/ load_vals(t) \/ stale_vals(t) \/ clash(t)
      PROVE Counting'
    BY <1>1 DEF Next
  <2> QED BY EnterCounting, LoadCounting, StoreCounting, QuietSteps, MovesCounting
<1>2. CASE UNCHANGED mallocVars
  <2>1. UNCHANGED <<counter, pc, reg, mallocs, frees, interrupts, Mallocing, Freeing>>
    BY <1>2 DEF mallocVars, locals, Mallocing, Freeing
  <2> QED BY <2>1 DEF Counting, Leaves, Missing
<1> QED BY <1>1, <1>2

(* However the calls of malloc369 and free369 interrupt each other, between*)
(* the load and the store of a counter too, no call is counted twice, and  *)
(* each interruption loses at most one malloc369.                          *)
THEOREM CountsAreClose == Spec => []CountsWithin
<1>1. Counting => CountsWithin
  <2> SUFFICES ASSUME Counting PROVE CountsWithin
    OBVIOUS
  <2>1. Cardinality(Mallocing) \in Nat /\ Cardinality(Freeing) \in Nat
    BY FS_CardinalityType DEF Counting, Leaves
  <2>2. Idle => Mallocing = {}
    BY DEF Idle, Mallocing
  <2> QED BY <2>1, <2>2 DEF Counting, Leaves, Missing, CountsWithin
<1> QED BY <1>1, InitCounting, StepCounting, PTL DEF Spec

------------------------------------------------------------------------------
(* The table, while threads put into it and look into it.  One thread at a *)
(* time is in kh_put past its first look at the size, and while it moves   *)
(* the entries nobody looks for one.                                       *)
Growing == \E t \in Threads : pc[t] \in {"rehash", "kfree"}
TableOK ==
  /\ DOMAIN pc = Threads
  /\ \A t, u \in Threads : pc[t] \in Putting /\ pc[u] \in Putting => t = u
  /\ \A t, u \in Threads : pc[t] = "in_get" => pc[u] \notin Rehashing
  /\ IF Growing THEN Moving
     ELSE Resting /\ (n_buckets # 0 => Cardinality(live) < n_buckets)
  /\ \A t \in Threads : pc[t] = "resize" => Growable
  /\ \A t \in Threads : pc[t] = "insert" => n_buckets \in Tables /\ Cardinality(live) + 1 < n_buckets

LEMMA InitTable == Init => TableOK
<1> SUFFICES ASSUME Init PROVE TableOK
  OBVIOUS
<1>1. Resting /\ n_buckets = 0
  BY InitRests DEF Init, kh_init
<1>2. DOMAIN pc = Threads /\ \A t \in Threads : pc[t] = "idle"
  BY DEF Init
<1> QED BY <1>1, <1>2 DEF TableOK, Growing, Putting, Rehashing

(* Steps that leave the table alone. *)
LEMMA ElsewhereTable ==
  ASSUME TableOK, UNCHANGED hashVars, NEW t \in Threads,
         \/ pc' = pc
         \/ \E l : /\ pc' = [pc EXCEPT ![t] = l]
                   /\ pc[t] \notin Putting /\ l \notin Putting
                   /\ l = "in_get" => \A u \in Threads : pc[u] \notin Rehashing
  PROVE  TableOK'
<1>1. /\ DOMAIN pc' = Threads
      /\ \A u \in Threads : pc'[u] # pc[u] => pc[u] \notin Putting /\ pc'[u] \notin Putting
      /\ \A u, w \in Threads : pc'[u] # pc[u] /\ pc'[u] = "in_get" => pc[w] \notin Rehashing
  BY DEF TableOK
<1>2. Growing' <=> Growing
  BY <1>1 DEF Growing, Putting, Rehashing
<1>3. (Moving' <=> Moving) /\ (Resting' <=> Resting) /\ n_buckets' = n_buckets /\ live' = live
  BY SameTable DEF hashVars
<1>4. \A u, w \in Threads : pc'[u] \in Putting /\ pc'[w] \in Putting => u = w
  BY <1>1 DEF TableOK
<1>5. \A u, w \in Threads : pc'[u] = "in_get" => pc'[w] \notin Rehashing
  BY <1>1 DEF TableOK, Putting
<1>6. \A u \in Threads : /\ pc'[u] = "resize" => Growable'
                         /\ pc'[u] = "insert" => n_buckets' \in Tables /\ Cardinality(live') + 1 < n_buckets'
  BY <1>1, <1>3 DEF TableOK, Putting, Rehashing, Growable
<1> QED BY <1>1, <1>2, <1>3, <1>4, <1>5, <1>6 DEF TableOK

(* Nobody else puts, or is moving the table. *)
LEMMA PutterAlone ==
  ASSUME TableOK, NEW t \in Threads, pc[t] \in {"resize", "rehash", "kfree", "insert"}
  PROVE  /\ \A u \in Threads \ {t} : pc[u] \notin Putting
         /\ Growing <=> pc[t] \in {"rehash", "kfree"}
         /\ pc[t] # "insert" => \A u \in Threads : pc[u] # "in_get"
BY DEF TableOK, Growing, Putting, Rehashing

LEMMA PutTable ==
  ASSUME TableOK, SmallHeap, NEW t \in Threads, kh_put(t)
  PROVE  TableOK'
<1>1. /\ pc[t] = "kh_put" /\ UNCHANGED hashVars
      /\ pc' = [pc EXCEPT ![t] = IF Full THEN "resize" ELSE "insert"]
      /\ \A u \in Threads : pc[u] \notin Putting /\ (Full => pc[u] # "in_get")
  BY DEF kh_put, At, Clash, Goto, Set, Putting, Rehashing
<1>2. ~ Growing /\ Resting
  BY <1>1 DEF TableOK, Growing, Putting, Rehashing
<1>3. /\ DOMAIN pc' = Threads /\ pc'[t] = (IF Full THEN "resize" ELSE "insert")
      /\ \A u \in Threads \ {t} : pc'[u] = pc[u]
  BY <1>1 DEF TableOK
<1>4. ~ Growing'
  BY <1>1, <1>3 DEF Growing, Putting, Rehashing
<1>5. (Resting' <=> Resting) /\ n_buckets' = n_buckets /\ live' = live
  BY <1>1, SameTable DEF hashVars
<1>6. (Full => Growable) /\ (~ Full => n_buckets \in Tables /\ Cardinality(live) + 1 < n_buckets)
  BY <1>2, SmallEnough
<1>7. \A u, w \in Threads : pc'[u] \in Putting /\ pc'[w] \in Putting => u = w
  BY <1>1, <1>3
<1>8. \A u, w \in Threads : pc'[u] = "in_get" => pc'[w] \notin Rehashing
  BY <1>1, <1>3 DEF Putting, Rehashing
<1>9. \A u \in Threads : /\ pc'[u] = "resize" => Growable'
                         /\ pc'[u] = "insert" => n_buckets' \in Tables /\ Cardinality(live') + 1 < n_buckets'
  BY <1>1, <1>3, <1>5, <1>6 DEF Putting, Rehashing, Growable
<1> QED BY <1>2, <1>3, <1>4, <1>5, <1>7, <1>8, <1>9 DEF TableOK

(* The steps of kh_resize, which lose nothing of the table. *)
LEMMA ResizeTable ==
  ASSUME TableOK, NEW t \in Threads, kh_resize(t)
  PROVE  TableOK' /\ Contents' = Contents
<1>1. CASE Stop("put failed")
  <2>1. UNCHANGED hashVars /\ pc' = pc
    BY <1>1 DEF Stop, locals
  <2>2. Contents' = Contents
    BY <2>1, SameTable
  <2> QED BY <2>1, <2>2, ElsewhereTable
<1>2. CASE ~ Stop("put failed")
  <2>1. \/ pc[t] = "resize" /\ resize /\ pc' = [pc EXCEPT ![t] = "rehash"]
        \/ pc[t] = "rehash" /\ (take \/ place) /\ pc' = [pc EXCEPT ![t] = "rehash"]
        \/ pc[t] = "rehash" /\ UNCHANGED hashVars /\ pc' = [pc EXCEPT ![t] = "kfree"]
        \/ pc[t] = "kfree" /\ resized /\ pc' = [pc EXCEPT ![t] = "insert"]
    BY <1>2 DEF kh_resize, At, Goto, Set
  <2>2. pc[t] \in {"resize", "rehash", "kfree"}
    BY <2>1
  <2>3. /\ \A u \in Threads \ {t} : pc[u] \notin Putting
        /\ Growing <=> pc[t] \in {"rehash", "kfree"}
        /\ \A u \in Threads : pc[u] # "in_get"
    BY <2>2, PutterAlone
  <2>4. /\ DOMAIN pc' = Threads /\ \A u \in Threads \ {t} : pc'[u] = pc[u]
        /\ pc'[t] \in {"rehash", "kfree", "insert"}
    BY <2>1 DEF TableOK
  <2>5. Growing' <=> pc'[t] \in {"rehash", "kfree"}
    BY <2>3, <2>4 DEF Growing, Putting, Rehashing
  <2>6. /\ \A u, w \in Threads : pc'[u] \in Putting /\ pc'[w] \in Putting => u = w
        /\ \A u, w \in Threads : pc'[u] = "in_get" => pc'[w] \notin Rehashing
        /\ \A u \in Threads : pc'[u] # "resize" /\ (pc'[u] = "insert" => u = t)
    BY <2>3, <2>4 DEF Putting, Rehashing
  <2>7. CASE pc'[t] \in {"rehash", "kfree"}
    <3>1. CASE pc[t] = "resize"
      <4>1. Resting /\ Growable /\ resize
        BY <2>1, <2>3, <3>1 DEF TableOK
      <4>2. Moving' /\ Contents' = Contents
        BY <4>1, ResizeMoves
      <4> QED BY <2>4, <2>5, <2>6, <2>7, <4>2 DEF TableOK
    <3>2. CASE pc[t] = "rehash"
      <4>1. Moving
        BY <2>3, <3>2 DEF TableOK
      <4>2. CASE take
        BY <2>4, <2>5, <2>6, <2>7, <4>1, <4>2, TakeMoves DEF TableOK
      <4>3. CASE place
        BY <2>4, <2>5, <2>6, <2>7, <4>1, <4>3, PlaceMoves DEF TableOK
      <4>4. CASE UNCHANGED hashVars
        <5>1. Moving' /\ Contents' = Contents
          BY <4>1, <4>4, SameTable
        <5> QED BY <2>4, <2>5, <2>6, <2>7, <5>1 DEF TableOK
      <4> QED BY <2>1, <3>2, <4>2, <4>3, <4>4
    <3>3. pc[t] # "kfree"
      BY <2>1, <2>7 DEF TableOK
    <3> QED BY <2>2, <3>1, <3>2, <3>3
  <2>8. CASE pc'[t] = "insert"
    <3>1. pc[t] = "kfree" /\ resized
      BY <2>1, <2>8 DEF TableOK
    <3>2. Moving
      BY <2>3, <3>1 DEF TableOK
    <3>3. /\ Resting' /\ Contents' = Contents
          /\ n_buckets' \in Tables /\ Cardinality(live') + 1 < n_buckets'
      BY <3>1, <3>2, ResizedRests
    <3>4. Cardinality(live') < n_buckets'
      <4>1. n_buckets' \in Nat /\ live' \in SUBSET (0 .. n_buckets' - 1)
        <5>1. n_buckets' \in Nat
          BY <3>3, TableSizes
        <5> QED BY <3>3, <5>1 DEF Resting
      <4>2. Cardinality(live') \in Nat
        BY <4>1, Buckets
      <4> QED BY <3>3, <4>1, <4>2
    <3> QED BY <2>4, <2>5, <2>6, <2>8, <3>3, <3>4 DEF TableOK
  <2> QED BY <2>4, <2>7, <2>8
<1> QED BY <1>1, <1>2

(* A thread has its pointer, in malloc369 from the allocator until it has  *)
(* been given to the program, in free369 until the allocator has it back.  *)
PutLabels == {"kh_put", "resize", "rehash", "kfree", "insert", "set_value", "set_element"}
GetLabels == {"get", "in_get", "size", "value", "element", "load_mallocs", "assert_frees",
              "num_frees", "load_bytes", "assert_bytes", "bytes_freed", "fill", "free_only",
              "in_free", "in_free_only"}
Owns(t) == pc[t] \in PutLabels \cup GetLabels
OwnersOK ==
  /\ DOMAIN ptr = Threads
  /\ held \subseteq DOMAIN heap /\ DOMAIN heap \subseteq Keys
  /\ \A t \in Threads : Owns(t) => ptr[t] \in DOMAIN heap /\ ptr[t] \notin held
  /\ \A t, u \in Threads : Owns(t) /\ Owns(u) /\ ptr[t] = ptr[u] => t = u

(* The sizes and the buckets that a call works with. *)
FoundLabels == {"value", "element", "load_mallocs", "assert_frees", "num_frees", "load_bytes",
                "assert_bytes", "bytes_freed", "fill", "in_free", "mark", "mark_load",
                "mark_again", "mark_store", "set_value", "set_element"}
ValuesOK ==
  /\ DOMAIN bytes = Threads /\ DOMAIN reg = Threads /\ DOMAIN k = Threads
  /\ counter \in [Counters -> Int]
  /\ \A t \in Threads :
       /\ bytes[t] \in Int /\ reg[t] \in Int
       /\ pc[t] \in FoundLabels => k[t] \in 0 .. n_buckets - 1
       /\ pc[t] = "size" => k[t] \in 0 .. n_buckets
  /\ status \in {"running", "exit", "put failed", "assert", "undefined"}

TableInv == TableOK /\ OwnersOK /\ ValuesOK

LEMMA TableTypes == TableInv => MallocTypeOK
<1> SUFFICES ASSUME TableInv PROVE MallocTypeOK
  OBVIOUS
<1>1. CASE Growing
  <2>1. Moving
    BY <1>1 DEF TableInv, TableOK
  <2>2. Cardinality(hand) <= 1
    BY <2>1, TheHand
  <2>3. live \subseteq 0 .. n_buckets - 1
    BY <2>1, MovingSizes
  <2>4. \A i \in live \cup new_live : keys[i] \in Keys
    BY <2>1 DEF Moving, Settled
  <2> QED BY <2>1, <2>2, <2>3, <2>4 DEF Moving, ArraysTo, TableInv, OwnersOK, ValuesOK, MallocTypeOK
<1>2. CASE ~ Growing
  <2>1. Resting
    BY <1>2 DEF TableInv, TableOK
  <2>2. Cardinality(hand) <= 1 /\ j \in 0 .. n_buckets
    BY <2>1, FS_EmptySet, TableSizes DEF Resting
  <2>3. \A i \in live \cup new_live : keys[i] \in Keys
    BY <2>1 DEF Resting, Settled
  <2> QED BY <2>1, <2>2, <2>3 DEF Resting, ArraysTo, TableInv, OwnersOK, ValuesOK, MallocTypeOK
<1> QED BY <1>1, <1>2

LEMMA TableFinds == TableInv => Findable
<1> SUFFICES ASSUME TableInv, n_buckets > 0, \A t \in Threads : pc[t] \notin Rehashing
             PROVE  /\ \A i \in live : kh_get(keys[i]) = i
                    /\ Empty # {}
                    /\ Cardinality({keys[i] : i \in live}) = size
  BY DEF Findable
<1>1. Resting /\ (n_buckets # 0 => Cardinality(live) < n_buckets)
  BY DEF TableInv, TableOK, Growing, Rehashing
<1>2. n_buckets \in Tables /\ Cardinality(live) < n_buckets
  BY <1>1, TableSizes DEF Resting
<1> QED BY <1>1, <1>2, RestingFinds

------------------------------------------------------------------------------
(* The steps on the table, one component at a time. *)
LEMMA InsertTable ==
  ASSUME TableInv, NEW t \in Threads, kh_put_returns(t)
  PROVE  TableOK' /\ n_buckets' = n_buckets /\ put_site(ptr[t]) \in 0 .. n_buckets - 1
<1>1. pc[t] = "insert" /\ insert(ptr[t]) /\ pc' = [pc EXCEPT ![t] = "set_value"]
  BY DEF kh_put_returns, At, Goto, Set
<1>2. \A u \in Threads \ {t} : pc[u] \notin Putting
  BY <1>1, PutterAlone DEF TableInv
<1>3. Resting /\ n_buckets \in Tables /\ Cardinality(live) + 1 < n_buckets
  BY <1>1, PutterAlone DEF TableInv, TableOK
<1>4. ptr[t] \in Keys
  BY <1>1 DEF TableInv, OwnersOK, Owns, PutLabels
<1>5. /\ Resting' /\ n_buckets' = n_buckets /\ Cardinality(live') < n_buckets
      /\ put_site(ptr[t]) \in 0 .. n_buckets - 1
  BY <1>1, <1>3, <1>4, InsertRests
<1>6. DOMAIN pc' = Threads /\ \A u \in Threads : pc'[u] \notin Putting
  BY <1>1, <1>2 DEF TableInv, TableOK, Putting, Rehashing
<1> QED BY <1>5, <1>6 DEF TableOK, Growing, Putting, Rehashing

(* A value is stored only while nobody moves the table. *)
LEMMA ValueTable ==
  ASSUME TableInv, NEW t \in Threads, set_size(t) \/ mark_freed(t)
  PROVE  /\ TableOK' /\ n_buckets' = n_buckets
         /\ \A u \in Threads : pc[u] \notin Rehashing
<1>1. /\ pc[t] \in {"set_element", "mark_store"} /\ pc' = [pc EXCEPT ![t] = "idle"]
      /\ \A u \in Threads : pc[u] \notin Rehashing
  BY DEF set_size, mark_freed, At, Clash, TableAccess, Leave, Goto, Set, Rehashing
<1>2. Resting
  BY <1>1 DEF TableInv, TableOK, Growing, Rehashing
<1>3. \E v \in Int : set_value(k[t], v)
  <2>1. CASE set_size(t)
    BY <2>1 DEF set_size, TableInv, ValuesOK
  <2>2. CASE mark_freed(t)
    <3>1. Marked(bytes[t]) \in Int
      <4>1. bytes[t] \in Int
        BY DEF TableInv, ValuesOK
      <4>2. FREED \in Nat \ {0}
        <5>1. FREED \in Nat /\ HeapBytes \in 0 .. FREED - 1
          BY MallocAssumption
        <5> QED BY <5>1
      <4>3. ASSUME NEW x \in Int PROVE FREED + (x % FREED) \in Int
        BY <4>2
      <4> QED BY <4>1, <4>3 DEF Marked
    <3> QED BY <2>2, <3>1 DEF mark_freed
  <2> QED BY <2>1, <2>2
<1>4. Resting' /\ n_buckets' = n_buckets /\ live' = live
  BY <1>2, <1>3, ValueRests
<1>5. /\ DOMAIN pc' = Threads /\ \A u \in Threads : pc'[u] # pc[u] => pc'[u] = "idle"
  BY <1>1 DEF TableInv, TableOK
<1>6. ~ Growing'
  BY <1>1, <1>5 DEF Growing, Rehashing
<1> QED BY <1>1, <1>4, <1>5, <1>6 DEF TableInv, TableOK, Growing, Putting, Rehashing

LEMMA ElsewhereSteps ==
  ASSUME TableOK, NEW t \in Threads,
         \/ malloc369(t) \/ free369(t) \/ load(t) \/ store(t) \/ malloc(t) \/ malloc_returns(t)
         \/ get(t) \/ get_returns(t) \/ find(t) \/ get_size(t) \/ load_minuend(t) \/ asserts(t)
         \/ fill_and_free(t) \/ free_returns(t) \/ mark_load(t)
         \/ load_vals(t) \/ stale_vals(t) \/ clash(t)
  PROVE  UNCHANGED hashVars /\ TableOK'
<1> SUFFICES
      /\ UNCHANGED hashVars
      /\ \/ pc' = pc
         \/ \E l : /\ pc' = [pc EXCEPT ![t] = l]
                   /\ pc[t] \notin Putting /\ l \notin Putting
                   /\ l = "in_get" => \A u \in Threads : pc[u] \notin Rehashing
  BY ElsewhereTable
<1> USE DEF At, Goto, Set, Stop, Leave, Enter, Counters, Putting, Rehashing, locals
<1>1. CASE malloc(t) \/ malloc369(t) \/ free369(t)
  BY <1>1 DEF malloc, malloc369, free369
<1>2. CASE malloc_returns(t)
  <2>1. CASE Stop("exit")
    BY <2>1
  <2>2. CASE ~ Stop("exit")
    <3>1. pc[t] = "in_malloc" /\ pc' = [pc EXCEPT ![t] = "kh_put"] /\ UNCHANGED hashVars
      BY <1>2, <2>2 DEF malloc_returns
    <3>2. /\ pc[t] \notin Putting /\ "kh_put" \notin Putting
          /\ "kh_put" = "in_get" => \A u \in Threads : pc[u] \notin Rehashing
      BY <3>1
    <3> HIDE DEF Putting, Rehashing
    <3> QED BY <3>1, <3>2
  <2> QED BY <2>1, <2>2
<1>3. CASE load(t)
  BY <1>3 DEF load
<1>4. CASE store(t)
  <2>1. PICK c \in Counters : pc[t] = c /\ pc' = [pc EXCEPT ![t] = After(c)]
    BY <1>4 DEF store
  <2>2. After(c) \in {"bytes_malloced", "malloc", "load_bytes", "fill"}
    BY DEF After
  <2> QED BY <1>4, <2>1, <2>2 DEF store
<1>5. CASE get(t)
  BY <1>5 DEF get, Clash, TableAccess
<1>6. CASE get_returns(t)
  <2>1. UNCHANGED hashVars /\ pc[t] = "in_get" /\ pc' = [pc EXCEPT ![t] = "size"]
    BY <1>6 DEF get_returns
  <2>2. /\ pc' = [pc EXCEPT ![t] = "size"]
        /\ pc[t] \notin Putting /\ "size" \notin Putting
        /\ "size" = "in_get" => \A u \in Threads : pc[u] \notin Rehashing
    BY <2>1
  <2> HIDE DEF Putting, Rehashing
  <2> QED BY <2>1, <2>2
<1>7. CASE find(t) \/ get_size(t)
  BY <1>7 DEF find, get_size
<1>8. CASE load_minuend(t) \/ asserts(t)
  BY <1>8 DEF load_minuend, asserts
<1>9. CASE fill_and_free(t) \/ clash(t) \/ stale_vals(t)
  BY <1>9 DEF fill_and_free, clash, stale_vals
<1>10. CASE free_returns(t) \/ mark_load(t)
  BY <1>10 DEF free_returns, mark_load
<1>11. CASE load_vals(t)
  <2>1. PICK l \in {"set_value", "value", "mark", "mark_again"} :
          pc[t] = l /\ pc' = [pc EXCEPT ![t] = AfterVals(l)]
    BY <1>11 DEF load_vals
  <2>2. AfterVals(l) \in {"set_element", "element", "mark_load", "mark_store"}
    BY DEF AfterVals
  <2> QED BY <1>11, <2>1, <2>2 DEF load_vals
<1> QED BY <1>1, <1>2, <1>3, <1>4, <1>5, <1>6, <1>7, <1>8, <1>9, <1>10, <1>11

(* The pointers. *)
LEMMA SameOwners ==
  ASSUME TableInv, NEW t \in Threads, ptr' = ptr, heap' = heap, held' = held,
         \/ pc' = pc
         \/ \E l : pc' = [pc EXCEPT ![t] = l] /\ (l \in PutLabels \cup GetLabels => Owns(t))
  PROVE  OwnersOK'
<1>1. \A u \in Threads : Owns(u)' => Owns(u)
  BY DEF TableInv, TableOK, Owns
<1> QED BY <1>1 DEF TableInv, OwnersOK

LEMMA FewOwners ==
  ASSUME TableInv, NEW t \in Threads,
         \/ malloc369(t) \/ load(t) \/ store(t) \/ malloc(t)
         \/ kh_put(t) \/ kh_resize(t) \/ kh_put_returns(t)
         \/ get(t) \/ get_returns(t) \/ find(t) \/ get_size(t) \/ load_minuend(t) \/ asserts(t)
         \/ fill_and_free(t) \/ mark_load(t) \/ load_vals(t) \/ stale_vals(t) \/ clash(t)
  PROVE  OwnersOK'
<1> SUFFICES /\ ptr' = ptr /\ heap' = heap /\ held' = held
             /\ \/ pc' = pc
                \/ \E l : pc' = [pc EXCEPT ![t] = l] /\ (l \in PutLabels \cup GetLabels => Owns(t))
  BY SameOwners
<1> USE DEF At, Goto, Set, Stop, Enter, locals, Owns, PutLabels, GetLabels
<1>1. CASE malloc369(t) \/ malloc(t)
  BY <1>1 DEF malloc369, malloc
<1>2. CASE load(t)
  BY <1>2 DEF load, Counters
<1>3. CASE store(t)
  <2>1. PICK c \in Counters : pc[t] = c /\ pc' = [pc EXCEPT ![t] = After(c)]
    BY <1>3 DEF store
  <2>2. After(c) \in PutLabels \cup GetLabels => c \in {"num_frees", "bytes_freed"}
    BY DEF After, Counters
  <2> QED BY <1>3, <2>1, <2>2 DEF store
<1>4. CASE kh_put(t)
  BY <1>4 DEF kh_put
<1>5. CASE kh_resize(t)
  BY <1>5 DEF kh_resize
<1>6. CASE kh_put_returns(t)
  BY <1>6 DEF kh_put_returns
<1>7. CASE get(t) \/ get_returns(t)
  BY <1>7 DEF get, get_returns
<1>8. CASE find(t) \/ get_size(t)
  BY <1>8 DEF find, get_size
<1>9. CASE load_minuend(t) \/ asserts(t)
  BY <1>9 DEF load_minuend, asserts
<1>10. CASE fill_and_free(t) \/ clash(t) \/ stale_vals(t) \/ mark_load(t)
  BY <1>10 DEF fill_and_free, clash, stale_vals, mark_load
<1>11. CASE load_vals(t)
  <2>1. PICK l \in {"set_value", "value", "mark", "mark_again"} :
          pc[t] = l /\ pc' = [pc EXCEPT ![t] = AfterVals(l)]
    BY <1>11 DEF load_vals
  <2>2. AfterVals(l) \in PutLabels \cup GetLabels => l \in {"set_value", "value"}
    BY DEF AfterVals
  <2> QED BY <1>11, <2>1, <2>2 DEF load_vals
<1> QED BY <1>1, <1>2, <1>3, <1>4, <1>5, <1>6, <1>7, <1>8, <1>9, <1>10, <1>11

LEMMA ReturnsOwners ==
  ASSUME TableInv, NEW t \in Threads, malloc_returns(t)
  PROVE  OwnersOK'
<1>1. CASE Stop("exit")
  BY <1>1, SameOwners DEF Stop, locals
<1>2. CASE ~ Stop("exit")
  <2>1. PICK p \in Keys \ DOMAIN heap :
          /\ heap' = [q \in DOMAIN heap \cup {p} |-> IF q = p THEN bytes[t] ELSE heap[q]]
          /\ ptr' = [ptr EXCEPT ![t] = p]
          /\ pc' = [pc EXCEPT ![t] = "kh_put"] /\ held' = held
    BY <1>2 DEF malloc_returns, Goto, Set
  <2>2. DOMAIN heap' = DOMAIN heap \cup {p}
    BY <2>1
  <2>3. \A u \in Threads \ {t} : ptr'[u] = ptr[u] /\ (Owns(u)' <=> Owns(u))
    BY <2>1 DEF TableInv, TableOK, OwnersOK, Owns
  <2>4. DOMAIN ptr' = Threads /\ ptr'[t] = p
    BY <2>1 DEF TableInv, OwnersOK
  <2>5. \A u \in Threads \ {t} : Owns(u) => ptr[u] \in DOMAIN heap /\ ptr[u] \notin held /\ ptr[u] # p
    BY <2>1 DEF TableInv, OwnersOK
  <2>6. held \subseteq DOMAIN heap /\ DOMAIN heap \subseteq Keys
    BY DEF TableInv, OwnersOK
  <2>7. \A u \in Threads : Owns(u)' => ptr'[u] \in DOMAIN heap' /\ ptr'[u] \notin held'
    BY <2>1, <2>2, <2>3, <2>4, <2>5, <2>6
  <2>8. \A u, w \in Threads : Owns(u)' /\ Owns(w)' /\ ptr'[u] = ptr'[w] => u = w
    BY <2>3, <2>4, <2>5 DEF TableInv, OwnersOK
  <2> QED BY <2>1, <2>2, <2>4, <2>6, <2>7, <2>8 DEF OwnersOK
<1> QED BY <1>1, <1>2

(* The program gives a pointer back, *)
LEMMA GivenBackOwners ==
  ASSUME TableInv, NEW t \in Threads, free369(t)
  PROVE  OwnersOK'
<1>1. PICK p \in held : /\ ptr' = [ptr EXCEPT ![t] = p] /\ held' = held \ {p}
                        /\ pc' = [pc EXCEPT ![t] = "get"] /\ heap' = heap
  BY DEF free369, Enter, Set
<1>2. \A u \in Threads \ {t} : ptr'[u] = ptr[u] /\ (Owns(u)' <=> Owns(u))
  BY <1>1 DEF TableInv, TableOK, OwnersOK, Owns
<1>3. DOMAIN ptr' = Threads /\ ptr'[t] = p
  BY <1>1 DEF TableInv, OwnersOK
<1>4. \A u \in Threads : Owns(u) => ptr[u] \in DOMAIN heap /\ ptr[u] \notin held /\ ptr[u] # p
  BY <1>1 DEF TableInv, OwnersOK
<1>5. held \subseteq DOMAIN heap /\ DOMAIN heap \subseteq Keys
  BY DEF TableInv, OwnersOK
<1>6. \A u \in Threads : Owns(u)' => ptr'[u] \in DOMAIN heap' /\ ptr'[u] \notin held'
  BY <1>1, <1>2, <1>3, <1>4, <1>5
<1>7. \A u, w \in Threads : Owns(u)' /\ Owns(w)' /\ ptr'[u] = ptr'[w] => u = w
  BY <1>2, <1>3, <1>4 DEF TableInv, OwnersOK
<1> QED BY <1>1, <1>3, <1>5, <1>6, <1>7 DEF OwnersOK

(* and leaves a call, with the pointer or without it. *)
LEMMA LeaveOwners ==
  ASSUME TableInv, NEW t \in Threads, set_size(t) \/ mark_freed(t) \/ free_returns(t)
  PROVE  OwnersOK'
<1>1. DOMAIN ptr' = Threads /\ \A u \in Threads \ {t} : ptr'[u] = ptr[u] /\ (Owns(u)' <=> Owns(u))
  BY DEF TableInv, TableOK, OwnersOK, Owns, set_size, mark_freed, free_returns, Leave, Goto, Set
<1>2. ~ Owns(t)'
  BY DEF TableInv, TableOK, Owns, PutLabels, GetLabels,
         set_size, mark_freed, free_returns, Leave, Goto, Set
<1>3. \A u, w \in Threads : Owns(u)' /\ Owns(w)' /\ ptr'[u] = ptr'[w] => u = w
  BY <1>1, <1>2 DEF TableInv, OwnersOK
<1>4. CASE mark_freed(t)
  <2>1. heap' = heap /\ held' = held
    BY <1>4 DEF mark_freed
  <2> QED BY <1>1, <1>2, <1>3, <2>1 DEF TableInv, OwnersOK
<1>5. CASE set_size(t)
  <2>1. heap' = heap /\ held' = held \cup {ptr[t]} /\ Owns(t)
    BY <1>5 DEF set_size, At, Owns, PutLabels
  <2>2. \A u \in Threads \ {t} : Owns(u) => ptr[u] # ptr[t]
    BY <2>1 DEF TableInv, OwnersOK
  <2> QED BY <1>1, <1>2, <1>3, <2>1, <2>2 DEF TableInv, OwnersOK
<1>6. CASE free_returns(t)
  <2>1. DOMAIN heap' = DOMAIN heap \ {ptr[t]} /\ held' = held /\ Owns(t)
    BY <1>6 DEF free_returns, At, Owns, GetLabels
  <2>2. ptr[t] \notin held /\ \A u \in Threads \ {t} : Owns(u) => ptr[u] # ptr[t]
    BY <2>1 DEF TableInv, OwnersOK
  <2> QED BY <1>1, <1>2, <1>3, <2>1, <2>2 DEF TableInv, OwnersOK
<1> QED BY <1>4, <1>5, <1>6

LEMMA StepOwners ==
  ASSUME TableInv, NEW t \in Threads,
         \/ malloc369(t) \/ free369(t) \/ load(t) \/ store(t)
         \/ malloc(t) \/ malloc_returns(t)
         \/ kh_put(t) \/ kh_resize(t) \/ kh_put_returns(t) \/ set_size(t)
         \/ get(t) \/ get_returns(t) \/ find(t) \/ get_size(t) \/ load_minuend(t) \/ asserts(t)
         \/ fill_and_free(t) \/ free_returns(t) \/ mark_load(t) \/ mark_freed(t)
         \/ load_vals(t) \/ stale_vals(t) \/ clash(t)
  PROVE  OwnersOK'
BY FewOwners, ReturnsOwners, GivenBackOwners, LeaveOwners

------------------------------------------------------------------------------
(* The sizes and the buckets that a call works with. *)
LEMMA InitValues == Init => ValuesOK /\ OwnersOK
BY DEF Init, ValuesOK, OwnersOK, Owns, PutLabels, GetLabels, FoundLabels, None, Counters

(* The table never shrinks. *)
LEMMA TableGrows ==
  ASSUME TableInv, NEW t \in Threads,
         \/ malloc369(t) \/ free369(t) \/ load(t) \/ store(t)
         \/ malloc(t) \/ malloc_returns(t)
         \/ kh_put(t) \/ kh_resize(t) \/ kh_put_returns(t) \/ set_size(t)
         \/ get(t) \/ get_returns(t) \/ find(t) \/ get_size(t) \/ load_minuend(t) \/ asserts(t)
         \/ fill_and_free(t) \/ free_returns(t) \/ mark_load(t) \/ mark_freed(t)
         \/ load_vals(t) \/ stale_vals(t) \/ clash(t)
  PROVE  n_buckets \in Nat /\ n_buckets' \in Nat /\ n_buckets <= n_buckets'
<1>1. n_buckets \in Nat
  BY TableSizes DEF TableInv, TableOK, Resting, Moving, Growable
<1>2. CASE kh_resize(t)
  <2>1. CASE pc[t] = "kfree" /\ resized
    <3>1. Moving
      BY <2>1, PutterAlone DEF TableInv, TableOK
    <3>2. n_buckets' = new_n_buckets
      BY <2>1 DEF resized
    <3> QED BY <1>1, <3>1, <3>2, MovingSizes
  <2>2. CASE ~ (pc[t] = "kfree" /\ resized)
    <3>1. n_buckets' = n_buckets
      BY <1>2, <2>2 DEF kh_resize, At, Stop, hashVars, resize, take, place
    <3> QED BY <1>1, <3>1
  <2> QED BY <2>1, <2>2
<1>3. CASE kh_put(t)
  BY <1>1, <1>3 DEF kh_put, hashVars
<1>4. CASE kh_put_returns(t)
  BY <1>1, <1>4, InsertTable
<1>5. CASE set_size(t) \/ mark_freed(t)
  BY <1>1, <1>5, ValueTable
<1>6. CASE /\ ~ kh_resize(t) /\ ~ kh_put(t) /\ ~ kh_put_returns(t)
           /\ ~ set_size(t) /\ ~ mark_freed(t)
  <2>1. UNCHANGED hashVars
    BY <1>6, ElsewhereSteps DEF TableInv
  <2> QED BY <1>1, <2>1 DEF hashVars
<1> QED BY <1>2, <1>3, <1>4, <1>5, <1>6

(* What is left to show of a step of thread t. *)
Ends == {"running", "exit", "put failed", "assert", "undefined"}
LEMMA ValuesAfter ==
  ASSUME TableInv, NEW t \in Threads,
         n_buckets \in Nat, n_buckets' \in Nat, n_buckets <= n_buckets',
         counter' = counter \/ counter' \in [Counters -> Int],
         status' = status \/ status' \in Ends,
         bytes' = bytes \/ \E x \in Int : bytes' = [bytes EXCEPT ![t] = x],
         reg' = reg \/ \E x \in Int : reg' = [reg EXCEPT ![t] = x],
         k' = k \/ \E x : k' = [k EXCEPT ![t] = x],
         \A u \in Threads \ {t} : pc'[u] = pc[u],
         \/ /\ k' = k
            /\ pc'[t] \in FoundLabels => pc[t] \in FoundLabels
            /\ pc'[t] = "size" => pc[t] = "size"
         \/ /\ pc'[t] \in FoundLabels => k'[t] \in 0 .. n_buckets' - 1
            /\ pc'[t] = "size" => k'[t] \in 0 .. n_buckets'
  PROVE  ValuesOK'
<1>1. DOMAIN bytes' = Threads /\ \A u \in Threads : bytes'[u] \in Int
  BY DEF TableInv, ValuesOK
<1>2. DOMAIN reg' = Threads /\ \A u \in Threads : reg'[u] \in Int
  BY DEF TableInv, ValuesOK
<1>3. DOMAIN k' = Threads /\ \A u \in Threads \ {t} : k'[u] = k[u]
  BY DEF TableInv, ValuesOK
<1>4. counter' \in [Counters -> Int] /\ status' \in Ends
  BY DEF TableInv, ValuesOK, Ends
<1>5. \A u \in Threads : /\ pc[u] \in FoundLabels => k[u] \in 0 .. n_buckets' - 1
                         /\ pc[u] = "size" => k[u] \in 0 .. n_buckets'
  <2> SUFFICES ASSUME NEW u \in Threads
               PROVE  /\ pc[u] \in FoundLabels => k[u] \in 0 .. n_buckets' - 1
                      /\ pc[u] = "size" => k[u] \in 0 .. n_buckets'
    OBVIOUS
  <2>1. /\ pc[u] \in FoundLabels => k[u] \in 0 .. n_buckets - 1
        /\ pc[u] = "size" => k[u] \in 0 .. n_buckets
    BY DEF TableInv, ValuesOK
  <2> QED BY <2>1
<1>6. \A u \in Threads : /\ pc'[u] \in FoundLabels => k'[u] \in 0 .. n_buckets' - 1
                         /\ pc'[u] = "size" => k'[u] \in 0 .. n_buckets'
  <2> SUFFICES ASSUME NEW u \in Threads
               PROVE  /\ pc'[u] \in FoundLabels => k'[u] \in 0 .. n_buckets' - 1
                      /\ pc'[u] = "size" => k'[u] \in 0 .. n_buckets'
    OBVIOUS
  <2>1. CASE u # t
    BY <1>3, <1>5, <2>1
  <2>2. CASE u = t
    BY <1>5, <2>2
  <2> QED BY <2>1, <2>2
<1> QED BY <1>1, <1>2, <1>3, <1>4, <1>6 DEF ValuesOK, Ends

(* The steps that look nothing up. *)
LEMMA PlainValues ==
  ASSUME TableInv, NEW t \in Threads, n_buckets \in Nat, n_buckets' \in Nat, n_buckets <= n_buckets',
         \/ malloc369(t) \/ free369(t) \/ malloc(t) \/ malloc_returns(t)
         \/ kh_put(t) \/ kh_resize(t) \/ set_size(t)
         \/ get(t) \/ asserts(t)
         \/ fill_and_free(t) \/ free_returns(t) \/ mark_freed(t)
         \/ stale_vals(t) \/ clash(t)
  PROVE  ValuesOK'
<1> DEFINE Plain ==
      /\ counter' = counter /\ (status' = status \/ status' \in Ends)
      /\ \A u \in Threads \ {t} : pc'[u] = pc[u]
      /\ bytes' = bytes \/ \E x \in Int : bytes' = [bytes EXCEPT ![t] = x]
      /\ reg' = reg \/ \E x \in Int : reg' = [reg EXCEPT ![t] = x]
      /\ \/ /\ k' = k
            /\ pc'[t] \in FoundLabels => pc[t] \in FoundLabels
            /\ pc'[t] = "size" => pc[t] = "size"
         \/ (\E x : k' = [k EXCEPT ![t] = x]) /\ pc'[t] = "idle"
<1> SUFFICES Plain
  <2>1. "idle" \notin FoundLabels /\ "idle" # "size"
    BY DEF FoundLabels
  <2> QED BY <2>1, ValuesAfter
<1>1. DOMAIN pc = Threads /\ pc[t] = pc[t]
  BY DEF TableInv, TableOK
<1>2. ASSUME NEW how \in Ends, Stop(how) PROVE Plain
  BY <1>2 DEF Stop, locals
<1>3. ASSUME NEW l, pc' = [pc EXCEPT ![t] = l], l \in FoundLabels => pc[t] \in FoundLabels,
             l # "size", counter' = counter, status' = status, k' = k,
             reg' = reg \/ \E x \in Int : reg' = [reg EXCEPT ![t] = x],
             bytes' = bytes \/ \E x \in Int : bytes' = [bytes EXCEPT ![t] = x]
      PROVE  Plain
  BY <1>1, <1>3
<1>4. ASSUME Leave(t), counter' = counter, status' = status PROVE Plain
  <2>1. /\ pc' = [pc EXCEPT ![t] = "idle"] /\ bytes' = [bytes EXCEPT ![t] = None]
        /\ reg' = [reg EXCEPT ![t] = None] /\ k' = [k EXCEPT ![t] = None]
    BY <1>4 DEF Leave, Goto, Set
  <2>2. pc'[t] = "idle" /\ \A u \in Threads \ {t} : pc'[u] = pc[u]
    BY <1>1, <2>1
  <2>3. None \in Int
    BY DEF None
  <2> QED BY <1>4, <2>1, <2>2, <2>3
<1> HIDE DEF Plain
<1> USE DEF At, Goto, Set, Enter, FoundLabels, Ends
<1>5. CASE malloc369(t)
  <2>1. PICK s \in Sizes : bytes' = [bytes EXCEPT ![t] = s]
    BY <1>5 DEF malloc369
  <2>2. s \in Int
    BY MallocAssumption
  <2> QED BY <1>3, <1>5, <2>1, <2>2 DEF malloc369
<1>6. CASE free369(t)
  BY <1>3, <1>6 DEF free369
<1>7. CASE malloc(t) \/ get(t)
  BY <1>3, <1>7 DEF malloc, get
<1>8. CASE malloc_returns(t)
  <2>1. CASE ~ Stop("exit")
    <3>1. pc' = [pc EXCEPT ![t] = "kh_put"] /\ UNCHANGED <<counter, status, k, reg, bytes>>
      BY <1>8, <2>1 DEF malloc_returns
    <3> QED BY <1>3, <3>1
  <2> QED BY <1>2, <2>1
<1>9. CASE kh_put(t)
  BY <1>3, <1>9 DEF kh_put
<1>10. CASE kh_resize(t)
  <2>1. CASE ~ Stop("put failed")
    <3>1. /\ \E l \in {"rehash", "kfree", "insert"} : pc' = [pc EXCEPT ![t] = l]
          /\ UNCHANGED <<counter, status, k, reg, bytes>>
      BY <1>10, <2>1 DEF kh_resize
    <3> QED BY <1>3, <3>1
  <2> QED BY <1>2, <2>1
<1>11. CASE set_size(t)
  BY <1>4, <1>11 DEF set_size
<1>12. CASE mark_freed(t)
  BY <1>4, <1>12 DEF mark_freed
<1>13. CASE asserts(t)
  <2>1. CASE ~ Stop("assert")
    <3>1. /\ pc[t] \in {"assert_frees", "assert_bytes"}
          /\ \E l \in {"num_frees", "bytes_freed"} : pc' = [pc EXCEPT ![t] = l]
          /\ UNCHANGED <<counter, status, k, bytes>> /\ reg' = [reg EXCEPT ![t] = None]
      BY <1>13, <2>1 DEF asserts
    <3>2. None \in Int
      BY DEF None
    <3> QED BY <1>3, <3>1, <3>2
  <2> QED BY <1>2, <2>1
<1>14. CASE fill_and_free(t)
  <2>1. CASE ~ Stop("undefined")
    <3>1. /\ \/ pc[t] = "fill" /\ pc' = [pc EXCEPT ![t] = "in_free"]
             \/ pc' = [pc EXCEPT ![t] = "in_free_only"]
          /\ UNCHANGED <<counter, status, k, reg, bytes>>
      BY <1>14, <2>1 DEF fill_and_free
    <3> QED BY <1>3, <3>1
  <2> QED BY <1>2, <2>1
<1>15. CASE free_returns(t)
  <2>1. CASE Leave(t)
    BY <1>4, <1>15, <2>1 DEF free_returns
  <2>2. CASE ~ Leave(t)
    <3>1. /\ pc[t] = "in_free" /\ pc' = [pc EXCEPT ![t] = "mark"]
          /\ UNCHANGED <<counter, status, k, reg, bytes>>
      BY <1>15, <2>2 DEF free_returns
    <3> QED BY <1>3, <3>1
  <2> QED BY <2>1, <2>2
<1>16. CASE stale_vals(t) \/ clash(t)
  BY <1>2, <1>16 DEF stale_vals, clash
<1> QED BY <1>5, <1>6, <1>7, <1>8, <1>9, <1>10, <1>11, <1>12, <1>13, <1>14, <1>15, <1>16

(* The loads and stores of the counters. *)
LEMMA CounterValues ==
  ASSUME TableInv, NEW t \in Threads, n_buckets \in Nat, n_buckets' \in Nat, n_buckets <= n_buckets',
         load(t) \/ store(t) \/ load_minuend(t)
  PROVE  ValuesOK'
<1>1. /\ DOMAIN pc = Threads /\ counter \in [Counters -> Int]
      /\ bytes[t] \in Int /\ reg[t] \in Int
  BY DEF TableInv, TableOK, ValuesOK
<1>2. CASE load(t)
  <2>1. PICK c \in Counters : /\ pc[t] = c /\ reg' = [reg EXCEPT ![t] = counter[c]]
                              /\ pc' = [pc EXCEPT ![t] = c]
    BY <1>2 DEF load, At, Goto, Set
  <2>2. UNCHANGED <<counter, status, bytes, k>>
    BY <1>2 DEF load
  <2>3. counter[c] \in Int /\ \A u \in Threads : pc'[u] = pc[u]
    BY <1>1, <2>1
  <2> QED BY <2>1, <2>2, <2>3, ValuesAfter
<1>3. CASE store(t)
  <2>1. PICK c \in Counters : /\ pc[t] = c /\ counter' = [counter EXCEPT ![c] = reg[t] + Amount(t, c)]
                              /\ reg' = [reg EXCEPT ![t] = None]
                              /\ pc' = [pc EXCEPT ![t] = After(c)]
    BY <1>3 DEF store, At, Goto, Set
  <2>2. UNCHANGED <<status, bytes, k>>
    BY <1>3 DEF store
  <2>3. Amount(t, c) \in Int /\ None \in Int
    BY <1>1 DEF Amount, None
  <2>4. reg[t] + Amount(t, c) \in Int
    BY <1>1, <2>3
  <2>5. counter' \in [Counters -> Int]
    BY <1>1, <2>1, <2>4
  <2>6. (After(c) \in FoundLabels => c \in FoundLabels) /\ After(c) # "size"
    BY DEF After, Counters, FoundLabels
  <2>7. pc'[t] = After(c) /\ \A u \in Threads \ {t} : pc'[u] = pc[u]
    BY <1>1, <2>1
  <2> QED BY <2>1, <2>2, <2>3, <2>5, <2>6, <2>7, ValuesAfter
<1>4. CASE load_minuend(t)
  <2>1. PICK a \in {"load_mallocs", "load_bytes"} :
          /\ pc[t] = a /\ reg' = [reg EXCEPT ![t] = counter[Minuend(a)]]
          /\ pc' = [pc EXCEPT ![t] = IF a = "load_mallocs" THEN "assert_frees" ELSE "assert_bytes"]
    BY <1>4 DEF load_minuend, At, Goto, Set
  <2>2. UNCHANGED <<counter, status, bytes, k>>
    BY <1>4 DEF load_minuend
  <2>3. Minuend(a) \in Counters
    BY DEF Minuend, Counters
  <2>4. counter[Minuend(a)] \in Int
    BY <1>1, <2>3
  <2>5. /\ pc'[t] \in {"assert_frees", "assert_bytes"}
        /\ \A u \in Threads \ {t} : pc'[u] = pc[u]
    BY <1>1, <2>1
  <2>6. (pc'[t] \in FoundLabels => pc[t] \in FoundLabels) /\ pc'[t] # "size"
    BY <2>1, <2>5 DEF FoundLabels
  <2> QED BY <2>1, <2>2, <2>4, <2>5, <2>6, ValuesAfter
<1> QED BY <1>2, <1>3, <1>4

(* The look-ups.  The bucket that kh_get found is still one of the table   *)
(* when the table has grown since.                                         *)
LEMMA LookupValues ==
  ASSUME TableInv, NEW t \in Threads, n_buckets \in Nat, n_buckets' \in Nat, n_buckets <= n_buckets',
         \/ kh_put_returns(t) \/ get_returns(t) \/ find(t) \/ get_size(t)
         \/ mark_load(t) \/ load_vals(t)
  PROVE  ValuesOK'
<1>1. DOMAIN pc = Threads /\ DOMAIN k = Threads
  BY DEF TableInv, TableOK, ValuesOK
<1>2. CASE kh_put_returns(t)
  <2>1. /\ k' = [k EXCEPT ![t] = put_site(ptr[t])] /\ pc' = [pc EXCEPT ![t] = "set_value"]
        /\ UNCHANGED <<counter, status, bytes, reg>>
    BY <1>2 DEF kh_put_returns, Goto, Set
  <2>2. put_site(ptr[t]) \in 0 .. n_buckets - 1 /\ n_buckets' = n_buckets
    BY <1>2, InsertTable
  <2>3. /\ pc'[t] = "set_value" /\ k'[t] = put_site(ptr[t])
        /\ \A u \in Threads \ {t} : pc'[u] = pc[u]
    BY <1>1, <2>1
  <2>4. k'[t] \in 0 .. n_buckets' - 1
    BY <2>2, <2>3
  <2> QED BY <2>1, <2>3, <2>4, ValuesAfter
<1>3. CASE get_returns(t)
  <2>1. /\ k' = [k EXCEPT ![t] = kh_get(ptr[t])] /\ pc' = [pc EXCEPT ![t] = "size"]
        /\ UNCHANGED <<counter, status, bytes, reg>> /\ UNCHANGED hashVars /\ pc[t] = "in_get"
    BY <1>3 DEF get_returns, At, Goto, Set
  <2>2. kh_get(ptr[t]) \in 0 .. n_buckets'
    <3>1. Resting
      BY <2>1 DEF TableInv, TableOK, Growing, Rehashing
    <3>2. live \subseteq 0 .. n_buckets /\ n_buckets' = n_buckets
      BY <2>1, <3>1 DEF Resting, hashVars
    <3>3. kh_get(ptr[t]) \in live \cup {0, n_buckets}
      BY DEF kh_get
    <3>4. live \cup {0, n_buckets} \subseteq 0 .. n_buckets
      BY <3>2
    <3> QED BY <3>2, <3>3, <3>4
  <2>3. /\ pc'[t] = "size" /\ k'[t] = kh_get(ptr[t])
        /\ \A u \in Threads \ {t} : pc'[u] = pc[u]
    BY <1>1, <2>1
  <2>4. "size" \notin FoundLabels
    BY DEF FoundLabels
  <2> QED BY <2>1, <2>2, <2>3, <2>4, ValuesAfter
<1>4. CASE find(t)
  <2>1. /\ pc[t] = "size" /\ UNCHANGED <<hashVars, counter, status, bytes, reg, k>>
        /\ pc' = [pc EXCEPT ![t] = IF k[t] = n_buckets THEN "free_only" ELSE "value"]
    BY <1>4 DEF find, At, Goto, Set
  <2>2. k[t] \in 0 .. n_buckets /\ n_buckets' = n_buckets
    BY <2>1 DEF TableInv, ValuesOK, hashVars
  <2>3. /\ pc'[t] = (IF k[t] = n_buckets THEN "free_only" ELSE "value")
        /\ \A u \in Threads \ {t} : pc'[u] = pc[u]
    BY <1>1, <2>1
  <2>4. "free_only" \notin FoundLabels
    BY DEF FoundLabels
  <2>5. pc'[t] \in FoundLabels => k'[t] \in 0 .. n_buckets' - 1
    BY <2>1, <2>2, <2>3, <2>4
  <2> QED BY <2>1, <2>3, <2>5, ValuesAfter
<1>5. ASSUME pc[t] \in {"element", "mark_load"}, \A u \in Threads : pc[u] \notin Rehashing
      PROVE  vals[k[t]] \in Int
  <2>1. Resting
    BY <1>5 DEF TableInv, TableOK, Growing, Rehashing
  <2>2. k[t] \in 0 .. n_buckets - 1
    BY <1>5 DEF TableInv, ValuesOK, FoundLabels
  <2> QED BY <2>1, <2>2 DEF Resting, ArraysTo
<1>6. CASE get_size(t)
  <2>1. /\ pc[t] = "element" /\ UNCHANGED <<hashVars, counter, k>>
        /\ \A u \in Threads : pc[u] \notin Rehashing
    BY <1>6 DEF get_size, At, Clash, TableAccess, Rehashing, Stop, locals
  <2>2. CASE Stop("undefined")
    BY <1>1, <2>1, <2>2, ValuesAfter DEF Stop, locals, Ends
  <2>3. CASE ~ Stop("undefined")
    <3>1. PICK l \in {"free_only", "load_mallocs"} :
            /\ pc' = [pc EXCEPT ![t] = l] /\ bytes' = [bytes EXCEPT ![t] = vals[k[t]]]
            /\ reg' = [reg EXCEPT ![t] = None] /\ status' = status
      BY <1>6, <2>3 DEF get_size, Goto, Set
    <3>2. pc'[t] = l /\ \A u \in Threads \ {t} : pc'[u] = pc[u]
      BY <1>1, <3>1
    <3>3. "element" \in FoundLabels /\ l # "size"
      BY DEF FoundLabels
    <3>4. vals[k[t]] \in Int /\ None \in Int
      BY <1>5, <2>1 DEF None
    <3> QED BY <2>1, <3>1, <3>2, <3>3, <3>4, ValuesAfter
  <2> QED BY <2>2, <2>3
<1>7. CASE mark_load(t)
  <2>1. /\ pc[t] = "mark_load" /\ UNCHANGED <<hashVars, counter, status, reg, k>>
        /\ pc' = [pc EXCEPT ![t] = "mark_again"] /\ bytes' = [bytes EXCEPT ![t] = vals[k[t]]]
        /\ \A u \in Threads : pc[u] \notin Rehashing
    BY <1>7 DEF mark_load, At, Clash, TableAccess, Rehashing, Goto, Set
  <2>2. pc'[t] = "mark_again" /\ \A u \in Threads \ {t} : pc'[u] = pc[u]
    BY <1>1, <2>1
  <2>3. "mark_load" \in FoundLabels
    BY DEF FoundLabels
  <2>4. vals[k[t]] \in Int
    BY <1>5, <2>1
  <2> QED BY <2>1, <2>2, <2>3, <2>4, ValuesAfter
<1>8. CASE load_vals(t)
  <2>1. PICK l \in {"set_value", "value", "mark", "mark_again"} :
          /\ pc[t] = l /\ UNCHANGED <<hashVars, counter, status, bytes, k>>
          /\ pc' = [pc EXCEPT ![t] = AfterVals(l)] /\ reg' = [reg EXCEPT ![t] = vals_length]
          /\ \A u \in Threads : pc[u] \notin Rehashing
    BY <1>8 DEF load_vals, At, Clash, TableAccess, Rehashing, Goto, Set
  <2>2. l \in FoundLabels /\ AfterVals(l) # "size"
    BY DEF FoundLabels, AfterVals
  <2>3. pc'[t] = AfterVals(l) /\ \A u \in Threads \ {t} : pc'[u] = pc[u]
    BY <1>1, <2>1
  <2>4. vals_length \in Int
    <3>1. Resting
      BY <2>1 DEF TableInv, TableOK, Growing, Rehashing
    <3>2. DOMAIN vals = 0 .. n_buckets - 1
      BY <3>1 DEF Resting, ArraysTo
    <3>3. 0 \in Int /\ n_buckets - 1 \in Int
      OBVIOUS
    <3>4. IsFiniteSet(DOMAIN vals)
      BY <3>2, <3>3, FS_Interval
    <3> QED BY <3>4, FS_CardinalityType DEF vals_length
  <2> QED BY <2>1, <2>2, <2>3, <2>4, ValuesAfter
<1> QED BY <1>2, <1>3, <1>4, <1>6, <1>7, <1>8

------------------------------------------------------------------------------
LEMMA StepTable == SmallHeap /\ TableInv /\ [Next]_mallocVars => TableInv'
<1> SUFFICES ASSUME SmallHeap, TableInv, [Next]_mallocVars PROVE TableInv'
  OBVIOUS
<1>1. CASE Next
  <2> SUFFICES ASSUME NEW t \in Threads,
        \/ malloc369(t) \/ free369(t) \/ load(t) \/ store(t)
        \/ malloc(t) \/ malloc_returns(t)
        \/ kh_put(t) \/ kh_resize(t) \/ kh_put_returns(t) \/ set_size(t)
        \/ get(t) \/ get_returns(t) \/ find(t) \/ get_size(t) \/ load_minuend(t) \/ asserts(t)
        \/ fill_and_free(t) \/ free_returns(t) \/ mark_load(t) \/ mark_freed(t)
        \/ load_vals(t) \/ stale_vals(t) \/ clash(t)
      PROVE TableInv'
    BY <1>1 DEF Next
  <2>1. TableOK'
    <3>1. TableOK
      BY DEF TableInv
    <3> QED BY <3>1, ElsewhereSteps, PutTable, ResizeTable, InsertTable, ValueTable
  <2>2. OwnersOK'
    BY StepOwners
  <2>3. ValuesOK'
    <3>1. n_buckets \in Nat /\ n_buckets' \in Nat /\ n_buckets <= n_buckets'
      BY TableGrows
    <3> QED BY <3>1, PlainValues, CounterValues, LookupValues
  <2> QED BY <2>1, <2>2, <2>3 DEF TableInv
<1>2. CASE UNCHANGED mallocVars
  <2>1. (Moving' <=> Moving) /\ (Resting' <=> Resting)
    BY <1>2, SameTable DEF mallocVars
  <2>2. TableOK'
    BY <1>2, <2>1 DEF TableInv, TableOK, Growing, Growable, mallocVars, locals, hashVars
  <2>3. OwnersOK'
    BY <1>2 DEF TableInv, OwnersOK, Owns, mallocVars, locals
  <2>4. ValuesOK'
    BY <1>2 DEF TableInv, ValuesOK, mallocVars, locals, hashVars
  <2> QED BY <2>2, <2>3, <2>4 DEF TableInv
<1> QED BY <1>1, <1>2

LEMMA TableAlways ==
  ASSUME SmallHeap
  PROVE  Spec => []TableInv
<1>1. Init => TableInv
  BY InitTable, InitValues DEF TableInv
<1>2. TableInv /\ [Next]_mallocVars => TableInv'
  BY StepTable
<1> QED BY <1>1, <1>2, PTL DEF Spec

(* The variables have values of their types. *)
THEOREM MallocTypeCorrect ==
  ASSUME SmallHeap
  PROVE  Spec => []MallocTypeOK
BY TableAlways, TableTypes, PTL

(* Whatever the threads do, and however their calls are interrupted, kh_get*)
(* finds every entry of the table whenever nobody moves it, and its search *)
(* for a missing key comes to an end.                                      *)
THEOREM EntriesAreFound ==
  ASSUME SmallHeap
  PROVE  Spec => []Findable
BY TableAlways, TableFinds, PTL

(* kh_resize moves the entries within the arrays and loses none of them,   *)
(* and nobody changes the table under it.                                  *)
LEMMA StepKeeps ==
  ASSUME TableInv, Next, NEW r \in Threads, pc[r] \in Rehashing
  PROVE  Contents' = Contents
<1>1. PICK t \in Threads :
        \/ malloc369(t) \/ free369(t) \/ load(t) \/ store(t)
        \/ malloc(t) \/ malloc_returns(t)
        \/ kh_put(t) \/ kh_resize(t) \/ kh_put_returns(t) \/ set_size(t)
        \/ get(t) \/ get_returns(t) \/ find(t) \/ get_size(t) \/ load_minuend(t) \/ asserts(t)
        \/ fill_and_free(t) \/ free_returns(t) \/ mark_load(t) \/ mark_freed(t)
        \/ load_vals(t) \/ stale_vals(t) \/ clash(t)
  BY DEF Next
<1>2. TableOK
  BY DEF TableInv
<1>3. CASE kh_resize(t)
  BY <1>2, <1>3, ResizeTable
<1>4. CASE kh_put(t)
  BY <1>4, SameTable DEF kh_put
<1>5. ~ kh_put_returns(t)
  <2> SUFFICES ASSUME kh_put_returns(t) PROVE FALSE
    OBVIOUS
  <2>1. pc[t] = "insert"
    BY DEF kh_put_returns, At
  <2> QED BY <1>2, <2>1 DEF TableOK, Putting, Rehashing
<1>6. ~ set_size(t) /\ ~ mark_freed(t)
  BY ValueTable
<1>7. CASE ~ kh_resize(t) /\ ~ kh_put(t)
  <2>1. UNCHANGED hashVars
    BY <1>1, <1>2, <1>5, <1>6, <1>7, ElsewhereSteps
  <2> QED BY <2>1, SameTable
<1> QED BY <1>3, <1>4, <1>7

(* While kh_resize moves the entries, the table holds what it held.        *)
THEOREM RehashLosesNothing ==
  ASSUME SmallHeap
  PROVE  Spec => RehashKeeps
<1>1. TableInv /\ [Next]_mallocVars
        => [(\E t \in Threads : pc[t] \in Rehashing) => Contents' = Contents]_mallocVars
  BY StepKeeps
<1> QED BY <1>1, TableAlways, PTL DEF Spec, RehashKeeps

==============================================================================
