----------------------------- MODULE Malloc369 -----------------------------
(***************************************************************************)
(* The allocation accounting of malloc369.c, called by threads that may be *)
(* preempted.  thread_create and thread_kill call it with the timer signal *)
(* blocked; wait_queue_create, lock_create, cv_create and their destroy    *)
(* functions call it as their caller left the signal.  A call in which the *)
(* signal is not blocked can be interrupted between any two accesses of    *)
(* malloc369 and free369 to memory that other threads use, also between    *)
(* the load and the store of one `++'.                                     *)
(*                                                                         *)
(* pc[t] is what thread t does next.  The allocator of the C library and   *)
(* the hash table are not reentrant: what happens when a second thread     *)
(* enters one of them while another thread is inside is undefined.         *)
(***************************************************************************)
EXTENDS HashMap, Functions, FiniteSetsExt

CONSTANTS
  Threads,
  Sizes,       (* the sizes that are asked for                             *)
  FREED,       (* the highest bit of a size_t: 2^63 in the code            *)
  HeapBytes,   (* the bytes of the address space, fewer than FREED         *)
  MaxMallocs,  (* bounds: calls of malloc369 and of free369                *)
  MaxFrees,
  MaxInterrupts   (* and calls made while another thread is in one         *)

ASSUME MallocAssumption ==
  /\ Threads # {} /\ IsFiniteSet(Threads)
  /\ FREED \in Nat /\ HeapBytes \in 0 .. FREED - 1
  /\ Sizes \subseteq 1 .. FREED - 1
  /\ MaxMallocs \in Nat /\ MaxFrees \in Nat /\ MaxInterrupts \in Nat

Counters == {"num_mallocs", "bytes_malloced", "num_frees", "bytes_freed"}
None == -1

VARIABLES
  counter,     (* the four counters                                        *)
  heap,        (* the sizes of the allocated pointers, for the C library   *)
  held,        (* the pointers that the program has got and not given back *)
  status,      (* "running", or how the process ended                      *)
  (* of the thread in malloc369 or free369: reg holds what it has loaded, *)
  (* of h->vals the length of the array                                   *)
  pc, blocked, ptr, bytes, reg, k,
  (* history *)
  mallocs, frees,   (* the calls made                                      *)
  interrupts   (* the calls made while another thread was in one           *)

locals == <<pc, blocked, ptr, bytes, reg, k>>
mallocVars == <<hashVars, counter, heap, held, status, locals, mallocs, frees, interrupts>>

Init ==
  /\ kh_init
  /\ counter = [c \in Counters |-> 0]
  /\ heap = <<>>
  /\ held = {}
  /\ status = "running"
  /\ pc = [t \in Threads |-> "idle"]
  /\ blocked = [t \in Threads |-> FALSE]
  /\ ptr = [t \in Threads |-> None]
  /\ bytes = [t \in Threads |-> None]
  /\ reg = [t \in Threads |-> None]
  /\ k = [t \in Threads |-> None]
  /\ mallocs = 0 /\ frees = 0
  /\ interrupts = 0

------------------------------------------------------------------------------
(* The labels inside the allocator, inside kh_resize and inside kh_put.     *)
InHeap == {"in_malloc", "resize", "kfree", "in_free", "in_free_only"}
Rehashing == {"resize", "rehash", "kfree"}
Putting == Rehashing \cup {"insert"}
TableAccess == {"get", "size", "value", "element", "set_value", "set_element",
                "mark", "mark_load", "mark_again", "mark_store"}

(* Does the next step of thread t take it into the allocator, or to a part *)
(* of the table, that thread u has left half way?                          *)
ToHeap(t) ==
  \/ pc[t] \in {"malloc", "fill", "free_only"}
  \/ pc[t] = "kh_put" /\ Full
  \/ pc[t] = "rehash" /\ hand = {} /\ j = n_buckets
Clash(t, u) ==
  \/ ToHeap(t) /\ pc[u] \in InHeap
  \/ pc[t] = "kh_put" /\ (pc[u] \in Putting \/ (Full /\ pc[u] = "in_get"))
  \/ pc[t] \in TableAccess /\ pc[u] \in Rehashing

(* Thread t has the processor: no other thread is in a call in which the   *)
(* signal is blocked.                                                      *)
Runs(t) ==
  /\ status = "running"
  /\ \A u \in Threads \ {t} : ~ (blocked[u] /\ pc[u] # "idle")

(* It goes on at label. *)
At(t, label) ==
  /\ Runs(t) /\ pc[t] = label
  /\ \A u \in Threads \ {t} : ~ Clash(t, u)
Set(f, t, v) == [f EXCEPT ![t] = v]
Goto(t, label) == pc' = Set(pc, t, label) /\ UNCHANGED interrupts

Stop(how) ==
  /\ status' = how
  /\ UNCHANGED <<hashVars, counter, heap, held, locals, mallocs, frees, interrupts>>

(* A call begins, and returns. *)
Enter(t, label) ==
  /\ pc' = Set(pc, t, label)
  /\ interrupts' = IF \E u \in Threads \ {t} : pc[u] # "idle" THEN interrupts + 1 ELSE interrupts
  /\ interrupts' <= MaxInterrupts
Leave(t) ==
  /\ Goto(t, "idle")
  /\ blocked' = Set(blocked, t, FALSE) /\ ptr' = Set(ptr, t, None)
  /\ bytes' = Set(bytes, t, None) /\ reg' = Set(reg, t, None) /\ k' = Set(k, t, None)

Total(S) == FoldSet(LAMBDA p, sum : sum + heap[p], 0, S)

(* The array that h->vals points to, and whether kh_resize has moved it    *)
(* since thread t loaded h->vals: realloc may leave it where it is.        *)
vals_length == Cardinality(DOMAIN vals)
Moved(t) == reg[t] # vals_length

------------------------------------------------------------------------------
(* Variants with a plausible slip; no specification uses them. *)

(* num_mallocs += size *)
AmountBytes(t, c) == bytes[t]

(* bytes_freed is not updated. *)
AfterNoBytes(c) ==
  CASE c = "num_mallocs" -> "bytes_malloced"
    [] c = "bytes_malloced" -> "malloc"
    [] c = "num_frees" -> "fill"

(* The size is stored only for a pointer that the map did not have. *)
set_sizeOnce(t) ==
  /\ At(t, "set_element")
  /\ IF vals[k[t]] = None THEN set_value(k[t], bytes[t]) ELSE UNCHANGED hashVars
  /\ held' = held \cup {ptr[t]}
  /\ Leave(t)
  /\ UNCHANGED <<counter, heap, status, mallocs, frees>>

(* The pointer is not marked. *)
mark_nothing(t) ==
  /\ At(t, "mark_store")
  /\ Leave(t)
  /\ UNCHANGED <<hashVars, counter, heap, held, status, mallocs, frees>>

------------------------------------------------------------------------------
malloc369(t) ==
  /\ At(t, "idle") /\ mallocs < MaxMallocs
  /\ \E s \in Sizes, b \in BOOLEAN :
       bytes' = Set(bytes, t, s) /\ blocked' = Set(blocked, t, b)
  /\ Enter(t, "num_mallocs")
  /\ mallocs' = mallocs + 1
  /\ UNCHANGED <<hashVars, counter, heap, held, status, ptr, reg, k, frees>>

free369(t) ==
  /\ At(t, "idle") /\ frees < MaxFrees
  /\ \E p \in held, b \in BOOLEAN :
     /\ ptr' = Set(ptr, t, p) /\ blocked' = Set(blocked, t, b)
     /\ held' = held \ {p}
  /\ Enter(t, "get")
  /\ frees' = frees + 1
  /\ UNCHANGED <<hashVars, counter, heap, status, bytes, reg, k, mallocs>>

(* num_mallocs++, bytes_malloced += size, num_frees++, bytes_freed += size *)
Amount(t, c) == IF c \in {"num_mallocs", "num_frees"} THEN 1 ELSE bytes[t]
After(c) ==
  CASE c = "num_mallocs" -> "bytes_malloced"
    [] c = "bytes_malloced" -> "malloc"
    [] c = "num_frees" -> "load_bytes"
    [] c = "bytes_freed" -> "fill"

load(t) ==
  \E c \in Counters :
  /\ At(t, c) /\ reg[t] = None
  /\ reg' = Set(reg, t, counter[c])
  /\ Goto(t, c)
  /\ UNCHANGED <<hashVars, counter, heap, held, status, blocked, ptr, bytes, k, mallocs, frees>>

store(t) ==
  \E c \in Counters :
  /\ At(t, c) /\ reg[t] # None
  /\ counter' = [counter EXCEPT ![c] = reg[t] + Amount(t, c)]
  /\ reg' = Set(reg, t, None)
  /\ Goto(t, After(c))
  /\ UNCHANGED <<hashVars, heap, held, status, blocked, ptr, bytes, k, mallocs, frees>>

------------------------------------------------------------------------------
(* malloc369 after its counters *)
malloc(t) ==
  /\ At(t, "malloc")
  /\ Goto(t, "in_malloc")
  /\ UNCHANGED <<hashVars, counter, heap, held, status, blocked, ptr, bytes, reg, k, mallocs, frees>>

malloc_returns(t) ==
  /\ At(t, "in_malloc")
  /\ \/ \E p \in Keys \ DOMAIN heap :
          /\ Total(DOMAIN heap) + bytes[t] <= HeapBytes
          /\ heap' = [q \in DOMAIN heap \cup {p} |-> IF q = p THEN bytes[t] ELSE heap[q]]
          /\ ptr' = Set(ptr, t, p)
          /\ Goto(t, "kh_put")
          /\ UNCHANGED <<hashVars, counter, held, status, blocked, bytes, reg, k, mallocs, frees>>
     \/ Stop("exit")

kh_put(t) ==
  /\ At(t, "kh_put")
  /\ Goto(t, IF Full THEN "resize" ELSE "insert")
  /\ UNCHANGED <<hashVars, counter, heap, held, status, blocked, ptr, bytes, reg, k, mallocs, frees>>

(* kh_resize: without memory kh_put returns -1 and assert(ret >= 0) fails. *)
kh_resize(t) ==
  \/ /\ \/ At(t, "resize") /\ resize /\ Goto(t, "rehash")
        \/ At(t, "rehash") /\ (take \/ place) /\ Goto(t, "rehash")
        \/ At(t, "rehash") /\ hand = {} /\ j = n_buckets /\ Goto(t, "kfree") /\ UNCHANGED hashVars
        \/ At(t, "kfree") /\ resized /\ Goto(t, "insert")
     /\ UNCHANGED <<counter, heap, held, status, blocked, ptr, bytes, reg, k, mallocs, frees>>
  \/ At(t, "resize") /\ Stop("put failed")

kh_put_returns(t) ==
  /\ At(t, "insert")
  /\ insert(ptr[t])
  /\ k' = Set(k, t, put_site(ptr[t]))
  /\ Goto(t, "set_value")
  /\ UNCHANGED <<counter, heap, held, status, blocked, ptr, bytes, reg, mallocs, frees>>

(* kh_value(malloc_map, k) = size, once h->vals is loaded *)
set_size(t) ==
  /\ At(t, "set_element")
  /\ set_value(k[t], bytes[t])
  /\ held' = held \cup {ptr[t]}
  /\ Leave(t)
  /\ UNCHANGED <<counter, heap, status, mallocs, frees>>

------------------------------------------------------------------------------
(* free369 *)
get(t) ==
  /\ At(t, "get")
  /\ Goto(t, "in_get")
  /\ UNCHANGED <<hashVars, counter, heap, held, status, blocked, ptr, bytes, reg, k, mallocs, frees>>

get_returns(t) ==
  /\ At(t, "in_get")
  /\ k' = Set(k, t, kh_get(ptr[t]))
  /\ Goto(t, "size")
  /\ UNCHANGED <<hashVars, counter, heap, held, status, blocked, ptr, bytes, reg, mallocs, frees>>

(* is_missing *)
find(t) ==
  /\ At(t, "size")
  /\ Goto(t, IF k[t] = n_buckets THEN "free_only" ELSE "value")
  /\ UNCHANGED <<hashVars, counter, heap, held, status, blocked, ptr, bytes, reg, k, mallocs, frees>>

(* size = kh_value(malloc_map, k), and the check for double-free *)
get_size(t) ==
  /\ At(t, "element")
  /\ IF vals[k[t]] = None THEN Stop("undefined")
     ELSE /\ bytes' = Set(bytes, t, vals[k[t]]) /\ reg' = Set(reg, t, None)
          /\ Goto(t, IF vals[k[t]] >= FREED THEN "free_only" ELSE "load_mallocs")
          /\ UNCHANGED <<hashVars, counter, heap, held, status, blocked, ptr, k, mallocs, frees>>

(* The two assertions about the counters load one, and then the other.     *)
Minuend(a) == IF a = "load_mallocs" THEN "num_mallocs" ELSE "bytes_malloced"

load_minuend(t) ==
  \E a \in {"load_mallocs", "load_bytes"} :
  /\ At(t, a)
  /\ reg' = Set(reg, t, counter[Minuend(a)])
  /\ Goto(t, IF a = "load_mallocs" THEN "assert_frees" ELSE "assert_bytes")
  /\ UNCHANGED <<hashVars, counter, heap, held, status, blocked, ptr, bytes, k, mallocs, frees>>

(* The comparison of bytes is unsigned: a negative difference is a large   *)
(* number.                                                                 *)
FreesLeft(t) == bytes[t] # 0 /\ reg[t] - counter["num_frees"] > 0
BytesLeft(t) == (reg[t] - counter["bytes_freed"]) % (2 * FREED) >= bytes[t]

asserts(t) ==
  \E a \in {"assert_frees", "assert_bytes"} :
  /\ At(t, a)
  /\ IF IF a = "assert_frees" THEN FreesLeft(t) ELSE BytesLeft(t)
     THEN /\ Goto(t, IF a = "assert_frees" THEN "num_frees" ELSE "bytes_freed")
          /\ reg' = Set(reg, t, None)
          /\ UNCHANGED <<hashVars, counter, heap, held, status, blocked, ptr, bytes, k, mallocs, frees>>
     ELSE Stop("assert")

(* Filling the block with 0xee, and free(ptr) *)
fill_and_free(t) ==
  \E f \in {"fill", "free_only"} :
  /\ At(t, f)
  /\ IF f = "fill" /\ bytes[t] > heap[ptr[t]] THEN Stop("undefined")
     ELSE /\ Goto(t, IF f = "fill" THEN "in_free" ELSE "in_free_only")
          /\ UNCHANGED <<hashVars, counter, heap, held, status, blocked, ptr, bytes, reg, k, mallocs, frees>>

free_returns(t) ==
  /\ heap' = [p \in DOMAIN heap \ {ptr[t]} |-> heap[p]]
  /\ \/ At(t, "in_free") /\ Goto(t, "mark") /\ UNCHANGED <<blocked, ptr, bytes, reg, k>>
     \/ At(t, "in_free_only") /\ Leave(t)
  /\ UNCHANGED <<hashVars, counter, held, status, mallocs, frees>>

(* kh_value(malloc_map, k) |= FREED loads h->vals for the element, and     *)
(* again for the store; bytes[t] is what it has loaded.                    *)
Marked(v) == FREED + (v % FREED)

mark_load(t) ==
  /\ At(t, "mark_load")
  /\ bytes' = Set(bytes, t, vals[k[t]])
  /\ Goto(t, "mark_again")
  /\ UNCHANGED <<hashVars, counter, heap, held, status, blocked, ptr, reg, k, mallocs, frees>>

mark_freed(t) ==
  /\ At(t, "mark_store")
  /\ set_value(k[t], Marked(bytes[t]))
  /\ Leave(t)
  /\ UNCHANGED <<counter, heap, held, status, mallocs, frees>>

(* kh_value(malloc_map, k): the load of h->vals, *)
AfterVals(l) ==
  CASE l = "set_value" -> "set_element"
    [] l = "value" -> "element"
    [] l = "mark" -> "mark_load"
    [] l = "mark_again" -> "mark_store"

load_vals(t) ==
  \E l \in {"set_value", "value", "mark", "mark_again"} :
  /\ At(t, l)
  /\ reg' = Set(reg, t, vals_length)
  /\ Goto(t, AfterVals(l))
  /\ UNCHANGED <<hashVars, counter, heap, held, status, blocked, ptr, bytes, k, mallocs, frees>>

(* and the use of it after kh_resize has moved the array: of freed memory. *)
stale_vals(t) ==
  \E l \in {"set_element", "element", "mark_load", "mark_store"} :
  At(t, l) /\ Moved(t) /\ Stop("undefined")

clash(t) ==
  /\ Runs(t) /\ \E u \in Threads \ {t} : Clash(t, u)
  /\ Stop("undefined")

Next ==
  \E t \in Threads :
    \/ malloc369(t) \/ free369(t) \/ load(t) \/ store(t)
    \/ malloc(t) \/ malloc_returns(t)
    \/ kh_put(t) \/ kh_resize(t) \/ kh_put_returns(t) \/ set_size(t)
    \/ get(t) \/ get_returns(t) \/ find(t) \/ get_size(t) \/ load_minuend(t) \/ asserts(t)
    \/ fill_and_free(t) \/ free_returns(t) \/ mark_load(t) \/ mark_freed(t)
    \/ load_vals(t) \/ stale_vals(t) \/ clash(t)

Spec == Init /\ [][Next]_mallocVars

------------------------------------------------------------------------------
get_current_bytes_malloced == counter["bytes_malloced"] - counter["bytes_freed"]
get_current_num_mallocs == counter["num_mallocs"] - counter["num_frees"]

is_leak_free(num_mallocs_tol, num_bytes_tol) ==
  /\ get_current_bytes_malloced <= num_bytes_tol
  /\ get_current_num_mallocs <= num_mallocs_tol

Idle == status = "running" /\ \A t \in Threads : pc[t] = "idle"

(* The values of the variables. *)
MallocTypeOK ==
  /\ live \subseteq 0 .. n_buckets - 1 /\ new_live \subseteq 0 .. new_n_buckets - 1
  /\ DOMAIN keys = DOMAIN vals
  /\ DOMAIN keys = 0 .. n_buckets - 1 \/ DOMAIN keys = 0 .. new_n_buckets - 1
  /\ \A i \in live \cup new_live : keys[i] \in Keys
  /\ Cardinality(hand) <= 1 /\ j \in 0 .. n_buckets
  /\ counter \in [Counters -> Int]
  /\ held \subseteq DOMAIN heap /\ DOMAIN heap \subseteq Keys
  /\ status \in {"running", "exit", "put failed", "assert", "undefined"}

(* kh_get finds every entry of the table at the bucket where it is, and    *)
(* the search for a missing key ends at an empty bucket, whenever no thread*)
(* is moving the table: kh_resize and kh_put put entries where a later     *)
(* search passes, whatever else the threads do.                            *)
Findable ==
  (n_buckets > 0 /\ \A t \in Threads : pc[t] \notin Rehashing) =>
    /\ \A i \in live : kh_get(keys[i]) = i
    /\ Empty # {}
    /\ Cardinality({keys[i] : i \in live}) = size

(* While kh_resize moves the entries in place, each of them is in the old  *)
(* part of the table, in the new one or in hand: none is lost, or changed. *)
RehashKeeps ==
  [][(\E t \in Threads : pc[t] \in Rehashing) => Contents' = Contents]_mallocVars

(* If no call was interrupted by another, then whenever no thread is in    *)
(* one the counters agree with the heap, and is_leak_free(0, 0) tells      *)
(* whether every pointer was given back.                                   *)
Accounting ==
  (Idle /\ interrupts = 0) =>
    /\ get_current_num_mallocs = Cardinality(held)
    /\ get_current_bytes_malloced = Total(held)
    /\ DOMAIN heap = held
    /\ is_leak_free(0, 0) <=> held = {}

(* If no call was interrupted by another, the map knows the size of every  *)
(* pointer that the program holds, and that the others have been freed.    *)
KnownPointers ==
  interrupts = 0 =>
    /\ \A p \in held : [key |-> p, val |-> heap[p]] \in Contents
    /\ Idle => \A e \in Contents : e.key \in held \/ e.val >= FREED

(* If no call was interrupted by another, a correct program is never told  *)
(* that a pointer is unknown or already freed, no assertion fails (but for *)
(* that of kh_put, without memory), and no block is filled past its end.   *)
NoFalseAlarm ==
  interrupts = 0 =>
    /\ status \notin {"assert", "undefined"}
    /\ \A t \in Threads : pc[t] \notin {"free_only", "in_free_only"}

(* However the calls interrupt each other, no call is counted twice, and   *)
(* each malloc369 made inside another call loses at most one update.       *)
CountsWithin ==
  /\ counter["num_mallocs"] <= mallocs /\ counter["num_frees"] <= frees
  /\ Idle => counter["num_mallocs"] >= mallocs - interrupts

(* The same of free369.  An interruption costs one call for every thread   *)
(* that is in one: the update is lost, or the wrong entry is marked and its*)
(* pointer will be taken for a freed one.                                  *)
FreesCounted ==
  Idle => counter["num_frees"] >= frees - interrupts * (Cardinality(Threads) - 1)
==============================================================================
