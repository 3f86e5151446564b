------------------------------ MODULE HashMap ------------------------------
(***************************************************************************)
(* The hash table of khash.h as malloc369.c uses it: kh_init, kh_put with  *)
(* kh_resize inside it, kh_get and kh_value.  Nothing is ever deleted from *)
(* malloc_map, so a bucket is empty or live, n_occupied equals size, and   *)
(* the table only grows.  kh_resize moves the entries within the arrays,   *)
(* one at a time: an entry taken from its bucket takes the place of        *)
(* another that has not been moved yet, which is moved next.               *)
(***************************************************************************)
EXTENDS Integers, FiniteSets

CONSTANTS
  Keys,        (* the pointers                                             *)
  Hash,        (* kh_int64_hash_func                                       *)
  Tables       (* the sizes of a table: the powers of two from 4 that a    *)
               (* khint_t holds, in the code 2^2 .. 2^31                   *)

ASSUME HashAssumption == Hash \in [Keys -> Nat]

ASSUME TableAssumption ==
  /\ Tables \subseteq Nat \ {0} /\ 4 \in Tables
  /\ \A n \in Tables : n = 4 \/ \E m \in Tables : n = 2 * m

VARIABLES
  n_buckets,   (* 0, or a power of two                                     *)
  live,        (* the buckets in use: flags                                *)
  keys, vals,  (* the arrays, as long as n_buckets or as the new table     *)
  new_live,    (* new_flags of kh_resize                                   *)
  j,           (* its index of the next bucket of the old table            *)
  hand         (* {}, or the one entry that it is moving: key and val      *)

hashVars == <<n_buckets, live, keys, vals, new_live, j, hand>>

kh_init ==
  /\ n_buckets = 0
  /\ live = {} /\ new_live = {} /\ hand = {}
  /\ keys = <<>> /\ vals = <<>>
  /\ j = 0

------------------------------------------------------------------------------
size == Cardinality(live)
Least(S) == CHOOSE x \in S : \A y \in S : x <= y

kroundup32(x) == CHOOSE p \in {1, 2} \cup Tables : x <= p /\ p < 2 * x

(* h->upper_bound = (khint_t)(h->n_buckets * 0.77 + 0.5) *)
UpperBound(n) == (77 * n + 50) \div 100
upper_bound == UpperBound(n_buckets)

(* kh_put makes a larger table.  Past the largest, kroundup32 overflows to *)
(* 0, 4 buckets are asked for, and kh_resize leaves a larger table alone.  *)
Full == size >= upper_bound /\ \E n \in Tables : n_buckets < n

(* The pointers fit in a table without filling it, of 2^31 buckets if they *)
(* are at most 1653562408. *)
SmallHeap ==
  IsFiniteSet(Keys) /\ \E n \in Tables : Cardinality(Keys) < UpperBound(n)

(* The table that kh_resize makes: n_buckets + 1 rounded up, at least 4. *)
new_n_buckets ==
  LET n == kroundup32(n_buckets + 1) IN IF n < 4 THEN 4 ELSE n

(* i = (i + (++step)) & mask *)
Site(k, n, step) == (Hash[k] + (step * (step + 1)) \div 2) % n

(* How many steps the search makes before it is back where it began.       *)
Round(n) == Least({s \in 1 .. 2 * n : ((s * (s + 1)) \div 2) % n = 0})

(* The first bucket of S on the way of key k through n buckets, or n. *)
FirstIn(k, n, S) ==
  LET hits == {s \in 0 .. Round(n) - 1 : Site(k, n, s) \in S} IN
  IF hits = {} THEN n ELSE Site(k, n, Least(hits))

Empty == (0 .. n_buckets - 1) \ live
Holding(k) == {i \in live : keys[i] = k}

kh_get(k) ==
  IF n_buckets = 0 THEN 0
  ELSE LET i == FirstIn(k, n_buckets, Empty \cup Holding(k)) IN
       IF i \in live THEN i ELSE n_buckets

------------------------------------------------------------------------------
(* Variants with a plausible slip; no specification uses them. *)

(* The displaced entry is dropped. *)
placeOver ==
  LET e == CHOOSE x \in hand : TRUE
      i == FirstIn(e.key, new_n_buckets, (0 .. new_n_buckets - 1) \ new_live) IN
  /\ hand # {}
  /\ new_live' = new_live \cup {i}
  /\ keys' = [keys EXCEPT ![i] = e.key]
  /\ vals' = [vals EXCEPT ![i] = e.val]
  /\ live' = live \ {i}
  /\ hand' = {}
  /\ j' = j + 1
  /\ UNCHANGED n_buckets

(* A displaced entry goes to any free bucket, not the next on its way. *)
placeAnywhere ==
  LET e == CHOOSE x \in hand : TRUE
      free == (0 .. new_n_buckets - 1) \ new_live
      i == IF Hash[e.key] % new_n_buckets \in free THEN Hash[e.key] % new_n_buckets
           ELSE Least(free) IN
  /\ hand # {}
  /\ new_live' = new_live \cup {i}
  /\ keys' = [keys EXCEPT ![i] = e.key]
  /\ vals' = [vals EXCEPT ![i] = e.val]
  /\ live' = live \ {i}
  /\ hand' = {[key |-> keys[b], val |-> vals[b]] : b \in live \cap {i}}
  /\ j' = IF i \in live THEN j ELSE j + 1
  /\ UNCHANGED n_buckets

(* j <= h->n_buckets in the loop of kh_resize *)
takeBeyond ==
  /\ hand = {} /\ j <= n_buckets
  /\ IF j \in live
     THEN hand' = {[key |-> keys[j], val |-> vals[j]]} /\ live' = live \ {j} /\ UNCHANGED j
     ELSE j' = j + 1 /\ UNCHANGED <<hand, live>>
  /\ UNCHANGED <<n_buckets, keys, vals, new_live>>

------------------------------------------------------------------------------
(* kh_resize: allocate, then for each live bucket of the old table `take'  *)
(* its entry and `place' it and those it displaces.                        *)
resize ==
  /\ keys' = [i \in 0 .. new_n_buckets - 1 |-> IF i < n_buckets THEN keys[i] ELSE -1]
  /\ vals' = [i \in 0 .. new_n_buckets - 1 |-> IF i < n_buckets THEN vals[i] ELSE -1]
  /\ new_live' = {} /\ j' = 0 /\ hand' = {}
  /\ UNCHANGED <<n_buckets, live>>

take ==
  /\ hand = {} /\ j < n_buckets
  /\ IF j \in live
     THEN hand' = {[key |-> keys[j], val |-> vals[j]]} /\ live' = live \ {j} /\ UNCHANGED j
     ELSE j' = j + 1 /\ UNCHANGED <<hand, live>>
  /\ UNCHANGED <<n_buckets, keys, vals, new_live>>

place ==
  LET e == CHOOSE x \in hand : TRUE
      i == FirstIn(e.key, new_n_buckets, (0 .. new_n_buckets - 1) \ new_live) IN
  /\ hand # {}
  /\ new_live' = new_live \cup {i}
  /\ keys' = [keys EXCEPT ![i] = e.key]
  /\ vals' = [vals EXCEPT ![i] = e.val]
  /\ live' = live \ {i}
  /\ hand' = {[key |-> keys[b], val |-> vals[b]] : b \in live \cap {i}}
  /\ j' = IF i \in live THEN j ELSE j + 1
  /\ UNCHANGED n_buckets

resized ==
  /\ hand = {} /\ j = n_buckets
  /\ live' = new_live
  /\ n_buckets' = new_n_buckets
  /\ new_live' = {} /\ j' = 0
  /\ UNCHANGED <<keys, vals, hand>>

(* The rest of kh_put: the bucket it returns, and what it does to it. *)
put_site(k) ==
  LET i == FirstIn(k, n_buckets, Empty \cup Holding(k)) IN
  IF i = n_buckets THEN Site(k, n_buckets, 0) ELSE i

insert(k) ==
  /\ IF put_site(k) \in live THEN UNCHANGED <<live, keys>>
     ELSE /\ live' = live \cup {put_site(k)}
          /\ keys' = [keys EXCEPT ![put_site(k)] = k]
  /\ UNCHANGED <<n_buckets, vals, new_live, j, hand>>

(* kh_value(h, x) = v *)
set_value(x, v) ==
  /\ vals' = [vals EXCEPT ![x] = v]
  /\ UNCHANGED <<n_buckets, live, keys, new_live, j, hand>>

------------------------------------------------------------------------------
(* What the table holds, also while it is being moved. *)
Contents ==
  {[key |-> keys[i], val |-> vals[i]] : i \in live \cup new_live} \cup hand
==============================================================================
