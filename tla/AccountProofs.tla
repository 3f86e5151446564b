---------------------------- MODULE AccountProofs ----------------------------
(***************************************************************************)
(* What the accounting of malloc369.c tells while no call is interrupted   *)
(* by another: the counters, the map and the heap agree.  And how many of  *)
(* the free369 calls it may fail to count when they are interrupted.       *)
(***************************************************************************)
EXTENDS MallocProofs

------------------------------------------------------------------------------
(* Sums over finite sets.  Total is a recursive function of the subsets of *)
(* a set; what it computes is proved for the smallest set that could be a  *)
(* counterexample.                                                         *)
Summing(F, f, S) ==
  F = [T \in SUBSET S |-> IF T = {} THEN 0
                          ELSE LET x == CHOOSE y \in T : TRUE IN F[T \ {x}] + f[x]]
Sum(f, S) == (CHOOSE F : Summing(F, f, S))[S]

LEMMA TotalIsSum ==
  ASSUME NEW S
  PROVE  Total(S) = Sum(heap, S)
BY DEF Total, FoldSet, MapThenFoldSet, Sum, Summing

(* One element less. *)
LEMMA OneLess ==
  ASSUME NEW T, IsFiniteSet(T), T # {}, NEW x, x = CHOOSE y \in T : TRUE
  PROVE  /\ x \in T /\ IsFiniteSet(T \ {x})
         /\ Cardinality(T) \in Nat \ {0} /\ Cardinality(T \ {x}) = Cardinality(T) - 1
<1>1. x \in T
  OBVIOUS
<1>2. Cardinality(T) \in Nat /\ Cardinality(T) # 0
  BY FS_CardinalityType, FS_EmptySet
<1> QED BY <1>1, <1>2, FS_RemoveElement

LEMMA SummingExists ==
  ASSUME NEW S, IsFiniteSet(S), NEW f
  PROVE  \E F : Summing(F, f, S)
<1> DEFINE Upto(n) == {T \in SUBSET S : Cardinality(T) <= n}
           Next1(F, T) == IF T = {} THEN 0
                          ELSE LET x == CHOOSE y \in T : TRUE IN F[T \ {x}] + f[x]
           Part(F, n) == DOMAIN F = Upto(n) /\ \A T \in Upto(n) : F[T] = Next1(F, T)
           bad == {n \in Nat : ~ \E F : Part(F, n)}
<1>1. bad = {}
  <2> SUFFICES ASSUME bad # {} PROVE FALSE
    OBVIOUS
  <2> DEFINE m == Least(bad)
  <2>1. m \in Nat /\ (~ \E F : Part(F, m)) /\ \A n \in Nat : n < m => \E F : Part(F, n)
    <3>1. bad \in SUBSET Nat
      OBVIOUS
    <3> HIDE DEF bad
    <3>2. m \in bad /\ \A n \in bad : m <= n
      BY <3>1, LeastIs
    <3>3. \A n \in Nat : n < m => n \notin bad
      <4> SUFFICES ASSUME NEW n \in Nat, n < m, n \in bad PROVE FALSE
        OBVIOUS
      <4>1. m \in Nat /\ m <= n
        BY <3>1, <3>2
      <4> HIDE DEF m
      <4> QED BY <4>1
    <3> QED BY <3>2, <3>3 DEF bad
  <2> HIDE DEF m, bad
  <2>2. \E F : m # 0 => Part(F, m - 1)
    <3>1. CASE m = 0
      BY <3>1
    <3>2. CASE m # 0
      <4>1. m - 1 \in Nat /\ m - 1 < m
        BY <2>1, <3>2
      <4> QED BY <2>1, <4>1
    <3> QED BY <3>1, <3>2
  <2>3. PICK F : m # 0 => Part(F, m - 1)
    BY <2>2
  <2> DEFINE G == [T \in Upto(m) |-> Next1(F, T)]
  <2>4. \A T \in Upto(m) : G[T] = Next1(G, T)
    <3> SUFFICES ASSUME NEW T \in Upto(m), T # {} PROVE Next1(F, T) = Next1(G, T)
      OBVIOUS
    <3> DEFINE x == CHOOSE y \in T : TRUE
    <3>1. /\ x \in T /\ Cardinality(T) \in Nat \ {0} /\ Cardinality(T \ {x}) = Cardinality(T) - 1
      BY OneLess, FS_Subset
    <3> HIDE DEF x
    <3>2. Cardinality(T) <= m /\ T \ {x} \in SUBSET S
      OBVIOUS
    <3>3. T \ {x} \in Upto(m) /\ m # 0 /\ T \ {x} \in Upto(m - 1)
      BY <2>1, <3>1, <3>2
    <3>4. F[T \ {x}] = Next1(F, T \ {x})
      BY <2>3, <3>3
    <3>5. G[T \ {x}] = Next1(F, T \ {x})
      BY <3>3
    <3>6. F[T \ {x}] = G[T \ {x}]
      BY <3>4, <3>5
    <3> HIDE DEF G
    <3> QED BY <3>6 DEF x
  <2>5. Part(G, m)
    BY <2>4
  <2> HIDE DEF Part, G
  <2> QED BY <2>1, <2>5
<1>2. Cardinality(S) \in Nat
  BY FS_CardinalityType
<1>3. PICK F : Part(F, Cardinality(S))
  BY <1>1, <1>2
<1>4. Upto(Cardinality(S)) = SUBSET S
  BY FS_Subset
<1> DEFINE G == [T \in SUBSET S |-> F[T]]
<1>5. \A T \in SUBSET S : F[T] = Next1(F, T)
  BY <1>3, <1>4
<1>6. \A T \in SUBSET S : T # {} => T \ {CHOOSE y \in T : TRUE} \in SUBSET S
  OBVIOUS
<1>7. \A T \in SUBSET S : G[T] = Next1(G, T)
  BY <1>5, <1>6
<1> HIDE DEF Upto, Part, bad
<1>8. G = [T \in SUBSET S |-> Next1(G, T)]
  <2>1. G = [T \in SUBSET S |-> G[T]]
    OBVIOUS
  <2> HIDE DEF G
  <2> QED BY <1>7, <2>1
<1> HIDE DEF G
<1> QED BY <1>8 DEF Summing

(* The smallest of some finite sets. *)
LEMMA Smallest ==
  ASSUME NEW S, IsFiniteSet(S), NEW B \in SUBSET SUBSET S, B # {}
  PROVE  \E T \in B : IsFiniteSet(T) /\ \A x \in T : T \ {x} \notin B
<1> DEFINE sizes == {Cardinality(T) : T \in B}
<1>1. \A T \in B : IsFiniteSet(T) /\ Cardinality(T) \in Nat
  BY FS_Subset, FS_CardinalityType
<1>2. sizes \in SUBSET Nat /\ sizes # {}
  BY <1>1
<1>3. \A T \in B : Cardinality(T) \in sizes
  OBVIOUS
<1>4. \A n \in sizes : \E T \in B : Cardinality(T) = n
  OBVIOUS
<1> HIDE DEF sizes
<1>5. Least(sizes) \in sizes /\ \A n \in sizes : Least(sizes) <= n
  BY <1>2, LeastIs
<1>6. PICK T \in B : Cardinality(T) = Least(sizes)
  BY <1>4, <1>5
<1>7. \A x \in T : T \ {x} \notin B
  <2> SUFFICES ASSUME NEW x \in T, T \ {x} \in B PROVE FALSE
    OBVIOUS
  <2>1. Cardinality(T \ {x}) = Cardinality(T) - 1
    BY <1>1, FS_RemoveElement
  <2>2. Cardinality(T) <= Cardinality(T \ {x})
    BY <1>3, <1>5, <1>6
  <2> QED BY <1>1, <2>1, <2>2
<1> QED BY <1>1, <1>6, <1>7

Sums(F, f, S) ==
  /\ Summing(F, f, S) /\ F[S] = Sum(f, S) /\ F[{}] = 0
  /\ \A T \in SUBSET S : T # {} => \E x \in T : F[T] = F[T \ {x}] + f[x]

LEMMA SumIs ==
  ASSUME NEW S, IsFiniteSet(S), NEW f
  PROVE  \E F : Sums(F, f, S)
<1> DEFINE F == CHOOSE G : Summing(G, f, S)
<1>1. Summing(F, f, S)
  BY SummingExists
<1>2. F[S] = Sum(f, S)
  BY DEF Sum
<1> HIDE DEF F
<1>3. \A T \in SUBSET S : F[T] = IF T = {} THEN 0
                                 ELSE LET x == CHOOSE y \in T : TRUE IN F[T \ {x}] + f[x]
  BY <1>1 DEF Summing
<1>4. \A T \in SUBSET S : T # {} => \E x \in T : F[T] = F[T \ {x}] + f[x]
  <2> SUFFICES ASSUME NEW T \in SUBSET S, T # {} PROVE \E x \in T : F[T] = F[T \ {x}] + f[x]
    OBVIOUS
  <2> DEFINE x == CHOOSE y \in T : TRUE
  <2>1. F[T] = F[T \ {x}] + f[x]
    BY <1>3
  <2>2. x \in T
    OBVIOUS
  <2> HIDE DEF x
  <2> QED BY <2>1, <2>2
<1>5. F[{}] = 0
  BY <1>3
<1> QED BY <1>1, <1>2, <1>4, <1>5 DEF Sums

(* A sum depends only on the elements of its set. *)
LEMMA SumsAgree ==
  ASSUME NEW D, IsFiniteSet(D), NEW E, NEW f, NEW g, NEW F, NEW G,
         Summing(F, f, D), Summing(G, g, E),
         NEW T \in SUBSET D, T \subseteq E, \A x \in T : f[x] = g[x]
  PROVE  F[T] = G[T]
<1> DEFINE bad == {U \in SUBSET T : F[U] # G[U]}
<1>1. ASSUME bad # {} PROVE FALSE
  <2>1. IsFiniteSet(T)
    BY FS_Subset
  <2>2. PICK U \in bad : IsFiniteSet(U) /\ \A x \in U : U \ {x} \notin bad
    <3>1. bad \in SUBSET SUBSET T
      OBVIOUS
    <3> HIDE DEF bad
    <3> QED BY <1>1, <2>1, <3>1, Smallest
  <2>3. /\ F[U] = IF U = {} THEN 0 ELSE LET x == CHOOSE y \in U : TRUE IN F[U \ {x}] + f[x]
        /\ G[U] = IF U = {} THEN 0 ELSE LET x == CHOOSE y \in U : TRUE IN G[U \ {x}] + g[x]
    BY DEF Summing
  <2>4. U # {}
    BY <2>3
  <2> DEFINE x == CHOOSE y \in U : TRUE
  <2>5. x \in U
    BY <2>4
  <2>6. F[U] = F[U \ {x}] + f[x] /\ G[U] = G[U \ {x}] + g[x]
    BY <2>3, <2>4
  <2> HIDE DEF x
  <2>7. F[U \ {x}] = G[U \ {x}] /\ f[x] = g[x]
    BY <2>2, <2>5
  <2> QED BY <2>6, <2>7
<1> QED BY <1>1

LEMMA SumSame ==
  ASSUME NEW S, IsFiniteSet(S), NEW f, NEW g, \A x \in S : f[x] = g[x]
  PROVE  Sum(f, S) = Sum(g, S)
<1>1. PICK F : Sums(F, f, S)
  BY SumIs
<1>2. PICK G : Sums(G, g, S)
  BY SumIs
<1> QED BY <1>1, <1>2, SumsAgree DEF Sums

Size == 0 .. FREED - 1

LEMMA FreedBit == FREED \in Nat \ {0} /\ HeapBytes \in Nat /\ HeapBytes < FREED
<1>1. FREED \in Nat /\ HeapBytes \in 0 .. FREED - 1
  BY MallocAssumption
<1> QED BY <1>1

LEMMA SummingTypes ==
  ASSUME NEW S, IsFiniteSet(S), NEW f, \A x \in S : f[x] \in Size, NEW F, Sums(F, f, S)
  PROVE  \A T \in SUBSET S : F[T] \in Nat
<1> DEFINE bad == {T \in SUBSET S : F[T] \notin Nat}
<1>1. ASSUME bad # {} PROVE FALSE
  <2>1. PICK T \in bad : IsFiniteSet(T) /\ \A x \in T : T \ {x} \notin bad
    <3>1. bad \in SUBSET SUBSET S
      OBVIOUS
    <3> HIDE DEF bad
    <3> QED BY <1>1, <3>1, Smallest
  <2>2. T # {}
    <3>1. F[{}] = 0
      BY DEF Sums
    <3> QED BY <3>1
  <2>3. PICK x \in T : F[T] = F[T \ {x}] + f[x]
    BY <2>2 DEF Sums
  <2>4. F[T \ {x}] \in Nat
    BY <2>1
  <2>5. f[x] \in Nat
    BY FreedBit DEF Size
  <2>6. F[T] \in Nat
    BY <2>3, <2>4, <2>5
  <2> QED BY <2>6
<1> QED BY <1>1

LEMMA SumTypes ==
  ASSUME NEW S, IsFiniteSet(S), NEW f, \A x \in S : f[x] \in Size
  PROVE  Sum(f, S) \in Nat /\ (S = {} => Sum(f, S) = 0)
<1>1. PICK F : Sums(F, f, S)
  BY SumIs
<1>2. \A T \in SUBSET S : F[T] \in Nat
  BY <1>1, SummingTypes
<1> QED BY <1>1, <1>2 DEF Sums

(* The order does not matter. *)
LEMMA SumWithout ==
  ASSUME NEW S, IsFiniteSet(S), NEW f, \A x \in S : f[x] \in Size, NEW p \in S
  PROVE  Sum(f, S) = Sum(f, S \ {p}) + f[p]
<1>1. PICK F : Sums(F, f, S)
  BY SumIs
<1>2. \A T \in SUBSET S : F[T] \in Nat
  BY <1>1, SummingTypes
<1> DEFINE bad == {T \in SUBSET S : \E q \in T : F[T] # F[T \ {q}] + f[q]}
<1>3. ASSUME bad # {} PROVE FALSE
  <2>1. PICK T \in bad : IsFiniteSet(T) /\ \A x \in T : T \ {x} \notin bad
    <3>1. bad \in SUBSET SUBSET S
      OBVIOUS
    <3> HIDE DEF bad
    <3> QED BY <1>3, <3>1, Smallest
  <2>2. PICK q \in T : F[T] # F[T \ {q}] + f[q]
    OBVIOUS
  <2>3. PICK x \in T : F[T] = F[T \ {x}] + f[x]
    BY <1>1, <2>2 DEF Sums
  <2>4. x # q
    BY <2>2, <2>3
  <2>5. F[T \ {x}] = F[(T \ {x}) \ {q}] + f[q] /\ F[T \ {q}] = F[(T \ {q}) \ {x}] + f[x]
    BY <2>1, <2>4
  <2>6. (T \ {x}) \ {q} = (T \ {q}) \ {x}
    OBVIOUS
  <2>7. F[(T \ {x}) \ {q}] \in Nat /\ f[x] \in Nat /\ f[q] \in Nat
    BY <1>2, FreedBit DEF Size
  <2> DEFINE rest == F[(T \ {x}) \ {q}]
  <2>8. F[T] = rest + f[q] + f[x] /\ F[T \ {q}] = rest + f[x]
    BY <2>3, <2>5, <2>6
  <2>9. rest \in Nat
    BY <2>7
  <2> HIDE DEF rest
  <2> QED BY <2>2, <2>7, <2>8, <2>9
<1>4. F[S] = F[S \ {p}] + f[p]
  BY <1>3
<1>5. IsFiniteSet(S \ {p})
  BY FS_Subset
<1>6. PICK G : Sums(G, f, S \ {p})
  BY <1>5, SumIs
<1>7. F[S \ {p}] = G[S \ {p}]
  BY <1>1, <1>6, SumsAgree DEF Sums
<1> QED BY <1>1, <1>4, <1>6, <1>7 DEF Sums

------------------------------------------------------------------------------
(* Where the one thread that is in a call stands, if no call was           *)
(* interrupted: how far it is counted, and whose block it has in hand.     *)
MallocLabels == {"num_mallocs", "bytes_malloced", "malloc", "in_malloc"}
Seeking == {"get", "in_get", "size", "value", "element"}
Taking == {"load_mallocs", "assert_frees", "num_frees", "load_bytes", "assert_bytes",
           "bytes_freed", "fill", "in_free"}
MarkLabels == {"mark", "mark_load", "mark_again", "mark_store"}
BlockSize == 1 .. FREED - 1

One(t) ==
  IF pc[t] \in (MallocLabels \ {"num_mallocs"}) \cup PutLabels \cup Seeking
              \cup {"load_mallocs", "assert_frees", "num_frees"}
  THEN 1 ELSE 0
Bytes(t) ==
  IF pc[t] \in {"malloc", "in_malloc"} \cup PutLabels \cup (Taking \ {"fill", "in_free"}) THEN bytes[t]
  ELSE IF pc[t] \in Seeking THEN heap[ptr[t]] ELSE 0

Books(t) ==
  /\ get_current_num_mallocs = Cardinality(held) + One(t)
  /\ get_current_bytes_malloced = Total(held) + Bytes(t)
  /\ DOMAIN heap = IF Owns(t) THEN held \cup {ptr[t]} ELSE held
  /\ \A p \in DOMAIN heap : heap[p] \in BlockSize
  /\ Total(DOMAIN heap) <= HeapBytes
  /\ pc[t] \in MallocLabels \cup PutLabels => bytes[t] \in BlockSize
  /\ pc[t] \in PutLabels \cup Taking => heap[ptr[t]] = bytes[t]

(* The entries of the table. *)
Entries(t) ==
  /\ pc[t] \notin {"free_only", "in_free_only"}
  /\ \A p \in held : [key |-> p, val |-> heap[p]] \in Contents
  /\ \A e \in Contents : \/ e.key \in held \/ e.val >= FREED
                         \/ pc[t] \in Seeking \cup FoundLabels /\ e.key = ptr[t]
  /\ pc[t] \in Seeking => [key |-> ptr[t], val |-> heap[ptr[t]]] \in Contents
  /\ pc[t] \in {"size"} \cup FoundLabels => k[t] \in live /\ keys[k[t]] = ptr[t]
  /\ pc[t] \in MarkLabels => ptr[t] \notin held

(* What it has loaded is still so. *)
Registers(t) ==
  /\ pc[t] \in Counters /\ reg[t] # None => reg[t] = counter[pc[t]]
  /\ pc[t] = "assert_frees" => reg[t] = counter["num_mallocs"]
  /\ pc[t] = "assert_bytes" => reg[t] = counter["bytes_malloced"]
  /\ pc[t] \in {"set_element", "element", "mark_load", "mark_store"} => reg[t] = vals_length

Only(t) ==
  (\A u \in Threads \ {t} : pc[u] = "idle") /\ Books(t) /\ Entries(t) /\ Registers(t)

Sole ==
  /\ interrupts \in Nat
  /\ interrupts = 0 => status \notin {"assert", "undefined"} /\ \E t \in Threads : Only(t)

------------------------------------------------------------------------------
(* The books. *)
LEMMA TotalNext == Total(held)' = Sum(heap', held')
BY DEF Total, FoldSet, MapThenFoldSet, Sum, Summing

LEMMA HeapTotalNext == Total(DOMAIN heap)' = Sum(heap', DOMAIN heap')
BY DEF Total, FoldSet, MapThenFoldSet, Sum, Summing

LEMMA SameTotal ==
  ASSUME heap' = heap, held' = held
  PROVE  Total(held)' = Total(held) /\ Total(DOMAIN heap)' = Total(DOMAIN heap)
BY TotalIsSum, TotalNext, HeapTotalNext

LEMMA HeldFacts ==
  ASSUME SmallHeap, TableInv, \A p \in DOMAIN heap : heap[p] \in BlockSize
  PROVE  /\ IsFiniteSet(DOMAIN heap) /\ IsFiniteSet(held) /\ Cardinality(held) \in Nat
         /\ \A p \in DOMAIN heap : heap[p] \in Size
         /\ \A p \in held : heap[p] \in Size
         /\ Total(held) \in Nat /\ (held = {} => Total(held) = 0)
         /\ Total(DOMAIN heap) \in Nat
         /\ \A p \in DOMAIN heap \ held :
              DOMAIN heap = held \cup {p} => Total(held) + heap[p] = Total(DOMAIN heap)
<1>1. held \subseteq DOMAIN heap /\ DOMAIN heap \subseteq Keys
  BY DEF TableInv, OwnersOK
<1>2. IsFiniteSet(DOMAIN heap)
  BY <1>1, FS_Subset DEF SmallHeap
<1>3. IsFiniteSet(held) /\ Cardinality(held) \in Nat
  BY <1>1, <1>2, FS_Subset, FS_CardinalityType
<1>4. \A p \in DOMAIN heap : heap[p] \in Size
  BY FreedBit DEF Size, BlockSize
<1>5. Total(held) \in Nat /\ (held = {} => Total(held) = 0) /\ Total(DOMAIN heap) \in Nat
  BY <1>1, <1>2, <1>3, <1>4, SumTypes, TotalIsSum
<1>6. ASSUME NEW p \in DOMAIN heap \ held, DOMAIN heap = held \cup {p}
      PROVE  Total(held) + heap[p] = Total(DOMAIN heap)
  <2>1. (DOMAIN heap) \ {p} = held
    BY <1>6
  <2>2. Sum(heap, DOMAIN heap) = Sum(heap, (DOMAIN heap) \ {p}) + heap[p]
    BY <1>2, <1>4, SumWithout
  <2> QED BY <2>1, <2>2, TotalIsSum
<1> QED BY <1>1, <1>2, <1>3, <1>4, <1>5, <1>6

(* Nothing is counted, given or taken. *)
LEMMA QuietBooks ==
  ASSUME NEW t \in Threads, Books(t), UNCHANGED <<counter, heap, held>>,
         ptr'[t] = ptr[t], One(t)' = One(t), Bytes(t)' = Bytes(t), Owns(t)' <=> Owns(t),
         pc'[t] \in MallocLabels \cup PutLabels => bytes'[t] \in BlockSize,
         pc'[t] \in PutLabels \cup Taking => heap[ptr[t]] = bytes'[t]
  PROVE  Books(t)'
<1>1. Total(held)' = Total(held) /\ Total(DOMAIN heap)' = Total(DOMAIN heap)
  BY SameTotal
<1> QED BY <1>1 DEF Books, get_current_num_mallocs, get_current_bytes_malloced

(* The steps that are no more than a change of label or of a register. *)
LEMMA PlainBooks ==
  ASSUME TableInv, NEW t \in Threads, Books(t), Entries(t), status' = status,
         \/ malloc369(t) \/ load(t) \/ malloc(t) \/ kh_put(t) \/ kh_resize(t) \/ kh_put_returns(t)
         \/ get(t) \/ get_returns(t) \/ asserts(t) \/ fill_and_free(t)
         \/ load_minuend(t) \/ mark_load(t) \/ load_vals(t)
  PROVE  Books(t)'
<1> USE DEF One, Bytes, Owns, MallocLabels, PutLabels, GetLabels, Seeking, Taking
<1>1. /\ DOMAIN pc = Threads /\ DOMAIN reg = Threads /\ DOMAIN bytes = Threads
      /\ pc[t] \in MallocLabels \cup PutLabels => bytes[t] \in BlockSize
      /\ pc[t] \in PutLabels \cup Taking => heap[ptr[t]] = bytes[t]
      /\ pc[t] # "free_only"
  BY DEF TableInv, TableOK, ValuesOK, Books, Entries
<1>2. \A how \in {"exit", "assert", "undefined", "put failed"} : ~ (Runs(t) /\ Stop(how))
  BY DEF Runs, Stop
<1>3. CASE malloc369(t)
  <2>1. PICK s \in Sizes : bytes' = [bytes EXCEPT ![t] = s]
    BY <1>3 DEF malloc369, Set
  <2>2. s \in BlockSize
    BY MallocAssumption DEF BlockSize
  <2>3. /\ pc[t] = "idle" /\ pc'[t] = "num_mallocs" /\ bytes'[t] \in BlockSize
        /\ UNCHANGED <<counter, heap, held, ptr>>
    BY <1>1, <1>3, <2>1, <2>2 DEF malloc369, At, Enter, Set
  <2> QED BY <2>3, QuietBooks
<1>4. CASE load(t)
  <2>1. PICK c \in Counters : pc[t] = c /\ reg' = [reg EXCEPT ![t] = counter[c]] /\ pc' = [pc EXCEPT ![t] = c]
    BY <1>4 DEF load, At, Goto, Set
  <2>2. pc'[t] = pc[t]
    BY <1>1, <2>1
  <2>3. UNCHANGED <<counter, heap, held, ptr, bytes>>
    BY <1>4 DEF load
  <2> QED BY <1>1, <2>2, <2>3, QuietBooks
<1>5. CASE malloc(t) \/ get(t)
  <2>1. /\ UNCHANGED <<counter, heap, held, ptr, bytes>>
        /\ \/ pc[t] = "malloc" /\ pc'[t] = "in_malloc"
           \/ pc[t] = "get" /\ pc'[t] = "in_get"
    BY <1>1, <1>5 DEF malloc, get, At, Goto, Set
  <2> QED BY <1>1, <2>1, QuietBooks
<1>6. CASE kh_put(t) \/ kh_resize(t) \/ kh_put_returns(t)
  <2>1. /\ UNCHANGED <<counter, heap, held, ptr, bytes>>
        /\ pc[t] \in PutLabels /\ pc'[t] \in PutLabels
    BY <1>1, <1>2, <1>6 DEF kh_put, kh_resize, kh_put_returns, At, Goto, Set
  <2> QED BY <1>1, <2>1, QuietBooks
<1>7. CASE get_returns(t)
  <2>1. /\ UNCHANGED <<counter, heap, held, ptr, bytes>>
        /\ pc[t] = "in_get" /\ pc'[t] = "size"
    BY <1>1, <1>7 DEF get_returns, At, Goto, Set
  <2> QED BY <1>1, <2>1, QuietBooks
<1>8. CASE asserts(t)
  <2>1. /\ UNCHANGED <<counter, heap, held, ptr, bytes>>
        /\ \/ pc[t] = "assert_frees" /\ pc'[t] = "num_frees"
           \/ pc[t] = "assert_bytes" /\ pc'[t] = "bytes_freed"
    BY <1>1, <1>2, <1>8 DEF asserts, At, Goto, Set
  <2> QED BY <1>1, <2>1, QuietBooks
<1>9. CASE fill_and_free(t)
  <2>1. /\ UNCHANGED <<counter, heap, held, ptr, bytes>>
        /\ pc[t] = "fill" /\ pc'[t] = "in_free"
    BY <1>1, <1>2, <1>9 DEF fill_and_free, At, Goto, Set
  <2> QED BY <1>1, <2>1, QuietBooks
<1>10. CASE load_minuend(t)
  <2>1. /\ UNCHANGED <<counter, heap, held, ptr, bytes>>
        /\ \/ pc[t] = "load_mallocs" /\ pc'[t] = "assert_frees"
           \/ pc[t] = "load_bytes" /\ pc'[t] = "assert_bytes"
    BY <1>1, <1>10 DEF load_minuend, At, Goto, Set
  <2> QED BY <1>1, <2>1, QuietBooks
<1>11. CASE mark_load(t)
  <2>1. /\ UNCHANGED <<counter, heap, held, ptr>>
        /\ pc[t] = "mark_load" /\ pc'[t] = "mark_again"
    BY <1>1, <1>11 DEF mark_load, At, Goto, Set
  <2> QED BY <1>1, <2>1, QuietBooks
<1>12. CASE load_vals(t)
  <2>1. /\ UNCHANGED <<counter, heap, held, ptr, bytes>>
        /\ \/ pc[t] = "set_value" /\ pc'[t] = "set_element"
           \/ pc[t] = "value" /\ pc'[t] = "element"
           \/ pc[t] = "mark" /\ pc'[t] = "mark_load"
           \/ pc[t] = "mark_again" /\ pc'[t] = "mark_store"
    BY <1>1, <1>12 DEF load_vals, AfterVals, At, Goto, Set
  <2> QED BY <1>1, <2>1, QuietBooks
<1> QED BY <1>3, <1>4, <1>5, <1>6, <1>7, <1>8, <1>9, <1>10, <1>11, <1>12

(* The counters. *)
LEMMA StoreBooks ==
  ASSUME SmallHeap, TableInv, NEW t \in Threads, Books(t), Registers(t), store(t)
  PROVE  Books(t)'
<1> USE DEF MallocLabels, PutLabels, GetLabels, Seeking, Taking
<1>1. /\ DOMAIN pc = Threads /\ DOMAIN reg = Threads /\ counter \in [Counters -> Int]
      /\ bytes[t] \in Int
  BY DEF TableInv, TableOK, ValuesOK
<1>2. PICK c \in Counters : /\ pc[t] = c /\ reg[t] # None
                            /\ counter' = [counter EXCEPT ![c] = reg[t] + Amount(t, c)]
                            /\ reg' = [reg EXCEPT ![t] = None]
                            /\ pc' = [pc EXCEPT ![t] = After(c)]
  BY DEF store, At, Goto, Set
<1>3. UNCHANGED <<heap, held, ptr, bytes>>
  BY DEF store
<1>4. pc'[t] = After(c) /\ reg[t] = counter[c]
  BY <1>1, <1>2 DEF Registers
<1>5. counter' = [counter EXCEPT ![c] = counter[c] + Amount(t, c)]
  BY <1>2, <1>4
<1>6. /\ Total(held)' = Total(held) /\ Cardinality(held)' = Cardinality(held)
      /\ Total(DOMAIN heap)' = Total(DOMAIN heap)
  BY <1>3, SameTotal
<1>7. /\ Cardinality(held) \in Nat /\ Total(held) \in Nat
  BY HeldFacts DEF Books
<1>8. /\ get_current_num_mallocs = Cardinality(held) + One(t)
      /\ get_current_bytes_malloced = Total(held) + Bytes(t)
      /\ DOMAIN heap = IF Owns(t) THEN held \cup {ptr[t]} ELSE held
      /\ \A p \in DOMAIN heap : heap[p] \in BlockSize
      /\ Total(DOMAIN heap) <= HeapBytes
      /\ pc[t] \in MallocLabels \cup PutLabels => bytes[t] \in BlockSize
      /\ pc[t] \in PutLabels \cup Taking => heap[ptr[t]] = bytes[t]
  BY DEF Books
<1> USE DEF get_current_num_mallocs, get_current_bytes_malloced, One, Bytes, Owns, Amount, After, Counters
<1>9. CASE c = "num_mallocs"
  <2>1. pc'[t] = "bytes_malloced" /\ pc[t] = "num_mallocs"
    BY <1>2, <1>4, <1>9
  <2>2. /\ counter'["num_mallocs"] = counter["num_mallocs"] + 1 /\ counter'["num_frees"] = counter["num_frees"]
        /\ counter'["bytes_malloced"] = counter["bytes_malloced"] /\ counter'["bytes_freed"] = counter["bytes_freed"]
    BY <1>1, <1>5, <1>9
  <2> QED BY <1>1, <1>3, <1>4, <1>6, <1>7, <1>8, <2>1, <2>2 DEF Books
<1>10. CASE c = "bytes_malloced"
  <2>1. pc'[t] = "malloc" /\ pc[t] = "bytes_malloced"
    BY <1>2, <1>4, <1>10
  <2>2. /\ counter'["num_mallocs"] = counter["num_mallocs"] /\ counter'["num_frees"] = counter["num_frees"]
        /\ counter'["bytes_malloced"] = counter["bytes_malloced"] + bytes[t]
        /\ counter'["bytes_freed"] = counter["bytes_freed"]
    BY <1>1, <1>5, <1>10
  <2> QED BY <1>1, <1>3, <1>4, <1>6, <1>7, <1>8, <2>1, <2>2 DEF Books
<1>11. CASE c = "num_frees"
  <2>1. pc'[t] = "load_bytes" /\ pc[t] = "num_frees"
    BY <1>2, <1>4, <1>11
  <2>2. /\ counter'["num_mallocs"] = counter["num_mallocs"] /\ counter'["num_frees"] = counter["num_frees"] + 1
        /\ counter'["bytes_malloced"] = counter["bytes_malloced"]
        /\ counter'["bytes_freed"] = counter["bytes_freed"]
    BY <1>1, <1>5, <1>11
  <2> QED BY <1>1, <1>3, <1>4, <1>6, <1>7, <1>8, <2>1, <2>2 DEF Books
<1>12. CASE c = "bytes_freed"
  <2>1. pc'[t] = "fill" /\ pc[t] = "bytes_freed"
    BY <1>2, <1>4, <1>12
  <2>2. /\ counter'["num_mallocs"] = counter["num_mallocs"] /\ counter'["num_frees"] = counter["num_frees"]
        /\ counter'["bytes_malloced"] = counter["bytes_malloced"]
        /\ counter'["bytes_freed"] = counter["bytes_freed"] + bytes[t]
    BY <1>1, <1>5, <1>12
  <2>3. One(t)' = One(t) /\ Bytes(t) = bytes[t] /\ Bytes(t)' = 0 /\ (Owns(t)' <=> Owns(t))
    BY <2>1
  <2>4. /\ get_current_num_mallocs' = get_current_num_mallocs
        /\ get_current_bytes_malloced' = get_current_bytes_malloced - bytes[t]
    BY <1>1, <2>2
  <2>5. \A b \in Int, m \in Int : m = Total(held) + b => m - b = Total(held) + 0
    BY <1>7
  <2> HIDE DEF get_current_num_mallocs, get_current_bytes_malloced
  <2>6. get_current_bytes_malloced = Total(held) + bytes[t] /\ get_current_bytes_malloced \in Int
    BY <1>1, <1>7, <1>8, <2>3
  <2>7. get_current_bytes_malloced' = Total(held) + 0
    BY <1>1, <2>4, <2>5, <2>6
  <2>8. pc'[t] \notin MallocLabels \cup PutLabels /\ heap'[ptr'[t]] = bytes'[t]
    <3>1. pc'[t] = "fill" /\ pc[t] \in Taking
      BY <2>1
    <3> QED BY <1>3, <1>8, <3>1
  <2> HIDE DEF One, Bytes, Owns
  <2>9. Cardinality(held)' = Cardinality(held) /\ get_current_num_mallocs' = Cardinality(held) + One(t)'
    BY <1>3, <1>8, <2>3, <2>4
  <2>10. get_current_bytes_malloced' = Total(held)' + Bytes(t)'
    BY <1>6, <2>3, <2>7
  <2> QED BY <1>3, <1>6, <1>8, <2>3, <2>8, <2>9, <2>10 DEF Books
<1> QED BY <1>9, <1>10, <1>11, <1>12

(* A block is handed out by the allocator, *)
LEMMA ReturnsBooks ==
  ASSUME SmallHeap, TableInv, NEW t \in Threads, Books(t), status' = status, malloc_returns(t)
  PROVE  Books(t)'
<1>1. /\ DOMAIN pc = Threads /\ DOMAIN ptr = Threads /\ held \subseteq DOMAIN heap
  BY DEF TableInv, TableOK, OwnersOK
<1>2. PICK p \in Keys \ DOMAIN heap :
          /\ Total(DOMAIN heap) + bytes[t] <= HeapBytes
          /\ heap' = [q \in DOMAIN heap \cup {p} |-> IF q = p THEN bytes[t] ELSE heap[q]]
          /\ ptr' = [ptr EXCEPT ![t] = p]
          /\ pc' = [pc EXCEPT ![t] = "kh_put"]
          /\ UNCHANGED <<counter, held, bytes>>
  BY DEF malloc_returns, At, Runs, Stop, Goto, Set
<1>3. pc[t] = "in_malloc" /\ pc'[t] = "kh_put" /\ ptr'[t] = p
  BY <1>1, <1>2 DEF malloc_returns, At
<1>4. DOMAIN heap' = held \cup {p} /\ DOMAIN heap = held
  BY <1>2, <1>3 DEF Books, Owns, PutLabels, GetLabels
<1>5. heap'[p] = bytes[t] /\ \A q \in held : heap'[q] = heap[q]
  BY <1>2, <1>4
<1>6. bytes[t] \in BlockSize /\ \A q \in DOMAIN heap : heap[q] \in BlockSize
  BY <1>3 DEF Books, MallocLabels
<1>7. Total(held)' = Total(held)
  <2>1. IsFiniteSet(held)
    BY <1>6, HeldFacts
  <2> QED BY <1>2, <1>5, <2>1, SumSame, TotalIsSum, TotalNext
<1>8. Total(DOMAIN heap)' <= HeapBytes
  <2>1. \A q \in DOMAIN heap' : heap'[q] \in Size
    BY <1>4, <1>5, <1>6, FreedBit DEF Size, BlockSize
  <2>2. IsFiniteSet(held) /\ IsFiniteSet(DOMAIN heap')
    BY <1>4, <1>6, HeldFacts, FS_AddElement
  <2>3. Sum(heap', DOMAIN heap') = Sum(heap', (DOMAIN heap') \ {p}) + heap'[p]
    BY <1>4, <2>1, <2>2, SumWithout
  <2>4. (DOMAIN heap') \ {p} = DOMAIN heap
    BY <1>4
  <2>5. Sum(heap', DOMAIN heap) = Sum(heap, DOMAIN heap)
    BY <1>4, <1>5, <2>2, SumSame
  <2>6. Total(DOMAIN heap)' = Total(DOMAIN heap) + bytes[t]
    BY <1>5, <2>3, <2>4, <2>5, TotalIsSum, HeapTotalNext
  <2> QED BY <1>2, <2>6
<1>9. /\ get_current_num_mallocs' = Cardinality(held) + 1
      /\ get_current_bytes_malloced' = Total(held) + bytes[t]
  BY <1>2, <1>3 DEF Books, One, Bytes, MallocLabels, get_current_num_mallocs, get_current_bytes_malloced
<1>10. One(t)' = 1 /\ Bytes(t)' = bytes[t] /\ Owns(t)'
  BY <1>2, <1>3 DEF One, Bytes, Owns, PutLabels
<1>11. \A q \in DOMAIN heap' : heap'[q] \in BlockSize
  BY <1>4, <1>5, <1>6
<1> QED BY <1>2, <1>3, <1>4, <1>5, <1>6, <1>7, <1>8, <1>9, <1>10, <1>11 DEF Books

(* given back by the program, *)
LEMMA GivenBackBooks ==
  ASSUME SmallHeap, TableInv, NEW t \in Threads, Books(t), free369(t)
  PROVE  Books(t)'
<1>1. /\ DOMAIN pc = Threads /\ DOMAIN ptr = Threads /\ held \subseteq DOMAIN heap
  BY DEF TableInv, TableOK, OwnersOK
<1>2. PICK p \in held : /\ ptr' = [ptr EXCEPT ![t] = p] /\ held' = held \ {p}
                        /\ pc' = [pc EXCEPT ![t] = "get"]
                        /\ UNCHANGED <<counter, heap, bytes>>
  BY DEF free369, Enter, Set
<1>3. pc[t] = "idle" /\ pc'[t] = "get" /\ ptr'[t] = p
  BY <1>1, <1>2 DEF free369, At
<1>4. \A q \in DOMAIN heap : heap[q] \in BlockSize
  BY DEF Books
<1>5. IsFiniteSet(held) /\ Cardinality(held) \in Nat /\ \A q \in held : heap[q] \in Size
  BY <1>4, HeldFacts
<1>6. Cardinality(held') = Cardinality(held) - 1
  BY <1>2, <1>5, FS_RemoveElement
<1>7. Total(held)' = Sum(heap, held \ {p}) /\ Total(held) = Sum(heap, held \ {p}) + heap[p]
  BY <1>2, <1>5, SumWithout, TotalIsSum, TotalNext
<1>8. Sum(heap, held \ {p}) \in Nat /\ heap[p] \in Nat
  <2>1. IsFiniteSet(held \ {p}) /\ \A q \in held \ {p} : heap[q] \in Size
    BY <1>5, FS_Subset
  <2> QED BY <1>2, <1>5, <2>1, SumTypes, FreedBit DEF Size
<1>9. Total(DOMAIN heap)' = Total(DOMAIN heap)
  BY <1>2, TotalIsSum, HeapTotalNext
<1>10. One(t) = 0 /\ Bytes(t) = 0 /\ ~ Owns(t)
  BY <1>3 DEF One, Bytes, Owns, MallocLabels, PutLabels, GetLabels, Seeking, Taking
<1>11. One(t)' = 1 /\ Bytes(t)' = heap[p] /\ Owns(t)'
  BY <1>2, <1>3 DEF One, Bytes, Owns, PutLabels, GetLabels, Seeking, Taking
<1>12. DOMAIN heap' = held' \cup {p}
  BY <1>2, <1>10 DEF Books
<1>13. get_current_num_mallocs' = Cardinality(held') + 1
  BY <1>2, <1>5, <1>6, <1>10 DEF Books, get_current_num_mallocs
<1>14. get_current_bytes_malloced' = Total(held)' + heap[p]
  BY <1>2, <1>7, <1>8, <1>10 DEF Books, get_current_bytes_malloced
<1>15. pc'[t] \notin MallocLabels \cup PutLabels \cup Taking
  BY <1>3 DEF MallocLabels, PutLabels, Taking
<1> QED BY <1>2, <1>3, <1>4, <1>9, <1>11, <1>12, <1>13, <1>14, <1>15 DEF Books

(* given to the program, *)
LEMMA SetSizeBooks ==
  ASSUME SmallHeap, TableInv, NEW t \in Threads, Books(t), set_size(t)
  PROVE  Books(t)'
<1>1. /\ DOMAIN pc = Threads /\ held \subseteq DOMAIN heap
  BY DEF TableInv, TableOK, OwnersOK
<1>2. /\ pc[t] = "set_element" /\ held' = held \cup {ptr[t]} /\ UNCHANGED <<counter, heap>>
      /\ pc'[t] = "idle"
  BY <1>1 DEF set_size, At, Leave, Goto, Set
<1>3. \A q \in DOMAIN heap : heap[q] \in BlockSize
  BY DEF Books
<1>4. IsFiniteSet(held) /\ Cardinality(held) \in Nat
  BY <1>3, HeldFacts
<1>5. Owns(t) /\ One(t) = 1 /\ Bytes(t) = bytes[t]
  BY <1>2 DEF Owns, One, Bytes, PutLabels
<1>6. ptr[t] \in DOMAIN heap /\ ptr[t] \notin held /\ heap[ptr[t]] = bytes[t]
  BY <1>2, <1>5 DEF TableInv, OwnersOK, Books, PutLabels
<1>7. DOMAIN heap = held'
  BY <1>2, <1>5 DEF Books
<1>8. IsFiniteSet(held') /\ Cardinality(held') = Cardinality(held) + 1
  BY <1>2, <1>4, <1>6, FS_AddElement
<1>9. Total(held)' = Total(held) + bytes[t]
  <2>1. \A q \in held' : heap[q] \in Size
    BY <1>3, <1>7, FreedBit DEF BlockSize, Size
  <2>2. Sum(heap, held') = Sum(heap, held' \ {ptr[t]}) + heap[ptr[t]]
    BY <1>2, <1>8, <2>1, SumWithout
  <2>3. held' \ {ptr[t]} = held
    BY <1>2, <1>6
  <2> QED BY <1>2, <1>6, <2>2, <2>3, TotalIsSum, TotalNext
<1>10. One(t)' = 0 /\ Bytes(t)' = 0 /\ ~ Owns(t)'
  BY <1>2 DEF One, Bytes, Owns, MallocLabels, PutLabels, GetLabels, Seeking, Taking
<1>11. get_current_num_mallocs' = Cardinality(held') + 0
  BY <1>2, <1>4, <1>5, <1>8 DEF Books, get_current_num_mallocs
<1>12. get_current_bytes_malloced' = Total(held)' + 0
  <2>1. Total(held) \in Nat /\ bytes[t] \in Int
    BY <1>3, HeldFacts DEF TableInv, ValuesOK
  <2> QED BY <1>2, <1>5, <1>9, <2>1 DEF Books, get_current_bytes_malloced
<1>13. pc'[t] \notin MallocLabels \cup PutLabels \cup Taking
  BY <1>2 DEF MallocLabels, PutLabels, Taking
<1>14. Total(DOMAIN heap)' = Total(DOMAIN heap)
  BY <1>2, TotalIsSum, HeapTotalNext
<1> QED BY <1>2, <1>3, <1>7, <1>10, <1>11, <1>12, <1>13, <1>14 DEF Books

(* and taken by the allocator. *)
LEMMA FreedBooks ==
  ASSUME SmallHeap, TableInv, NEW t \in Threads, Books(t), Entries(t), free_returns(t)
  PROVE  Books(t)'
<1>1. /\ DOMAIN pc = Threads /\ held \subseteq DOMAIN heap
  BY DEF TableInv, TableOK, OwnersOK
<1>2. /\ pc[t] = "in_free" /\ pc'[t] = "mark"
      /\ heap' = [p \in DOMAIN heap \ {ptr[t]} |-> heap[p]]
      /\ UNCHANGED <<counter, held, ptr, bytes>>
  BY <1>1 DEF free_returns, At, Entries, Goto, Set
<1>3. Owns(t) /\ One(t) = 0 /\ Bytes(t) = 0
  BY <1>2 DEF Owns, One, Bytes, MallocLabels, PutLabels, GetLabels, Seeking, Taking
<1>4. ptr[t] \notin held
  BY <1>3 DEF TableInv, OwnersOK
<1>5. DOMAIN heap' = held /\ \A q \in held : heap'[q] = heap[q]
  BY <1>2, <1>3, <1>4 DEF Books
<1>6. \A q \in DOMAIN heap : heap[q] \in BlockSize
  BY DEF Books
<1>7. Total(held)' = Total(held)
  <2>1. IsFiniteSet(held)
    BY <1>6, HeldFacts
  <2> QED BY <1>2, <1>5, <2>1, SumSame, TotalIsSum, TotalNext
<1>8. One(t)' = 0 /\ Bytes(t)' = 0 /\ ~ Owns(t)'
  BY <1>2 DEF One, Bytes, Owns, MallocLabels, PutLabels, GetLabels, Seeking, Taking
<1>9. Total(DOMAIN heap)' <= HeapBytes
  <2>1. ptr[t] \in DOMAIN heap /\ DOMAIN heap = held \cup {ptr[t]}
    BY <1>3 DEF Books
  <2>2. /\ Total(held) + heap[ptr[t]] = Total(DOMAIN heap) /\ heap[ptr[t]] \in Size
        /\ Total(held) \in Nat
    BY <1>4, <1>6, <2>1, HeldFacts
  <2>3. Total(DOMAIN heap)' = Total(held)'
    BY <1>2, <1>5, TotalNext, HeapTotalNext
  <2>4. Total(held) + heap[ptr[t]] <= HeapBytes
    BY <2>2 DEF Books
  <2>5. heap[ptr[t]] \in Nat
    BY <2>2, FreedBit DEF Size
  <2> QED BY <1>7, <2>2, <2>3, <2>4, <2>5, FreedBit
<1>10. /\ get_current_num_mallocs' = Cardinality(held') + 0
       /\ get_current_bytes_malloced' = Total(held)' + 0
  BY <1>2, <1>3, <1>7 DEF Books, get_current_num_mallocs, get_current_bytes_malloced
<1>11. pc'[t] \notin MallocLabels \cup PutLabels \cup Taking
  BY <1>2 DEF MallocLabels, PutLabels, Taking
<1>12. \A q \in DOMAIN heap' : heap'[q] \in BlockSize
  BY <1>1, <1>5, <1>6
<1> QED BY <1>2, <1>5, <1>8, <1>9, <1>10, <1>11, <1>12 DEF Books

LEMMA MarkBooks ==
  ASSUME TableInv, NEW t \in Threads, Books(t), mark_freed(t)
  PROVE  Books(t)'
<1>1. DOMAIN pc = Threads
  BY DEF TableInv, TableOK
<1>2. /\ pc[t] = "mark_store" /\ pc'[t] = "idle"
      /\ UNCHANGED <<counter, heap, held>>
  BY <1>1 DEF mark_freed, At, Leave, Goto, Set
<1>3. /\ One(t) = 0 /\ Bytes(t) = 0 /\ ~ Owns(t)
      /\ One(t)' = 0 /\ Bytes(t)' = 0 /\ ~ Owns(t)'
  BY <1>2 DEF One, Bytes, Owns, MallocLabels, PutLabels, GetLabels, Seeking, Taking
<1>4. pc'[t] \notin MallocLabels \cup PutLabels \cup Taking
  BY <1>2 DEF MallocLabels, PutLabels, Taking
<1>5. Total(held)' = Total(held) /\ Total(DOMAIN heap)' = Total(DOMAIN heap)
  BY <1>2, SameTotal
<1> QED BY <1>2, <1>3, <1>4, <1>5 DEF Books, get_current_num_mallocs, get_current_bytes_malloced

------------------------------------------------------------------------------
(* The entries. *)
LEMMA RestingContents ==
  ASSUME Resting
  PROVE  /\ \A i \in live : [key |-> keys[i], val |-> vals[i]] \in Contents
         /\ \A e \in Contents : \E i \in live : e = [key |-> keys[i], val |-> vals[i]]
BY DEF Resting, Contents

LEMMA InsertContents ==
  ASSUME Resting, NEW p \in Keys, n_buckets \in Tables, Cardinality(live) + 1 < n_buckets, insert(p)
  PROVE  /\ put_site(p) \in live' /\ keys'[put_site(p)] = p
         /\ \A e \in Contents : e \in Contents'
         /\ \A e \in Contents' : e \in Contents \/ e.key = p
<1> DEFINE n == n_buckets
           stops == Empty \cup Holding(p)
           i == FirstIn(p, n, stops)
<1>1. n \in Nat /\ IsFiniteSet(live) /\ Cardinality(live) \in Nat
  BY Buckets, TableSizes DEF Resting
<1>2. \E b \in 0 .. n - 1 : b \in Empty
  BY <1>1, Buckets DEF Resting, Empty
<1>3. OnWay(p, n, i, stops)
  <2> HIDE DEF n, stops
  <2>1. \E b \in 0 .. n - 1 : b \in stops
    BY <1>2 DEF stops
  <2>2. n \in Tables
    BY DEF n
  <2> QED BY <2>1, <2>2, FirstInExists
<1>4. i \in stops /\ stops \subseteq 0 .. n - 1
  BY <1>3, OnWayIn DEF Resting, Empty, Holding
<1>5. put_site(p) = i
  BY <1>1, <1>4 DEF put_site
<1>6. Resting'
  BY InsertRests
<1>7. (\A a \in live' : [key |-> keys'[a], val |-> vals'[a]] \in Contents')
      /\ \A e \in Contents' : \E a \in live' : e = [key |-> keys'[a], val |-> vals'[a]]
  BY <1>6 DEF Resting, Contents
<1> HIDE DEF i, n, stops
<1>8. CASE i \in live
  <2>1. UNCHANGED <<n_buckets, live, keys, vals, new_live, j, hand>>
    BY <1>5, <1>8 DEF insert
  <2>2. Contents' = Contents
    BY <2>1, SameTable DEF hashVars
  <2>3. keys[i] = p
    BY <1>4, <1>8 DEF stops, Empty, Holding
  <2> QED BY <1>5, <1>8, <2>1, <2>2, <2>3
<1>9. CASE i \notin live
  <2>1. /\ live' = live \cup {i} /\ keys' = [keys EXCEPT ![i] = p]
        /\ UNCHANGED <<n_buckets, vals, new_live, j, hand>>
    BY <1>5, <1>9 DEF insert
  <2>2. keys'[i] = p /\ \A a \in live : keys'[a] = keys[a]
    BY <1>4, <1>9, <2>1 DEF Resting, ArraysTo, n
  <2>3. \A e \in Contents : e \in Contents'
    BY <1>7, <2>1, <2>2, RestingContents
  <2>4. \A e \in Contents' : e \in Contents \/ e.key = p
    BY <1>7, <2>1, <2>2, RestingContents
  <2> QED BY <1>5, <2>1, <2>2, <2>3, <2>4
<1> QED BY <1>8, <1>9

LEMMA ValueContents ==
  ASSUME Resting, NEW x \in live, NEW v \in Int, set_value(x, v)
  PROVE  /\ [key |-> keys[x], val |-> v] \in Contents'
         /\ \A e \in Contents : e.key # keys[x] => e \in Contents'
         /\ \A e \in Contents' : \/ e = [key |-> keys[x], val |-> v]
                                 \/ e \in Contents /\ e.key # keys[x]
<1>1. UNCHANGED <<n_buckets, live, keys, new_live, j, hand>> /\ vals' = [vals EXCEPT ![x] = v]
  BY DEF set_value
<1>2. Resting'
  BY ValueRests
<1>3. (\A a \in live : [key |-> keys[a], val |-> vals'[a]] \in Contents')
      /\ \A e \in Contents' : \E a \in live : e = [key |-> keys[a], val |-> vals'[a]]
  BY <1>1, <1>2 DEF Resting, Contents
<1>4. vals'[x] = v /\ \A a \in live : a # x => vals'[a] = vals[a] /\ keys[a] # keys[x]
  BY <1>1 DEF Resting, ArraysTo, KeysDiffer
<1> QED BY <1>3, <1>4, RestingContents

(* Steps that neither give nor take, and leave the table what it holds. *)
LEMMA SameEntries ==
  ASSUME NEW t \in Threads, Entries(t), Contents' = Contents, held' = held,
         \A p \in held : heap'[p] = heap[p],
         pc'[t] \notin {"free_only", "in_free_only"},
         pc'[t] \in MarkLabels => ptr'[t] \notin held',
         pc[t] \in Seeking \cup FoundLabels => pc'[t] \in Seeking \cup FoundLabels /\ ptr'[t] = ptr[t],
         pc'[t] \in Seeking => pc[t] \in Seeking /\ heap'[ptr[t]] = heap[ptr[t]],
         pc'[t] \in {"size"} \cup FoundLabels
           => pc[t] \in {"size"} \cup FoundLabels /\ k'[t] = k[t] /\ live' = live /\ keys' = keys
  PROVE  Entries(t)'
BY DEF Entries, Seeking

(* What free369 looks up is what malloc369 stored. *)
LEMMA FoundSize ==
  ASSUME TableInv, NEW t \in Threads, Books(t), Entries(t), pc[t] \in {"size", "value", "element"},
         \A u \in Threads : pc[u] \notin Rehashing
  PROVE  /\ k[t] # n_buckets /\ vals[k[t]] = heap[ptr[t]]
         /\ heap[ptr[t]] \in BlockSize
<1>1. Resting
  BY DEF TableInv, TableOK, Growing, Rehashing
<1>2. [key |-> ptr[t], val |-> heap[ptr[t]]] \in Contents /\ k[t] \in live /\ keys[k[t]] = ptr[t]
  BY DEF Entries, Seeking, FoundLabels
<1>3. PICK i \in live : [key |-> ptr[t], val |-> heap[ptr[t]]] = [key |-> keys[i], val |-> vals[i]]
  BY <1>1, <1>2, RestingContents
<1>4. i = k[t]
  BY <1>1, <1>2, <1>3 DEF Resting, KeysDiffer
<1>5. k[t] # n_buckets
  BY <1>1, <1>2, TableSizes DEF Resting
<1>6. ptr[t] \in DOMAIN heap
  BY DEF TableInv, OwnersOK, Owns, GetLabels
<1> QED BY <1>3, <1>4, <1>5, <1>6 DEF Books

LEMMA FindBooksEntries ==
  ASSUME TableInv, NEW t \in Threads, Books(t), Entries(t), find(t)
  PROVE  Books(t)' /\ Entries(t)' /\ status' = status
<1>1. DOMAIN pc = Threads
  BY DEF TableInv, TableOK
<1>2. pc[t] = "size" /\ \A u \in Threads : pc[u] \notin Rehashing
  BY DEF find, At, Clash, TableAccess, Rehashing
<1>3. k[t] # n_buckets
  BY <1>2, FoundSize
<1>4. /\ pc'[t] = "value"
      /\ UNCHANGED <<hashVars, counter, heap, held, status, ptr, bytes, k>>
  BY <1>1, <1>3 DEF find, Goto, Set
<1>5. Books(t)'
  <2>1. One(t)' = One(t) /\ Bytes(t)' = Bytes(t) /\ Owns(t)' /\ Owns(t)
    BY <1>2, <1>4 DEF One, Bytes, Owns, MallocLabels, PutLabels, GetLabels, Seeking, Taking
  <2>2. pc'[t] \notin MallocLabels \cup PutLabels \cup Taking
    BY <1>4 DEF MallocLabels, PutLabels, Taking
  <2> QED BY <1>4, <2>1, <2>2, QuietBooks
<1>6. Entries(t)'
  <2>1. Contents' = Contents /\ live' = live /\ keys' = keys
    BY <1>4, SameTable DEF hashVars
  <2> QED BY <1>2, <1>4, <2>1, SameEntries DEF Seeking, FoundLabels, MarkLabels
<1> QED BY <1>4, <1>5, <1>6

LEMMA SizeBooksEntries ==
  ASSUME TableInv, NEW t \in Threads, Books(t), Entries(t), get_size(t)
  PROVE  Books(t)' /\ Entries(t)' /\ status' = status
<1>1. DOMAIN pc = Threads /\ DOMAIN bytes = Threads
  BY DEF TableInv, TableOK, ValuesOK
<1>2. pc[t] = "element" /\ \A u \in Threads : pc[u] \notin Rehashing
  BY DEF get_size, At, Clash, TableAccess, Rehashing
<1>3. vals[k[t]] = heap[ptr[t]] /\ heap[ptr[t]] \in BlockSize
  BY <1>2, FoundSize
<1>4. ~ (heap[ptr[t]] >= FREED) /\ heap[ptr[t]] # None
  BY <1>3, FreedBit DEF BlockSize, None
<1>5. /\ pc' = [pc EXCEPT ![t] = "load_mallocs"] /\ bytes' = [bytes EXCEPT ![t] = vals[k[t]]]
      /\ UNCHANGED <<hashVars, counter, heap, held, status, ptr, k>>
  BY <1>3, <1>4 DEF get_size, Goto, Set
<1>6. pc'[t] = "load_mallocs" /\ bytes'[t] = heap[ptr[t]]
  BY <1>1, <1>3, <1>5
<1>7. Books(t)'
  <2>1. One(t) = 1 /\ Bytes(t) = heap[ptr[t]] /\ Owns(t)
    BY <1>2 DEF One, Bytes, Owns, MallocLabels, PutLabels, GetLabels, Seeking, Taking
  <2>2. One(t)' = 1 /\ Bytes(t)' = heap[ptr[t]] /\ Owns(t)' /\ pc'[t] \notin MallocLabels \cup PutLabels
    BY <1>5, <1>6 DEF One, Bytes, Owns, MallocLabels, PutLabels, GetLabels, Seeking, Taking
  <2> QED BY <1>5, <1>6, <2>1, <2>2, QuietBooks
<1>8. Entries(t)'
  <2>1. Contents' = Contents /\ live' = live /\ keys' = keys
    BY <1>5, SameTable DEF hashVars
  <2> QED BY <1>2, <1>5, <1>6, <2>1, SameEntries DEF Seeking, FoundLabels, MarkLabels
<1> QED BY <1>5, <1>7, <1>8

LEMMA PlainEntries ==
  ASSUME TableInv, NEW t \in Threads, Entries(t), status' = status,
         \/ malloc369(t) \/ load(t) \/ store(t) \/ malloc(t) \/ malloc_returns(t)
         \/ kh_put(t) \/ kh_resize(t) \/ get(t) \/ asserts(t) \/ fill_and_free(t) \/ free_returns(t)
         \/ load_minuend(t) \/ mark_load(t) \/ load_vals(t)
  PROVE  Entries(t)'
<1> USE DEF Seeking, FoundLabels, MarkLabels
<1>1. /\ DOMAIN pc = Threads /\ TableOK /\ held \subseteq DOMAIN heap
      /\ pc[t] # "free_only" /\ pc[t] # "in_free_only"
  BY DEF TableInv, TableOK, OwnersOK, Entries
<1>2. \A how \in {"exit", "assert", "undefined", "put failed"} : ~ (Runs(t) /\ Stop(how))
  BY DEF Runs, Stop
<1>3. CASE malloc369(t)
  <2>1. /\ pc[t] = "idle" /\ pc'[t] = "num_mallocs"
        /\ UNCHANGED <<heap, held, ptr, k>> /\ UNCHANGED hashVars
    BY <1>1, <1>3 DEF malloc369, At, Enter, Set
  <2> QED BY <2>1, SameTable, SameEntries
<1>4. CASE load(t)
  <2>1. pc'[t] = pc[t] /\ pc[t] \in Counters
    BY <1>1, <1>4 DEF load, At, Goto, Set
  <2>2. UNCHANGED <<heap, held, ptr, k>> /\ UNCHANGED hashVars
    BY <1>4 DEF load
  <2>3. Contents' = Contents /\ live' = live /\ keys' = keys
    BY <2>2, SameTable DEF hashVars
  <2> QED BY <2>1, <2>2, <2>3, SameEntries DEF Counters
<1>5. CASE store(t)
  <2>1. PICK c \in Counters : pc[t] = c /\ pc' = [pc EXCEPT ![t] = After(c)]
    BY <1>5 DEF store, At, Goto, Set
  <2>2. pc'[t] = After(c)
    BY <1>1, <2>1
  <2>3. UNCHANGED <<heap, held, ptr, k>> /\ UNCHANGED hashVars
    BY <1>5 DEF store
  <2>4. Contents' = Contents /\ live' = live /\ keys' = keys
    BY <2>3, SameTable DEF hashVars
  <2> QED BY <2>1, <2>2, <2>3, <2>4, SameEntries DEF Counters, After
<1>6. CASE malloc(t) \/ get(t)
  <2>1. /\ \/ pc[t] = "malloc" /\ pc'[t] = "in_malloc"
           \/ pc[t] = "get" /\ pc'[t] = "in_get"
        /\ UNCHANGED <<heap, held, ptr, k>> /\ UNCHANGED hashVars
    BY <1>1, <1>6 DEF malloc, get, At, Goto, Set
  <2> QED BY <2>1, SameTable, SameEntries
<1>7. CASE malloc_returns(t)
  <2>1. PICK p \in Keys \ DOMAIN heap :
          /\ heap' = [q \in DOMAIN heap \cup {p} |-> IF q = p THEN bytes[t] ELSE heap[q]]
          /\ pc' = [pc EXCEPT ![t] = "kh_put"]
          /\ UNCHANGED held /\ UNCHANGED hashVars
    BY <1>7 DEF malloc_returns, At, Runs, Stop, Goto, Set
  <2>2. pc[t] = "in_malloc" /\ pc'[t] = "kh_put"
    BY <1>1, <1>7, <2>1 DEF malloc_returns, At
  <2>3. \A q \in held : heap'[q] = heap[q]
    BY <1>1, <2>1
  <2> QED BY <2>1, <2>2, <2>3, SameTable, SameEntries
<1>8. CASE kh_put(t)
  <2>1. /\ pc[t] = "kh_put" /\ pc'[t] \in {"resize", "insert"}
        /\ UNCHANGED <<heap, held, ptr, k>> /\ UNCHANGED hashVars
    BY <1>1, <1>8 DEF kh_put, At, Goto, Set
  <2> QED BY <2>1, SameTable, SameEntries
<1>9. CASE kh_resize(t)
  <2>1. /\ pc[t] \in {"resize", "rehash", "kfree"} /\ pc'[t] \in {"rehash", "kfree", "insert"}
        /\ UNCHANGED <<heap, held, ptr, k>>
    BY <1>1, <1>2, <1>9 DEF kh_resize, At, Goto, Set
  <2>2. Contents' = Contents
    BY <1>1, <1>9, ResizeTable
  <2> QED BY <2>1, <2>2, SameEntries
<1>10. CASE asserts(t)
  <2>1. /\ pc[t] \in {"assert_frees", "assert_bytes"} /\ pc'[t] \in {"num_frees", "bytes_freed"}
        /\ UNCHANGED <<heap, held, ptr, k>> /\ UNCHANGED hashVars
    BY <1>1, <1>2, <1>10 DEF asserts, At, Goto, Set
  <2>2. Contents' = Contents /\ live' = live /\ keys' = keys
    BY <2>1, SameTable DEF hashVars
  <2> QED BY <2>1, <2>2, SameEntries
<1>11. CASE fill_and_free(t)
  <2>1. /\ pc[t] = "fill" /\ pc'[t] = "in_free"
        /\ UNCHANGED <<heap, held, ptr, k>> /\ UNCHANGED hashVars
    BY <1>1, <1>2, <1>11 DEF fill_and_free, At, Goto, Set
  <2>2. Contents' = Contents /\ live' = live /\ keys' = keys
    BY <2>1, SameTable DEF hashVars
  <2> QED BY <2>1, <2>2, SameEntries
<1>12. CASE free_returns(t)
  <2>1. /\ pc[t] = "in_free" /\ pc'[t] = "mark"
        /\ heap' = [p \in DOMAIN heap \ {ptr[t]} |-> heap[p]]
        /\ UNCHANGED <<held, ptr, k>> /\ UNCHANGED hashVars
    BY <1>1, <1>12 DEF free_returns, At, Goto, Set
  <2>2. Contents' = Contents /\ live' = live /\ keys' = keys
    BY <2>1, SameTable DEF hashVars
  <2>3. ptr[t] \notin held
    BY <2>1 DEF TableInv, OwnersOK, Owns, GetLabels
  <2>4. \A p \in held : heap'[p] = heap[p]
    BY <1>1, <2>1, <2>3
  <2> QED BY <2>1, <2>2, <2>3, <2>4, SameEntries
<1>13. CASE load_minuend(t)
  <2>1. /\ \/ pc[t] = "load_mallocs" /\ pc'[t] = "assert_frees"
           \/ pc[t] = "load_bytes" /\ pc'[t] = "assert_bytes"
        /\ UNCHANGED <<heap, held, ptr, k>> /\ UNCHANGED hashVars
    BY <1>1, <1>13 DEF load_minuend, At, Goto, Set
  <2>2. Contents' = Contents /\ live' = live /\ keys' = keys
    BY <2>1, SameTable DEF hashVars
  <2> QED BY <2>1, <2>2, SameEntries
<1>14. CASE mark_load(t)
  <2>1. /\ pc[t] = "mark_load" /\ pc'[t] = "mark_again"
        /\ UNCHANGED <<heap, held, ptr, k>> /\ UNCHANGED hashVars
    BY <1>1, <1>14 DEF mark_load, At, Goto, Set
  <2>2. Contents' = Contents /\ live' = live /\ keys' = keys /\ ptr[t] \notin held
    BY <2>1, SameTable DEF hashVars, Entries
  <2> QED BY <2>1, <2>2, SameEntries
<1>15. CASE load_vals(t)
  <2>1. /\ \/ pc[t] = "set_value" /\ pc'[t] = "set_element"
           \/ pc[t] = "value" /\ pc'[t] = "element"
           \/ pc[t] = "mark" /\ pc'[t] = "mark_load"
           \/ pc[t] = "mark_again" /\ pc'[t] = "mark_store"
        /\ UNCHANGED <<heap, held, ptr, k>> /\ UNCHANGED hashVars
    BY <1>1, <1>15 DEF load_vals, AfterVals, At, Goto, Set
  <2>2. Contents' = Contents /\ live' = live /\ keys' = keys
    BY <2>1, SameTable DEF hashVars
  <2>3. pc[t] \in MarkLabels => ptr[t] \notin held
    BY DEF Entries
  <2> QED BY <2>1, <2>2, <2>3, SameEntries
<1> QED BY <1>3, <1>4, <1>5, <1>6, <1>7, <1>8, <1>9, <1>10, <1>11, <1>12, <1>13, <1>14, <1>15

LEMMA GivenBackEntries ==
  ASSUME TableInv, NEW t \in Threads, Entries(t), free369(t)
  PROVE  Entries(t)'
<1>1. DOMAIN pc = Threads /\ DOMAIN ptr = Threads
  BY DEF TableInv, TableOK, OwnersOK
<1>2. PICK p \in held : /\ ptr' = [ptr EXCEPT ![t] = p] /\ held' = held \ {p}
                        /\ pc' = [pc EXCEPT ![t] = "get"]
                        /\ heap' = heap /\ UNCHANGED hashVars
  BY DEF free369, Enter, Set
<1>3. pc[t] = "idle" /\ pc'[t] = "get" /\ ptr'[t] = p
  BY <1>1, <1>2 DEF free369, At
<1>4. Contents' = Contents
  BY <1>2, SameTable
<1>5. \A e \in Contents : e.key \in held \/ e.val >= FREED
  BY <1>3 DEF Entries, Seeking, FoundLabels
<1>6. \A q \in held : [key |-> q, val |-> heap[q]] \in Contents
  BY DEF Entries
<1>7. "get" \in Seeking
      /\ "get" \notin {"free_only", "in_free_only", "size"} \cup FoundLabels \cup MarkLabels
  BY DEF Seeking, FoundLabels, MarkLabels
<1> QED BY <1>2, <1>3, <1>4, <1>5, <1>6, <1>7 DEF Entries

LEMMA PutEntries ==
  ASSUME TableInv, NEW t \in Threads, Entries(t), kh_put_returns(t)
  PROVE  Entries(t)'
<1>1. /\ DOMAIN pc = Threads /\ DOMAIN k = Threads
  BY DEF TableInv, TableOK, ValuesOK
<1>2. /\ pc[t] = "insert" /\ insert(ptr[t]) /\ pc'[t] = "set_value" /\ k'[t] = put_site(ptr[t])
      /\ UNCHANGED <<heap, held, ptr>>
  BY <1>1 DEF kh_put_returns, At, Goto, Set
<1>3. Resting /\ n_buckets \in Tables /\ Cardinality(live) + 1 < n_buckets
  BY <1>2, PutterAlone DEF TableInv, TableOK
<1>4. ptr[t] \in Keys
  BY <1>2 DEF TableInv, OwnersOK, Owns, PutLabels
<1>5. /\ put_site(ptr[t]) \in live' /\ keys'[put_site(ptr[t])] = ptr[t]
      /\ \A e \in Contents : e \in Contents'
      /\ \A e \in Contents' : e \in Contents \/ e.key = ptr[t]
  BY <1>2, <1>3, <1>4, InsertContents
<1>6. \A e \in Contents : e.key \in held \/ e.val >= FREED
  BY <1>2 DEF Entries, Seeking, FoundLabels
<1>7. \A q \in held : [key |-> q, val |-> heap[q]] \in Contents
  BY DEF Entries
<1>8. "set_value" \in FoundLabels
      /\ "set_value" \notin {"free_only", "in_free_only"} \cup Seeking \cup MarkLabels
  BY DEF Seeking, FoundLabels, MarkLabels
<1> QED BY <1>2, <1>5, <1>6, <1>7, <1>8 DEF Entries

LEMMA LookedUpEntries ==
  ASSUME TableInv, NEW t \in Threads, Entries(t), get_returns(t)
  PROVE  Entries(t)'
<1>1. DOMAIN pc = Threads /\ DOMAIN k = Threads
  BY DEF TableInv, TableOK, ValuesOK
<1>2. /\ pc[t] = "in_get" /\ pc'[t] = "size" /\ k'[t] = kh_get(ptr[t])
      /\ UNCHANGED <<heap, held, ptr>> /\ UNCHANGED hashVars
  BY <1>1 DEF get_returns, At, Goto, Set
<1>3. Resting /\ (n_buckets # 0 => Cardinality(live) < n_buckets)
  BY <1>2 DEF TableInv, TableOK, Growing, Rehashing
<1>4. [key |-> ptr[t], val |-> heap[ptr[t]]] \in Contents
  BY <1>2 DEF Entries, Seeking
<1>5. PICK i \in live : [key |-> ptr[t], val |-> heap[ptr[t]]] = [key |-> keys[i], val |-> vals[i]]
  BY <1>3, <1>4, RestingContents
<1>6. keys[i] = ptr[t]
  BY <1>5
<1>7. n_buckets \in Tables
  BY <1>3, <1>5 DEF Resting
<1>8. kh_get(ptr[t]) = i
  BY <1>3, <1>6, <1>7, RestingFinds, TableSizes
<1>9. Contents' = Contents /\ live' = live /\ keys' = keys
  BY <1>2, SameTable DEF hashVars
<1>10. \A e \in Contents : e.key \in held \/ e.val >= FREED \/ e.key = ptr[t]
  BY DEF Entries
<1>11. "size" \in Seeking
       /\ "size" \notin {"free_only", "in_free_only"} \cup FoundLabels \cup MarkLabels
  BY DEF Seeking, FoundLabels, MarkLabels
<1> QED BY <1>2, <1>4, <1>5, <1>6, <1>8, <1>9, <1>10, <1>11 DEF Entries

LEMMA ValueEntries ==
  ASSUME TableInv, NEW t \in Threads, Books(t), Entries(t), set_size(t) \/ mark_freed(t)
  PROVE  Entries(t)'
<1>1. DOMAIN pc = Threads
  BY DEF TableInv, TableOK
<1>2. Resting
  <2>1. \A u \in Threads : pc[u] \notin Rehashing
    BY ValueTable
  <2> QED BY <2>1 DEF TableInv, TableOK, Growing, Rehashing
<1>3. pc[t] \in {"set_element", "mark_store"} /\ pc'[t] = "idle" /\ UNCHANGED heap
  BY <1>1 DEF set_size, mark_freed, At, Leave, Goto, Set
<1>4. k[t] \in live /\ keys[k[t]] = ptr[t]
  BY <1>3 DEF Entries, FoundLabels
<1>5. \A e \in Contents : e.key \in held \/ e.val >= FREED \/ e.key = ptr[t]
  BY DEF Entries
<1>6. \A q \in held : [key |-> q, val |-> heap[q]] \in Contents
  BY DEF Entries
<1>7. "idle" \notin {"free_only", "in_free_only", "size"} \cup Seeking \cup FoundLabels \cup MarkLabels
  BY DEF Seeking, FoundLabels, MarkLabels
<1>8. CASE set_size(t)
  <2>1. set_value(k[t], bytes[t]) /\ held' = held \cup {ptr[t]} /\ pc[t] = "set_element"
    BY <1>8 DEF set_size, At
  <2>2. ptr[t] \notin held /\ heap[ptr[t]] = bytes[t] /\ bytes[t] \in Int
    BY <2>1 DEF TableInv, OwnersOK, ValuesOK, Owns, PutLabels, Books
  <2>3. /\ [key |-> ptr[t], val |-> bytes[t]] \in Contents'
        /\ \A e \in Contents : e.key # ptr[t] => e \in Contents'
        /\ \A e \in Contents' : e = [key |-> ptr[t], val |-> bytes[t]] \/ (e \in Contents /\ e.key # ptr[t])
    BY <1>2, <1>4, <2>1, <2>2, ValueContents
  <2>4. \A q \in held' : [key |-> q, val |-> heap'[q]] \in Contents'
    BY <1>3, <1>6, <2>1, <2>2, <2>3
  <2>5. \A e \in Contents' : e.key \in held' \/ e.val >= FREED
    BY <1>5, <2>1, <2>3
  <2> QED BY <1>3, <1>7, <2>4, <2>5 DEF Entries
<1>9. CASE mark_freed(t)
  <2> DEFINE v == Marked(bytes[t])
  <2>1. set_value(k[t], v) /\ held' = held /\ pc[t] = "mark_store"
    BY <1>9 DEF mark_freed, At
  <2>2. v \in Int /\ v >= FREED
    <3>1. bytes[t] \in Int
      BY DEF TableInv, ValuesOK
    <3>2. ASSUME NEW x \in Int PROVE Marked(x) \in Int /\ Marked(x) >= FREED
      BY FreedBit DEF Marked
    <3> QED BY <3>1, <3>2
  <2> HIDE DEF v
  <2>3. /\ [key |-> ptr[t], val |-> v] \in Contents'
        /\ \A e \in Contents : e.key # ptr[t] => e \in Contents'
        /\ \A e \in Contents' : e = [key |-> ptr[t], val |-> v] \/ (e \in Contents /\ e.key # ptr[t])
    BY <1>2, <1>4, <2>1, <2>2, ValueContents
  <2>4. ptr[t] \notin held
    BY <2>1 DEF Entries, MarkLabels
  <2>5. \A q \in held' : [key |-> q, val |-> heap'[q]] \in Contents'
    BY <1>3, <1>6, <2>1, <2>3, <2>4
  <2>6. \A e \in Contents' : e.key \in held' \/ e.val >= FREED
    BY <1>5, <2>1, <2>2, <2>3
  <2> QED BY <1>3, <1>7, <2>5, <2>6 DEF Entries
<1> QED BY <1>8, <1>9

------------------------------------------------------------------------------
(* The process does not end before its time. *)
LEMMA SmallMod ==
  ASSUME NEW M \in Nat, NEW x \in Nat, x < M
  PROVE  x % M = x
OBVIOUS

(* The assertions of free369 hold, and the fill stays in its block. *)
LEMMA AssertsHold ==
  ASSUME SmallHeap, TableInv, NEW t \in Threads, Books(t), Entries(t), Registers(t),
         asserts(t) \/ fill_and_free(t)
  PROVE  status' = status
<1>1. pc[t] \in {"assert_frees", "assert_bytes", "fill"}
  BY DEF asserts, fill_and_free, At, Entries
<1>2. ptr[t] \in DOMAIN heap /\ ptr[t] \notin held
  BY <1>1 DEF TableInv, OwnersOK, Owns, GetLabels
<1>3. bytes[t] = heap[ptr[t]] /\ \A p \in DOMAIN heap : heap[p] \in BlockSize
  BY <1>1 DEF Books, Taking
<1>4. bytes[t] \in Nat \ {0}
  BY <1>2, <1>3, FreedBit DEF BlockSize
<1>5. /\ Cardinality(held) \in Nat /\ Total(held) \in Nat
      /\ Total(held) + bytes[t] <= HeapBytes
  <2>1. DOMAIN heap = held \cup {ptr[t]} /\ Total(DOMAIN heap) <= HeapBytes
    BY <1>1 DEF Books, Owns, GetLabels
  <2> QED BY <1>2, <1>3, <2>1, HeldFacts
<1>6. CASE asserts(t) /\ pc[t] = "assert_frees"
  <2>1. reg[t] - counter["num_frees"] = Cardinality(held) + 1
    BY <1>6 DEF Books, Registers, One, get_current_num_mallocs
  <2>2. FreesLeft(t)
    BY <1>4, <1>5, <2>1 DEF FreesLeft
  <2> QED BY <1>6, <2>2 DEF asserts, At
<1>7. CASE asserts(t) /\ pc[t] = "assert_bytes"
  <2>1. reg[t] - counter["bytes_freed"] = Total(held) + bytes[t]
    BY <1>7 DEF Books, Registers, Bytes, Taking, get_current_bytes_malloced
  <2> DEFINE left == Total(held) + bytes[t]
             M == 2 * FREED
  <2>2. left \in Nat /\ left >= bytes[t] /\ left < M /\ M \in Nat
    BY <1>4, <1>5, FreedBit
  <2>3. BytesLeft(t) <=> left % M >= bytes[t]
    BY <2>1 DEF BytesLeft
  <2> HIDE DEF left, M
  <2>4. BytesLeft(t)
    BY <2>2, <2>3, SmallMod
  <2> QED BY <1>7, <2>4 DEF asserts, At
<1>8. CASE fill_and_free(t)
  <2>1. pc[t] = "fill"
    BY <1>8 DEF fill_and_free, At, Entries
  <2>2. ~ (bytes[t] > heap[ptr[t]])
    BY <1>3, <1>4
  <2> QED BY <1>8, <2>1, <2>2 DEF fill_and_free, At
<1> QED BY <1>1, <1>6, <1>7, <1>8 DEF asserts, At

(* The process ends, and all stays as it is. *)
LEMMA StoppedOnly ==
  ASSUME NEW t \in Threads, Only(t), UNCHANGED <<hashVars, counter, heap, held, locals>>
  PROVE  Only(t)'
<1>1. UNCHANGED <<pc, ptr, bytes, reg, k, counter, heap, held, vals>>
  BY DEF locals, hashVars
<1>2. Total(held)' = Total(held) /\ Total(DOMAIN heap)' = Total(DOMAIN heap)
  BY <1>1, SameTotal
<1>3. Contents' = Contents /\ live' = live /\ keys' = keys
  BY SameTable DEF hashVars
<1>4. Books(t)'
  BY <1>1, <1>2
     DEF Only, Books, One, Bytes, Owns, get_current_num_mallocs, get_current_bytes_malloced
<1>5. Entries(t)'
  BY <1>1, <1>3 DEF Only, Entries
<1>6. Registers(t)'
  BY <1>1 DEF Only, Registers, vals_length
<1> QED BY <1>1, <1>4, <1>5, <1>6 DEF Only

------------------------------------------------------------------------------
(* Thread by thread. *)
Step(t) ==
  \/ malloc369(t) \/ free369(t) \/ load(t) \/ store(t)
  \/ malloc(t) \/ malloc_returns(t)
  \/ kh_put(t) \/ kh_resize(t) \/ kh_put_returns(t) \/ set_size(t)
  \/ get(t) \/ get_returns(t) \/ find(t) \/ get_size(t) \/ load_minuend(t) \/ asserts(t)
  \/ fill_and_free(t) \/ free_returns(t) \/ mark_load(t) \/ mark_freed(t)
  \/ load_vals(t) \/ stale_vals(t) \/ clash(t)

LEMMA OthersStay ==
  ASSUME Counting, NEW t \in Threads, Step(t)
  PROVE  /\ \A u \in Threads \ {t} : pc'[u] = pc[u]
         /\ \/ interrupts' = interrupts
            \/ interrupts' = interrupts + 1
<1> DOMAIN pc = Threads
  BY DEF Counting
<1>1. CASE malloc369(t) \/ free369(t)
  BY <1>1 DEF malloc369, free369, Enter, Set
<1>2. CASE load(t) \/ store(t)
  BY <1>2 DEF load, store, Goto, Set
<1>3. CASE ~ (malloc369(t) \/ free369(t) \/ load(t) \/ store(t))
  <2>1. Moves(t)
    BY <1>3, QuietSteps DEF Step
  <2> QED BY <2>1 DEF Moves
<1> QED BY <1>1, <1>2, <1>3

(* A thread that is in no call can only begin one. *)
LEMMA IdleSteps ==
  ASSUME NEW t \in Threads, Step(t), pc[t] = "idle"
  PROVE  /\ malloc369(t) \/ free369(t)
         /\ interrupts' = IF \E u \in Threads \ {t} : pc[u] # "idle" THEN interrupts + 1 ELSE interrupts
<1> USE DEF At
<1>1. ~ (load(t) \/ store(t))
  BY DEF load, store, Counters
<1>2. ~ (malloc(t) \/ malloc_returns(t) \/ kh_put(t) \/ kh_put_returns(t) \/ set_size(t))
  BY DEF malloc, malloc_returns, kh_put, kh_put_returns, set_size
<1>3. ~ kh_resize(t)
  BY DEF kh_resize
<1>4. ~ (get(t) \/ get_returns(t) \/ find(t) \/ get_size(t) \/ load_minuend(t) \/ asserts(t))
  BY DEF get, get_returns, find, get_size, load_minuend, asserts
<1>5. ~ (fill_and_free(t) \/ free_returns(t) \/ mark_load(t) \/ mark_freed(t))
  BY DEF fill_and_free, free_returns, mark_load, mark_freed
<1>6. ~ (load_vals(t) \/ stale_vals(t) \/ clash(t))
  BY DEF load_vals, stale_vals, clash, Clash, ToHeap, TableAccess
<1>7. malloc369(t) \/ free369(t)
  BY <1>1, <1>2, <1>3, <1>4, <1>5, <1>6 DEF Step
<1> QED BY <1>7 DEF malloc369, free369, Enter

(* Whoever makes the step was alone, unless the step is an interruption. *)
LEMMA AloneBefore ==
  ASSUME Counting, TableInv, Sole, NEW t \in Threads, Step(t), interrupts' = 0
  PROVE  /\ interrupts = 0 /\ status \notin {"assert", "undefined"} /\ Only(t)
<1>1. interrupts = 0
  <2>1. interrupts \in Nat
    BY DEF Sole
  <2>2. interrupts' = interrupts \/ interrupts' = interrupts + 1
    BY OthersStay
  <2> QED BY <2>1, <2>2
<1>2. status \notin {"assert", "undefined"} /\ \E u \in Threads : Only(u)
  BY <1>1 DEF Sole
<1>3. PICK u \in Threads : Only(u)
  BY <1>2
<1>4. ASSUME u # t PROVE Only(t)
  <2>1. pc[t] = "idle"
    BY <1>3, <1>4 DEF Only
  <2>2. \A w \in Threads : pc[w] = "idle"
    <3>1. ~ \E w \in Threads \ {t} : pc[w] # "idle"
      BY <1>1, <2>1, IdleSteps
    <3> QED BY <2>1, <3>1
  <2>3. reg[t] = None
    BY <2>1 DEF Counting, Counters, RegLabels
  <2>4. /\ One(t) = 0 /\ Bytes(t) = 0 /\ ~ Owns(t) /\ One(u) = 0 /\ Bytes(u) = 0 /\ ~ Owns(u)
    BY <2>2 DEF One, Bytes, Owns, MallocLabels, PutLabels, GetLabels, Seeking, Taking
  <2>5. "idle" \notin MallocLabels \cup PutLabels \cup Taking
    BY DEF MallocLabels, PutLabels, Taking
  <2>6. Books(t)
    BY <1>3, <2>2, <2>3, <2>4, <2>5 DEF Only, Books
  <2>7. "idle" \notin Seeking \cup {"size"} \cup FoundLabels \cup MarkLabels
    BY DEF Seeking, FoundLabels, MarkLabels
  <2>8. Entries(t)
    BY <1>3, <2>2, <2>7 DEF Only, Entries
  <2>9. Registers(t)
    BY <2>1 DEF Registers, Counters
  <2> QED BY <2>2, <2>6, <2>8, <2>9 DEF Only
<1> QED BY <1>1, <1>2, <1>3, <1>4

(* What it loads is what it finds there as it goes on. *)
LEMMA RegistersAfter ==
  ASSUME Counting, TableInv, NEW t \in Threads, Only(t), Step(t)
  PROVE  Registers(t)'
<1> DEFINE Loads == {"assert_frees", "assert_bytes", "set_element", "element", "mark_load", "mark_store"}
<1>1. DOMAIN pc = Threads /\ DOMAIN reg = Threads
  BY DEF Counting
<1>2. Registers(t)
  BY DEF Only
<1>3. ASSUME reg'[t] = None, pc'[t] \notin Loads PROVE Registers(t)'
  BY <1>3 DEF Registers
<1>4. ASSUME Moves(t), pc'[t] \notin Loads PROVE Registers(t)'
  <2>1. CASE pc' = pc /\ reg' = reg
    <3>1. counter' = counter
      BY <1>4 DEF Moves
    <3> QED BY <1>2, <1>4, <2>1, <3>1 DEF Registers
  <2>2. CASE ~ (pc' = pc /\ reg' = reg)
    <3>1. reg'[t] # None => pc'[t] \in RegLabels
      BY <1>1, <1>4, <2>2 DEF Moves
    <3>2. Counters \cap RegLabels = {}
      BY DEF Counters, RegLabels
    <3> QED BY <1>4, <3>1, <3>2 DEF Registers
  <2> QED BY <2>1, <2>2
<1>5. ASSUME NEW how, Stop(how) PROVE Registers(t)'
  BY <1>5, StoppedOnly DEF Only, Stop
<1>6. CASE malloc369(t) \/ free369(t)
  <2>1. /\ pc[t] = "idle" /\ pc'[t] \in {"num_mallocs", "get"} /\ reg' = reg
    BY <1>1, <1>6 DEF malloc369, free369, At, Enter, Set
  <2>2. reg'[t] = None
    BY <2>1 DEF Counting, Counters, RegLabels
  <2> QED BY <1>3, <2>1, <2>2
<1>7. CASE load(t)
  <2>1. PICK c \in Counters : /\ pc[t] = c /\ reg' = [reg EXCEPT ![t] = counter[c]]
                              /\ pc' = [pc EXCEPT ![t] = c] /\ counter' = counter
    BY <1>7 DEF load, At, Goto, Set
  <2>2. pc'[t] = c /\ reg'[t] = counter'[c] /\ c \notin Loads
    BY <1>1, <2>1 DEF Counters
  <2> QED BY <2>2 DEF Registers
<1>8. CASE store(t)
  <2>1. PICK c \in Counters : /\ reg' = [reg EXCEPT ![t] = None] /\ pc' = [pc EXCEPT ![t] = After(c)]
    BY <1>8 DEF store, Goto, Set
  <2>2. reg'[t] = None /\ pc'[t] = After(c) /\ After(c) \notin Loads
    BY <1>1, <2>1 DEF After, Counters
  <2> QED BY <1>3, <2>2
<1>9. CASE load_minuend(t)
  <2>1. PICK a \in {"load_mallocs", "load_bytes"} :
          /\ reg'[t] = counter'[Minuend(a)]
          /\ pc'[t] = (IF a = "load_mallocs" THEN "assert_frees" ELSE "assert_bytes")
    BY <1>1, <1>9 DEF load_minuend, Goto, Set
  <2> QED BY <2>1 DEF Registers, Minuend, Counters
<1>10. CASE load_vals(t)
  <2>1. PICK l \in {"set_value", "value", "mark", "mark_again"} :
          reg'[t] = vals_length /\ pc'[t] = AfterVals(l) /\ vals' = vals
    BY <1>1, <1>10 DEF load_vals, Goto, Set, hashVars
  <2>2. AfterVals(l) \in {"set_element", "element", "mark_load", "mark_store"}
    BY DEF AfterVals
  <2>3. vals_length' = vals_length
    BY <2>1 DEF vals_length
  <2> QED BY <2>1, <2>2, <2>3 DEF Registers, Counters
<1>11. CASE malloc(t) \/ kh_put(t) \/ kh_put_returns(t) \/ get(t) \/ get_returns(t) \/ mark_load(t)
  <2>1. pc'[t] \in {"in_malloc", "resize", "insert", "set_value", "in_get", "size", "mark_again"}
    BY <1>1, <1>11 DEF malloc, kh_put, kh_put_returns, get, get_returns, mark_load, Goto, Set
  <2> QED BY <1>4, <1>11, <2>1, QuietSteps
<1>12. CASE malloc_returns(t)
  <2>1. CASE ~ Stop("exit")
    <3>1. pc'[t] = "kh_put"
      BY <1>1, <1>12, <2>1 DEF malloc_returns, Goto, Set
    <3> QED BY <1>4, <1>12, <3>1, QuietSteps
  <2> QED BY <1>5, <2>1
<1>13. CASE kh_resize(t)
  <2>1. CASE ~ Stop("put failed")
    <3>1. pc'[t] \in {"rehash", "kfree", "insert"}
      BY <1>1, <1>13, <2>1 DEF kh_resize, Goto, Set
    <3> QED BY <1>4, <1>13, <3>1, QuietSteps
  <2> QED BY <1>5, <2>1
<1>14. CASE set_size(t) \/ mark_freed(t) \/ free_returns(t)
  <2>1. pc'[t] \in {"idle", "mark"}
    BY <1>1, <1>14 DEF set_size, mark_freed, free_returns, Leave, Goto, Set
  <2> QED BY <1>4, <1>14, <2>1, QuietSteps
<1>15. CASE find(t)
  <2>1. pc'[t] \in {"free_only", "value"}
    BY <1>1, <1>15 DEF find, Goto, Set
  <2> QED BY <1>4, <1>15, <2>1, QuietSteps
<1>16. CASE get_size(t)
  <2>1. CASE ~ Stop("undefined")
    <3>1. pc'[t] \in {"free_only", "load_mallocs"}
      BY <1>1, <1>16, <2>1 DEF get_size, Goto, Set
    <3> QED BY <1>4, <1>16, <3>1, QuietSteps
  <2> QED BY <1>5, <2>1
<1>17. CASE asserts(t)
  <2>1. CASE ~ Stop("assert")
    <3>1. pc'[t] \in {"num_frees", "bytes_freed"}
      BY <1>1, <1>17, <2>1 DEF asserts, Goto, Set
    <3> QED BY <1>4, <1>17, <3>1, QuietSteps
  <2> QED BY <1>5, <2>1
<1>18. CASE fill_and_free(t)
  <2>1. CASE ~ Stop("undefined")
    <3>1. pc'[t] \in {"in_free", "in_free_only"}
      BY <1>1, <1>18, <2>1 DEF fill_and_free, Goto, Set
    <3> QED BY <1>4, <1>18, <3>1, QuietSteps
  <2> QED BY <1>5, <2>1
<1>19. CASE stale_vals(t) \/ clash(t)
  BY <1>5, <1>19 DEF stale_vals, clash
<1> HIDE DEF Loads
<1> QED BY <1>6, <1>7, <1>8, <1>9, <1>10, <1>11, <1>12, <1>13, <1>14, <1>15, <1>16, <1>17, <1>18, <1>19 DEF Step

(* It still is alone after the step, and the process has not failed. *)
LEMMA AloneAfter ==
  ASSUME SmallHeap, Counting, TableInv, NEW t \in Threads, Only(t), Step(t)
  PROVE  Only(t)' /\ (status' = status \/ status' \in {"exit", "put failed"})
<1>1. Books(t) /\ Entries(t) /\ Registers(t) /\ \A u \in Threads \ {t} : pc[u] = "idle"
  BY DEF Only
<1>2. \A u \in Threads \ {t} : pc'[u] = "idle"
  BY <1>1, OthersStay
<1>3. ASSUME Books(t)', Entries(t)' PROVE Only(t)'
  BY <1>2, <1>3, RegistersAfter DEF Only
<1>4. CASE \/ malloc369(t) \/ load(t) \/ malloc(t) \/ kh_put(t) \/ get(t)
           \/ load_minuend(t) \/ mark_load(t) \/ load_vals(t)
  <2>1. status' = status
    BY <1>4 DEF malloc369, load, malloc, kh_put, get, load_minuend, mark_load, load_vals
  <2> QED BY <1>1, <1>3, <1>4, <2>1, PlainBooks, PlainEntries
<1>5. CASE free369(t)
  <2>1. status' = status
    BY <1>5 DEF free369
  <2> QED BY <1>1, <1>3, <1>5, <2>1, GivenBackBooks, GivenBackEntries
<1>6. CASE store(t)
  <2>1. status' = status
    BY <1>6 DEF store
  <2> QED BY <1>1, <1>3, <1>6, <2>1, StoreBooks, PlainEntries
<1>7. CASE malloc_returns(t)
  <2>1. CASE status' = status
    BY <1>1, <1>3, <1>7, <2>1, ReturnsBooks, PlainEntries
  <2>2. CASE status' # status
    <3>1. Stop("exit")
      BY <1>7, <2>2 DEF malloc_returns
    <3> QED BY <3>1, StoppedOnly DEF Stop
  <2> QED BY <2>1, <2>2
<1>8. CASE kh_resize(t)
  <2>1. CASE status' = status
    BY <1>1, <1>3, <1>8, <2>1, PlainBooks, PlainEntries
  <2>2. CASE status' # status
    <3>1. Stop("put failed")
      BY <1>8, <2>2 DEF kh_resize
    <3> QED BY <3>1, StoppedOnly DEF Stop
  <2> QED BY <2>1, <2>2
<1>9. CASE kh_put_returns(t)
  <2>1. status' = status
    BY <1>9 DEF kh_put_returns
  <2> QED BY <1>1, <1>3, <1>9, <2>1, PlainBooks, PutEntries
<1>10. CASE set_size(t)
  <2>1. status' = status
    BY <1>10 DEF set_size
  <2> QED BY <1>1, <1>3, <1>10, <2>1, SetSizeBooks, ValueEntries
<1>11. CASE get_returns(t)
  <2>1. status' = status
    BY <1>11 DEF get_returns
  <2> QED BY <1>1, <1>3, <1>11, <2>1, PlainBooks, LookedUpEntries
<1>12. CASE find(t) \/ get_size(t)
  BY <1>1, <1>3, <1>12, FindBooksEntries, SizeBooksEntries
<1>13. CASE asserts(t) \/ fill_and_free(t)
  <2>1. status' = status
    BY <1>1, <1>13, AssertsHold
  <2> QED BY <1>1, <1>3, <1>13, <2>1, PlainBooks, PlainEntries
<1>14. CASE free_returns(t)
  <2>1. status' = status
    BY <1>14 DEF free_returns
  <2> QED BY <1>1, <1>3, <1>14, <2>1, FreedBooks, PlainEntries
<1>15. CASE mark_freed(t)
  <2>1. status' = status
    BY <1>15 DEF mark_freed
  <2> QED BY <1>1, <1>3, <1>15, <2>1, MarkBooks, ValueEntries
<1>16. ~ clash(t) /\ ~ stale_vals(t)
  BY <1>1 DEF clash, Clash, InHeap, Putting, Rehashing, stale_vals, At, Moved, Registers
<1> QED BY <1>4, <1>5, <1>6, <1>7, <1>8, <1>9, <1>10, <1>11, <1>12, <1>13, <1>14, <1>15, <1>16 DEF Step

LEMMA InitSole == SmallHeap /\ TableInv /\ Init => Sole
<1> SUFFICES ASSUME SmallHeap, TableInv, Init PROVE Sole
  OBVIOUS
<1>1. PICK t \in Threads : TRUE
  BY MallocAssumption
<1>2. /\ pc = [u \in Threads |-> "idle"] /\ reg = [u \in Threads |-> None]
      /\ counter = [c \in Counters |-> 0] /\ heap = <<>> /\ held = {}
      /\ status = "running" /\ interrupts = 0
  BY DEF Init
<1>3. \A u \in Threads : pc[u] = "idle" /\ reg[u] = None
  BY <1>2
<1>4. DOMAIN heap = {}
  BY <1>2
<1>5. Total(held) = 0 /\ Cardinality(held) = 0
  BY <1>2, <1>4, HeldFacts, FS_EmptySet
<1>6. get_current_num_mallocs = 0 /\ get_current_bytes_malloced = 0
  BY <1>2 DEF get_current_num_mallocs, get_current_bytes_malloced, Counters
<1>7. One(t) = 0 /\ Bytes(t) = 0 /\ ~ Owns(t)
  BY <1>3 DEF One, Bytes, Owns, MallocLabels, PutLabels, GetLabels, Seeking, Taking
<1>8. "idle" \notin MallocLabels \cup PutLabels \cup Taking
  BY DEF MallocLabels, PutLabels, Taking
<1>9. Books(t)
  <2>1. Total(DOMAIN heap) <= HeapBytes
    BY <1>2, <1>4, <1>5, FreedBit
  <2> QED BY <1>2, <1>3, <1>4, <1>5, <1>6, <1>7, <1>8, <2>1 DEF Books
<1>10. Contents = {}
  BY DEF Init, kh_init, Contents
<1>11. "idle" \notin Seeking \cup {"size"} \cup FoundLabels \cup MarkLabels
  BY DEF Seeking, FoundLabels, MarkLabels
<1>12. Entries(t)
  BY <1>2, <1>3, <1>10, <1>11 DEF Entries
<1>13. Registers(t)
  BY <1>3 DEF Registers, Counters
<1> QED BY <1>2, <1>3, <1>9, <1>12, <1>13 DEF Only, Sole

LEMMA StepSole == SmallHeap /\ Counting /\ TableInv /\ Sole /\ [Next]_mallocVars => Sole'
<1> SUFFICES ASSUME SmallHeap, Counting, TableInv, Sole, [Next]_mallocVars PROVE Sole'
  OBVIOUS
<1>1. interrupts \in Nat
  BY DEF Sole
<1>2. CASE Next
  <2>1. PICK t \in Threads : Step(t)
    BY <1>2 DEF Next, Step
  <2>2. interrupts' \in Nat
    BY <1>1, <2>1, OthersStay
  <2>3. ASSUME interrupts' = 0
        PROVE  status' \notin {"assert", "undefined"} /\ Only(t)'
    BY <2>1, <2>3, AloneBefore, AloneAfter
  <2> QED BY <2>2, <2>3 DEF Sole
<1>3. CASE UNCHANGED mallocVars
  <2>1. interrupts' = interrupts /\ status' = status
    BY <1>3 DEF mallocVars
  <2>2. \A t \in Threads : Only(t) => Only(t)'
    BY <1>3, StoppedOnly DEF mallocVars
  <2> QED BY <1>1, <2>1, <2>2 DEF Sole
<1> QED BY <1>2, <1>3

LEMMA SoleAlways ==
  ASSUME SmallHeap
  PROVE  Spec => [](TableInv /\ Sole)
<1>1. Init => TableInv /\ Counting
  BY InitTable, InitValues, InitCounting DEF TableInv
<1>2. TableInv /\ [Next]_mallocVars => TableInv'
  BY StepTable
<1>3. Init => Sole
  BY <1>1, InitSole
<1>4. Counting /\ TableInv /\ Sole /\ [Next]_mallocVars => Sole'
  BY StepSole
<1> QED BY <1>1, <1>2, <1>3, <1>4, StepCounting, PTL DEF Spec

------------------------------------------------------------------------------
(* If no call was interrupted by another, then whenever no thread is in a  *)
(* call the counters tell how many pointers the program holds and of how   *)
(* many bytes, the heap has no other, and is_leak_free tells of every one. *)
THEOREM BooksAgree ==
  ASSUME SmallHeap
  PROVE  Spec => []Accounting
<1>1. TableInv /\ Sole => Accounting
  <2> SUFFICES ASSUME TableInv, Sole, Idle, interrupts = 0
               PROVE  /\ get_current_num_mallocs = Cardinality(held)
                      /\ get_current_bytes_malloced = Total(held)
                      /\ DOMAIN heap = held
                      /\ is_leak_free(0, 0) <=> held = {}
    BY DEF Accounting
  <2>1. PICK t \in Threads : Books(t)
    BY DEF Sole, Only
  <2>2. One(t) = 0 /\ Bytes(t) = 0 /\ ~ Owns(t)
    BY DEF Idle, One, Bytes, Owns, MallocLabels, PutLabels, GetLabels, Seeking, Taking
  <2>3. \A p \in DOMAIN heap : heap[p] \in BlockSize
    BY <2>1 DEF Books
  <2>4. IsFiniteSet(held) /\ Cardinality(held) \in Nat /\ Total(held) \in Nat
        /\ (held = {} => Total(held) = 0)
    BY <2>3, HeldFacts
  <2>5. get_current_num_mallocs = Cardinality(held) /\ get_current_bytes_malloced = Total(held)
    BY <2>1, <2>2, <2>4 DEF Books
  <2>6. Cardinality(held) = 0 <=> held = {}
    BY <2>4, FS_EmptySet
  <2>7. is_leak_free(0, 0) <=> held = {}
    BY <2>4, <2>5, <2>6 DEF is_leak_free
  <2> QED BY <2>1, <2>2, <2>5, <2>7 DEF Books
<1> QED BY <1>1, SoleAlways, PTL

(* If no call was interrupted by another, the map tells the size of every  *)
(* pointer that the program holds, and of the others that they were freed. *)
THEOREM PointersAreKnown ==
  ASSUME SmallHeap
  PROVE  Spec => []KnownPointers
<1>1. Sole => KnownPointers
  <2> SUFFICES ASSUME Sole, interrupts = 0
               PROVE  /\ \A p \in held : [key |-> p, val |-> heap[p]] \in Contents
                      /\ Idle => \A e \in Contents : e.key \in held \/ e.val >= FREED
    BY DEF KnownPointers
  <2>1. PICK t \in Threads : Entries(t)
    BY DEF Sole, Only
  <2>2. Idle => pc[t] \notin Seeking \cup FoundLabels
    BY DEF Idle, Seeking, FoundLabels
  <2> QED BY <2>1, <2>2 DEF Entries
<1> QED BY <1>1, SoleAlways, PTL

(* If no call was interrupted by another, free369 reports no pointer as    *)
(* unknown or freed twice that is neither, its assertions hold, and it     *)
(* fills no block past its end.                                            *)
THEOREM NoAlarmIsFalse ==
  ASSUME SmallHeap
  PROVE  Spec => []NoFalseAlarm
<1>1. Sole => NoFalseAlarm
  <2> SUFFICES ASSUME Sole, interrupts = 0
               PROVE  /\ status \notin {"assert", "undefined"}
                      /\ \A t \in Threads : pc[t] \notin {"free_only", "in_free_only"}
    BY DEF NoFalseAlarm
  <2>1. PICK t \in Threads : Entries(t) /\ \A u \in Threads \ {t} : pc[u] = "idle"
    BY DEF Sole, Only
  <2> QED BY <2>1 DEF Sole, Entries
<1> QED BY <1>1, SoleAlways, PTL

------------------------------------------------------------------------------
(* Frees that are not counted.  Two calls under way at the same time cost  *)
(* at most one count between them: one overwrites the num_frees of the     *)
(* other, or a malloc369 moves the table, or is given the block, under the *)
(* bucket of the other, which then reads or marks a wrong entry.  Paid     *)
(* adds up what has been lost, what is going to be, and the pairs of calls *)
(* that may still cost something; each interruption pays for the pairs it  *)
(* begins.                                                                 *)

(* The labels of a malloc369 that may yet move the table. *)
MayGrow == MallocLabels \cup {"kh_put", "resize"}

(* Those of a malloc369 that is to store the size in the table.            *)
SetLabels == {"set_value", "set_element"}

(* The pointers that free369 looks up or is yet to be given. *)
Wanted == held \cup {ptr[t] : t \in {u \in Threads : pc[u] \in Seeking}}

(* Those that it will take for freed. *)
Mismarked == {p \in Wanted : \E e \in Contents : e.key = p /\ e.val >= FREED}

(* The threads whose bucket is not that of their pointer, or which are to  *)
(* mark a pointer that has been allocated again.                           *)
Window == {"size"} \cup FoundLabels
AtPlace(t) == k[t] \in live /\ keys[k[t]] = ptr[t]
Misled ==
  {t \in Threads : pc[t] \in Window /\
     (Growing \/ ~ AtPlace(t) \/ (pc[t] \in MarkLabels /\ ptr[t] \in DOMAIN heap))}

(* The calls that may yet cost one of them its count. *)
Reused(t, u) == pc[t] \in MarkLabels /\ Owns(u) /\ ptr[u] = ptr[t]
Rivals(t, u) ==
  /\ t # u /\ pc[t] # "idle" /\ pc[u] # "idle"
  /\ pc[t] \in MayGrow \/ pc[u] \in MayGrow \/ (pc[t] \in FreeLabels /\ pc[u] \in FreeLabels)
  /\ ~ Reused(t, u) /\ ~ Reused(u, t)
Rivalries == {P \in SUBSET Threads : \E t, u \in Threads : P = {t, u} /\ Rivals(t, u)}

Owed == Cardinality(Mismarked) + Cardinality(Misled) + Cardinality(Rivalries)
Due == frees - Cardinality(Freeing) + Owed
Room == interrupts * (Cardinality(Threads) - 1)

(* The number of counted frees, and what has been loaded of it. *)
Loaded ==
  {counter["num_frees"]} \cup {reg[t] : t \in {u \in Threads : pc[u] = "num_frees" /\ reg[u] # None}}
Paid == \A v \in Loaded : Due - v <= Room

(* What the table knows, and malloc369 of its size. *)
Known ==
  /\ \A p \in Wanted : \E e \in Contents : e.key = p
  /\ \A t \in Threads : pc[t] \in SetLabels => \E e \in Contents : e.key = ptr[t]
  /\ \A t \in Threads : pc[t] \in MallocLabels \cup PutLabels => bytes[t] \in BlockSize

------------------------------------------------------------------------------
(* Pairs of one thread with others. *)
PairsOf(W, u) == {{t, u} : t \in W}

LEMMA PairsCount ==
  ASSUME NEW u \in Threads, NEW W \in SUBSET (Threads \ {u})
  PROVE  /\ IsFiniteSet(W) /\ Cardinality(W) \in Nat
         /\ IsFiniteSet(PairsOf(W, u)) /\ Cardinality(PairsOf(W, u)) = Cardinality(W)
<1> DEFINE f == [t \in W |-> {t, u}]
           P == PairsOf(W, u)
<1>1. IsFiniteSet(W) /\ Cardinality(W) \in Nat
  BY MallocAssumption, FS_Subset, FS_CardinalityType
<1>2. f \in [W -> P] /\ \A x \in P : \E t \in W : f[t] = x
  BY DEF PairsOf
<1>3. \A a, b \in W : f[a] = f[b] => a = b
  OBVIOUS
<1> HIDE DEF f, P
<1>4. f \in Surjection(W, P) /\ f \in Injection(W, P)
  BY <1>2, <1>3 DEF Surjection, Injection, IsInjective
<1>5. IsFiniteSet(P) /\ Cardinality(P) = Cardinality(W)
  BY <1>1, <1>4, FS_Surjection
<1> QED BY <1>1, <1>5 DEF P

(* Fewer pairs, and no more than there were with those of u. *)
LEMMA FewerPairs ==
  ASSUME NEW u \in Threads, NEW W \in SUBSET (Threads \ {u}), NEW R, IsFiniteSet(R),
         NEW S \in SUBSET R, PairsOf(W, u) \subseteq R, PairsOf(W, u) \cap S = {}
  PROVE  /\ Cardinality(R) \in Nat /\ Cardinality(S) \in Nat /\ Cardinality(W) \in Nat
         /\ Cardinality(S) + Cardinality(W) <= Cardinality(R)
<1> DEFINE P == PairsOf(W, u)
<1>1. IsFiniteSet(P) /\ Cardinality(P) = Cardinality(W) /\ Cardinality(W) \in Nat
  BY PairsCount
<1>2. IsFiniteSet(R \ P) /\ Cardinality(R \ P) = Cardinality(R) - Cardinality(R \cap P)
  BY FS_Difference
<1>3. Cardinality(R \cap P) = Cardinality(P) /\ S \subseteq R \ P
  <2>1. R \cap P = P
    OBVIOUS
  <2> QED BY <2>1
<1>4. Cardinality(S) <= Cardinality(R \ P) /\ IsFiniteSet(S)
  BY <1>2, <1>3, FS_Subset
<1>5. Cardinality(S) \in Nat /\ Cardinality(R) \in Nat
  BY <1>4, FS_CardinalityType
<1> QED BY <1>1, <1>2, <1>3, <1>4, <1>5

LEMMA MoreThan ==
  ASSUME NEW R, IsFiniteSet(R), NEW W, IsFiniteSet(W), NEW S \in SUBSET (R \cup W)
  PROVE  /\ Cardinality(R) \in Nat /\ Cardinality(S) \in Nat /\ Cardinality(W) \in Nat
         /\ Cardinality(S) <= Cardinality(R) + Cardinality(W)
<1>1. /\ IsFiniteSet(R \cup W)
      /\ Cardinality(R \cup W) = Cardinality(R) + Cardinality(W) - Cardinality(R \cap W)
  BY FS_Union
<1>2. Cardinality(R) \in Nat /\ Cardinality(W) \in Nat /\ Cardinality(R \cap W) \in Nat
  BY FS_CardinalityType, FS_Intersection
<1>3. IsFiniteSet(S) /\ Cardinality(S) <= Cardinality(R \cup W)
  BY <1>1, FS_Subset
<1>4. Cardinality(S) \in Nat
  BY <1>3, FS_CardinalityType
<1> QED BY <1>1, <1>2, <1>3, <1>4

LEMMA NoMoreThan ==
  ASSUME NEW R, IsFiniteSet(R), NEW S \in SUBSET R
  PROVE  Cardinality(R) \in Nat /\ Cardinality(S) \in Nat /\ Cardinality(S) <= Cardinality(R)
BY FS_Subset, FS_CardinalityType

LEMMA OwedFinite ==
  ASSUME SmallHeap, TableInv
  PROVE  IsFiniteSet(Mismarked) /\ IsFiniteSet(Misled) /\ IsFiniteSet(Rivalries)
<1>1. Mismarked \subseteq Keys
  <2>1. held \subseteq Keys
    BY DEF TableInv, OwnersOK
  <2>2. \A t \in Threads : pc[t] \in Seeking => ptr[t] \in Keys
    BY DEF TableInv, OwnersOK, Owns, GetLabels, Seeking
  <2> QED BY <2>1, <2>2 DEF Mismarked, Wanted
<1>2. IsFiniteSet(Mismarked)
  BY <1>1, FS_Subset DEF SmallHeap
<1>3. Misled \subseteq Threads /\ Rivalries \subseteq SUBSET Threads
  BY DEF Misled, Rivalries
<1> QED BY <1>2, <1>3, MallocAssumption, FS_Subset, FS_SUBSET

(* Nothing is owed that was not. *)
LEMMA OwedLess ==
  ASSUME SmallHeap, TableInv, Mismarked' \subseteq Mismarked, Misled' \subseteq Misled,
         Rivalries' \subseteq Rivalries
  PROVE  Owed \in Nat /\ Owed' \in Nat /\ Owed' <= Owed
<1>1. /\ Cardinality(Mismarked) \in Nat /\ Cardinality(Mismarked') \in Nat
      /\ Cardinality(Mismarked') <= Cardinality(Mismarked)
  BY OwedFinite, NoMoreThan
<1>2. /\ Cardinality(Misled) \in Nat /\ Cardinality(Misled') \in Nat
      /\ Cardinality(Misled') <= Cardinality(Misled)
  BY OwedFinite, NoMoreThan
<1>3. /\ Cardinality(Rivalries) \in Nat /\ Cardinality(Rivalries') \in Nat
      /\ Cardinality(Rivalries') <= Cardinality(Rivalries)
  BY OwedFinite, NoMoreThan
<1> QED BY <1>1, <1>2, <1>3 DEF Owed

LEMMA LessThan ==
  ASSUME NEW R, IsFiniteSet(R), NEW S \in SUBSET R
  PROVE  /\ Cardinality(R) \in Nat /\ Cardinality(S) \in Nat /\ Cardinality(S) <= Cardinality(R)
         /\ S # R => Cardinality(S) + 1 <= Cardinality(R)
<1>1. /\ IsFiniteSet(S) /\ Cardinality(S) <= Cardinality(R)
      /\ Cardinality(S) = Cardinality(R) => S = R
  BY FS_Subset
<1>2. Cardinality(R) \in Nat /\ Cardinality(S) \in Nat
  BY <1>1, FS_CardinalityType
<1> QED BY <1>1, <1>2

LEMMA OwedOneLess ==
  ASSUME SmallHeap, TableInv, Mismarked' \subseteq Mismarked, Misled' \subseteq Misled,
         Rivalries' \subseteq Rivalries,
         Mismarked' # Mismarked \/ Misled' # Misled \/ Rivalries' # Rivalries
  PROVE  Owed \in Nat /\ Owed' \in Nat /\ Owed' + 1 <= Owed
<1>1. /\ Cardinality(Mismarked) \in Nat /\ Cardinality(Mismarked') \in Nat
      /\ Cardinality(Mismarked') <= Cardinality(Mismarked)
      /\ Mismarked' # Mismarked => Cardinality(Mismarked') + 1 <= Cardinality(Mismarked)
  BY OwedFinite, LessThan
<1>2. /\ Cardinality(Misled) \in Nat /\ Cardinality(Misled') \in Nat
      /\ Cardinality(Misled') <= Cardinality(Misled)
      /\ Misled' # Misled => Cardinality(Misled') + 1 <= Cardinality(Misled)
  BY OwedFinite, LessThan
<1>3. /\ Cardinality(Rivalries) \in Nat /\ Cardinality(Rivalries') \in Nat
      /\ Cardinality(Rivalries') <= Cardinality(Rivalries)
      /\ Rivalries' # Rivalries => Cardinality(Rivalries') + 1 <= Cardinality(Rivalries)
  BY OwedFinite, LessThan
<1> QED BY <1>1, <1>2, <1>3 DEF Owed

(* A pair's part is paid when its thread goes wrong. *)
LEMMA OwedByPair ==
  ASSUME SmallHeap, TableInv, NEW u \in Threads, NEW W \in SUBSET (Threads \ {u}),
         Mismarked' \subseteq Mismarked, Misled' \subseteq Misled \cup W,
         Rivalries' \subseteq Rivalries, PairsOf(W, u) \subseteq Rivalries,
         PairsOf(W, u) \cap Rivalries' = {}
  PROVE  Owed \in Nat /\ Owed' \in Nat /\ Owed' <= Owed
<1>1. /\ Cardinality(Mismarked) \in Nat /\ Cardinality(Mismarked') \in Nat
      /\ Cardinality(Mismarked') <= Cardinality(Mismarked)
  BY OwedFinite, NoMoreThan
<1>2. /\ Cardinality(Rivalries) \in Nat /\ Cardinality(Rivalries') \in Nat /\ Cardinality(W) \in Nat
      /\ Cardinality(Rivalries') + Cardinality(W) <= Cardinality(Rivalries)
  BY OwedFinite, FewerPairs
<1>3. /\ Cardinality(Misled) \in Nat /\ Cardinality(Misled') \in Nat
      /\ Cardinality(Misled') <= Cardinality(Misled) + Cardinality(W)
  BY OwedFinite, PairsCount, MoreThan
<1> QED BY <1>1, <1>2, <1>3 DEF Owed

(* The mark of a thread that was wrong, and an entry that it leaves wrong. *)
LEMMA OwedByMark ==
  ASSUME SmallHeap, TableInv, NEW t \in Misled, NEW p,
         Mismarked' \subseteq Mismarked \cup {p}, Misled' \subseteq Misled \ {t},
         Rivalries' \subseteq Rivalries
  PROVE  Owed \in Nat /\ Owed' \in Nat /\ Owed' <= Owed
<1>1. IsFiniteSet({p}) /\ Cardinality({p}) = 1
  BY FS_Singleton
<1>2. /\ Cardinality(Mismarked) \in Nat /\ Cardinality(Mismarked') \in Nat
      /\ Cardinality(Mismarked') <= Cardinality(Mismarked) + 1
  BY <1>1, OwedFinite, MoreThan
<1>3. IsFiniteSet(Misled \ {t}) /\ Cardinality(Misled \ {t}) = Cardinality(Misled) - 1
  BY OwedFinite, FS_RemoveElement
<1>4. /\ Cardinality(Misled \ {t}) \in Nat /\ Cardinality(Misled') \in Nat
      /\ Cardinality(Misled') <= Cardinality(Misled) - 1
  BY <1>3, NoMoreThan
<1>5. Cardinality(Misled) \in Nat
  BY OwedFinite, FS_CardinalityType
<1>6. /\ Cardinality(Rivalries) \in Nat /\ Cardinality(Rivalries') \in Nat
      /\ Cardinality(Rivalries') <= Cardinality(Rivalries)
  BY OwedFinite, NoMoreThan
<1> QED BY <1>2, <1>4, <1>5, <1>6 DEF Owed

LEMMA FreeingCount ==
  ASSUME Counting
  PROVE  /\ IsFiniteSet(Freeing) /\ Cardinality(Freeing) \in Nat
         /\ frees \in Nat /\ counter["num_frees"] \in Nat /\ interrupts \in Nat
         /\ Cardinality(Threads) \in Nat \ {0} /\ Room \in Int
<1>1. IsFiniteSet(Freeing) /\ frees \in Nat /\ counter["num_frees"] \in Nat /\ interrupts \in Nat
  BY DEF Counting, Leaves, Missing
<1>2. Cardinality(Freeing) \in Nat
  BY <1>1, FS_CardinalityType
<1>3. Cardinality(Threads) \in Nat \ {0}
  BY MallocAssumption, FS_CardinalityType, FS_EmptySet
<1>4. Room \in Int
  BY <1>1, <1>3 DEF Room
<1> QED BY <1>1, <1>2, <1>3, <1>4

LEMMA LoadedTypes == TableInv => Loaded \subseteq Int
BY DEF TableInv, ValuesOK, Loaded, Counters

LEMMA NoMoreLeft ==
  ASSUME NEW d \in Int, NEW r \in Int, NEW dd \in Int, NEW rr \in Int, NEW v \in Int,
         dd - d <= rr - r, d - v <= r
  PROVE  dd - v <= rr
OBVIOUS

(* What more is owed, an interruption has paid for. *)
LEMMA DuePaid ==
  ASSUME TableInv, Paid, NEW d \in Int, NEW r \in Int, NEW dd \in Int, NEW rr \in Int,
         d = Due, r = Room, dd = Due', rr = Room', dd - d <= rr - r, Loaded' \subseteq Loaded
  PROVE  Paid'
<1>1. \A v \in Loaded : v \in Int /\ d - v <= r
  BY LoadedTypes DEF Paid
<1>2. \A v \in Loaded' : v \in Int /\ d - v <= r
  BY <1>1, Zenon
<1>3. \A v \in Int : d - v <= r => dd - v <= rr
  BY NoMoreLeft, Zenon
<1>4. \A v \in Loaded' : dd - v <= rr
  BY <1>2, <1>3, Zenon
<1> QED BY <1>4 DEF Paid

LEMMA PaidAfter ==
  ASSUME TableInv, Paid, Loaded' \subseteq Loaded,
         NEW f0 \in Int, NEW o0 \in Int, NEW r0 \in Int, NEW f1 \in Int, NEW o1 \in Int, NEW r1 \in Int,
         f0 = frees - Cardinality(Freeing), o0 = Owed, r0 = Room,
         f1 = frees' - Cardinality(Freeing'), o1 = Owed', r1 = Room',
         f1 + o1 - (f0 + o0) <= r1 - r0
  PROVE  Paid'
<1>1. PICK d0 \in Int : d0 = f0 + o0
  OBVIOUS
<1>2. PICK d1 \in Int : d1 = f1 + o1
  OBVIOUS
<1>3. d0 = Due
  BY <1>1 DEF Due
<1>4. d1 = Due'
  BY <1>2 DEF Due
<1>5. d1 - d0 <= r1 - r0
  BY <1>1, <1>2
<1> QED BY <1>3, <1>4, <1>5, DuePaid, Zenon

LEMMA MovesLoaded ==
  ASSUME Counting, NEW t \in Threads, Moves(t)
  PROVE  frees' = frees /\ Room' = Room /\ Loaded' \subseteq Loaded
<1>1. /\ counter' = counter /\ frees' = frees /\ interrupts' = interrupts
      /\ \A u \in Threads : pc'[u] = "num_frees" /\ reg'[u] # None =>
           pc[u] = "num_frees" /\ reg'[u] = reg[u]
  BY DEF Counting, Moves, RegLabels, Counters
<1> QED BY <1>1 DEF Room, Loaded

(* A step that counts nothing, and owes nothing more. *)
LEMMA SamePaid ==
  ASSUME Counting, TableInv, Paid, frees' = frees, Room' = Room, Loaded' \subseteq Loaded,
         Freeing' = Freeing, Owed \in Nat, Owed' \in Nat, Owed' <= Owed
  PROVE  Paid'
<1>1. frees \in Nat /\ Cardinality(Freeing) \in Nat /\ Room \in Int
  BY FreeingCount
<1>2. PICK f \in Int, r \in Int : f = frees - Cardinality(Freeing) /\ r = Room
  BY <1>1
<1>3. PICK o0 \in Int : o0 = Owed
  OBVIOUS
<1>4. PICK o1 \in Int : o1 = Owed'
  OBVIOUS
<1>5. o1 <= o0
  BY <1>3, <1>4, Zenon
<1>6. f = frees' - Cardinality(Freeing') /\ r = Room'
  BY <1>2
<1>7. f + o1 - (f + o0) <= r - r
  BY <1>5
<1> QED BY <1>2, <1>3, <1>4, <1>6, <1>7, PaidAfter, Zenon

LEMMA MovesPaid ==
  ASSUME Counting, TableInv, Paid, NEW t \in Threads, Moves(t), Freeing' = Freeing,
         Owed \in Nat, Owed' \in Nat, Owed' <= Owed
  PROVE  Paid'
BY MovesLoaded, SamePaid, Zenon

(* The rivals of a thread become fewer while it goes on with its call. *)
LEMMA RivalsAfter ==
  ASSUME DOMAIN pc = Threads, NEW t \in Threads,
         \A u \in Threads \ {t} : pc'[u] = pc[u] /\ ptr'[u] = ptr[u],
         pc'[t] = "idle" \/
           /\ pc[t] # "idle" /\ (pc[t] \in MarkLabels => pc'[t] \in MarkLabels /\ ptr'[t] = ptr[t])
           /\ pc'[t] \in MayGrow => pc[t] \in MayGrow
           /\ pc'[t] \in FreeLabels => pc[t] \in FreeLabels
           /\ Owns(t) /\ pc'[t] \in MayGrow => Owns(t)' /\ ptr'[t] = ptr[t]
  PROVE  /\ \A a, b \in Threads : Rivals(a, b)' => Rivals(a, b)
         /\ Rivalries' \subseteq Rivalries
<1>1. \A l \in MayGrow \cup FreeLabels : l \notin MarkLabels /\ l # "idle"
  BY DEF MayGrow, FreeLabels, MallocLabels, MarkLabels
<1>0. "idle" \notin MarkLabels
  BY DEF MarkLabels
<1>2. ASSUME NEW a \in Threads, NEW b \in Threads, Rivals(a, b)', Reused(a, b)
      PROVE  FALSE
  <2>1. /\ a # b /\ pc'[a] # "idle" /\ pc'[b] # "idle" /\ ~ Reused(a, b)'
        /\ pc[a] \in MarkLabels /\ Owns(b) /\ ptr[b] = ptr[a]
    BY <1>2 DEF Rivals, Reused
  <2>2. pc'[a] \in MarkLabels /\ ptr'[a] = ptr[a]
    BY <2>1
  <2>3. pc'[b] \in MayGrow
    BY <1>1, <1>2, <2>2 DEF Rivals
  <2>4. Owns(b)' /\ ptr'[b] = ptr[b]
    BY <2>1, <2>3 DEF Owns
  <2> QED BY <2>1, <2>2, <2>4 DEF Reused
<1>3. ASSUME NEW a \in Threads, NEW b \in Threads, Rivals(a, b)'
      PROVE  Rivals(a, b)
  <2>1. Rivals(b, a)'
    BY <1>3 DEF Rivals
  <2>2. ~ Reused(a, b) /\ ~ Reused(b, a)
    BY <1>2, <1>3, <2>1
  <2>3. /\ a # b /\ pc'[a] # "idle" /\ pc'[b] # "idle"
        /\ pc'[a] \in MayGrow \/ pc'[b] \in MayGrow \/ (pc'[a] \in FreeLabels /\ pc'[b] \in FreeLabels)
    BY <1>3 DEF Rivals
  <2>4. \A u \in Threads : pc'[u] # "idle" =>
          /\ pc[u] # "idle" /\ (pc'[u] \in MayGrow => pc[u] \in MayGrow)
          /\ (pc'[u] \in FreeLabels => pc[u] \in FreeLabels)
    OBVIOUS
  <2> QED BY <2>2, <2>3, <2>4 DEF Rivals
<1>4. Rivalries' \subseteq Rivalries
  BY <1>3 DEF Rivalries
<1> QED BY <1>3, <1>4

(* A pointer is marked in the table as it was. *)
LEMMA MismarkedAfter ==
  ASSUME Contents' = Contents, Wanted' \subseteq Wanted
  PROVE  Mismarked' \subseteq Mismarked
BY DEF Mismarked

LEMMA WantedAfter ==
  ASSUME held' \subseteq held, NEW t \in Threads,
         \A u \in Threads \ {t} : pc'[u] = pc[u] /\ ptr'[u] = ptr[u],
         pc'[t] \in Seeking => pc[t] \in Seeking /\ ptr'[t] = ptr[t]
  PROVE  Wanted' \subseteq Wanted
BY DEF Wanted

(* No thread is misled that was not. *)
LEMMA MisledAfter ==
  ASSUME NEW t \in Threads, Growing' => Growing,
         \A u \in Threads \ {t} : pc'[u] = pc[u] /\ ptr'[u] = ptr[u] /\ k'[u] = k[u],
         \A u \in Threads \ {t} : ~ Growing /\ pc[u] \in Window /\ AtPlace(u) => AtPlace(u)',
         \A u \in Threads \ {t} : pc[u] \in MarkLabels /\ ptr[u] \in DOMAIN heap' => ptr[u] \in DOMAIN heap,
         t \in Misled' => t \in Misled
  PROVE  Misled' \subseteq Misled
BY DEF Misled

------------------------------------------------------------------------------
(* The steps that leave the table, the heap and the pointers alone.        *)
Onward ==
  {<<"num_mallocs", "bytes_malloced">>, <<"bytes_malloced", "malloc">>, <<"malloc", "in_malloc">>,
   <<"kh_put", "resize">>, <<"kh_put", "insert">>, <<"rehash", "kfree">>,
   <<"set_value", "set_element">>, <<"get", "in_get">>,
   <<"size", "value">>, <<"size", "free_only">>, <<"value", "element">>,
   <<"element", "load_mallocs">>, <<"element", "free_only">>, <<"load_mallocs", "assert_frees">>,
   <<"assert_frees", "num_frees">>, <<"num_frees", "load_bytes">>, <<"load_bytes", "assert_bytes">>,
   <<"assert_bytes", "bytes_freed">>, <<"bytes_freed", "fill">>, <<"fill", "in_free">>,
   <<"free_only", "in_free_only">>, <<"mark", "mark_load">>, <<"mark_load", "mark_again">>,
   <<"mark_again", "mark_store">>}

LEMMA OnwardLabels ==
  ASSUME NEW l, NEW m, <<l, m>> \in Onward
  PROVE  /\ l # "idle" /\ m # "rehash" /\ (l \in MarkLabels <=> m \in MarkLabels)
         /\ m \in SetLabels => l \in SetLabels
         /\ m = "kfree" => l = "rehash"
         /\ m \in MayGrow => l \in MayGrow
         /\ m \in FreeLabels => l \in FreeLabels
         /\ m \in Seeking => l \in Seeking
         /\ m \in Window => l \in Window
         /\ m \in MallocLabels \cup PutLabels => l \in MallocLabels \cup PutLabels
         /\ m \in MayGrow /\ l \in PutLabels \cup GetLabels => m \in PutLabels \cup GetLabels
<1> USE DEF MayGrow, MallocLabels, FreeLabels, Seeking, Window, FoundLabels, PutLabels, GetLabels,
            MarkLabels, SetLabels
<1>1. CASE l \in MallocLabels \cup PutLabels
  BY <1>1 DEF Onward
<1>2. CASE l \in FreeLabels
  BY <1>2 DEF Onward
<1>3. CASE l \notin MallocLabels \cup PutLabels \cup FreeLabels
  BY <1>3 DEF Onward
<1> QED BY <1>1, <1>2, <1>3

LEMMA PlainOwed ==
  ASSUME SmallHeap, TableInv, NEW t \in Threads, UNCHANGED <<hashVars, heap, held, ptr, k>>,
         \A u \in Threads \ {t} : pc'[u] = pc[u], pc'[t] = pc[t] \/ <<pc[t], pc'[t]>> \in Onward
  PROVE  /\ Mismarked' \subseteq Mismarked /\ Misled' \subseteq Misled
         /\ Rivalries' \subseteq Rivalries
         /\ Wanted' \subseteq Wanted /\ Contents' = Contents
<1>1. DOMAIN pc = Threads
  BY DEF TableInv, TableOK
<1>2. Contents' = Contents
  BY SameTable
<1>3. CASE pc'[t] = pc[t]
  <2>0. \A u \in Threads : pc'[u] = pc[u]
    BY <1>3
  <2>1. Wanted' = Wanted /\ Misled' = Misled /\ Rivalries' = Rivalries
    BY <2>0 DEF Wanted, Misled, Rivalries, Rivals, Reused, Owns, AtPlace, Growing, hashVars
  <2> QED BY <1>2, <2>1, MismarkedAfter
<1>4. CASE pc'[t] # pc[t]
  <2>1. <<pc[t], pc'[t]>> \in Onward
    BY <1>4
  <2>2. \A u \in Threads \ {t} : pc'[u] = pc[u]
    OBVIOUS
  <2>3. Wanted' \subseteq Wanted
    BY <2>1, <2>2, OnwardLabels, WantedAfter
  <2>4. Rivalries' \subseteq Rivalries
    BY <1>1, <2>1, <2>2, OnwardLabels, RivalsAfter DEF Owns
  <2>5. Misled' \subseteq Misled
    <3>1. \A u \in Threads : AtPlace(u)' <=> AtPlace(u)
      BY DEF AtPlace, hashVars
    <3>2. Growing' => Growing
      BY <2>1, <2>2, OnwardLabels DEF Growing
    <3>3. t \in Misled' => t \in Misled
      BY <2>1, <2>2, <3>1, <3>2, OnwardLabels DEF Misled
    <3> QED BY <2>2, <3>1, <3>2, <3>3, MisledAfter
  <2> QED BY <1>2, <2>3, <2>4, <2>5, MismarkedAfter
<1> QED BY <1>3, <1>4

LEMMA PlainKnown ==
  ASSUME SmallHeap, TableInv, Known, NEW t \in Threads, UNCHANGED <<hashVars, heap, held, ptr, k>>,
         \A u \in Threads \ {t} : pc'[u] = pc[u], pc'[t] = pc[t] \/ <<pc[t], pc'[t]>> \in Onward,
         bytes' = bytes \/ (pc[t] \in {"element", "mark_load"} /\ \E x : bytes' = [bytes EXCEPT ![t] = x])
  PROVE  Known'
<1>1. Wanted' \subseteq Wanted /\ Contents' = Contents
  BY PlainOwed
<1>2. DOMAIN pc = Threads /\ DOMAIN bytes = Threads
  BY DEF TableInv, TableOK, ValuesOK
<1>3. \A u \in Threads : /\ pc'[u] \in SetLabels => pc[u] \in SetLabels
                         /\ pc'[u] \in MallocLabels \cup PutLabels => pc[u] \in MallocLabels \cup PutLabels
  BY <1>2, OnwardLabels
<1>4. "element" \notin MallocLabels \cup PutLabels /\ "mark_load" \notin MallocLabels \cup PutLabels
  BY DEF MallocLabels, PutLabels
<1>5. \A u \in Threads : pc[u] \in MallocLabels \cup PutLabels => bytes'[u] = bytes[u]
  BY <1>2, <1>4
<1> QED BY <1>1, <1>3, <1>5 DEF Known

(* Which steps these are. *)
PlainStep(t) ==
  \/ load(t) \/ store(t) \/ malloc(t) \/ kh_put(t) \/ get(t) \/ find(t) \/ get_size(t)
  \/ load_minuend(t) \/ asserts(t) \/ fill_and_free(t) \/ mark_load(t) \/ load_vals(t)
  \/ stale_vals(t) \/ clash(t) \/ \E how \in Ends : Runs(t) /\ Stop(how)
  \/ (At(t, "rehash") /\ Goto(t, "kfree") /\ UNCHANGED hashVars
      /\ UNCHANGED <<counter, heap, held, status, blocked, ptr, bytes, reg, k, mallocs, frees>>)

LEMMA PlainSteps ==
  ASSUME DOMAIN pc = Threads, NEW t \in Threads, PlainStep(t)
  PROVE  /\ UNCHANGED <<hashVars, heap, held, ptr, k>>
         /\ \A u \in Threads \ {t} : pc'[u] = pc[u]
         /\ pc'[t] = pc[t] \/ <<pc[t], pc'[t]>> \in Onward
         /\ bytes' = bytes \/ (pc[t] \in {"element", "mark_load"} /\ \E x : bytes' = [bytes EXCEPT ![t] = x])
<1> USE DEF At, Goto, Set
<1>1. ASSUME NEW how, Stop(how)
      PROVE  UNCHANGED <<hashVars, heap, held, ptr, k>> /\ pc' = pc /\ bytes' = bytes
  BY <1>1 DEF Stop, locals
<1>2. CASE load(t)
  BY <1>2 DEF load
<1>3. CASE store(t)
  <2>1. PICK c \in Counters : pc[t] = c /\ pc' = [pc EXCEPT ![t] = After(c)]
    BY <1>3 DEF store
  <2>2. <<c, After(c)>> \in Onward
    BY DEF Onward, After, Counters
  <2> QED BY <1>3, <2>1, <2>2 DEF store
<1>4. CASE malloc(t) \/ get(t)
  BY <1>4 DEF malloc, get, Onward
<1>5. CASE kh_put(t)
  BY <1>5 DEF kh_put, Onward
<1>6. CASE get_size(t)
  <2>1. CASE Stop("undefined")
    BY <1>1, <2>1
  <2>2. CASE ~ Stop("undefined")
    <3>1. /\ pc[t] = "element" /\ UNCHANGED <<hashVars, heap, held, ptr, k>>
          /\ bytes' = [bytes EXCEPT ![t] = vals[k[t]]]
          /\ pc' = [pc EXCEPT ![t] = "free_only"] \/ pc' = [pc EXCEPT ![t] = "load_mallocs"]
      BY <1>6, <2>2 DEF get_size
    <3> QED BY <3>1 DEF Onward
  <2> QED BY <2>1, <2>2
<1>7. CASE asserts(t)
  <2>1. CASE Stop("assert")
    BY <1>1, <2>1
  <2>2. CASE ~ Stop("assert")
    BY <1>7, <2>2 DEF asserts, Onward
  <2> QED BY <2>1, <2>2
<1>8. CASE fill_and_free(t)
  <2>1. CASE Stop("undefined")
    BY <1>1, <2>1
  <2>2. CASE ~ Stop("undefined")
    BY <1>8, <2>2 DEF fill_and_free, Onward
  <2> QED BY <2>1, <2>2
<1>9. CASE stale_vals(t) \/ clash(t) \/ \E how \in Ends : Runs(t) /\ Stop(how)
  BY <1>1, <1>9 DEF clash, stale_vals
<1>11. CASE find(t)
  BY <1>11 DEF find, Onward
<1>12. CASE load_minuend(t)
  BY <1>12 DEF load_minuend, Onward
<1>13. CASE mark_load(t)
  BY <1>13 DEF mark_load, Onward
<1>14. CASE load_vals(t)
  <2>1. PICK l \in {"set_value", "value", "mark", "mark_again"} :
          pc[t] = l /\ pc' = [pc EXCEPT ![t] = AfterVals(l)]
    BY <1>14 DEF load_vals
  <2>2. <<l, AfterVals(l)>> \in Onward
    BY DEF Onward, AfterVals
  <2> QED BY <1>14, <2>1, <2>2 DEF load_vals
<1>10. CASE /\ At(t, "rehash") /\ Goto(t, "kfree") /\ UNCHANGED hashVars
            /\ UNCHANGED <<counter, heap, held, status, blocked, ptr, bytes, reg, k, mallocs, frees>>
  BY <1>10 DEF Onward
<1> QED BY <1>2, <1>3, <1>4, <1>5, <1>6, <1>7, <1>8, <1>9, <1>10, <1>11, <1>12, <1>13, <1>14
        DEF PlainStep

------------------------------------------------------------------------------
(* The steps of a thread, each with what it owes and what it knows.        *)
LEMMA LoadPaid ==
  ASSUME SmallHeap, Counting, TableInv, Known, Paid, NEW t \in Threads, load(t)
  PROVE  Paid' /\ Known'
<1>1. DOMAIN pc = Threads /\ DOMAIN reg = Threads
  BY DEF TableInv, TableOK, ValuesOK
<1>2. PICK c \in Counters : /\ pc[t] = c /\ reg' = [reg EXCEPT ![t] = counter[c]]
                            /\ pc' = [pc EXCEPT ![t] = c]
                            /\ UNCHANGED <<hashVars, counter, heap, held, ptr, k, bytes, frees, interrupts>>
  BY DEF load, At, Goto, Set
<1>3. \A u \in Threads : pc'[u] = pc[u]
  BY <1>1, <1>2
<1>4. Owed \in Nat /\ Owed' \in Nat /\ Owed' <= Owed
  BY <1>2, <1>3, PlainOwed, OwedLess
<1>5. Loaded' \subseteq Loaded
  BY <1>1, <1>2, <1>3 DEF Loaded
<1>6. Freeing' = Freeing /\ frees' = frees /\ Room' = Room
  BY <1>2, <1>3 DEF Freeing, Room
<1> QED BY <1>2, <1>3, <1>4, <1>5, <1>6, SamePaid, PlainKnown

LEMMA OneMoreLeft ==
  ASSUME NEW d0 \in Int, NEW d1 \in Int, NEW v \in Int, NEW r \in Int, d0 - v <= r
  PROVE  /\ d1 <= d0 + 1 => d1 - (v + 1) <= r
         /\ d1 <= d0 => d1 - v <= r
OBVIOUS

(* A stored num_frees is one more than was loaded, and is owed to nobody;  *)
(* a thread that has loaded it too will overwrite it.                      *)
LEMMA StorePaid ==
  ASSUME SmallHeap, Counting, TableInv, Known, Paid, NEW t \in Threads, store(t)
  PROVE  Paid' /\ Known'
<1>1. DOMAIN pc = Threads /\ DOMAIN reg = Threads /\ counter \in [Counters -> Int]
  BY DEF TableInv, TableOK, ValuesOK
<1>2. PICK c \in Counters : /\ pc[t] = c /\ reg[t] # None
                            /\ counter' = [counter EXCEPT ![c] = reg[t] + Amount(t, c)]
                            /\ reg' = [reg EXCEPT ![t] = None]
                            /\ pc' = [pc EXCEPT ![t] = After(c)]
                            /\ <<c, After(c)>> \in Onward
                            /\ After(c) # "num_frees"
                            /\ After(c) \in FreeLabels => c \in FreeLabels /\ c # "num_frees"
                            /\ c # "num_frees" => c \notin FreeLabels
  BY DEF store, At, Goto, Set, After, Counters, Onward, FreeLabels
<1>3. /\ UNCHANGED <<hashVars, heap, held, ptr, k>> /\ bytes' = bytes
      /\ frees' = frees /\ interrupts' = interrupts
  BY DEF store, Goto
<1>4. /\ \A u \in Threads \ {t} : pc'[u] = pc[u] /\ reg'[u] = reg[u]
      /\ pc'[t] = After(c) /\ reg'[t] = None
  BY <1>1, <1>2
<1>5. /\ Mismarked' \subseteq Mismarked /\ Misled' \subseteq Misled
      /\ Rivalries' \subseteq Rivalries
  BY <1>2, <1>3, <1>4, PlainOwed
<1>6. Known'
  BY <1>2, <1>3, <1>4, PlainKnown
<1>7. Room' = Room
  BY <1>3 DEF Room
<1>8. CASE c # "num_frees"
  <2>1. Loaded' \subseteq Loaded
    BY <1>1, <1>2, <1>4, <1>8 DEF Loaded, Counters
  <2>2. Freeing' = Freeing
    BY <1>2, <1>4, <1>8 DEF Freeing
  <2>3. Owed \in Nat /\ Owed' \in Nat /\ Owed' <= Owed
    BY <1>5, OwedLess
  <2> QED BY <1>3, <1>6, <1>7, <2>1, <2>2, <2>3, SamePaid
<1>9. CASE c = "num_frees"
  <2>1. t \in Freeing /\ Freeing' = Freeing \ {t}
    BY <1>2, <1>4, <1>9 DEF Freeing, FreeLabels
  <2>2. /\ frees \in Nat /\ Cardinality(Freeing) \in Nat /\ Room \in Int
        /\ Cardinality(Freeing') = Cardinality(Freeing) - 1
    BY <2>1, FreeingCount, FS_RemoveElement
  <2>3. Owed \in Nat /\ Owed' \in Nat /\ Owed' <= Owed
    BY <1>5, OwedLess
  <2>4. reg[t] \in Loaded /\ reg[t] \in Int /\ Loaded \subseteq Int
    BY <1>2, <1>9, LoadedTypes DEF Loaded
  <2>5. ASSUME NEW u \in Threads \ {t}, pc[u] = "num_frees" PROVE Owed' + 1 <= Owed
    <3>1. Rivals(t, u)
      BY <1>2, <1>9, <2>5 DEF Rivals, Reused, MarkLabels, FreeLabels
    <3>2. {t, u} \in Rivalries
      BY <3>1 DEF Rivalries
    <3>3. ~ Rivals(t, u)' /\ ~ Rivals(u, t)'
      BY <1>2, <1>4, <1>9, <2>5 DEF Rivals, After, MayGrow, MallocLabels, FreeLabels
    <3>4. {t, u} \notin Rivalries'
      BY <3>3 DEF Rivalries
    <3> QED BY <1>5, <3>2, <3>4, OwedOneLess
  <2>6. PICK f \in Int : f = frees - Cardinality(Freeing)
    BY <2>2
  <2>7. PICK o0 \in Int : o0 = Owed
    BY <2>3
  <2>8. PICK o1 \in Int : o1 = Owed'
    BY <2>3
  <2>9. PICK r \in Int : r = Room
    BY <2>2
  <2>10. o1 <= o0 /\ \A u \in Threads \ {t} : pc[u] = "num_frees" => o1 + 1 <= o0
    BY <2>3, <2>5, <2>7, <2>8, Zenon
  <2>11. PICK d0 \in Int : d0 = f + o0
    OBVIOUS
  <2>12. d0 = Due
    BY <2>6, <2>7, <2>11 DEF Due
  <2>13. \A v \in Loaded : d0 - v <= r
    BY <2>9, <2>12, Zenon DEF Paid
  <2>14. frees' - Cardinality(Freeing') = f + 1
    BY <1>3, <2>2, <2>6
  <2>15. PICK d1 \in Int : d1 = f + 1 + o1
    OBVIOUS
  <2>16. d1 = Due'
    BY <2>8, <2>14, <2>15 DEF Due
  <2>17. d1 <= d0 + 1 /\ (o1 + 1 <= o0 => d1 <= d0)
    BY <2>10, <2>11, <2>15
  <2>18. ASSUME NEW v \in Loaded' PROVE d1 - v <= r
    <3>1. CASE v = counter'["num_frees"]
      <4>1. v = reg[t] + 1
        BY <1>1, <1>2, <1>9, <3>1 DEF Amount, Counters
      <4> QED BY <2>4, <2>13, <2>17, <4>1, OneMoreLeft
    <3>2. CASE v # counter'["num_frees"]
      <4>1. PICK u \in Threads \ {t} : pc[u] = "num_frees" /\ reg[u] # None /\ v = reg[u]
        BY <1>4, <3>2 DEF Loaded
      <4>2. v \in Loaded /\ v \in Int
        BY <2>4, <4>1 DEF Loaded
      <4>3. d1 <= d0
        BY <2>10, <2>17, <4>1, Zenon
      <4> QED BY <2>13, <4>2, <4>3, OneMoreLeft
    <3> QED BY <3>1, <3>2
  <2>19. r = Room'
    BY <1>7, <2>9
  <2>20. Paid'
    BY <2>16, <2>18, <2>19, Zenon DEF Paid
  <2> QED BY <1>6, <2>20
<1> QED BY <1>8, <1>9

LEMMA PlainPaid ==
  ASSUME SmallHeap, Counting, TableInv, Known, Paid, NEW t \in Threads, PlainStep(t), Moves(t), Freeing' = Freeing
  PROVE  Paid' /\ Known'
<1>1. /\ UNCHANGED <<hashVars, heap, held, ptr, k>>
      /\ \A u \in Threads \ {t} : pc'[u] = pc[u]
      /\ pc'[t] = pc[t] \/ <<pc[t], pc'[t]>> \in Onward
      /\ bytes' = bytes \/ (pc[t] \in {"element", "mark_load"} /\ \E x : bytes' = [bytes EXCEPT ![t] = x])
  BY PlainSteps DEF TableInv, TableOK
<1>2. Owed \in Nat /\ Owed' \in Nat /\ Owed' <= Owed
  BY <1>1, PlainOwed, OwedLess
<1>3. Paid'
  BY <1>2, MovesPaid
<1> QED BY <1>1, <1>3, PlainKnown

(* Only a thread that is misled, or looks up a pointer that is marked,     *)
(* goes on without counting.                                               *)
LEMMA MissedWhy ==
  ASSUME TableInv, NEW t \in Threads,
         \/ pc[t] = "size" /\ k[t] = n_buckets
         \/ pc[t] = "element" /\ vals[k[t]] >= FREED
  PROVE  t \in Misled \/ ptr[t] \in Mismarked
<1> SUFFICES ASSUME t \notin Misled PROVE ptr[t] \in Mismarked
  OBVIOUS
<1>1. ~ Growing /\ k[t] \in live /\ keys[k[t]] = ptr[t]
  BY DEF Misled, Window, FoundLabels, AtPlace
<1>2. Resting
  BY <1>1 DEF TableInv, TableOK
<1>3. k[t] # n_buckets
  BY <1>1, <1>2 DEF Resting
<1>4. [key |-> keys[k[t]], val |-> vals[k[t]]] \in Contents
  BY <1>1, <1>2, RestingContents
<1>5. ptr[t] \in Wanted
  BY DEF Wanted, Seeking
<1> QED BY <1>1, <1>3, <1>4, <1>5 DEF Mismarked

LEMMA MissedPaid ==
  ASSUME SmallHeap, Counting, TableInv, Known, Paid, NEW t \in Threads,
         find(t) \/ get_size(t), pc'[t] = "free_only"
  PROVE  Paid' /\ Known'
<1>1. /\ DOMAIN pc = Threads /\ held \subseteq DOMAIN heap
      /\ Owns(t) => ptr[t] \notin held /\ \A u \in Threads : Owns(u) /\ ptr[u] = ptr[t] => u = t
  BY DEF TableInv, TableOK, OwnersOK
<1>2. /\ \/ pc[t] = "size" /\ k[t] = n_buckets /\ bytes' = bytes
         \/ /\ pc[t] = "element" /\ vals[k[t]] >= FREED
            /\ bytes' = [bytes EXCEPT ![t] = vals[k[t]]]
      /\ pc' = [pc EXCEPT ![t] = "free_only"]
      /\ reg' = reg \/ reg' = [reg EXCEPT ![t] = None]
      /\ UNCHANGED <<hashVars, heap, held, ptr, k, counter, frees, interrupts>>
  <2>1. CASE find(t)
    BY <1>1, <2>1 DEF find, At, Goto, Set
  <2>2. CASE get_size(t)
    <3>1. pc[t] = "element"
      BY <2>2 DEF get_size, At
    <3>2. ~ Stop("undefined")
      BY <3>1 DEF Stop, locals
    <3>3. /\ bytes' = [bytes EXCEPT ![t] = vals[k[t]]] /\ reg' = [reg EXCEPT ![t] = None]
          /\ pc' = [pc EXCEPT ![t] = IF vals[k[t]] >= FREED THEN "free_only" ELSE "load_mallocs"]
          /\ UNCHANGED <<hashVars, heap, held, ptr, k, counter, frees, interrupts>>
      BY <2>2, <3>2 DEF get_size, Goto, Set
    <3>4. vals[k[t]] >= FREED
      BY <1>1, <3>3
    <3> QED BY <3>1, <3>3, <3>4
  <2> QED BY <2>1, <2>2
<1>3. \A u \in Threads \ {t} : pc'[u] = pc[u]
  BY <1>1, <1>2
<1>4. /\ Mismarked' \subseteq Mismarked /\ Misled' \subseteq Misled
      /\ Rivalries' \subseteq Rivalries /\ <<pc[t], pc'[t]>> \in Onward
  <2>1. pc'[t] = "free_only" /\ pc[t] \in {"size", "element"}
    BY <1>1, <1>2
  <2>2. <<pc[t], pc'[t]>> \in Onward
    BY <2>1 DEF Onward
  <2> QED BY <1>2, <1>3, <2>2, PlainOwed
<1>5. Known'
  BY <1>2, <1>3, <1>4, PlainKnown
<1>6. t \notin Misled'
  BY DEF Misled, Window, MarkLabels, FoundLabels
<1>7. ptr[t] \notin Wanted'
  <2>1. Owns(t) /\ \A u \in Threads : pc'[u] \in Seeking => Owns(u) /\ u # t
    BY <1>2, <1>3 DEF Owns, Seeking, GetLabels
  <2> QED BY <1>1, <1>2, <2>1 DEF Wanted
<1>8. ptr[t] \notin Mismarked'
  BY <1>7 DEF Mismarked
<1>9. Misled' # Misled \/ Mismarked' # Mismarked
  BY <1>2, <1>6, <1>8, MissedWhy
<1>10. Owed \in Nat /\ Owed' \in Nat /\ Owed' + 1 <= Owed
  BY <1>4, <1>9, OwedOneLess
<1>11. t \in Freeing /\ Freeing' = Freeing \ {t}
  BY <1>2, <1>3 DEF Freeing, FreeLabels
<1>12. /\ frees \in Nat /\ Cardinality(Freeing) \in Nat /\ Room \in Int
       /\ Cardinality(Freeing') = Cardinality(Freeing) - 1
  BY <1>11, FreeingCount, FS_RemoveElement
<1>13. Loaded' \subseteq Loaded /\ Room' = Room
  <2>1. \A u \in Threads \ {t} : reg'[u] = reg[u]
    <3>1. DOMAIN reg = Threads
      BY DEF TableInv, ValuesOK
    <3>2. reg' = reg \/ reg' = [reg EXCEPT ![t] = None]
      BY <1>2
    <3> QED BY <3>1, <3>2
  <2> QED BY <1>2, <1>3, <2>1 DEF Loaded, Room
<1>14. PICK f \in Int, r \in Int : f = frees - Cardinality(Freeing) /\ r = Room
  BY <1>12
<1>15. PICK ff \in Int : ff = f + 1
  OBVIOUS
<1>16. ff = frees' - Cardinality(Freeing')
  BY <1>2, <1>12, <1>14, <1>15
<1>17. PICK o0 \in Int : o0 = Owed
  BY <1>10
<1>18. PICK o1 \in Int : o1 = Owed'
  BY <1>10
<1>19. o1 + 1 <= o0
  BY <1>10, <1>17, <1>18, Zenon
<1>20. r = Room' /\ ff + o1 - (f + o0) <= r - r
  BY <1>13, <1>14, <1>15, <1>19
<1> QED BY <1>5, <1>13, <1>14, <1>16, <1>17, <1>18, <1>20, PaidAfter, Zenon

(* A call that begins may cost itself and each of the others under way.    *)
LEMMA EnterOwed ==
  ASSUME SmallHeap, TableInv, NEW t \in Threads, pc[t] = "idle", heap' = heap, Contents' = Contents,
         Growing' <=> Growing, Wanted' \subseteq Wanted, Misled' \subseteq Misled,
         \A u \in Threads \ {t} : pc'[u] = pc[u] /\ ptr'[u] = ptr[u],
         NEW W, W = {u \in Threads \ {t} : pc[u] # "idle"}
  PROVE  Owed \in Nat /\ Owed' \in Nat /\ Owed' <= Owed + Cardinality(W)
<1>1. Rivalries' \subseteq Rivalries \cup PairsOf(W, t)
  <2>1. \A a, b \in Threads \ {t} : Rivals(a, b)' => Rivals(a, b)
    BY DEF Rivals, Reused, MarkLabels, Owns
  <2>2. \A a, b \in Threads : Rivals(a, b)' => a # b /\ pc'[a] # "idle" /\ pc'[b] # "idle"
    BY DEF Rivals
  <2>3. \A a \in Threads \ {t} : pc'[a] # "idle" => {a, t} \in PairsOf(W, t) /\ {t, a} \in PairsOf(W, t)
    BY DEF PairsOf
  <2>4. ASSUME NEW a \in Threads, NEW b \in Threads, Rivals(a, b)'
        PROVE  {a, b} \in Rivalries \cup PairsOf(W, t)
    <3>1. CASE a # t /\ b # t
      BY <2>1, <2>4, <3>1 DEF Rivalries
    <3>2. CASE a = t \/ b = t
      BY <2>2, <2>3, <2>4, <3>2
    <3> QED BY <3>1, <3>2
  <2> QED BY <2>4 DEF Rivalries
<1>2. /\ IsFiniteSet(PairsOf(W, t)) /\ Cardinality(PairsOf(W, t)) = Cardinality(W)
      /\ Cardinality(W) \in Nat
  BY PairsCount
<1>3. Mismarked' \subseteq Mismarked
  BY MismarkedAfter
<1>4. /\ Cardinality(Mismarked) \in Nat /\ Cardinality(Mismarked') \in Nat
      /\ Cardinality(Mismarked') <= Cardinality(Mismarked)
  BY <1>3, OwedFinite, NoMoreThan
<1>5. /\ Cardinality(Misled) \in Nat /\ Cardinality(Misled') \in Nat
      /\ Cardinality(Misled') <= Cardinality(Misled)
  BY OwedFinite, NoMoreThan
<1>6. /\ Cardinality(Rivalries) \in Nat /\ Cardinality(Rivalries') \in Nat
      /\ Cardinality(Rivalries') <= Cardinality(Rivalries) + Cardinality(W)
  BY <1>1, <1>2, OwedFinite, MoreThan
<1> QED BY <1>2, <1>4, <1>5, <1>6 DEF Owed

(* and an interruption pays for as many as there can be. *)
LEMMA EnterRoom ==
  ASSUME Counting, NEW t \in Threads, NEW l, Enter(t, l),
         NEW W, W = {u \in Threads \ {t} : pc[u] # "idle"}
  PROVE  /\ Room \in Int /\ Room' \in Int /\ Cardinality(W) \in Nat
         /\ Room + Cardinality(W) <= Room'
<1>1. Cardinality(Threads) \in Nat \ {0} /\ interrupts \in Nat
  BY FreeingCount
<1>2. PICK n \in Nat : n = Cardinality(Threads) - 1
  BY <1>1
<1>3. IsFiniteSet(Threads \ {t}) /\ Cardinality(Threads \ {t}) = n
  BY <1>2, MallocAssumption, FS_RemoveElement
<1>4. IsFiniteSet(W) /\ Cardinality(W) \in Nat /\ Cardinality(W) <= n
  BY <1>3, FS_Subset, FS_CardinalityType
<1>5. CASE W = {}
  <2>1. interrupts' = interrupts /\ Cardinality(W) = 0
    BY <1>5, FS_EmptySet DEF Enter
  <2> QED BY <1>1, <1>2, <2>1 DEF Room
<1>6. CASE W # {}
  <2>1. interrupts' = interrupts + 1
    BY <1>6 DEF Enter
  <2>2. Room = interrupts * n /\ Room' = (interrupts + 1) * n
    BY <1>2, <2>1 DEF Room
  <2>3. (interrupts + 1) * n = interrupts * n + n /\ interrupts * n \in Int
    BY <1>1
  <2> QED BY <1>4, <2>2, <2>3
<1> QED BY <1>5, <1>6

LEMMA KnownAfter ==
  ASSUME Known,
         \A p \in Wanted' : p \in Wanted \/ \E u \in Threads : pc[u] \in SetLabels /\ ptr[u] = p,
         \A e \in Contents : \E f \in Contents' : f.key = e.key,
         \A u \in Threads : pc'[u] \in SetLabels => pc[u] \in SetLabels /\ ptr'[u] = ptr[u],
         \A u \in Threads : pc'[u] \in MallocLabels \cup PutLabels =>
           bytes'[u] \in BlockSize \/ (pc[u] \in MallocLabels \cup PutLabels /\ bytes'[u] = bytes[u])
  PROVE  Known'
<1>1. \A p : (\E e \in Contents : e.key = p) => \E f \in Contents' : f.key = p
  OBVIOUS
<1>2. \A p \in Wanted' : \E e \in Contents : e.key = p
  BY DEF Known
<1>3. \A u \in Threads : pc'[u] \in SetLabels => \E e \in Contents : e.key = ptr'[u]
  BY DEF Known
<1>4. \A u \in Threads : pc'[u] \in MallocLabels \cup PutLabels => bytes'[u] \in BlockSize
  BY DEF Known
<1>5. \A p \in Wanted' : \E e \in Contents' : e.key = p
  BY <1>1, <1>2
<1>6. \A u \in Threads : pc'[u] \in SetLabels => \E e \in Contents' : e.key = ptr'[u]
  BY <1>1, <1>3
<1> QED BY <1>4, <1>5, <1>6 DEF Known

LEMMA EnterPaid ==
  ASSUME SmallHeap, Counting, TableInv, Known, Paid, NEW t \in Threads, malloc369(t) \/ free369(t)
  PROVE  Paid' /\ Known'
<1> DEFINE W == {u \in Threads \ {t} : pc[u] # "idle"}
<1>1. DOMAIN pc = Threads /\ DOMAIN reg = Threads /\ DOMAIN ptr = Threads /\ DOMAIN bytes = Threads
  BY DEF TableInv, TableOK, OwnersOK, ValuesOK
<1>2. PICK l \in {"num_mallocs", "get"} :
        /\ Enter(t, l) /\ pc[t] = "idle" /\ pc'[t] = l
        /\ l = "num_mallocs" => /\ frees' = frees /\ held' = held
                               /\ ptr' = ptr /\ bytes'[t] \in BlockSize
        /\ l = "get" => /\ frees' = frees + 1 /\ held' = held \ {ptr'[t]}
                       /\ ptr'[t] \in held /\ bytes' = bytes
        /\ \A u \in Threads \ {t} : pc'[u] = pc[u] /\ ptr'[u] = ptr[u] /\ bytes'[u] = bytes[u]
        /\ UNCHANGED <<hashVars, heap, counter, reg, k>>
  <2>1. CASE malloc369(t)
    <3>1. PICK s \in Sizes : bytes' = [bytes EXCEPT ![t] = s]
      BY <2>1 DEF malloc369, Set
    <3>2. s \in BlockSize
      BY MallocAssumption DEF BlockSize
    <3> QED BY <1>1, <2>1, <3>1, <3>2 DEF malloc369, At, Enter, Set
  <2>2. CASE free369(t)
    BY <1>1, <2>2 DEF free369, At, Enter, Set
  <2> QED BY <2>1, <2>2
<1>3. Contents' = Contents
  BY <1>2, SameTable
<1>4. Growing' <=> Growing
  BY <1>2 DEF Growing
<1>5. Wanted' \subseteq Wanted
  BY <1>2 DEF Wanted, Seeking
<1>6. Misled' \subseteq Misled
  BY <1>2, <1>4, MisledAfter DEF Misled, Window, MarkLabels, FoundLabels, AtPlace, hashVars
<1>7. Loaded' \subseteq Loaded
  BY <1>2 DEF Loaded
<1>8. Known'
  <2>1. \A u \in Threads : /\ pc'[u] \in SetLabels => pc[u] \in SetLabels /\ ptr'[u] = ptr[u]
                           /\ pc'[u] \in MallocLabels \cup PutLabels =>
                                bytes'[u] \in BlockSize \/ (pc'[u] = pc[u] /\ bytes'[u] = bytes[u])
    BY <1>2 DEF SetLabels, MallocLabels, PutLabels
  <2> QED BY <1>3, <1>5, <2>1, KnownAfter
<1>9. Owed \in Nat /\ Owed' \in Nat /\ Owed' <= Owed + Cardinality(W)
  BY <1>2, <1>3, <1>4, <1>5, <1>6, EnterOwed
<1>10. /\ Room \in Int /\ Room' \in Int /\ Cardinality(W) \in Nat
       /\ Room + Cardinality(W) <= Room'
  BY <1>2, EnterRoom
<1>11. frees \in Nat /\ IsFiniteSet(Freeing) /\ Cardinality(Freeing) \in Nat
  BY FreeingCount
<1>12. frees' - Cardinality(Freeing') = frees - Cardinality(Freeing)
  <2>1. CASE l = "num_mallocs"
    <3>1. Freeing' = Freeing
      BY <1>2, <2>1 DEF Freeing, FreeLabels
    <3> QED BY <1>2, <2>1, <3>1
  <2>2. CASE l = "get"
    <3>1. t \notin Freeing /\ Freeing' = Freeing \cup {t}
      BY <1>2, <2>2 DEF Freeing, FreeLabels
    <3>2. Cardinality(Freeing') = Cardinality(Freeing) + 1
      BY <1>11, <3>1, FS_AddElement
    <3> QED BY <1>2, <1>11, <2>2, <3>2
  <2> QED BY <2>1, <2>2
<1> HIDE DEF W
<1>13. PICK f \in Int, n \in Nat : f = frees - Cardinality(Freeing) /\ n = Cardinality(W)
  BY <1>10, <1>11
<1>14. f = frees' - Cardinality(Freeing')
  BY <1>12, <1>13
<1>15. PICK o0 \in Int : o0 = Owed
  BY <1>9
<1>16. PICK o1 \in Int : o1 = Owed'
  BY <1>9
<1>17. PICK r0 \in Int : r0 = Room
  BY <1>10
<1>18. PICK r1 \in Int : r1 = Room'
  BY <1>10
<1>19. o1 <= o0 + n
  BY <1>9, <1>13, <1>15, <1>16, Zenon
<1>20. r0 + n <= r1
  BY <1>10, <1>13, <1>17, <1>18, Zenon
<1>21. f + o1 - (f + o0) <= r1 - r0
  BY <1>19, <1>20
<1> QED BY <1>7, <1>8, <1>13, <1>14, <1>15, <1>16, <1>17, <1>18, <1>21, PaidAfter, Zenon

(* A malloc369 that gets the block of a thread that is to mark it. *)
LEMMA ReturnsPaid ==
  ASSUME SmallHeap, Counting, TableInv, Known, Paid, NEW t \in Threads, malloc_returns(t), ~ Stop("exit")
  PROVE  Paid' /\ Known'
<1>1. DOMAIN pc = Threads /\ DOMAIN ptr = Threads
  BY DEF TableInv, TableOK, OwnersOK
<1>2. PICK p : /\ p \notin DOMAIN heap /\ DOMAIN heap' = DOMAIN heap \cup {p}
               /\ pc[t] = "in_malloc" /\ pc'[t] = "kh_put" /\ ptr'[t] = p
               /\ \A u \in Threads \ {t} : pc'[u] = pc[u] /\ ptr'[u] = ptr[u]
               /\ UNCHANGED <<hashVars, held, bytes, k>>
  BY <1>1 DEF malloc_returns, At, Goto, Set
<1> DEFINE W == {u \in Threads \ {t} : pc[u] \in MarkLabels /\ ptr[u] = p /\ u \notin Misled}
<1>3. Contents' = Contents
  BY <1>2, SameTable
<1>4. Wanted' \subseteq Wanted
  BY <1>2, WantedAfter DEF Seeking
<1>5. Mismarked' \subseteq Mismarked
  BY <1>3, <1>4, MismarkedAfter
<1>6. Misled' \subseteq Misled \cup W
  <2>1. t \notin Misled' /\ (Growing' <=> Growing)
    BY <1>2 DEF Misled, Window, MarkLabels, FoundLabels, Growing
  <2>2. \A u \in Threads \ {t} : (AtPlace(u)' <=> AtPlace(u))
    BY <1>2 DEF AtPlace, hashVars
  <2>3. ASSUME NEW u \in Threads \ {t}, u \in Misled', u \notin Misled PROVE u \in W
    <3>1. pc[u] \in MarkLabels /\ ptr[u] \in DOMAIN heap' /\ ptr[u] \notin DOMAIN heap
      BY <1>2, <2>1, <2>2, <2>3 DEF Misled
    <3> QED BY <1>2, <2>3, <3>1
  <2> QED BY <2>1, <2>3 DEF Misled
<1>7. Rivalries' \subseteq Rivalries
  BY <1>1, <1>2, RivalsAfter DEF MayGrow, MarkLabels, MallocLabels, FreeLabels, Owns, PutLabels, GetLabels
<1>8. \A u \in W : Rivals(t, u) /\ ~ Rivals(t, u)' /\ ~ Rivals(u, t)'
  BY <1>2 DEF Rivals, Reused, MarkLabels, Owns, MayGrow, MallocLabels, PutLabels, GetLabels
<1>9. PairsOf(W, t) \subseteq Rivalries /\ PairsOf(W, t) \cap Rivalries' = {}
  BY <1>8 DEF PairsOf, Rivalries
<1>10. W \in SUBSET (Threads \ {t})
  OBVIOUS
<1> HIDE DEF W
<1>11. Owed \in Nat /\ Owed' \in Nat /\ Owed' <= Owed
  BY <1>5, <1>6, <1>7, <1>9, <1>10, OwedByPair
<1>12. Freeing' = Freeing
  BY <1>2 DEF Freeing, FreeLabels
<1>13. Known'
  BY <1>2, <1>3, <1>4, KnownAfter DEF SetLabels, MallocLabels
<1> QED BY <1>11, <1>12, <1>13, QuietSteps, MovesPaid

(* A malloc369 that moves the table under the buckets of the others. *)
LEMMA ResizePaid ==
  ASSUME SmallHeap, Counting, TableInv, Known, Paid, NEW t \in Threads, kh_resize(t),
         pc[t] = "resize", pc'[t] = "rehash"
  PROVE  Paid' /\ Known'
<1>1. DOMAIN pc = Threads /\ TableOK
  BY DEF TableInv, TableOK
<1>2. /\ \A u \in Threads \ {t} : pc'[u] = pc[u]
      /\ UNCHANGED <<heap, held, ptr, bytes, k>>
  BY <1>1 DEF kh_resize, At, Goto, Set, Stop, locals
<1>3. Contents' = Contents /\ ~ Growing
  BY <1>1, ResizeTable, PutterAlone
<1> DEFINE W == {u \in Threads \ {t} : pc[u] \in Window /\ u \notin Misled}
<1>4. Wanted' \subseteq Wanted
  BY <1>2, WantedAfter DEF Seeking
<1>5. Mismarked' \subseteq Mismarked
  BY <1>3, <1>4, MismarkedAfter
<1>6. Misled' \subseteq Misled \cup W
  BY <1>2 DEF Misled, Window, MarkLabels, FoundLabels
<1>7. Rivalries' \subseteq Rivalries
  BY <1>1, <1>2, RivalsAfter DEF MayGrow, MarkLabels, MallocLabels, FreeLabels
<1>8. \A u \in W : Rivals(t, u) /\ ~ Rivals(t, u)' /\ ~ Rivals(u, t)'
  <2>1. Owns(t) /\ ptr[t] \in DOMAIN heap
    BY DEF Owns, PutLabels, TableInv, OwnersOK
  <2>2. \A u \in W : ~ Reused(u, t)
    BY <2>1 DEF Reused, Misled
  <2> QED BY <1>2, <2>2 DEF Rivals, Reused, MarkLabels, MayGrow, MallocLabels, FreeLabels, Window, FoundLabels
<1>9. PairsOf(W, t) \subseteq Rivalries /\ PairsOf(W, t) \cap Rivalries' = {}
  BY <1>8 DEF PairsOf, Rivalries
<1>10. W \in SUBSET (Threads \ {t})
  OBVIOUS
<1> HIDE DEF W
<1>11. Owed \in Nat /\ Owed' \in Nat /\ Owed' <= Owed
  BY <1>5, <1>6, <1>7, <1>9, <1>10, OwedByPair
<1>12. Freeing' = Freeing
  BY <1>2 DEF Freeing, FreeLabels
<1>13. Known'
  BY <1>2, <1>3, <1>4, KnownAfter DEF SetLabels, PutLabels
<1> QED BY <1>11, <1>12, <1>13, QuietSteps, MovesPaid

(* The rest of kh_resize, in which nobody's bucket is that of its pointer. *)
LEMMA RehashPaid ==
  ASSUME SmallHeap, Counting, TableInv, Known, Paid, NEW t \in Threads, kh_resize(t),
         pc[t] \in {"rehash", "kfree"}
  PROVE  Paid' /\ Known'
<1>1. DOMAIN pc = Threads /\ TableOK
  BY DEF TableInv, TableOK
<1>2. /\ \A u \in Threads \ {t} : pc'[u] = pc[u]
      /\ pc'[t] \in {"rehash", "kfree", "insert"}
      /\ UNCHANGED <<heap, held, ptr, bytes, k>>
  BY <1>1 DEF kh_resize, At, Goto, Set, Stop, locals
<1>3. Contents' = Contents /\ Growing
  BY <1>1, ResizeTable DEF Growing
<1>4. Wanted' \subseteq Wanted
  BY <1>2, WantedAfter DEF Seeking
<1>5. Mismarked' \subseteq Mismarked
  BY <1>3, <1>4, MismarkedAfter
<1>6. Misled' \subseteq Misled
  BY <1>2, <1>3 DEF Misled, Window, MarkLabels, FoundLabels
<1>7. Rivalries' \subseteq Rivalries
  BY <1>1, <1>2, RivalsAfter DEF MayGrow, MarkLabels, MallocLabels, FreeLabels
<1>8. Owed \in Nat /\ Owed' \in Nat /\ Owed' <= Owed
  BY <1>5, <1>6, <1>7, OwedLess
<1>9. Freeing' = Freeing
  BY <1>2 DEF Freeing, FreeLabels
<1>10. Known'
  BY <1>2, <1>3, <1>4, KnownAfter DEF SetLabels, PutLabels
<1> QED BY <1>8, <1>9, <1>10, QuietSteps, MovesPaid

(* kh_put returns the bucket of its pointer, and takes none from another.  *)
LEMMA InsertPaid ==
  ASSUME SmallHeap, Counting, TableInv, Known, Paid, NEW t \in Threads, kh_put_returns(t)
  PROVE  Paid' /\ Known'
<1>1. /\ DOMAIN pc = Threads /\ DOMAIN k = Threads
      /\ Owns(t) => ptr[t] \notin held /\ \A u \in Threads : Owns(u) /\ ptr[u] = ptr[t] => u = t
  BY DEF TableInv, TableOK, OwnersOK, ValuesOK
<1>2. /\ pc[t] = "insert" /\ insert(ptr[t]) /\ pc'[t] = "set_value" /\ k'[t] = put_site(ptr[t])
      /\ \A u \in Threads \ {t} : pc'[u] = pc[u] /\ k'[u] = k[u]
      /\ UNCHANGED <<heap, held, ptr, bytes>>
  BY <1>1 DEF kh_put_returns, At, Goto, Set
<1>3. Resting /\ n_buckets \in Tables /\ Cardinality(live) + 1 < n_buckets /\ ~ Growing
  BY <1>2, PutterAlone DEF TableInv, TableOK
<1>4. ptr[t] \in Keys
  BY <1>2 DEF TableInv, OwnersOK, Owns, PutLabels
<1>5. /\ put_site(ptr[t]) \in live' /\ keys'[put_site(ptr[t])] = ptr[t]
      /\ \A e \in Contents : e \in Contents'
      /\ \A e \in Contents' : e \in Contents \/ e.key = ptr[t]
  BY <1>2, <1>3, <1>4, InsertContents
<1>6. Wanted' \subseteq Wanted
  BY <1>2, WantedAfter DEF Seeking
<1>7. ptr[t] \notin Wanted'
  <2>1. Owns(t) /\ \A u \in Threads : pc'[u] \in Seeking => Owns(u) /\ u # t
    BY <1>2 DEF Owns, Seeking, GetLabels, PutLabels
  <2> QED BY <1>1, <1>2, <2>1 DEF Wanted
<1>8. Mismarked' \subseteq Mismarked
  BY <1>5, <1>6, <1>7 DEF Mismarked
<1>9. Misled' \subseteq Misled
  <2>1. ~ Growing'
    BY <1>2, <1>3 DEF Growing
  <2>2. \A i \in live : i \in live' /\ keys'[i] = keys[i]
    BY <1>2, <1>3 DEF insert, Resting, ArraysTo
  <2>3. \A u \in Threads \ {t} : AtPlace(u) => AtPlace(u)'
    BY <1>2, <2>2 DEF AtPlace
  <2>4. t \notin Misled'
    BY <1>2, <1>5, <2>1 DEF Misled, MarkLabels, AtPlace
  <2> QED BY <1>2, <2>1, <2>3, <2>4, MisledAfter
<1>10. Rivalries' \subseteq Rivalries
  BY <1>1, <1>2, RivalsAfter DEF MayGrow, MarkLabels, MallocLabels, FreeLabels
<1>11. Owed \in Nat /\ Owed' \in Nat /\ Owed' <= Owed
  BY <1>8, <1>9, <1>10, OwedLess
<1>12. Freeing' = Freeing
  BY <1>2 DEF Freeing, FreeLabels
<1>13. Paid'
  BY <1>11, <1>12, QuietSteps, MovesPaid
<1>14. \E e \in Contents' : e.key = ptr[t]
  <2>1. Resting'
    BY <1>2, <1>3, <1>4, InsertRests
  <2>2. \A i \in live' : [key |-> keys'[i], val |-> vals'[i]] \in Contents'
    BY <2>1 DEF Resting, Contents
  <2> QED BY <1>5, <2>2
<1>15. Known'
  <2>1. /\ \A p \in Wanted' : \E e \in Contents' : e.key = p
        /\ \A u \in Threads \ {t} : pc'[u] \in SetLabels => \E e \in Contents' : e.key = ptr'[u]
    BY <1>2, <1>5, <1>6 DEF Known
  <2>2. \A u \in Threads : pc'[u] \in MallocLabels \cup PutLabels => pc[u] \in MallocLabels \cup PutLabels
    BY <1>2 DEF PutLabels
  <2> QED BY <1>2, <1>14, <2>1, <2>2 DEF Known
<1> QED BY <1>13, <1>15

(* kh_get finds the pointer. *)
LEMMA LookedUpPaid ==
  ASSUME SmallHeap, Counting, TableInv, Known, Paid, NEW t \in Threads, get_returns(t)
  PROVE  Paid' /\ Known'
<1>1. DOMAIN pc = Threads /\ DOMAIN k = Threads
  BY DEF TableInv, TableOK, ValuesOK
<1>2. /\ pc[t] = "in_get" /\ pc'[t] = "size" /\ k'[t] = kh_get(ptr[t])
      /\ \A u \in Threads \ {t} : pc'[u] = pc[u] /\ k'[u] = k[u]
      /\ UNCHANGED <<hashVars, heap, held, ptr, bytes>>
  BY <1>1 DEF get_returns, At, Goto, Set
<1>3. Resting /\ (n_buckets # 0 => Cardinality(live) < n_buckets) /\ ~ Growing
  BY <1>2 DEF TableInv, TableOK, Growing, Rehashing
<1>4. PICK e \in Contents : e.key = ptr[t]
  BY <1>2 DEF Known, Wanted, Seeking
<1>5. PICK i \in live : e = [key |-> keys[i], val |-> vals[i]]
  BY <1>3, RestingContents
<1>6. keys[i] = ptr[t]
  BY <1>4, <1>5
<1>7. n_buckets \in Tables
  BY <1>3, <1>5 DEF Resting
<1>8. kh_get(ptr[t]) = i
  BY <1>3, <1>6, <1>7, RestingFinds, TableSizes
<1>9. Contents' = Contents
  BY <1>2, SameTable
<1>10. Wanted' \subseteq Wanted
  BY <1>2, WantedAfter DEF Seeking
<1>11. Mismarked' \subseteq Mismarked
  BY <1>9, <1>10, MismarkedAfter
<1>12. Misled' \subseteq Misled
  <2>1. ~ Growing'
    BY <1>2, <1>3 DEF Growing
  <2>2. \A u \in Threads \ {t} : AtPlace(u) => AtPlace(u)'
    BY <1>2 DEF AtPlace, hashVars
  <2>3. t \notin Misled'
    BY <1>2, <1>6, <1>8, <2>1 DEF Misled, MarkLabels, AtPlace, hashVars
  <2> QED BY <1>2, <2>1, <2>2, <2>3, MisledAfter
<1>13. Rivalries' \subseteq Rivalries
  BY <1>1, <1>2, RivalsAfter DEF MayGrow, MarkLabels, MallocLabels, FreeLabels
<1>14. Owed \in Nat /\ Owed' \in Nat /\ Owed' <= Owed
  BY <1>11, <1>12, <1>13, OwedLess
<1>15. Freeing' = Freeing
  BY <1>2 DEF Freeing, FreeLabels
<1>16. Known'
  BY <1>2, <1>9, <1>10, KnownAfter DEF SetLabels, MallocLabels, PutLabels
<1> QED BY <1>14, <1>15, <1>16, QuietSteps, MovesPaid

(* free returns, and the block may be allocated again. *)
LEMMA FreedPaid ==
  ASSUME SmallHeap, Counting, TableInv, Known, Paid, NEW t \in Threads, free_returns(t)
  PROVE  Paid' /\ Known'
<1>1. DOMAIN pc = Threads /\ DOMAIN ptr = Threads /\ DOMAIN k = Threads /\ DOMAIN bytes = Threads
  BY DEF TableInv, TableOK, OwnersOK, ValuesOK
<1>2. /\ \/ pc[t] = "in_free" /\ pc'[t] = "mark" /\ ptr'[t] = ptr[t] /\ k'[t] = k[t]
         \/ pc[t] = "in_free_only" /\ pc'[t] = "idle"
      /\ \A u \in Threads \ {t} : pc'[u] = pc[u] /\ ptr'[u] = ptr[u] /\ k'[u] = k[u] /\ bytes'[u] = bytes[u]
      /\ DOMAIN heap' = DOMAIN heap \ {ptr[t]}
      /\ UNCHANGED <<hashVars, held>>
  BY <1>1 DEF free_returns, At, Leave, Goto, Set
<1>3. Contents' = Contents
  BY <1>2, SameTable
<1>4. Growing' <=> Growing
  BY <1>2 DEF Growing
<1>5. Wanted' \subseteq Wanted
  BY <1>2, WantedAfter DEF Seeking
<1>6. Mismarked' \subseteq Mismarked
  BY <1>3, <1>5, MismarkedAfter
<1>7. Misled' \subseteq Misled
  <2>1. \A u \in Threads \ {t} : AtPlace(u) => AtPlace(u)'
    BY <1>2 DEF AtPlace, hashVars
  <2>2. t \in Misled' => t \in Misled
    BY <1>2, <1>4 DEF Misled, AtPlace, Window, FoundLabels, hashVars
  <2> QED BY <1>2, <1>4, <2>1, <2>2, MisledAfter
<1>8. Rivalries' \subseteq Rivalries
  BY <1>1, <1>2, RivalsAfter DEF MayGrow, MarkLabels, MallocLabels, FreeLabels
<1>9. Owed \in Nat /\ Owed' \in Nat /\ Owed' <= Owed
  BY <1>6, <1>7, <1>8, OwedLess
<1>10. Freeing' = Freeing
  BY <1>2 DEF Freeing, FreeLabels
<1>11. Known'
  <2>1. \A u \in Threads : /\ pc'[u] \in SetLabels => u # t
                           /\ pc'[u] \in MallocLabels \cup PutLabels => u # t
    BY <1>2 DEF SetLabels, MallocLabels, PutLabels
  <2> QED BY <1>2, <1>3, <1>5, <2>1, KnownAfter
<1> QED BY <1>9, <1>10, <1>11, QuietSteps, MovesPaid

(* A value stored in a bucket changes no more than the entry there. *)
LEMMA StoredContents ==
  ASSUME Resting, NEW x, NEW v \in Int, set_value(x, v)
  PROVE  /\ live' = live /\ keys' = keys
         /\ \A e \in Contents : \E f \in Contents' : f.key = e.key
         /\ \A f \in Contents' : f \in Contents \/ (x \in live /\ f = [key |-> keys[x], val |-> v])
         /\ x \in live => \A f \in Contents' : f.key = keys[x] => f.val = v
<1>1. UNCHANGED <<n_buckets, live, keys, new_live, j, hand>>
  BY DEF set_value
<1>2. CASE x \in live
  <2>1. /\ [key |-> keys[x], val |-> v] \in Contents'
        /\ \A e \in Contents : e.key # keys[x] => e \in Contents'
        /\ \A e \in Contents' : \/ e = [key |-> keys[x], val |-> v]
                                \/ e \in Contents /\ e.key # keys[x]
    BY <1>2, ValueContents
  <2> QED BY <1>1, <1>2, <2>1
<1>3. CASE x \notin live
  <2>1. \A i \in live \cup new_live : keys'[i] = keys[i] /\ vals'[i] = vals[i]
    BY <1>1, <1>3 DEF set_value, Resting, ArraysTo
  <2>2. Contents' = Contents
    BY <1>1, <2>1, SameContents
  <2> QED BY <1>1, <1>3, <2>2
<1> QED BY <1>2, <1>3

(* malloc369 stores the size, and gives the pointer to the program. *)
LEMMA SetSizePaid ==
  ASSUME SmallHeap, Counting, TableInv, Known, Paid, NEW t \in Threads, set_size(t)
  PROVE  Paid' /\ Known'
<1>1. DOMAIN pc = Threads /\ DOMAIN ptr = Threads /\ DOMAIN k = Threads /\ DOMAIN bytes = Threads
  BY DEF TableInv, TableOK, OwnersOK, ValuesOK
<1>2. /\ pc[t] = "set_element" /\ pc'[t] = "idle" /\ set_value(k[t], bytes[t])
      /\ \A u \in Threads \ {t} : pc'[u] = pc[u] /\ ptr'[u] = ptr[u] /\ k'[u] = k[u] /\ bytes'[u] = bytes[u]
      /\ heap' = heap /\ held' = held \cup {ptr[t]}
  BY <1>1 DEF set_size, At, Leave, Goto, Set
<1>3. \A u \in Threads : pc[u] \notin Rehashing
  BY ValueTable
<1>4. Resting /\ ~ Growing /\ ~ Growing'
  BY <1>2, <1>3 DEF TableInv, TableOK, Growing, Rehashing
<1>5. bytes[t] \in Int /\ ~ (bytes[t] >= FREED)
  BY <1>2, FreedBit DEF Known, PutLabels, BlockSize
<1>6. /\ live' = live /\ keys' = keys
      /\ \A e \in Contents : \E f \in Contents' : f.key = e.key
      /\ \A f \in Contents' : f.val >= FREED => f \in Contents
      /\ k[t] \in live => \A f \in Contents' : f.key = keys[k[t]] => ~ (f.val >= FREED)
  <2>1. \A f \in Contents' : f \in Contents \/ f.val = bytes[t]
    BY <1>2, <1>4, <1>5, StoredContents
  <2> QED BY <1>2, <1>4, <1>5, <2>1, StoredContents
<1>7. Wanted' \subseteq Wanted \cup {ptr[t]}
  BY <1>2 DEF Wanted, Seeking
<1>8. Mismarked' \subseteq Mismarked \cup {ptr[t]}
  BY <1>6, <1>7 DEF Mismarked
<1>9. t \notin Misled => Mismarked' \subseteq Mismarked
  <2>1. t \notin Misled => k[t] \in live /\ keys[k[t]] = ptr[t]
    BY <1>2 DEF Misled, Window, MarkLabels, FoundLabels, AtPlace
  <2> QED BY <1>6, <1>8, <2>1 DEF Mismarked
<1>10. t \notin Misled' /\ Misled' \subseteq Misled
  <2>1. t \notin Misled'
    BY <1>2 DEF Misled, Window, MarkLabels, FoundLabels
  <2>2. \A u \in Threads \ {t} : AtPlace(u) => AtPlace(u)'
    BY <1>2, <1>6 DEF AtPlace
  <2> QED BY <1>2, <1>4, <2>1, <2>2, MisledAfter
<1>11. Rivalries' \subseteq Rivalries
  BY <1>1, <1>2, RivalsAfter
<1>12. Owed \in Nat /\ Owed' \in Nat /\ Owed' <= Owed
  <2>1. CASE t \in Misled
    BY <1>8, <1>10, <1>11, <2>1, OwedByMark
  <2>2. CASE t \notin Misled
    BY <1>9, <1>10, <1>11, <2>2, OwedLess
  <2> QED BY <2>1, <2>2
<1>13. Freeing' = Freeing
  BY <1>2 DEF Freeing, FreeLabels
<1>14. Known'
  <2>1. \A u \in Threads : /\ pc'[u] \in SetLabels => u # t
                           /\ pc'[u] \in MallocLabels \cup PutLabels => u # t
    BY <1>2 DEF SetLabels, MallocLabels, PutLabels
  <2> QED BY <1>2, <1>6, <1>7, <2>1, KnownAfter DEF SetLabels
<1> QED BY <1>12, <1>13, <1>14, QuietSteps, MovesPaid

(* free369 marks an entry, that of its pointer or, misled, another one.    *)
LEMMA MarkPaid ==
  ASSUME SmallHeap, Counting, TableInv, Known, Paid, NEW t \in Threads, mark_freed(t)
  PROVE  Paid' /\ Known'
<1>1. DOMAIN pc = Threads /\ DOMAIN ptr = Threads /\ DOMAIN k = Threads /\ DOMAIN bytes = Threads
  BY DEF TableInv, TableOK, OwnersOK, ValuesOK
<1>2. /\ pc[t] = "mark_store" /\ pc'[t] = "idle"
      /\ \A u \in Threads \ {t} : pc'[u] = pc[u] /\ ptr'[u] = ptr[u] /\ k'[u] = k[u] /\ bytes'[u] = bytes[u]
      /\ heap' = heap /\ held' = held
  BY <1>1 DEF mark_freed, At, Leave, Goto, Set
<1>3. \A u \in Threads : pc[u] \notin Rehashing
  BY ValueTable
<1>4. Resting /\ ~ Growing /\ ~ Growing'
  BY <1>2, <1>3 DEF TableInv, TableOK, Growing, Rehashing
<1>5. PICK v \in Int : set_value(k[t], v)
  <2>1. bytes[t] \in Int
    BY DEF TableInv, ValuesOK
  <2>2. ASSUME NEW x \in Int PROVE Marked(x) \in Int
    BY FreedBit DEF Marked
  <2> QED BY <2>1, <2>2 DEF mark_freed
<1>6. /\ live' = live /\ keys' = keys
      /\ \A e \in Contents : \E f \in Contents' : f.key = e.key
      /\ \A f \in Contents' : f \in Contents \/ (k[t] \in live /\ f.key = keys[k[t]])
  BY <1>4, <1>5, StoredContents
<1>7. Wanted' \subseteq Wanted
  BY <1>2, WantedAfter DEF Seeking
<1>8. Mismarked' \subseteq Mismarked \cup {keys[k[t]]}
  BY <1>6, <1>7 DEF Mismarked
<1>9. t \notin Misled => Mismarked' \subseteq Mismarked
  <2>1. t \notin Misled => keys[k[t]] = ptr[t] /\ ptr[t] \notin DOMAIN heap
    BY <1>2 DEF Misled, Window, MarkLabels, FoundLabels, AtPlace
  <2>2. Wanted \subseteq DOMAIN heap
    BY DEF Wanted, TableInv, OwnersOK, Owns, Seeking, GetLabels
  <2>3. t \notin Misled => keys[k[t]] \notin Mismarked'
    BY <1>7, <2>1, <2>2 DEF Mismarked
  <2> QED BY <1>8, <2>3
<1>10. t \notin Misled' /\ Misled' \subseteq Misled
  <2>1. t \notin Misled'
    BY <1>2 DEF Misled, Window, MarkLabels, FoundLabels
  <2>2. \A u \in Threads \ {t} : AtPlace(u) => AtPlace(u)'
    BY <1>2, <1>6 DEF AtPlace
  <2> QED BY <1>2, <1>4, <2>1, <2>2, MisledAfter
<1>11. Rivalries' \subseteq Rivalries
  BY <1>1, <1>2, RivalsAfter
<1>12. Owed \in Nat /\ Owed' \in Nat /\ Owed' <= Owed
  <2>1. CASE t \in Misled
    BY <1>8, <1>10, <1>11, <2>1, OwedByMark
  <2>2. CASE t \notin Misled
    BY <1>9, <1>10, <1>11, <2>2, OwedLess
  <2> QED BY <2>1, <2>2
<1>13. Freeing' = Freeing
  BY <1>2 DEF Freeing, FreeLabels
<1>14. Known'
  <2>1. \A u \in Threads : /\ pc'[u] \in SetLabels => u # t
                           /\ pc'[u] \in MallocLabels \cup PutLabels => u # t
    BY <1>2 DEF SetLabels, MallocLabels, PutLabels
  <2> QED BY <1>2, <1>6, <1>7, <2>1, KnownAfter DEF SetLabels
<1> QED BY <1>12, <1>13, <1>14, QuietSteps, MovesPaid

------------------------------------------------------------------------------
LEMMA InitPaid == Init => Paid /\ Known
<1> SUFFICES ASSUME Init PROVE Paid /\ Known
  OBVIOUS
<1>1. \A t \in Threads : pc[t] = "idle"
  BY DEF Init
<1>2. held = {} /\ frees = 0 /\ interrupts = 0 /\ counter["num_frees"] = 0
  BY DEF Init, Counters
<1>3. Wanted = {}
  BY <1>1, <1>2 DEF Wanted, Seeking
<1>4. Known
  BY <1>1, <1>3 DEF Known, SetLabels, MallocLabels, PutLabels
<1>5. Freeing = {} /\ Mismarked = {} /\ Misled = {} /\ Rivalries = {}
  BY <1>1, <1>3 DEF Freeing, FreeLabels, Mismarked, Misled, Window, FoundLabels, Rivalries, Rivals
<1>6. Due = 0
  BY <1>2, <1>5, FS_EmptySet DEF Due, Owed
<1>7. Cardinality(Threads) \in Nat
  BY MallocAssumption, FS_CardinalityType
<1>8. Room = 0
  BY <1>2, <1>7 DEF Room
<1>9. Loaded = {0}
  BY <1>1, <1>2 DEF Loaded
<1>10. Paid
  BY <1>6, <1>8, <1>9 DEF Paid
<1> QED BY <1>4, <1>10

LEMMA StepPaid ==
  SmallHeap /\ Counting /\ TableInv /\ Known /\ Paid /\ [Next]_mallocVars => Paid' /\ Known'
<1> SUFFICES ASSUME SmallHeap, Counting, TableInv, Known, Paid, [Next]_mallocVars
             PROVE  Paid' /\ Known'
  OBVIOUS
<1>1. DOMAIN pc = Threads
  BY DEF TableInv, TableOK
<1>2. ASSUME NEW t \in Threads,
        \/ malloc369(t) \/ free369(t) \/ load(t) \/ store(t)
        \/ malloc(t) \/ malloc_returns(t)
        \/ kh_put(t) \/ kh_resize(t) \/ kh_put_returns(t) \/ set_size(t)
        \/ get(t) \/ get_returns(t) \/ find(t) \/ get_size(t) \/ load_minuend(t) \/ asserts(t)
        \/ fill_and_free(t) \/ free_returns(t) \/ mark_load(t) \/ mark_freed(t)
        \/ load_vals(t) \/ stale_vals(t) \/ clash(t)
      PROVE  Paid' /\ Known'
  <2>1. CASE malloc369(t) \/ free369(t) \/ load(t) \/ store(t)
    BY <2>1, EnterPaid, LoadPaid, StorePaid
  <2>2. CASE kh_put_returns(t) \/ set_size(t) \/ get_returns(t) \/ free_returns(t) \/ mark_freed(t)
    BY <2>2, InsertPaid, SetSizePaid, LookedUpPaid, FreedPaid, MarkPaid
  <2>3. ASSUME PlainStep(t), Moves(t), pc'[t] = "free_only" => pc[t] = "free_only" PROVE Paid' /\ Known'
    <3>1. \A u \in Threads : pc'[u] \in FreeLabels <=> pc[u] \in FreeLabels
      <4>1. /\ pc'[t] = pc[t] \/ <<pc[t], pc'[t]>> \in Onward
            /\ \A u \in Threads \ {t} : pc'[u] = pc[u]
        BY <1>1, <2>3, PlainSteps
      <4>2. pc'[t] = pc[t] \/ pc[t] \notin Counters
        BY <2>3 DEF Moves
      <4> QED BY <2>3, <4>1, <4>2 DEF Onward, FreeLabels, Counters
    <3>2. Freeing' = Freeing
      BY <3>1 DEF Freeing
    <3> QED BY <2>3, <3>2, PlainPaid
  <2>4. CASE \/ malloc(t) \/ kh_put(t) \/ get(t) \/ find(t) \/ get_size(t) \/ load_minuend(t)
             \/ asserts(t) \/ fill_and_free(t) \/ mark_load(t) \/ load_vals(t)
             \/ stale_vals(t) \/ clash(t)
    <3>1. PlainStep(t) /\ Moves(t)
      BY <2>4, QuietSteps DEF PlainStep
    <3>2. CASE pc'[t] = "free_only" => pc[t] = "free_only"
      BY <2>3, <3>1, <3>2
    <3>3. CASE find(t) \/ get_size(t)
      BY <3>2, <3>3, MissedPaid
    <3>4. CASE ~ find(t) /\ ~ get_size(t)
      <4>1. ASSUME NEW l, pc' = [pc EXCEPT ![t] = l], l # "free_only" PROVE pc'[t] # "free_only"
        BY <1>1, <4>1
      <4>2. ASSUME NEW how, Stop(how) PROVE pc' = pc
        BY <4>2 DEF Stop, locals
      <4>3. CASE stale_vals(t) \/ clash(t)
        BY <3>2, <4>2, <4>3 DEF stale_vals, clash
      <4>4. CASE malloc(t) \/ get(t) \/ load_minuend(t) \/ mark_load(t)
        BY <3>2, <4>1, <4>4 DEF malloc, get, load_minuend, mark_load, Goto, Set
      <4>5. CASE asserts(t) \/ fill_and_free(t)
        BY <3>2, <4>1, <4>2, <4>5 DEF asserts, fill_and_free, Goto, Set
      <4>6. CASE kh_put(t)
        <5>1. (IF Full THEN "resize" ELSE "insert") # "free_only"
          OBVIOUS
        <5> QED BY <3>2, <4>1, <4>6, <5>1 DEF kh_put, Goto, Set
      <4>7. CASE load_vals(t)
        <5>1. \A l \in {"set_value", "value", "mark", "mark_again"} : AfterVals(l) # "free_only"
          BY DEF AfterVals
        <5> QED BY <3>2, <4>1, <4>7, <5>1 DEF load_vals, Goto, Set
      <4> QED BY <2>4, <3>4, <4>3, <4>4, <4>5, <4>6, <4>7
    <3> QED BY <3>3, <3>4
  <2>5. CASE malloc_returns(t)
    <3>1. CASE Stop("exit")
      <4>1. PlainStep(t) /\ pc'[t] = pc[t] /\ Moves(t)
        BY <2>5, <3>1, QuietSteps DEF PlainStep, Stop, locals, malloc_returns, At, Ends
      <4> QED BY <2>3, <4>1
    <3> QED BY <2>5, <3>1, ReturnsPaid
  <2>6. CASE kh_resize(t)
    <3>1. CASE Stop("put failed")
      <4>1. PlainStep(t) /\ pc'[t] = pc[t] /\ Moves(t)
        BY <2>6, <3>1, QuietSteps DEF PlainStep, Stop, locals, kh_resize, At, Ends
      <4> QED BY <2>3, <4>1
    <3>2. CASE ~ Stop("put failed")
      <4>1. (pc[t] = "resize" /\ pc'[t] = "rehash") \/ pc[t] \in {"rehash", "kfree"}
        BY <1>1, <2>6, <3>2 DEF kh_resize, At, Goto, Set
      <4> QED BY <2>6, <4>1, ResizePaid, RehashPaid
    <3> QED BY <3>1, <3>2
  <2> QED BY <1>2, <2>1, <2>2, <2>4, <2>5, <2>6
<1>3. CASE UNCHANGED mallocVars
  <2>1. PICK t \in Threads : TRUE
    BY MallocAssumption
  <2>2. UNCHANGED <<hashVars, heap, held, ptr, k, pc, bytes, reg, counter, frees, interrupts>>
    BY <1>3 DEF mallocVars, locals
  <2>3. Owed \in Nat /\ Owed' \in Nat /\ Owed' <= Owed
    BY <2>2, PlainOwed, OwedLess
  <2>4. Freeing' = Freeing /\ Room' = Room /\ Loaded' \subseteq Loaded
    BY <2>2 DEF Freeing, Room, Loaded
  <2> QED BY <2>2, <2>3, <2>4, SamePaid, PlainKnown
<1> QED BY <1>2, <1>3 DEF Next

(* Of the free369 calls made, an interruption leaves at most one uncounted *)
(* for each of the other threads: it has overwritten the counter, or has   *)
(* been led to, or left with, an entry that is not that of its pointer.    *)
THEOREM FreesAreCounted ==
  ASSUME SmallHeap
  PROVE  Spec => []FreesCounted
<1>1. Init => Counting /\ TableInv /\ Paid /\ Known
  BY InitCounting, InitTable, InitValues, InitPaid DEF TableInv
<1>2. Counting /\ TableInv /\ Paid /\ Known /\ [Next]_mallocVars
        => Counting' /\ TableInv' /\ Paid' /\ Known'
  BY StepCounting, StepTable, StepPaid
<1>3. Counting /\ TableInv /\ Paid => FreesCounted
  <2> SUFFICES ASSUME Counting, TableInv, Paid, Idle
               PROVE  counter["num_frees"] >= frees - interrupts * (Cardinality(Threads) - 1)
    BY DEF FreesCounted
  <2>1. Freeing = {} /\ Cardinality(Freeing) = 0
    BY FS_EmptySet DEF Idle, Freeing, FreeLabels
  <2>2. frees \in Nat /\ counter["num_frees"] \in Nat /\ Room \in Int
    BY FreeingCount
  <2>3. Owed \in Nat
    BY OwedFinite, FS_CardinalityType DEF Owed
  <2>4. Due >= frees
    BY <2>1, <2>2, <2>3 DEF Due
  <2>5. Due - counter["num_frees"] <= Room
    BY DEF Paid, Loaded
  <2>6. Due \in Int
    BY <2>1, <2>2, <2>3 DEF Due
  <2>7. frees - counter["num_frees"] <= Room
    BY <2>2, <2>4, <2>5, <2>6
  <2> QED BY <2>2, <2>7 DEF Room
<1> QED BY <1>1, <1>2, <1>3, PTL DEF Spec

=============================================================================
