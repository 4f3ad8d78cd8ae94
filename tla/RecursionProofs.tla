-------------------------- MODULE RecursionProofs --------------------------
(***************************************************************************)
(* What the proofs share: induction and recursion over numbers, what the   *)
(* filter of an array (Entries) returns, and what growing and marking a    *)
(* tree of a code chain (ChainTree) keeps.                                 *)
(***************************************************************************)
EXTENDS ChainTree, SequenceTheorems, WellFoundedInduction, TLAPS
-----------------------------------------------------------------------------
(* Induction and recursion over numbers, as sets and functions. *)

(* A set of numbers that is not empty has a least element. *)
LEMMA Least ==
  ASSUME NEW S, S \subseteq Nat, S # {}
  PROVE  \E m \in S : \A k \in S : m <= k
<1>1. IsWellFoundedOn(OpToRel(<, Nat), Nat)
  BY NatLessThanWellFounded, Zenon
<1>2. PICK m \in S : \A k \in S : <<k, m>> \notin OpToRel(<, Nat)
  BY <1>1, WFMin, Zenon
<1>3. \A k \in S : ~(k < m)
  BY <1>2, Zenon DEF OpToRel
<1>4. QED
  BY <1>3

(* Induction up to N, over a set instead of a predicate: by a least        *)
(* counterexample.                                                         *)
LEMMA Inductive ==
  ASSUME NEW N \in Nat, NEW T, 0 \in T, \A i \in 0..N : i \in T /\ i + 1 <= N => i + 1 \in T
  PROVE  0..N \subseteq T
<1> DEFINE out == {i \in 0..N : i \notin T}
<1>1. SUFFICES ASSUME out # {} PROVE FALSE
  OBVIOUS
<1>2. out \subseteq Nat
  OBVIOUS
<1>3. PICK m \in out : \A k \in out : m <= k
  BY <1>1, <1>2, Least, Zenon
<1>4. m # 0 /\ m - 1 \in 0..N /\ m - 1 \in T
  BY <1>3
<1>5. QED
  BY <1>3, <1>4

(* The functions that lead from a number and the value before it to the    *)
(* next value.                                                             *)
StepsIn(N, V) == [(1..N) \X V -> V]

(* f is defined by recursion on 0..N, from `base` by `step`. *)
Recursive(f, N, base, step) ==
  f[0] = base /\ \A i \in 1..N : f[i] = step[<<i, f[i - 1]>>]

(* There is a function defined by recursion from `base` by `step`: what an *)
(* f[i \in 0..N] == ... f[i - 1] ... of the model is.                      *)
LEMMA RecursionExists ==
  ASSUME NEW N \in Nat, NEW V, NEW base \in V, NEW step \in StepsIn(N, V)
  PROVE  \E f : f \in [0..N -> V] /\ Recursive(f, N, base, step)
<1> USE DEF StepsIn
<1> DEFINE Is(f, n) == f[0] = base /\ \A i \in 1..n : f[i] = step[<<i, f[i - 1]>>]
           T == {n \in 0..N : \E f \in [0..n -> V] : Is(f, n)}
<1>1. 0 \in T
  <2> DEFINE f == [i \in 0..0 |-> base]
  <2>1. f \in [0..0 -> V] /\ Is(f, 0)
    OBVIOUS
  <2> HIDE DEF f, Is
  <2>2. QED
    BY <2>1, 0 \in 0..N
<1>2. ASSUME NEW n \in 0..N, n \in T, n + 1 <= N
      PROVE  n + 1 \in T
  <2>1. PICK f \in [0..n -> V] : Is(f, n)
    BY <1>2
  <2> DEFINE g == [i \in 0..(n + 1) |-> IF i <= n THEN f[i] ELSE step[<<n + 1, f[n]>>]]
  <2>2. n + 1 \in 1..N /\ n + 1 \in 0..N /\ f[n] \in V /\ <<n + 1, f[n]>> \in (1..N) \X V
    BY <1>2
  <2>3. step[<<n + 1, f[n]>>] \in V
    BY <2>2
  <2>4. g \in [0..(n + 1) -> V]
    BY <2>3
  <2>5. ASSUME NEW i \in 1..(n + 1)
        PROVE  g[i] = step[<<i, g[i - 1]>>]
    <3>1. CASE i <= n
      BY <2>1, <3>1
    <3>2. CASE i = n + 1
      BY <3>2
    <3>3. QED
      BY <3>1, <3>2
  <2>6. Is(g, n + 1)
    <3>1. g[0] = base
      BY <2>1
    <3> HIDE DEF g
    <3>2. QED
      BY <2>5, <3>1
  <2>7. \E h \in [0..(n + 1) -> V] : Is(h, n + 1)
    <3> HIDE DEF g, Is
    <3>1. QED
      BY <2>4, <2>6
  <2>8. QED
    BY <2>2, <2>7
<1>3. N \in T
  <2> HIDE DEF T
  <2>1. 0..N \subseteq T
    BY <1>1, <1>2, Inductive
  <2>2. QED
    BY <2>1
<1>4. QED
  BY <1>3 DEF Recursive

(* A function defined by recursion over 0..N has its values where the base *)
(* lies and the step leads.                                                *)
LEMMA RecursionType ==
  ASSUME NEW N \in Nat, NEW V, NEW f, f[0] \in V,
         \A i \in 1..N : f[i - 1] \in V => f[i] \in V
  PROVE  \A i \in 0..N : f[i] \in V
<1> DEFINE T == {i \in 0..N : f[i] \in V}
<1>1. 0 \in T
  OBVIOUS
<1>2. \A i \in 0..N : i \in T /\ i + 1 <= N => i + 1 \in T
  OBVIOUS
<1> HIDE DEF T
<1>3. 0..N \subseteq T
  BY <1>1, <1>2, Inductive
<1>4. QED
  BY <1>3 DEF T

-----------------------------------------------------------------------------
(* Filters. *)

(* f[i] is what is left of the first i entries. *)
Filtering(f, V, seq, places) ==
  /\ f \in [0..Len(seq) -> Seq(V)]
  /\ f[0] = <<>>
  /\ \A i \in 1..Len(seq) :
       f[i] = IF i \in places THEN Append(f[i - 1], seq[i]) ELSE f[i - 1]
  /\ EntriesAt(seq, places) = f[Len(seq)]

(* A filter goes over the sequence entry by entry. *)
LEMMA FilterStepsInto ==
  ASSUME NEW U, NEW seq \in Seq(U), NEW V, NEW places,
         \A i \in DOMAIN seq : i \in places => seq[i] \in V
  PROVE  \E f : Filtering(f, V, seq, places)
<1> DEFINE N == Len(seq)
           W == Seq(V)
           next(i, t) == IF i \in places THEN Append(t, seq[i]) ELSE t
           step == [x \in (1..N) \X W |-> next(x[1], x[2])]
           upTo[i \in 0..N] == IF i = 0 THEN <<>> ELSE next(i, upTo[i - 1])
<1>1. EntriesAt(seq, places) = IF seq = <<>> THEN <<>> ELSE upTo[N]
  BY DEF EntriesAt
<1>2. ASSUME NEW i \in 1..N, NEW t \in W
      PROVE  next(i, t) \in W
  <2>1. CASE i \in places
    <3>1. seq[i] \in V
      BY <2>1, LenProperties
    <3>2. QED
      BY <2>1, <3>1
  <2>2. QED
    BY <2>1
<1>3. <<>> \in W /\ N \in Nat /\ (seq = <<>> => N = 0)
  BY EmptySeq, LenProperties
<1> HIDE DEF next, W, N
<1>4. step \in StepsIn(N, W)
  BY <1>2 DEF StepsIn
<1> HIDE DEF step
<1>5. PICK f : f \in [0..N -> W] /\ Recursive(f, N, <<>>, step)
  BY <1>3, <1>4, RecursionExists
<1>6. \A i \in 1..N : f[i] = next(i, f[i - 1])
  <2>1. TAKE i \in 1..N
  <2>2. f[i - 1] \in W
    BY <1>3, <1>5
  <2>3. <<i, f[i - 1]>> \in (1..N) \X W
    BY <2>2
  <2>4. step[<<i, f[i - 1]>>] = next(i, f[i - 1])
    BY <2>3 DEF step
  <2>5. QED
    BY <1>5, <2>4 DEF Recursive
<1>7. f = [i \in 0..N |-> IF i = 0 THEN <<>> ELSE next(i, f[i - 1])]
  BY <1>3, <1>5, <1>6 DEF Recursive
<1>8. upTo = [i \in 0..N |-> IF i = 0 THEN <<>> ELSE next(i, upTo[i - 1])]
  BY <1>7, Zenon
<1> HIDE DEF upTo
<1>9. upTo[0] = <<>> /\ \A i \in 1..N : upTo[i] = next(i, upTo[i - 1])
  BY <1>3, <1>8
<1>10. \A i \in 0..N : upTo[i] \in W
  <2>1. \A i \in 1..N : upTo[i - 1] \in W => upTo[i] \in W
    BY <1>2, <1>9
  <2>2. QED
    BY <1>3, <1>9, <2>1, RecursionType
<1>11. upTo \in [0..N -> W]
  BY <1>8, <1>10
<1>12. EntriesAt(seq, places) = upTo[N]
  BY <1>1, <1>3, <1>9
<1>13. QED
  BY <1>9, <1>11, <1>12 DEF next, W, N, Filtering

(* What a filter leaves is a sequence of the entries it lets through. *)
LEMMA FilterTypeInto ==
  ASSUME NEW U, NEW seq \in Seq(U), NEW V, NEW places,
         \A i \in DOMAIN seq : i \in places => seq[i] \in V
  PROVE  EntriesAt(seq, places) \in Seq(V)
<1>1. PICK f : Filtering(f, V, seq, places)
  BY FilterStepsInto
<1>2. QED
  BY <1>1, LenProperties DEF Filtering

(* The same, for a filter that is not known to leave out any entry. *)
LEMMA FilterSteps ==
  ASSUME NEW V, NEW seq \in Seq(V), NEW places
  PROVE  \E f : Filtering(f, V, seq, places)
<1>1. \A i \in DOMAIN seq : i \in places => seq[i] \in V
  BY ElementOfSeq, LenProperties
<1>2. QED
  BY <1>1, FilterStepsInto

LEMMA FilterType ==
  ASSUME NEW V, NEW seq \in Seq(V), NEW places
  PROVE  EntriesAt(seq, places) \in Seq(V)
<1>1. \A i \in DOMAIN seq : i \in places => seq[i] \in V
  BY ElementOfSeq, LenProperties
<1>2. QED
  BY <1>1, FilterTypeInto

-----------------------------------------------------------------------------
(* replaceNode: growing a tree. *)

(* A block of nodes whose levels are lifted is a block of nodes. *)
LEMMA LiftedType ==
  ASSUME NEW I, NEW block \in Seq(TreeNodes(I)), NEW top \in Nat
  PROVE  Lifted(block, top) \in Seq(TreeNodes(I))
<1>1. ASSUME NEW b \in DOMAIN block
      PROVE  [block[b] EXCEPT !.level = @ + top] \in TreeNodes(I)
  <2>1. block[b] \in TreeNodes(I)
    BY ElementOfSeq, LenProperties
  <2>2. QED
    BY <2>1 DEF TreeNodes
<1>2. DOMAIN block = 1..Len(block) /\ Len(block) \in Nat
  BY LenProperties
<1> DEFINE g == Lifted(block, top)
<1>3. g = [b \in 1..Len(block) |-> g[b]] /\ \A b \in 1..Len(block) : g[b] \in TreeNodes(I)
  BY <1>1, <1>2 DEF Lifted
<1> HIDE DEF g
<1>4. g \in Seq(TreeNodes(I))
  <2>1. g \in [1..Len(block) -> TreeNodes(I)]
    BY <1>3
  <2>2. QED
    BY <1>2, <2>1, SeqDef
<1>5. QED
  BY <1>4 DEF g

(* What is inserted after a node of a tree is a block of nodes. *)
LEMMA InsertedType ==
  ASSUME NEW I, NEW tree \in Seq(TreeNodes(I)), NEW block \in Seq(TreeNodes(I)), NEW id, NEW i
  PROVE  Inserted(tree, id, block, i) \in Seq(TreeNodes(I))
<1> DEFINE ending == {p \in Replaced(tree, id) : LastOf(tree, p) = i}
           p == CHOOSE p \in ending : TRUE
<1>1. CASE ending = {}
  BY <1>1, EmptySeq DEF Inserted
<1>2. CASE ending # {}
  <2>1. p \in DOMAIN tree
    BY <1>2 DEF Replaced
  <2>2. tree[p] \in TreeNodes(I)
    BY <2>1, ElementOfSeq, LenProperties
  <2>3. tree[p].level \in Nat
    BY <2>2 DEF TreeNodes
  <2>4. Inserted(tree, id, block, i) = Lifted(block, tree[p].level)
    BY <1>2 DEF Inserted
  <2>5. QED
    BY <2>3, <2>4, LiftedType
<1>3. QED
  BY <1>1, <1>2

(* f[i] is what the first i nodes of the tree grow to. *)
Growth(f, nodes, tree, id, block) ==
  /\ f \in [0..Len(tree) -> Seq(nodes)]
  /\ f[0] = <<>>
  /\ \A i \in 1..Len(tree) : f[i] = f[i - 1] \o <<tree[i]>> \o Inserted(tree, id, block, i)
  /\ Grown(tree, id, block) = f[Len(tree)]

(* replaceNode goes over the tree node by node. *)
LEMMA GrownSteps ==
  ASSUME NEW I, NEW tree \in Seq(TreeNodes(I)), NEW block \in Seq(TreeNodes(I)), NEW id
  PROVE  \E f : Growth(f, TreeNodes(I), tree, id, block)
<1> DEFINE N == Len(tree)
           V == Seq(TreeNodes(I))
           next(i, t) == t \o <<tree[i]>> \o Inserted(tree, id, block, i)
           step == [x \in (1..N) \X V |-> next(x[1], x[2])]
           upTo[i \in 0..N] == IF i = 0 THEN <<>> ELSE next(i, upTo[i - 1])
<1>1. Grown(tree, id, block) = upTo[N]
  BY DEF Grown
<1>2. ASSUME NEW i \in 1..N, NEW t \in V
      PROVE  next(i, t) \in V
  <2>1. tree[i] \in TreeNodes(I)
    BY ElementOfSeq
  <2>2. t \o <<tree[i]>> \in V
    BY <2>1
  <2>3. Inserted(tree, id, block, i) \in V
    BY InsertedType
  <2>4. QED
    BY <2>2, <2>3
<1>3. <<>> \in V /\ N \in Nat
  BY EmptySeq
<1> HIDE DEF next, V, N
<1>4. step \in StepsIn(N, V)
  BY <1>2 DEF StepsIn
<1> HIDE DEF step
<1>5. PICK f : f \in [0..N -> V] /\ Recursive(f, N, <<>>, step)
  BY <1>3, <1>4, RecursionExists
<1>6. \A i \in 1..N : f[i] = next(i, f[i - 1])
  <2>1. TAKE i \in 1..N
  <2>2. f[i - 1] \in V
    BY <1>3, <1>5
  <2>3. <<i, f[i - 1]>> \in (1..N) \X V
    BY <2>2
  <2>4. step[<<i, f[i - 1]>>] = next(i, f[i - 1])
    BY <2>3 DEF step
  <2>5. QED
    BY <1>5, <2>4 DEF Recursive
<1>7. f = [i \in 0..N |-> IF i = 0 THEN <<>> ELSE next(i, f[i - 1])]
  BY <1>3, <1>5, <1>6 DEF Recursive
<1>8. upTo = [i \in 0..N |-> IF i = 0 THEN <<>> ELSE next(i, upTo[i - 1])]
  BY <1>7, Zenon
<1> HIDE DEF upTo
<1>9. upTo[0] = <<>> /\ \A i \in 1..N : upTo[i] = next(i, upTo[i - 1])
  BY <1>3, <1>8
<1>10. \A i \in 0..N : upTo[i] \in V
  <2>1. \A i \in 1..N : upTo[i - 1] \in V => upTo[i] \in V
    BY <1>2, <1>9
  <2>2. QED
    BY <1>3, <1>9, <2>1, RecursionType
<1>11. upTo \in [0..N -> V]
  BY <1>8, <1>10
<1>12. QED
  BY <1>1, <1>9, <1>11 DEF next, V, N, Growth

(* The ids of a concatenation. *)
LEMMA IdsOfConcat ==
  ASSUME NEW I, NEW s \in Seq(TreeNodes(I)), NEW t \in Seq(TreeNodes(I))
  PROVE  IdsOf(s \o t) = IdsOf(s) \cup IdsOf(t)
<1>1. /\ Len(s) \in Nat /\ Len(t) \in Nat /\ Len(s \o t) = Len(s) + Len(t)
      /\ DOMAIN s = 1..Len(s) /\ DOMAIN t = 1..Len(t) /\ DOMAIN (s \o t) = 1..(Len(s) + Len(t))
      /\ \A i \in 1..Len(s) : (s \o t)[i] = s[i]
      /\ \A i \in 1..Len(t) : (s \o t)[Len(s) + i] = t[i]
  BY ConcatProperties, LenProperties
<1>2. ASSUME NEW i \in DOMAIN (s \o t)
      PROVE  (s \o t)[i].id \in IdsOf(s) \cup IdsOf(t)
  <2>1. CASE i \in 1..Len(s)
    BY <1>1, <2>1 DEF IdsOf
  <2>2. CASE i \notin 1..Len(s)
    <3>1. i - Len(s) \in 1..Len(t) /\ i = Len(s) + (i - Len(s))
      BY <1>1, <2>2
    <3>2. (s \o t)[i] = t[i - Len(s)]
      BY <1>1, <3>1
    <3>3. QED
      BY <1>1, <3>1, <3>2 DEF IdsOf
  <2>3. QED
    BY <2>1, <2>2
<1>3. \A i \in DOMAIN s : i \in DOMAIN (s \o t) /\ (s \o t)[i] = s[i]
  BY <1>1
<1>4. \A i \in DOMAIN t : Len(s) + i \in DOMAIN (s \o t) /\ (s \o t)[Len(s) + i] = t[i]
  BY <1>1
<1>5. IdsOf(s \o t) \subseteq IdsOf(s) \cup IdsOf(t)
  BY <1>2 DEF IdsOf
<1>6. IdsOf(s) \subseteq IdsOf(s \o t)
  BY <1>3 DEF IdsOf
<1>7. IdsOf(t) \subseteq IdsOf(s \o t)
  BY <1>4 DEF IdsOf
<1>8. QED
  BY <1>5, <1>6, <1>7

(* Lifting a block keeps its ids. *)
LEMMA IdsOfLifted ==
  ASSUME NEW I, NEW block \in Seq(TreeNodes(I)), NEW top \in Nat
  PROVE  IdsOf(Lifted(block, top)) = IdsOf(block)
<1>1. \A b \in DOMAIN block : [block[b] EXCEPT !.level = @ + top].id = block[b].id
  BY ElementOfSeq, LenProperties DEF TreeNodes
<1>2. QED
  BY <1>1 DEF IdsOf, Lifted

(* The subtree of a node ends where the next node is not below it. *)
LEMMA LastOfProperties ==
  ASSUME NEW I, NEW tree \in Seq(TreeNodes(I)), NEW p \in DOMAIN tree
  PROVE  /\ LastOf(tree, p) \in p..Len(tree)
         /\ LastOf(tree, p) = p \/ Below(tree, p, LastOf(tree, p))
         /\ LastOf(tree, p) = Len(tree) \/ ~Below(tree, p, LastOf(tree, p) + 1)
<1> DEFINE Ends(e) == /\ e = p \/ Below(tree, p, e)
                      /\ e = Len(tree) \/ ~Below(tree, p, e + 1)
           beyond == {k \in (p + 1)..Len(tree) : ~(tree[k].level > tree[p].level)}
<1>1. DOMAIN tree = 1..Len(tree) /\ Len(tree) \in Nat /\ p \in 1..Len(tree)
  BY LenProperties
<1>2. \E e \in p..Len(tree) : Ends(e)
  <2>1. CASE beyond = {}
    <3>1. Len(tree) \in p..Len(tree) /\ Ends(Len(tree))
      BY <1>1, <2>1 DEF Below
    <3>2. QED
      BY <3>1
  <2>2. CASE beyond # {}
    <3>1. PICK m \in beyond : \A k \in beyond : m <= k
      <4>1. beyond \subseteq Nat
        BY <1>1
      <4>2. QED
        BY <2>2, <4>1, Least, Zenon
    <3>2. m \in (p + 1)..Len(tree) /\ ~(tree[m].level > tree[p].level)
      BY <3>1
    <3>3. \A k \in (p + 1)..(m - 1) : tree[k].level > tree[p].level
      BY <1>1, <3>1, <3>2
    <3>4. m - 1 \in p..Len(tree) /\ (m - 1 = p \/ Below(tree, p, m - 1))
      BY <1>1, <3>2, <3>3 DEF Below
    <3>5. ~Below(tree, p, (m - 1) + 1)
      BY <1>1, <3>2 DEF Below
    <3> HIDE DEF beyond
    <3>6. QED
      BY <3>4, <3>5
  <2>3. QED
    BY <2>1, <2>2
<1>3. LastOf(tree, p) = CHOOSE e \in p..Len(tree) : Ends(e)
  BY DEF LastOf
<1> HIDE DEF Ends
<1>4. LastOf(tree, p) \in p..Len(tree) /\ Ends(LastOf(tree, p))
  BY <1>2, <1>3
<1>5. QED
  BY <1>4 DEF Ends

(* Some node with the id is not below another one: replaceNode finds it. *)
LEMMA ReplacedExists ==
  ASSUME NEW I, NEW tree \in Seq(TreeNodes(I)), NEW id \in IdsOf(tree)
  PROVE  \E p \in DOMAIN tree : p \in Replaced(tree, id)
<1> DEFINE with == {i \in DOMAIN tree : tree[i].id = id}
<1>1. with # {} /\ with \subseteq Nat
  BY LenProperties DEF IdsOf
<1>2. PICK p \in with : \A k \in with : p <= k
  BY <1>1, Least, Zenon
<1>3. p \in DOMAIN tree /\ tree[p].id = id /\ p \in Nat
  BY <1>1, <1>2
<1>4. \A j \in DOMAIN tree : tree[j].id = id => ~(j < p)
  <2>1. TAKE j \in DOMAIN tree
  <2>2. j \in Nat
    BY LenProperties
  <2>3. tree[j].id = id => p <= j
    BY <1>2
  <2>4. QED
    BY <1>3, <2>2, <2>3
<1>5. QED
  BY <1>3, <1>4 DEF Replaced, Below

(* A node of a tree is found. *)
LEMMA NodeAtProperties ==
  ASSUME NEW I, NEW tree \in Seq(TreeNodes(I)), NEW id \in IdsOf(tree)
  PROVE  NodeAt(tree, id) \in DOMAIN tree /\ tree[NodeAt(tree, id)].id = id
<1> DEFINE with == {i \in DOMAIN tree : tree[i].id = id}
           First(i) == tree[i].id = id /\ \A j \in 1..(i - 1) : tree[j].id # id
<1>1. with # {} /\ with \subseteq Nat
  BY LenProperties DEF IdsOf
<1>2. PICK p \in with : \A k \in with : p <= k
  BY <1>1, Least, Zenon
<1>3. \A j \in 1..(p - 1) : tree[j].id # id
  <2>1. TAKE j \in 1..(p - 1)
  <2>2. p \in 1..Len(tree) /\ Len(tree) \in Nat /\ DOMAIN tree = 1..Len(tree)
    BY LenProperties
  <2>3. j \in DOMAIN tree /\ ~(p <= j)
    BY <2>2
  <2>4. QED
    BY <1>2, <2>3
<1>4. p \in DOMAIN tree /\ First(p)
  BY <1>3
<1>5. NodeAt(tree, id) = CHOOSE i \in DOMAIN tree : First(i)
  BY DEF NodeAt
<1> HIDE DEF First
<1>6. NodeAt(tree, id) \in DOMAIN tree /\ First(NodeAt(tree, id))
  BY <1>4, <1>5
<1>7. QED
  BY <1>6 DEF First

(* A grown tree is a sequence of nodes. *)
LEMMA GrownType ==
  ASSUME NEW I, NEW tree \in Seq(TreeNodes(I)), NEW block \in Seq(TreeNodes(I)), NEW id
  PROVE  Grown(tree, id, block) \in Seq(TreeNodes(I))
<1>1. PICK f : Growth(f, TreeNodes(I), tree, id, block)
  BY GrownSteps
<1>2. QED
  BY <1>1, LenProperties DEF Growth

(* After a replaced node's subtree stand the nodes of the block. *)
LEMMA InsertedIds ==
  ASSUME NEW I, NEW tree \in Seq(TreeNodes(I)), NEW block \in Seq(TreeNodes(I)), NEW id, NEW i,
         \E p \in Replaced(tree, id) : LastOf(tree, p) = i
  PROVE  IdsOf(Inserted(tree, id, block, i)) = IdsOf(block)
<1> DEFINE ending == {p \in Replaced(tree, id) : LastOf(tree, p) = i}
           p == CHOOSE p \in ending : TRUE
<1>1. ending # {}
  OBVIOUS
<1>2. p \in DOMAIN tree
  BY <1>1 DEF Replaced
<1>3. tree[p].level \in Nat
  <2> HIDE DEF p
  <2>1. tree[p] \in TreeNodes(I)
    BY <1>2, ElementOfSeq, LenProperties
  <2>2. QED
    BY <2>1 DEF TreeNodes
<1>4. Inserted(tree, id, block, i) = Lifted(block, tree[p].level)
  BY <1>1 DEF Inserted
<1>5. QED
  BY <1>3, <1>4, IdsOfLifted

(* replaceNode loses no node, and the new ones are in the tree if a node   *)
(* `id` is.                                                                *)
LEMMA GrownIds ==
  ASSUME NEW I, NEW tree \in Seq(TreeNodes(I)), NEW block \in Seq(TreeNodes(I)), NEW id
  PROVE  /\ IdsOf(tree) \subseteq IdsOf(Grown(tree, id, block))
         /\ id \in IdsOf(tree) => IdsOf(block) \subseteq IdsOf(Grown(tree, id, block))
<1> DEFINE N == Len(tree)
           V == Seq(TreeNodes(I))
           New(i) == Inserted(tree, id, block, i)
           There(i, t) == /\ \A k \in 1..i : tree[k].id \in IdsOf(t)
                          /\ \A p \in Replaced(tree, id) : LastOf(tree, p) <= i => IdsOf(block) \subseteq IdsOf(t)
<1>1. PICK f : Growth(f, TreeNodes(I), tree, id, block)
  BY GrownSteps
<1> DEFINE T == {i \in 0..N : There(i, f[i])}
<1>2. 0 \in T
  <2>1. \A p \in Replaced(tree, id) : ~(LastOf(tree, p) <= 0)
    BY LastOfProperties, LenProperties DEF Replaced
  <2>2. QED
    BY <2>1, LenProperties
<1>3. ASSUME NEW i \in 0..N, i \in T, i + 1 <= N
      PROVE  i + 1 \in T
  <2>1. i + 1 \in 1..N /\ N \in Nat /\ (i + 1) - 1 = i
    BY <1>3, LenProperties
  <2>2. f[i] \in V /\ f[i + 1] = f[i] \o <<tree[i + 1]>> \o New(i + 1)
    BY <1>1, <2>1 DEF Growth
  <2>3. <<tree[i + 1]>> \in V /\ New(i + 1) \in V
    BY <2>1, ElementOfSeq, InsertedType
  <2>4. IdsOf(f[i + 1]) = IdsOf(f[i]) \cup IdsOf(<<tree[i + 1]>>) \cup IdsOf(New(i + 1))
    <3> DEFINE one == <<tree[i + 1]>>
               s == f[i] \o one
    <3>1. s \in V
      BY <2>2, <2>3
    <3>2. IdsOf(s) = IdsOf(f[i]) \cup IdsOf(one)
      <4>1. f[i] \in V /\ one \in V
        BY <2>2, <2>3
      <4> HIDE DEF one, T
      <4>2. QED
        BY <4>1, IdsOfConcat
    <3> HIDE DEF s
    <3>3. IdsOf(s \o New(i + 1)) = IdsOf(s) \cup IdsOf(New(i + 1))
      BY <2>3, <3>1, IdsOfConcat
    <3>4. QED
      BY <2>2, <3>2, <3>3 DEF s
  <2>5. tree[i + 1].id \in IdsOf(<<tree[i + 1]>>)
    BY DEF IdsOf
  <2>6. ASSUME NEW k \in 1..(i + 1)
        PROVE  tree[k].id \in IdsOf(f[i + 1])
    BY <1>3, <2>4, <2>5
  <2>7. ASSUME NEW p \in Replaced(tree, id), LastOf(tree, p) <= i + 1
        PROVE  IdsOf(block) \subseteq IdsOf(f[i + 1])
    <3>1. LastOf(tree, p) \in Nat
      BY <2>1, LastOfProperties, LenProperties DEF Replaced
    <3>2. CASE LastOf(tree, p) <= i
      BY <1>3, <2>4, <3>2
    <3>3. CASE LastOf(tree, p) = i + 1
      BY <2>4, <3>3, InsertedIds
    <3>4. QED
      BY <2>1, <2>7, <3>1, <3>2, <3>3
  <2>8. QED
    BY <2>1, <2>6, <2>7
<1>4. There(N, f[N])
  <2> HIDE DEF T
  <2>1. 0..N \subseteq T
    BY <1>2, <1>3, Inductive, LenProperties
  <2>2. N \in T
    BY <2>1, LenProperties
  <2>3. QED
    BY <2>2 DEF T
<1>5. \A n \in IdsOf(tree) : n \in IdsOf(f[N])
  BY <1>4, LenProperties DEF IdsOf
<1>6. ASSUME id \in IdsOf(tree)
      PROVE  IdsOf(block) \subseteq IdsOf(f[N])
  <2>1. PICK p \in DOMAIN tree : p \in Replaced(tree, id)
    BY <1>6, ReplacedExists
  <2>2. LastOf(tree, p) <= N
    BY <2>1, LastOfProperties, LenProperties
  <2>3. QED
    BY <1>4, <2>1, <2>2
<1>7. QED
  BY <1>1, <1>5, <1>6 DEF Growth

(* A tree with a node marked is a tree of the same nodes. *)
LEMMA MarkedType ==
  ASSUME NEW I, NEW tree \in Seq(TreeNodes(I)), NEW id, NEW st \in Statuses
  PROVE  /\ Marked(tree, id, st) \in Seq(TreeNodes(I))
         /\ IdsOf(Marked(tree, id, st)) = IdsOf(tree)
<1> DEFINE next == Marked(tree, id, st)
<1>1. DOMAIN tree = 1..Len(tree) /\ Len(tree) \in Nat
  BY LenProperties
<1>2. ASSUME NEW i \in DOMAIN tree
      PROVE  next[i] \in TreeNodes(I) /\ next[i].id = tree[i].id
  <2>1. tree[i] \in TreeNodes(I)
    BY <1>1, ElementOfSeq
  <2>2. next[i] = tree[i] \/ next[i] = [tree[i] EXCEPT !.st = st]
    BY DEF Marked
  <2>3. QED
    BY <2>1, <2>2 DEF TreeNodes
<1>3. DOMAIN next = DOMAIN tree /\ next = [i \in DOMAIN tree |-> next[i]]
  BY DEF Marked
<1> HIDE DEF next
<1>4. next \in Seq(TreeNodes(I))
  <2>1. next \in [1..Len(tree) -> TreeNodes(I)]
    BY <1>1, <1>2, <1>3
  <2>2. QED
    BY <1>1, <2>1, SeqDef
<1>5. IdsOf(next) = IdsOf(tree)
  BY <1>2, <1>3 DEF IdsOf
<1>6. QED
  BY <1>4, <1>5 DEF next

=============================================================================
