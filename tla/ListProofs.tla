----------------------------- MODULE ListProofs -----------------------------
(***************************************************************************)
(* Proofs about the lists of the memory code, of any length: the free list *)
(* that fixed_allocator links through its nodes, and the doubly linked     *)
(* lists of intrusive_list.                                                *)
(***************************************************************************)
EXTENDS FixedAllocator, FiniteSetTheorems, TLAPS

INSTANCE IntrusiveList

-----------------------------------------------------------------------------
(* Division and multiples.                                                  *)

\* Division with remainder.
LEMMA Division ==
    ASSUME NEW n \in Nat, NEW f \in Nat \ {0}
    PROVE  /\ n \div f \in Nat /\ n % f \in 0..(f - 1)
           /\ n = (n \div f) * f + (n % f)
  OBVIOUS

\* A product is at least each factor.
LEMMA ProductMonotone ==
    ASSUME NEW a \in Nat, NEW b \in Nat, NEW f \in Nat \ {0}, a < b
    PROVE  a * f + f <= b * f
<1>1. PICK d \in Nat : b = a + 1 + d
  <2>1. b - a - 1 \in Nat  OBVIOUS
  <2> QED BY <2>1
<1>2. b * f = a * f + f + d * f  BY <1>1
<1>3. d * f \in Nat  OBVIOUS
<1>4. a * f \in Nat  OBVIOUS
<1> QED BY <1>2, <1>3, <1>4

\* A product has one decomposition: k * f divided by f is k.
LEMMA ProductDivision ==
    ASSUME NEW k \in Nat, NEW f \in Nat \ {0}
    PROVE  (k * f) \div f = k /\ (k * f) % f = 0
<1> DEFINE q == (k * f) \div f
           m == (k * f) % f
<1>1. k * f \in Nat  OBVIOUS
<1>2. q \in Nat /\ m \in 0..(f - 1) /\ k * f = q * f + m
  BY <1>1, Division
<1>3. ~(q < k)
  <2> SUFFICES ASSUME q < k PROVE FALSE  OBVIOUS
  <2>1. q * f + f <= k * f  BY <1>2, ProductMonotone
  <2> QED BY <1>2, <2>1
<1>4. ~(k < q)
  <2> SUFFICES ASSUME k < q PROVE FALSE  OBVIOUS
  <2>1. k * f + f <= q * f  BY <1>2, ProductMonotone
  <2> QED BY <1>2, <2>1
<1> QED BY <1>2, <1>3, <1>4

\* Every multiple of f, also below zero, leaves no remainder.
LEMMA MultipleRemainder ==
    ASSUME NEW k \in Int, NEW f \in Nat \ {0}
    PROVE  (k * f) % f = 0
<1>1. CASE k \in Nat
  BY <1>1, ProductDivision
<1>2. CASE k \notin Nat
  <2> DEFINE j == -k
             q == (k * f) \div f
             m == (k * f) % f
  <2>1. j \in Nat /\ k * f \in Int  BY <1>2
  <2>2. q \in Int /\ m \in 0..(f - 1) /\ k * f = q * f + m  BY <2>1
  <2>3. k - q \in Int /\ (k - q) * f = m  BY <2>2
  <2>4. CASE k - q >= 1
    <3>1. k - q - 1 \in Nat  BY <2>3, <2>4
    <3>2. (k - q - 1) * f \in Nat  BY <3>1
    <3>3. (k - q) * f = (k - q - 1) * f + f  BY <2>2, <2>3
    <3> QED BY <2>2, <2>3, <3>2, <3>3
  <2>5. CASE k - q <= -1
    <3>1. q - k - 1 \in Nat  BY <2>3, <2>5
    <3>2. (q - k - 1) * f \in Nat  BY <3>1
    <3>3. (k - q) * f = -((q - k - 1) * f) - f  BY <2>2, <2>3
    <3> QED BY <2>2, <2>3, <3>2, <3>3
  <2>6. CASE k - q = 0
    <3>1. 0 * f = 0  OBVIOUS
    <3> QED BY <2>3, <2>6, <3>1
  <2> QED BY <2>3, <2>4, <2>5, <2>6
<1> QED BY <1>1, <1>2

-----------------------------------------------------------------------------
(* The constructor.                                                         *)

LEMMA NodeSizeType ==
    NodeSize \in Nat \ {0} /\ NodeSize >= ObjectSize
<1>1. /\ ObjectSize \in Nat \ {0} /\ Alignment \in Nat \ {0}
  BY SizeAssumption
<1>2. (ObjectSize - 1) % Alignment \in 0..(Alignment - 1)
  <2>1. ObjectSize - 1 \in Nat  BY <1>1
  <2> QED BY <1>1, <2>1, Division
<1> QED BY <1>1, <1>2 DEF NodeSize, RoundUp

LEMMA NodeType ==
    /\ BottomNode \in Nat \ {0}
    /\ \A i \in Nat : Node(i) \in Nat \ {0}
    /\ \A i, j \in Nat : i < j => Node(i) + NodeSize <= Node(j)
    /\ \A i \in Nat : (Node(i) - BottomNode) \div NodeSize = i
<1>1. NodeSize \in Nat \ {0} /\ Offset \in Nat  BY NodeSizeType, SizeAssumption
<1>2. Offset % NodeSize \in 0..(NodeSize - 1)  BY <1>1, Division
<1>3. BottomNode \in Nat \ {0}  BY <1>1, <1>2 DEF BottomNode
<1>4. \A i \in Nat : Node(i) \in Nat \ {0}
  BY <1>1, <1>3 DEF Node
<1>5. ASSUME NEW i \in Nat, NEW j \in Nat, i < j
      PROVE  Node(i) + NodeSize <= Node(j)
  <2>1. i * NodeSize + NodeSize <= j * NodeSize
    BY <1>1, <1>5, ProductMonotone
  <2>2. i * NodeSize \in Nat /\ j * NodeSize \in Nat  BY <1>1
  <2> QED BY <1>1, <1>3, <2>1, <2>2 DEF Node
<1>6. ASSUME NEW i \in Nat
      PROVE  (Node(i) - BottomNode) \div NodeSize = i
  <2>1. i * NodeSize \in Nat  BY <1>1
  <2>2. Node(i) - BottomNode = i * NodeSize
    BY <1>3, <2>1 DEF Node
  <2> QED BY <1>1, <2>2, ProductDivision
<1> QED BY <1>3, <1>4, <1>5, <1>6

\* Whatever number of nodes the loop frees, the list holds all of them.
LEMMA ConstructedList ==
    ASSUME NEW n \in Int, Constructed(n)
    PROVE  /\ nodes \subseteq Nat
           /\ free_nodes \in nodes \cup {NULL}
           /\ next \in [nodes -> nodes \cup {NULL}]
           /\ ListHolds(nodes, Nat)
<1>1. /\ nodes = {Node(i) : i \in 0..(n - 1)}
      /\ free_nodes = IF n > 0 THEN Node(0) ELSE NULL
      /\ next = [a \in nodes |-> Link((a - BottomNode) \div NodeSize, n)]
  BY DEF Constructed
<1>2. nodes \subseteq Nat  BY <1>1, NodeType
<1>3. \A i \in 0..(n - 1) : Node(i) \in nodes /\ next[Node(i)] = Link(i, n)
  BY <1>1, NodeType
<1>4. \A i \in 0..(n - 1) : Link(i, n) \in nodes \cup {NULL}
  BY <1>3 DEF Link
<1>5. next \in [nodes -> nodes \cup {NULL}]
  <2>1. \A a \in nodes : next[a] \in nodes \cup {NULL}
    BY <1>1, <1>3, <1>4
  <2> QED BY <1>1, <2>1
<1>6. CASE n <= 0
  <2>1. nodes = {} /\ free_nodes = NULL  BY <1>1, <1>6
  <2> DEFINE f == [i \in 1..0 |-> 0]
  <2>2. f \in [1..0 -> nodes]  OBVIOUS
  <2>3. Enumerates(0, f, nodes)  BY <2>1 DEF Enumerates
  <2> QED BY <1>2, <1>5, <2>1, <2>2, <2>3 DEF ListHolds
<1>7. CASE n > 0
  <2> DEFINE f == [i \in 1..n |-> Node(i - 1)]
  <2>1. n \in Nat  BY <1>7
  <2>2. f \in [1..n -> nodes]  BY <1>3, <1>7
  <2>3. nodes = {f[i] : i \in 1..n}
    <3>1. ASSUME NEW i \in 0..(n - 1) PROVE \E j \in 1..n : Node(i) = f[j]
      <4>1. i + 1 \in 1..n /\ (i + 1) - 1 = i  BY <1>7
      <4> QED BY <4>1
    <3>2. nodes \subseteq {f[i] : i \in 1..n}
      <4> SUFFICES ASSUME NEW a \in nodes PROVE \E j \in 1..n : a = f[j]
        OBVIOUS
      <4>1. PICK i \in 0..(n - 1) : a = Node(i)  BY <1>1
      <4> QED BY <3>1, <4>1
    <3>3. \A i \in 1..n : f[i] \in nodes  BY <2>2
    <3> QED BY <3>2, <3>3
  <2>4. \A i, j \in 1..n : f[i] = f[j] => i = j
    <3> SUFFICES ASSUME NEW i \in 1..n, NEW j \in 1..n, i # j
                 PROVE  Node(i - 1) # Node(j - 1)
      OBVIOUS
    <3>2. i - 1 \in Nat /\ j - 1 \in Nat /\ i - 1 # j - 1  BY <1>7
    <3>3. \A k, m \in Nat : k < m => Node(k) # Node(m)
      BY NodeType, NodeSizeType
    <3> QED BY <3>2, <3>3
  <2>5. \A i \in 1..n : next[f[i]] = IF i < n THEN f[i + 1] ELSE NULL
    <3> SUFFICES ASSUME NEW i \in 1..n
                 PROVE  next[f[i]] = IF i < n THEN f[i + 1] ELSE NULL
      OBVIOUS
    <3>1. i - 1 \in 0..(n - 1) /\ (i - 1) + 1 = i /\ (i + 1) - 1 = i
      BY <1>7
    <3>2. next[f[i]] = Link(i - 1, n)  BY <1>3, <3>1
    <3>3. i < n => f[i + 1] = Node(i)  BY <3>1, <1>7
    <3> QED BY <3>1, <3>2, <3>3 DEF Link
  <2>6. free_nodes = f[1]  BY <1>1, <1>7
  <2>7. Enumerates(n, f, nodes)
    BY <1>7, <2>3, <2>4, <2>5, <2>6 DEF Enumerates
  <2>8. free_nodes \in nodes  BY <1>1, <1>3, <1>7
  <2> HIDE DEF f
  <2> QED BY <1>2, <1>5, <2>1, <2>2, <2>7, <2>8 DEF ListHolds
<1> QED BY <1>6, <1>7

LEMMA LoopCountType ==
    ASSUME NEW count \in NodeCounts
    PROVE  LoopCount(count) \in Int
<1>1. PICK garbage \in Garbage \ {0} : count = (Committed - Offset) \div garbage
  BY DEF NodeCounts
<1>2. count \in Int  BY <1>1, SizeAssumption
<1>3. Offset \div NodeSize \in Int  BY NodeSizeType, SizeAssumption
<1> QED BY <1>2, <1>3 DEF LoopCount

LEMMA InitFinite ==
    ASSUME AllocatorInit
    PROVE  IsFiniteSet(nodes)
<1>1. ASSUME NEW n \in Int, Constructed(n)
      PROVE  IsFiniteSet(nodes)
  <2> DEFINE I == 0..(n - 1)
             f == [i \in I |-> Node(i)]
  <2>1. nodes = {Node(i) : i \in I}  BY <1>1 DEF Constructed
  <2>2. f \in Surjection(I, nodes)
    BY <2>1 DEF Surjection
  <2>3. IsFiniteSet(I)  BY FS_Interval
  <2> HIDE DEF f, I
  <2> QED BY <2>2, <2>3, FS_Surjection
<1> QED BY <1>1, LoopCountType DEF AllocatorInit

LEMMA AllocatorInitList ==
    ASSUME AllocatorInit
    PROVE  /\ nodes \subseteq Nat
           /\ free_nodes \in nodes \cup {NULL}
           /\ next \in [nodes -> nodes \cup {NULL}]
           /\ ListHolds(nodes, Nat)
<1>2. CASE Constructed(0)
  BY <1>2, ConstructedList
<1>3. \A count \in NodeCounts : LoopCount(count) \in Int
  BY LoopCountType
<1> QED BY <1>2, <1>3, ConstructedList DEF AllocatorInit

(* Two nodes are at least an object apart, whatever node_count held.        *)
LEMMA InitObjectsApart ==
    ASSUME AllocatorInit, NEW a \in nodes, NEW b \in nodes, a < b
    PROVE  a + ObjectSize <= b
<1>1. PICK n : nodes = {Node(i) : i \in 0..(n - 1)}
  BY DEF AllocatorInit, Constructed
<1>2. PICK i \in 0..(n - 1), j \in 0..(n - 1) : a = Node(i) /\ b = Node(j)
  BY <1>1
<1>3. i \in Nat /\ j \in Nat /\ a \in Nat /\ b \in Nat  BY <1>2, NodeType
<1>4. ~(j < i) /\ i # j
  <2>1. j < i => b + NodeSize <= a  BY <1>2, <1>3, NodeType
  <2> QED BY <1>2, <1>3, <2>1, NodeSizeType
<1>5. a + NodeSize <= b  BY <1>2, <1>3, <1>4, NodeType
<1> QED BY <1>3, <1>5, NodeSizeType, SizeAssumption

\* Nodes are as far apart as alignment wants.
LEMMA NodeSizeAligned ==
    \E c \in Nat : NodeSize = c * Alignment
<1>1. ObjectSize \in Nat \ {0} /\ Alignment \in Nat \ {0}
  BY SizeAssumption
<1>2. CASE ObjectSize % Alignment = 0
  <2>1. ObjectSize \div Alignment \in Nat
        /\ ObjectSize = (ObjectSize \div Alignment) * Alignment
    BY <1>1, <1>2, Division
  <2> QED BY <1>2, <2>1 DEF NodeSize
<1>3. CASE ObjectSize % Alignment # 0
  <2> DEFINE q == (ObjectSize - 1) \div Alignment
             m == (ObjectSize - 1) % Alignment
  <2>1. ObjectSize - 1 \in Nat  BY <1>1
  <2>2. q \in Nat /\ m \in 0..(Alignment - 1) /\ ObjectSize - 1 = q * Alignment + m
    BY <1>1, <2>1, Division
  <2>3. NodeSize = ObjectSize + (Alignment - 1) - m
    BY <1>3 DEF NodeSize, RoundUp
  <2> HIDE DEF q, m
  <2>4. NodeSize = (q + 1) * Alignment /\ q + 1 \in Nat
    <3>1. (q + 1) * Alignment = q * Alignment + Alignment /\ q * Alignment \in Nat
      BY <1>1, <2>2
    <3> QED BY <1>1, <2>2, <2>3, <3>1
  <2> QED BY <2>4
<1> QED BY <1>2, <1>3

(* Every node is as aligned as the first one was meant to be.               *)
LEMMA InitNodesAligned ==
    ASSUME AllocatorInit, NEW a \in nodes
    PROVE  (a - Offset) % Alignment = 0
<1>0. PICK n : nodes = {Node(i) : i \in 0..(n - 1)}
  BY DEF AllocatorInit, Constructed
<1>1. PICK i \in 0..(n - 1) : a = Node(i)  BY <1>0
<1>2. PICK c \in Nat : NodeSize = c * Alignment  BY NodeSizeAligned
<1> DEFINE q == Offset \div NodeSize
           m == Offset % NodeSize
<1>3. /\ NodeSize \in Nat \ {0} /\ Alignment \in Nat \ {0} /\ Offset \in Nat
      /\ i \in Int
  BY NodeSizeType, SizeAssumption
<1>4. q \in Nat /\ m \in Nat /\ Offset = q * NodeSize + m  BY <1>3, Division
<1>5. a = (IF m = 0 THEN NodeSize ELSE m) + i * NodeSize
  BY <1>1 DEF Node, BottomNode
<1> HIDE DEF q, m
<1>6. \E k \in Int : a - Offset = k * NodeSize
  <2>1. CASE m = 0
    <3>1. a - Offset = (1 + i - q) * NodeSize  BY <1>3, <1>4, <1>5, <2>1
    <3>2. 1 + i - q \in Int  BY <1>3, <1>4
    <3> QED BY <3>1, <3>2
  <2>2. CASE m # 0
    <3>1. a - Offset = (i - q) * NodeSize  BY <1>3, <1>4, <1>5, <2>2
    <3>2. i - q \in Int  BY <1>3, <1>4
    <3> QED BY <3>1, <3>2
  <2> QED BY <2>1, <2>2
<1>7. PICK k \in Int : a - Offset = k * NodeSize  BY <1>6
<1>8. a - Offset = (k * c) * Alignment /\ k * c \in Int
  BY <1>2, <1>3, <1>7
<1> QED BY <1>3, <1>8, MultipleRemainder

-----------------------------------------------------------------------------
(* The list.                                                                *)

\* An empty list holds nothing; the head of another is one of its nodes.
LEMMA ListHead ==
    ASSUME nodes \subseteq Nat, NEW F, F \subseteq nodes, ListHolds(F, Nat)
    PROVE  /\ free_nodes = NULL => F = {}
           /\ free_nodes # NULL => free_nodes \in F
           /\ free_nodes \in F \cup {NULL}
<1>0. PICK n \in Nat : \E f \in [1..n -> nodes] : Enumerates(n, f, F)
  BY DEF ListHolds
<1>1. PICK f \in [1..n -> nodes] : Enumerates(n, f, F)  BY <1>0
<1>2. NULL \notin nodes
  <2> SUFFICES ASSUME NULL \in nodes PROVE FALSE  OBVIOUS
  <2>1. NULL \in Int  OBVIOUS
  <2> QED BY <2>1, NullAssumption
<1>3. CASE n = 0
  <2>1. F = {f[i] : i \in 1..0} /\ free_nodes = NULL
    BY <1>1, <1>3 DEF Enumerates
  <2>2. 1..0 = {}  OBVIOUS
  <2>3. F = {}  BY <2>1, <2>2
  <2> QED BY <2>1, <2>3
<1>4. CASE n > 0
  <2>1. 1 \in 1..n /\ f[1] \in nodes  BY <1>4
  <2>2. free_nodes = f[1] /\ f[1] \in F  BY <1>1, <1>4, <2>1 DEF Enumerates
  <2> QED BY <1>2, <2>1, <2>2
<1> QED BY <1>1, <1>3, <1>4

\* Popping the head leaves a list of the others.
LEMMA ListPop ==
    ASSUME nodes \subseteq Nat, NEW F, F \subseteq nodes, ListHolds(F, Nat),
           NEW G, G = F \ {free_nodes}, free_nodes # NULL, Pop(free_nodes)
    PROVE  /\ ListHolds(G, Nat)'
           /\ free_nodes' \in G \cup {NULL}
<1>0. PICK n \in Nat : \E f \in [1..n -> nodes] : Enumerates(n, f, F)
  BY DEF ListHolds
<1>1. PICK f \in [1..n -> nodes] : Enumerates(n, f, F)  BY <1>0
<1>2. n > 0 /\ n - 1 \in Nat /\ 1 \in 1..n /\ free_nodes = f[1]
  BY <1>1 DEF Enumerates
<1> DEFINE g == [i \in 1..(n - 1) |-> f[i + 1]]
<1>3. \A i \in 1..(n - 1) : i + 1 \in 1..n /\ i + 1 # 1 /\ g[i] = f[i + 1]
  BY <1>2
<1>4. g \in [1..(n - 1) -> nodes]  BY <1>3
<1>5. G = {g[i] : i \in 1..(n - 1)}
  <2>1. \A a \in F \ {f[1]} : \E i \in 1..(n - 1) : a = g[i]
    <3> SUFFICES ASSUME NEW a \in F, a # f[1]
                 PROVE  \E i \in 1..(n - 1) : a = g[i]
      OBVIOUS
    <3>1. PICK j \in 1..n : a = f[j]  BY <1>1 DEF Enumerates
    <3>2. j - 1 \in 1..(n - 1) /\ (j - 1) + 1 = j  BY <3>1, <1>2
    <3> QED BY <1>3, <3>1, <3>2
  <2>2. \A i \in 1..(n - 1) : g[i] \in F \ {f[1]}
    <3> SUFFICES ASSUME NEW i \in 1..(n - 1) PROVE g[i] \in F \ {f[1]}
      OBVIOUS
    <3>1. i + 1 \in 1..n /\ i + 1 # 1 /\ g[i] = f[i + 1]  BY <1>3
    <3>2. f[i + 1] \in F  BY <1>1, <3>1 DEF Enumerates
    <3>3. f[i + 1] # f[1]  BY <1>1, <1>2, <3>1 DEF Enumerates
    <3> QED BY <3>1, <3>2, <3>3
  <2>3. G = F \ {f[1]}  BY <1>2
  <2> HIDE DEF g
  <2>4. \A a \in G : a \in {g[i] : i \in 1..(n - 1)}  BY <2>1, <2>3
  <2>5. \A a \in {g[i] : i \in 1..(n - 1)} : a \in G  BY <2>2, <2>3
  <2> QED BY <2>4, <2>5
<1>6. \A i, j \in 1..(n - 1) : g[i] = g[j] => i = j
  <2> SUFFICES ASSUME NEW i \in 1..(n - 1), NEW j \in 1..(n - 1), g[i] = g[j]
               PROVE  i = j
    OBVIOUS
  <2>1. i + 1 = j + 1  BY <1>1, <1>3 DEF Enumerates
  <2> QED BY <2>1
<1>7. next' = next /\ nodes' = nodes /\ free_nodes' = next[f[1]]
  BY <1>2 DEF Pop
<1>8. free_nodes' = IF n - 1 > 0 THEN g[1] ELSE NULL
  <2>1. next[f[1]] = IF 1 < n THEN f[2] ELSE NULL
    BY <1>1, <1>2 DEF Enumerates
  <2>2. CASE 1 < n
    <3>1. 1 \in 1..(n - 1) /\ 1 + 1 = 2  BY <2>2, <1>2
    <3>2. g[1] = f[2]  BY <1>3, <3>1
    <3> QED BY <1>7, <2>1, <2>2, <3>2
  <2>3. CASE ~(1 < n)
    BY <1>2, <1>7, <2>1, <2>3
  <2> QED BY <2>2, <2>3
<1>9. \A i \in 1..(n - 1) : next[g[i]] = IF i < n - 1 THEN g[i + 1] ELSE NULL
  <2> SUFFICES ASSUME NEW i \in 1..(n - 1)
               PROVE  next[g[i]] = IF i < n - 1 THEN g[i + 1] ELSE NULL
    OBVIOUS
  <2>1. next[g[i]] = IF i + 1 < n THEN f[(i + 1) + 1] ELSE NULL
    BY <1>1, <1>3 DEF Enumerates
  <2>2. i < n - 1 => i + 1 \in 1..(n - 1)  BY <1>2
  <2>3. i < n - 1 => g[i + 1] = f[(i + 1) + 1]  BY <1>3, <2>2
  <2> QED BY <2>1, <2>3, <1>2
<1>10. Enumerates(n - 1, g, G)'
  <2> HIDE DEF g
  <2> QED BY <1>5, <1>6, <1>7, <1>8, <1>9 DEF Enumerates
<1>11. free_nodes' \in G \cup {NULL}
  <2>1. n - 1 > 0 => 1 \in 1..(n - 1)  BY <1>2
  <2> HIDE DEF g
  <2> QED BY <2>1, <1>5, <1>8
<1> HIDE DEF g
<1> QED BY <1>2, <1>4, <1>7, <1>10, <1>11 DEF ListHolds

\* Writing into a node that is not on the list leaves the list as it is.
LEMMA ListKept ==
    ASSUME NEW F, F \subseteq nodes, ListHolds(F, Nat),
           nodes' = nodes, free_nodes' = free_nodes,
           \A a \in F : next'[a] = next[a]
    PROVE  ListHolds(F, Nat)'
<1>0. PICK n \in Nat : \E f \in [1..n -> nodes] : Enumerates(n, f, F)
  BY DEF ListHolds
<1>1. PICK f \in [1..n -> nodes] : Enumerates(n, f, F)  BY <1>0
<1>2. \A i \in 1..n : f[i] \in F  BY <1>1 DEF Enumerates
<1>3. Enumerates(n, f, F)'  BY <1>1, <1>2 DEF Enumerates
<1> QED BY <1>3 DEF ListHolds

\* A node whose link is the old head, made the head, is one more node.
LEMMA ListPush ==
    ASSUME nodes \subseteq Nat, NEW F, F \subseteq nodes, ListHolds(F, Nat),
           NEW b \in nodes, b \notin F, NEW G, G = F \cup {b},
           next[b] = free_nodes, PushNode(b)
    PROVE  ListHolds(G, Nat)'
<1>0. PICK n \in Nat : \E f \in [1..n -> nodes] : Enumerates(n, f, F)
  BY DEF ListHolds
<1>1. PICK f \in [1..n -> nodes] : Enumerates(n, f, F)  BY <1>0
<1> DEFINE g == [i \in 1..(n + 1) |-> IF i = 1 THEN b ELSE f[i - 1]]
<1>2. \A i \in 1..(n + 1) : i # 1 => i - 1 \in 1..n /\ g[i] = f[i - 1]
  OBVIOUS
<1>3. 1 \in 1..(n + 1) /\ g[1] = b /\ n + 1 \in Nat /\ n + 1 > 0
  OBVIOUS
<1>4. \A i \in 1..n : i + 1 \in 1..(n + 1) /\ i + 1 # 1 /\ g[i + 1] = f[i]
  <2> SUFFICES ASSUME NEW i \in 1..n
               PROVE  i + 1 \in 1..(n + 1) /\ i + 1 # 1 /\ g[i + 1] = f[i]
    OBVIOUS
  <2>1. i + 1 \in 1..(n + 1) /\ i + 1 # 1 /\ (i + 1) - 1 = i  OBVIOUS
  <2> QED BY <2>1, <1>2
<1>5. g \in [1..(n + 1) -> nodes]
  <2>1. \A i \in 1..(n + 1) : (IF i = 1 THEN b ELSE f[i - 1]) \in nodes
    BY <1>2
  <2> QED BY <2>1
<1> HIDE DEF g
<1>6. \A i \in 1..n : f[i] \in F  BY <1>1 DEF Enumerates
<1>7. G = {g[i] : i \in 1..(n + 1)}
  <2>1. \A a \in G : \E i \in 1..(n + 1) : a = g[i]
    <3> SUFFICES ASSUME NEW a \in G PROVE \E i \in 1..(n + 1) : a = g[i]
      OBVIOUS
    <3>1. CASE a = b  BY <1>3, <3>1
    <3>2. CASE a \in F
      <4>1. PICK i \in 1..n : a = f[i]  BY <1>1, <3>2 DEF Enumerates
      <4> QED BY <1>4, <4>1
    <3> QED BY <3>1, <3>2
  <2>2. \A i \in 1..(n + 1) : g[i] \in G  BY <1>2, <1>3, <1>6
  <2> QED BY <2>1, <2>2
<1>8. \A i, j \in 1..(n + 1) : g[i] = g[j] => i = j
  <2> SUFFICES ASSUME NEW i \in 1..(n + 1), NEW j \in 1..(n + 1), g[i] = g[j]
               PROVE  i = j
    OBVIOUS
  <2>1. CASE i = 1 \/ j = 1
    BY <1>2, <1>3, <1>6, <2>1
  <2>2. CASE i # 1 /\ j # 1
    <3>1. i - 1 \in 1..n /\ j - 1 \in 1..n /\ f[i - 1] = f[j - 1]
      BY <1>2, <2>2
    <3>2. i - 1 = j - 1  BY <1>1, <3>1 DEF Enumerates
    <3> QED BY <3>2
  <2> QED BY <2>1, <2>2
<1>9. next' = next /\ nodes' = nodes /\ free_nodes' = b
  BY DEF PushNode
<1>10. \A i \in 1..(n + 1) :
           next[g[i]] = IF i < n + 1 THEN g[i + 1] ELSE NULL
  <2> SUFFICES ASSUME NEW i \in 1..(n + 1)
               PROVE  next[g[i]] = IF i < n + 1 THEN g[i + 1] ELSE NULL
    OBVIOUS
  <2>1. CASE i = 1
    <3>1. next[g[i]] = IF n > 0 THEN f[1] ELSE NULL
      BY <1>1, <1>3, <2>1 DEF Enumerates
    <3>2. CASE n > 0
      <4>1. g[2] = f[1]
        <5>1. 1 \in 1..n /\ 1 + 1 = 2  BY <3>2
        <5> QED BY <1>4, <5>1
      <4> QED BY <2>1, <3>1, <3>2, <4>1
    <3>3. CASE ~(n > 0)  BY <2>1, <3>1, <3>3
    <3> QED BY <3>2, <3>3
  <2>2. CASE i # 1
    <3>1. i - 1 \in 1..n /\ g[i] = f[i - 1]  BY <1>2, <2>2
    <3>2. next[f[i - 1]] = IF i - 1 < n THEN f[(i - 1) + 1] ELSE NULL
      BY <1>1, <3>1 DEF Enumerates
    <3>3. i - 1 < n => i \in 1..n /\ g[i + 1] = f[i] /\ (i - 1) + 1 = i
      BY <1>4, <3>1
    <3> QED BY <3>1, <3>2, <3>3
  <2> QED BY <2>1, <2>2
<1>11. Enumerates(n + 1, g, G)'
  BY <1>3, <1>7, <1>8, <1>9, <1>10 DEF Enumerates
<1> QED BY <1>3, <1>5, <1>9, <1>11 DEF ListHolds

\* A list of distinct nodes is no longer than there are nodes.
LEMMA ListBounded ==
    ASSUME IsFiniteSet(nodes), NEW F, ListHolds(F, Nat)
    PROVE  ListHolds(F, 0..Cardinality(nodes))
<1>0. PICK n \in Nat : \E f \in [1..n -> nodes] : Enumerates(n, f, F)
  BY DEF ListHolds
<1>1. PICK f \in [1..n -> nodes] : Enumerates(n, f, F)  BY <1>0
<1>2. f \in Injection(1..n, nodes)
  BY <1>1 DEF Enumerates, Injection, IsInjective
<1>3. Cardinality(1..n) <= Cardinality(nodes)  BY <1>2, FS_Injection
<1>4. Cardinality(1..n) = n  BY FS_Interval
<1>5. Cardinality(nodes) \in Nat  BY FS_CardinalityType
<1>6. n \in 0..Cardinality(nodes)  BY <1>3, <1>4, <1>5
<1> QED BY <1>1, <1>6 DEF ListHolds

-----------------------------------------------------------------------------
(* Doubly linked lists: which operations leave next and previous each       *)
(* other's inverse, and when.                                               *)

DoubleLinks(Nodes) ==
    [next : [Nodes -> Nodes \cup {NULL}], previous : [Nodes -> Nodes \cup {NULL}]]

\* Among these nodes, each is the predecessor of its successor.
BothWays(list, Nodes) ==
    \A n, m \in Nodes : list.next[n] = m <=> list.previous[m] = n

\* Nobody among these nodes points at node.
Detached(list, node, Nodes) ==
    \A n \in Nodes : list.next[n] # node /\ list.previous[n] # node

\* node is in no list.
Unlinked(list, node) == list.next[node] = NULL /\ list.previous[node] = NULL

-----------------------------------------------------------------------------
(* The pointers that remove leaves.                                         *)
LEMMA RemoveLinks ==
    ASSUME NEW Nodes, NULL \notin Nodes, NEW list \in DoubleLinks(Nodes), NEW node \in Nodes
    PROVE  /\ remove(list, node) \in DoubleLinks(Nodes)
           /\ \A n \in Nodes :
                 /\ remove(list, node).next[n] =
                       IF n = list.previous[node] THEN list.next[node] ELSE list.next[n]
                 /\ remove(list, node).previous[n] =
                       IF n = list.next[node] THEN list.previous[node]
                       ELSE list.previous[n]
<1>. DEFINE before == list.previous[node]
            behind == list.next[node]
            forward == IF before = NULL THEN list
                       ELSE [list EXCEPT !.next[before] = behind]
<1>1. before \in Nodes \cup {NULL} /\ behind \in Nodes \cup {NULL}
  BY DEF DoubleLinks
<1>2. /\ forward \in DoubleLinks(Nodes) /\ forward.previous = list.previous
      /\ \A n \in Nodes :
            forward.next[n] = IF n = before THEN behind ELSE list.next[n]
  <2>. HIDE DEF before, behind
  <2>. QED  BY <1>1 DEF DoubleLinks
<1>3. remove(list, node) = IF behind = NULL THEN forward
                           ELSE [forward EXCEPT !.previous[behind] = before]
  BY DEF remove
<1>. HIDE DEF forward, before, behind
<1>4. /\ remove(list, node) \in DoubleLinks(Nodes)
      /\ remove(list, node).next = forward.next
      /\ \A n \in Nodes :
            remove(list, node).previous[n] =
                IF n = behind THEN before ELSE list.previous[n]
  BY <1>1, <1>2, <1>3 DEF DoubleLinks
<1>. QED  BY <1>2, <1>4 DEF before, behind

(* A removed node's neighbours become each other's, all other links stay    *)
(* inverse, and no node of the list points at the removed one any more      *)
(* (intrusive_list.hpp, remove).  The removed node itself still points at   *)
(* its old neighbours: arenas that pool_allocator gives back keep them.     *)
THEOREM RemoveKeepsOthers ==
    ASSUME NEW Nodes, NULL \notin Nodes, NEW list \in DoubleLinks(Nodes),
           NEW node \in Nodes, BothWays(list, Nodes), list.next[node] # node
    PROVE  /\ BothWays(remove(list, node), Nodes \ {node})
           /\ Detached(remove(list, node), node, Nodes \ {node})
           /\ remove(list, node).next[node] = list.next[node]
           /\ remove(list, node).previous[node] = list.previous[node]
<1>1. list.previous[node] # node
  BY DEF BothWays
<1>2. /\ list.next[node] \in Nodes \cup {NULL}
      /\ list.previous[node] \in Nodes \cup {NULL}
  BY DEF DoubleLinks
<1>3. ASSUME NEW n \in Nodes
      PROVE  /\ list.next[n] = node <=> n = list.previous[node]
             /\ list.previous[n] = node <=> n = list.next[node]
  BY DEF BothWays
<1>4. BothWays(remove(list, node), Nodes \ {node})
  <2>1. ASSUME NEW n \in Nodes \ {node}, NEW m \in Nodes \ {node}
        PROVE  remove(list, node).next[n] = m <=> remove(list, node).previous[m] = n
    <3>1. list.next[n] = m <=> list.previous[m] = n
      BY DEF BothWays
    <3>2. /\ remove(list, node).next[n] =
                IF n = list.previous[node] THEN list.next[node] ELSE list.next[n]
          /\ remove(list, node).previous[m] =
                IF m = list.next[node] THEN list.previous[node] ELSE list.previous[m]
      BY RemoveLinks
    <3>. QED  BY <1>1, <1>3, <3>1, <3>2
  <2>. QED  BY <2>1 DEF BothWays
<1>5. Detached(remove(list, node), node, Nodes \ {node})
  <2>1. ASSUME NEW n \in Nodes \ {node}
        PROVE  remove(list, node).next[n] # node /\ remove(list, node).previous[n] # node
    <3>1. /\ remove(list, node).next[n] =
                IF n = list.previous[node] THEN list.next[node] ELSE list.next[n]
          /\ remove(list, node).previous[n] =
                IF n = list.next[node] THEN list.previous[node] ELSE list.previous[n]
      BY RemoveLinks
    <3>. QED  BY <1>1, <1>3, <3>1
  <2>. QED  BY <2>1 DEF Detached
<1>. QED  BY <1>1, <1>4, <1>5, RemoveLinks

(* unlink leaves every list inverse and the node alone.                     *)
THEOREM UnlinkKeepsInverse ==
    ASSUME NEW Nodes, NULL \notin Nodes, NEW list \in DoubleLinks(Nodes),
           NEW node \in Nodes, BothWays(list, Nodes), list.next[node] # node
    PROVE  BothWays(unlink(list, node), Nodes) /\ Unlinked(unlink(list, node), node)
<1>1. remove(list, node) \in DoubleLinks(Nodes)
  BY RemoveLinks
<1>2. ASSUME NEW n \in Nodes
      PROVE  /\ unlink(list, node).next[n] =
                   IF n = node THEN NULL ELSE remove(list, node).next[n]
             /\ unlink(list, node).previous[n] =
                   IF n = node THEN NULL ELSE remove(list, node).previous[n]
  BY <1>1 DEF unlink, DoubleLinks
<1>3. /\ BothWays(remove(list, node), Nodes \ {node})
      /\ Detached(remove(list, node), node, Nodes \ {node})
  BY RemoveKeepsOthers
<1>. QED  BY <1>2, <1>3 DEF BothWays, Detached, Unlinked

(* A lone node inserted before position stands between position and what    *)
(* was before it, and every list stays inverse.                             *)
THEOREM InsertBeforeKeepsInverse ==
    ASSUME NEW Nodes, NULL \notin Nodes, NEW list \in DoubleLinks(Nodes),
           NEW node \in Nodes, NEW position \in Nodes, node # position,
           BothWays(list, Nodes), Unlinked(list, node)
    PROVE  LET after == insert_before(list, node, position)
           IN  /\ BothWays(after, Nodes)
               /\ after.next[node] = position
               /\ after.previous[node] = list.previous[position]
<1>. DEFINE after == insert_before(list, node, position)
            before == list.previous[position]
            forward == IF before = NULL THEN list
                       ELSE [list EXCEPT !.next[before] = node]
<1>1. before \in Nodes \cup {NULL} /\ before # node
  BY DEF DoubleLinks, BothWays, Unlinked
<1>2. /\ forward \in DoubleLinks(Nodes) /\ forward.previous = list.previous
      /\ \A n \in Nodes :
            forward.next[n] = IF n = before THEN node ELSE list.next[n]
  <2>. HIDE DEF before
  <2>. QED  BY <1>1 DEF DoubleLinks
<1>3. after = [forward EXCEPT !.previous[position] = node,
                              !.next[node] = position, !.previous[node] = before]
  BY DEF insert_before
<1>. HIDE DEF after, forward, before
<1>4. ASSUME NEW n \in Nodes
      PROVE  /\ after.next[n] = IF n = node THEN position
                                ELSE IF n = before THEN node ELSE list.next[n]
             /\ after.previous[n] = IF n = node THEN before
                                    ELSE IF n = position THEN node
                                    ELSE list.previous[n]
  BY <1>1, <1>2, <1>3 DEF DoubleLinks
<1>5. ASSUME NEW n \in Nodes, NEW m \in Nodes
      PROVE  after.next[n] = m <=> after.previous[m] = n
  <2>1. list.next[n] = m <=> list.previous[m] = n
    BY DEF BothWays
  <2>2. list.next[n] = position <=> n = before
    BY DEF BothWays, before
  <2>3. list.next[n] # node /\ list.previous[m] # node
    BY DEF BothWays, Unlinked
  <2>. QED  BY <1>1, <1>4, <2>1, <2>2, <2>3
<1>6. BothWays(after, Nodes)
  BY <1>5 DEF BothWays
<1>. QED  BY <1>4, <1>6 DEF after, before

(* insert_after is right behind a node that is alone, ...                   *)
THEOREM InsertAfterAlone ==
    ASSUME NEW Nodes, NULL \notin Nodes, NEW list \in DoubleLinks(Nodes),
           NEW node \in Nodes, NEW position \in Nodes, node # position,
           BothWays(list, Nodes), Unlinked(list, node), Unlinked(list, position)
    PROVE  LET after == insert_after(list, node, position)
           IN  BothWays(after, Nodes) /\ after.next[position] = node
<1>. DEFINE after == insert_after(list, node, position)
<1>1. after = [list EXCEPT !.next[position] = node,
                           !.next[node] = NULL, !.previous[node] = position]
  BY DEF insert_after, Unlinked
<1>. HIDE DEF after
<1>2. ASSUME NEW n \in Nodes
      PROVE  /\ after.next[n] = IF n = node THEN NULL
                                ELSE IF n = position THEN node ELSE list.next[n]
             /\ after.previous[n] = IF n = node THEN position ELSE list.previous[n]
  BY <1>1 DEF DoubleLinks
<1>3. ASSUME NEW n \in Nodes, NEW m \in Nodes
      PROVE  after.next[n] = m <=> after.previous[m] = n
  <2>1. list.next[n] = m <=> list.previous[m] = n
    BY DEF BothWays
  <2>2. list.next[n] # node /\ list.next[n] # position /\ list.previous[m] # position
    BY DEF BothWays, Unlinked
  <2>. QED  BY <1>2, <2>1, <2>2 DEF Unlinked
<1>. QED  BY <1>2, <1>3 DEF BothWays, after

(* ... and wrong behind the end of any longer list: the node before the end *)
(* skips it (intrusive_list.hpp:236-241 links the node before position,     *)
(* where the one behind it is meant).                                       *)
THEOREM InsertAfterSkips ==
    ASSUME NEW Nodes, NULL \notin Nodes, NEW list \in DoubleLinks(Nodes),
           NEW node \in Nodes, NEW position \in Nodes, node # position,
           BothWays(list, Nodes), Unlinked(list, node),
           list.next[position] = NULL, list.previous[position] # NULL
    PROVE  LET after == insert_after(list, node, position)
           IN  /\ after.next[list.previous[position]] = node
               /\ after.previous[node] = position
               /\ ~BothWays(after, Nodes)
<1>. DEFINE after == insert_after(list, node, position)
            before == list.previous[position]
<1>1. before \in Nodes /\ before # node /\ before # position
  BY DEF DoubleLinks, BothWays, Unlinked
<1>2. after = [[list EXCEPT !.next[before] = node]
                  EXCEPT !.next[position] = node,
                         !.next[node] = NULL, !.previous[node] = position]
  BY DEF insert_after
<1>. HIDE DEF after, before
<1>3. after.next[before] = node /\ after.previous[node] = position
  BY <1>1, <1>2 DEF DoubleLinks
<1>4. ~BothWays(after, Nodes)
  BY <1>1, <1>3 DEF BothWays
<1>. QED  BY <1>3, <1>4 DEF after, before
=============================================================================
