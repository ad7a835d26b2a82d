---------------------- MODULE BlockingAllocatorProofs -----------------------
(***************************************************************************)
(* Proofs about BlockingAllocatorProxy, for every set of threads, every    *)
(* size and alignment, and whatever the uninitialised node_count held.     *)
(***************************************************************************)
EXTENDS BlockingAllocatorProxy, ListProofs, TLAPS

-----------------------------------------------------------------------------
(* The inductive invariant: FreeListIntact without a bound on the list.     *)

ListIntact == ListHolds(Available, Nat)
IInv == TypeOK /\ MutualExclusion /\ OneHolder /\ Protocol /\ ListIntact

LEMMA NodeNotNull == TypeOK => \A a \in nodes : a # NULL /\ a \in Nat
<1> SUFFICES ASSUME TypeOK, NEW a \in nodes PROVE a # NULL /\ a \in Nat
  OBVIOUS
<1>1. a \in Nat  BY DEF TypeOK
<1>2. NULL \notin Nat  BY NullAssumption
<1> QED BY <1>1, <1>2

LEMMA InitInv == Init => IInv
<1> SUFFICES ASSUME Init PROVE IInv  OBVIOUS
<1>1. /\ nodes \subseteq Nat /\ free_nodes \in nodes \cup {NULL}
      /\ next \in [nodes -> nodes \cup {NULL}] /\ ListHolds(nodes, Nat)
  BY AllocatorInitList DEF Init
<1>2. TypeOK  BY <1>1 DEF Init, TypeOK
<1>3. MutualExclusion  BY ThreadAssumption DEF Init, MutualExclusion, Outside
<1>4. \A t \in Threads : ~Carrying(t)  BY DEF Init, Carrying
<1>5. OneHolder  BY <1>4 DEF Init, OneHolder
<1>6. Protocol  BY DEF Init, Protocol, AllocateSteps
<1>7. Available = nodes  BY <1>4 DEF Init, Available
<1> QED BY <1>1, <1>2, <1>3, <1>5, <1>6, <1>7 DEF IInv, ListIntact

LEMMA AvailableIs ==
    ASSUME NEW a
    PROVE  a \in Available <=>
             /\ a \in nodes /\ a \notin held
             /\ \A t \in Threads : Carrying(t) => pointer[t] # a
BY DEF Available

\* A step that leaves the list alone and moves no node across its border.
LEMMA ListQuiet ==
    ASSUME ListIntact, UNCHANGED allocatorVars, Available' = Available
    PROVE  ListIntact'
BY DEF ListIntact, ListHolds, Enumerates, allocatorVars

\* The thread inside, and where the others are.
LEMMA Alone ==
    ASSUME IInv, NEW t \in Threads, NEW u \in Threads, pc[t] \notin Outside,
           u # t
    PROVE  pc[u] \in Outside
BY DEF IInv, MutualExclusion

LEMMA CallAllocateInv ==
    ASSUME IInv, NEW t \in Threads, NEW n \in Sizes, CallAllocate(t, n)
    PROVE  IInv'
<1> USE DEF IInv
<1>1. TypeOK'
  BY DEF TypeOK, CallAllocate, Goto, AllocateSteps, allocatorVars
<1>2. MutualExclusion'
  BY DEF TypeOK, MutualExclusion, CallAllocate, Goto, Outside
<1>3. Protocol'
  BY DEF TypeOK, Protocol, CallAllocate, Goto, AllocateSteps, allocatorVars
<1>4. \A u \in Threads : Carrying(u)' = Carrying(u)
  BY DEF TypeOK, Carrying, CallAllocate, Goto
<1>5. OneHolder'  BY <1>4 DEF OneHolder, CallAllocate, allocatorVars
<1>6. Available' = Available
  BY <1>4 DEF Available, CallAllocate, allocatorVars
<1>7. ListIntact'  BY <1>6, ListQuiet DEF CallAllocate
<1> QED BY <1>1, <1>2, <1>3, <1>5, <1>7

\* Both ways in: the mutex is free and no allocator state changes.
LEMMA EnterInv ==
    ASSUME IInv, NEW t \in Threads, EnterAllocate(t) \/ EnterDeallocate(t)
    PROVE  IInv'
<1> USE DEF IInv
<1>1. TypeOK'
  BY DEF TypeOK, EnterAllocate, EnterDeallocate, Goto, Lock, AllocateSteps,
         DeallocateSteps, allocatorVars
<1>2. MutualExclusion'
  BY ThreadAssumption
     DEF TypeOK, MutualExclusion, EnterAllocate, EnterDeallocate, Goto, Lock, Outside
<1>3. Protocol'
  BY DEF TypeOK, Protocol, EnterAllocate, EnterDeallocate, Goto, AllocateSteps,
         allocatorVars
<1>4. \A u \in Threads : Carrying(u)' = Carrying(u)
  BY DEF TypeOK, Carrying, EnterAllocate, EnterDeallocate, Goto
<1>5. OneHolder'
  BY <1>4 DEF OneHolder, EnterAllocate, EnterDeallocate, allocatorVars
<1>6. Available' = Available
  BY <1>4 DEF Available, EnterAllocate, EnterDeallocate, allocatorVars
<1>7. ListIntact'  BY <1>6, ListQuiet DEF EnterAllocate, EnterDeallocate
<1> QED BY <1>1, <1>2, <1>3, <1>5, <1>7

LEMMA RefuseInv ==
    ASSUME IInv, NEW t \in Threads, Refuse(t)
    PROVE  IInv'
<1> USE DEF IInv
<1>1. TypeOK'
  BY DEF TypeOK, Refuse, Goto, AllocateSteps, allocatorVars
<1>2. MutualExclusion'
  BY DEF TypeOK, MutualExclusion, Refuse, Goto, Outside
<1>3. Protocol'
  BY DEF TypeOK, Protocol, Refuse, Goto, AllocateSteps, allocatorVars
<1>4. \A u \in Threads : Carrying(u)' = Carrying(u)
  BY DEF TypeOK, Carrying, Refuse, Goto, Protocol
<1>5. OneHolder'  BY <1>4 DEF OneHolder, Refuse, allocatorVars
<1>6. Available' = Available
  BY <1>4 DEF Available, Refuse, allocatorVars
<1>7. ListIntact'  BY <1>6, ListQuiet DEF Refuse
<1> QED BY <1>1, <1>2, <1>3, <1>5, <1>7

LEMMA ReadHeadInv ==
    ASSUME IInv, NEW t \in Threads, ReadHead(t)
    PROVE  IInv'
<1> USE DEF IInv
<1>0. pc[t] = "allocate_read" /\ pointer[t] = NULL
  BY DEF ReadHead, Goto, Protocol
<1>1. TypeOK'
  BY DEF TypeOK, ReadHead, Goto, AllocateSteps, allocatorVars
<1>2. MutualExclusion'
  BY DEF TypeOK, MutualExclusion, ReadHead, Goto, Outside
<1>3. Protocol'
  BY DEF TypeOK, Protocol, ReadHead, Goto, AllocateSteps, allocatorVars
<1>4. \A u \in Threads : /\ Carrying(u)' = Carrying(u)
                         /\ Carrying(u) => pointer'[u] = pointer[u]
  BY <1>0 DEF TypeOK, Carrying, ReadHead, Goto
<1>5. OneHolder'  BY <1>4 DEF OneHolder, ReadHead, allocatorVars
<1>6. Available' = Available
  BY <1>4 DEF Available, ReadHead, allocatorVars
<1>7. ListIntact'  BY <1>6, ListQuiet DEF ReadHead
<1> QED BY <1>1, <1>2, <1>3, <1>5, <1>7

\* Popping moves the head from the list to the thread.
LEMMA TakeHeadMoves ==
    ASSUME IInv, NEW t \in Threads, TakeHead(t)
    PROVE  /\ pc[t] = "allocate_pop" /\ pointer[t] = free_nodes /\ free_nodes # NULL
           /\ free_nodes \in Available /\ Pop(free_nodes)
           /\ \A u \in Threads : u # t => Carrying(u)' = Carrying(u)
           /\ Carrying(t)' /\ ~Carrying(t)
           /\ Available' = Available \ {free_nodes}
<1> USE DEF IInv
<1>1. /\ pc[t] = "allocate_pop" /\ pointer[t] = free_nodes /\ free_nodes # NULL
      /\ Pop(free_nodes)
  BY DEF TakeHead, Goto, Protocol
<1>2. free_nodes \in Available
  BY <1>1, ListHead DEF TypeOK, Available, ListIntact
<1>3. /\ \A u \in Threads : u # t => Carrying(u)' = Carrying(u)
      /\ Carrying(t)' /\ ~Carrying(t)
  BY <1>1 DEF TypeOK, Carrying, TakeHead, Goto
<1>4. UNCHANGED <<pointer, held, nodes>>  BY DEF TakeHead, Pop
<1>5. \A a : a \in Available' <=> a \in nodes /\ a \notin held
              /\ \A u \in Threads : Carrying(u)' => pointer[u] # a
  BY <1>4 DEF Available
<1>6. \A a : a \in Available' <=> a \in Available /\ a # free_nodes
  BY <1>1, <1>3, <1>5, AvailableIs
<1>7. Available' = Available \ {free_nodes}  BY <1>6
<1> QED BY <1>1, <1>2, <1>3, <1>7

LEMMA TakeHeadInv ==
    ASSUME IInv, NEW t \in Threads, TakeHead(t)
    PROVE  IInv'
<1> USE DEF IInv
<1>1. /\ pc[t] = "allocate_pop" /\ pointer[t] = free_nodes /\ free_nodes # NULL
      /\ Pop(free_nodes)
  BY TakeHeadMoves
<1>2. PICK F : F = Available  OBVIOUS
<1>3. PICK G : G = F \ {free_nodes}  OBVIOUS
<1>4. nodes \subseteq Nat /\ F \subseteq nodes /\ ListHolds(F, Nat)
  BY <1>2 DEF TypeOK, Available, ListIntact
<1>5. free_nodes \in F  BY <1>2, TakeHeadMoves
<1>6. ListHolds(G, Nat)' /\ free_nodes' \in G \cup {NULL}
  BY <1>1, <1>3, <1>4, ListPop
<1>7. free_nodes' \in G \cup {NULL} /\ free_nodes' \in nodes \cup {NULL}
  BY <1>3, <1>4, <1>6
<1>8. \A u \in Threads : /\ u # t => Carrying(u)' = Carrying(u)
                         /\ Carrying(t)' /\ ~Carrying(t)
  BY TakeHeadMoves
<1>9. UNCHANGED <<pointer, held, nodes, size, mutex, next>>
  BY DEF TakeHead, Pop
<1>10. Available' = G  BY <1>2, <1>3, TakeHeadMoves
<1>11. ListIntact'  BY <1>6, <1>10 DEF ListIntact
<1>12. TypeOK'
  <2>1. free_nodes' \in nodes' \cup {NULL}  BY <1>7, <1>9
  <2>2. pc' \in [Threads -> {"idle"} \cup AllocateSteps \cup DeallocateSteps]
    BY DEF TypeOK, TakeHead, Goto, AllocateSteps
  <2> QED BY <1>9, <2>1, <2>2 DEF TypeOK
<1>13. MutualExclusion'
  BY DEF TypeOK, MutualExclusion, TakeHead, Goto, Outside
<1>14. Protocol'
  <2>1. \A u \in Threads : u # t => pc[u] \in Outside /\ pc'[u] = pc[u]
    BY <1>1, Alone DEF TypeOK, TakeHead, Goto, Outside
  <2>2. pc'[t] = "allocate_leave"  BY DEF TypeOK, TakeHead, Goto
  <2> QED BY <1>9, <2>1, <2>2 DEF Protocol, AllocateSteps, Outside
<1>15. OneHolder'
  <2>1. \A u \in Threads : Carrying(u) => pointer[u] # free_nodes
    BY <1>2, <1>5, AvailableIs
  <2>2. free_nodes \notin held /\ G \cap held = {}
    BY <1>2, <1>3, <1>5, AvailableIs
  <2>3. NULL \notin held
    <3>1. held \subseteq Nat  BY DEF TypeOK
    <3>2. NULL \notin Nat  BY NullAssumption
    <3> QED BY <3>1, <3>2
  <2>4. free_nodes' \notin held'  BY <1>7, <1>9, <2>2, <2>3
  <2> QED BY <1>1, <1>8, <1>9, <2>1, <2>2, <2>4 DEF OneHolder
<1> QED BY <1>11, <1>12, <1>13, <1>14, <1>15

\* The node a thread carried becomes the program's.
LEMMA ReturnAllocateMoves ==
    ASSUME IInv, NEW t \in Threads, ReturnAllocate(t)
    PROVE  /\ \A u \in Threads : u # t => /\ Carrying(u)' = Carrying(u)
                                       /\ pointer'[u] = pointer[u]
           /\ ~Carrying(t)'
           /\ Carrying(t) <=> pointer[t] # NULL
           /\ Available' = Available
<1> USE DEF IInv
<1>1. pc[t] = "allocate_leave"  BY DEF ReturnAllocate, Goto
<1>2. UNCHANGED <<nodes, free_nodes, next>>
  BY DEF ReturnAllocate, allocatorVars
<1>3. /\ pc' = [pc EXCEPT ![t] = "idle"]
      /\ pointer' = [pointer EXCEPT ![t] = NULL]
      /\ size' = [size EXCEPT ![t] = 0]
      /\ held' = held \cup ({pointer[t]} \ {NULL})
      /\ mutex' = NULL
  BY DEF ReturnAllocate, Goto, Unlock
<1>4. /\ \A u \in Threads : u # t => /\ Carrying(u)' = Carrying(u)
                                   /\ pointer'[u] = pointer[u]
      /\ ~Carrying(t)'
      /\ Carrying(t) <=> pointer[t] # NULL
  BY <1>1, <1>3 DEF TypeOK, Carrying
<1>5. Available' = Available
  <2>1. \A a : a \in Available' <=> a \in nodes /\ a \notin held'
                /\ \A u \in Threads : Carrying(u)' => pointer'[u] # a
    BY <1>2 DEF Available
  <2>2. \A a \in nodes : a # NULL
    BY NullAssumption DEF TypeOK
  <2>3. \A a : a \in Available' <=> a \in Available
    <3> SUFFICES ASSUME NEW a \in nodes
                 PROVE  a \in Available' <=> a \in Available
      BY <2>1, AvailableIs
    <3>1. a # NULL  BY <2>2
    <3>2. CASE a = pointer[t]
      <4>1. a \in held' /\ Carrying(t)  BY <1>3, <1>4, <3>1, <3>2
      <4> QED BY <2>1, <3>2, <4>1, AvailableIs
    <3>3. CASE a # pointer[t]
      <4>1. a \in held' <=> a \in held  BY <1>3, <3>3
      <4> QED BY <1>4, <2>1, <3>3, <4>1, AvailableIs
    <3> QED BY <3>2, <3>3
  <2> QED BY <2>3
<1> QED BY <1>4, <1>5

LEMMA ReturnAllocateInv ==
    ASSUME IInv, NEW t \in Threads, ReturnAllocate(t)
    PROVE  IInv'
<1> USE DEF IInv
<1>1. pc[t] = "allocate_leave"  BY DEF ReturnAllocate, Goto
<1>2. UNCHANGED <<nodes, free_nodes, next>>
  BY DEF ReturnAllocate, allocatorVars
<1>3. /\ pc' = [pc EXCEPT ![t] = "idle"]
      /\ pointer' = [pointer EXCEPT ![t] = NULL]
      /\ size' = [size EXCEPT ![t] = 0]
      /\ held' = held \cup ({pointer[t]} \ {NULL})
      /\ mutex' = NULL
  BY DEF ReturnAllocate, Goto, Unlock
<1>4. TypeOK'  BY <1>2, <1>3 DEF TypeOK
<1>5. MutualExclusion'
  BY <1>1, <1>3, ThreadAssumption, Alone DEF TypeOK, MutualExclusion, Outside
<1>6. Protocol'
  BY <1>2, <1>3 DEF TypeOK, Protocol, AllocateSteps
<1>7. /\ \A u \in Threads : u # t => /\ Carrying(u)' = Carrying(u)
                                   /\ pointer'[u] = pointer[u]
      /\ ~Carrying(t)'
      /\ Carrying(t) <=> pointer[t] # NULL
  BY ReturnAllocateMoves
<1>8. Available' = Available  BY ReturnAllocateMoves
<1>9. ListIntact'  BY <1>8, ListQuiet DEF ReturnAllocate
<1>10. free_nodes \in Available \cup {NULL}
  BY ListHead DEF ListIntact, TypeOK, Available
<1>11. OneHolder'
  <2>1. pointer[t] # NULL => free_nodes # pointer[t]
    BY <1>7, <1>10, AvailableIs
  <2>2. free_nodes' \notin held'  BY <1>2, <1>3, <2>1 DEF OneHolder
  <2>3. \A u \in Threads : Carrying(u)' => pointer'[u] \notin held'
    BY <1>3, <1>7 DEF OneHolder
  <2> QED BY <1>7, <2>2, <2>3 DEF OneHolder
<1> QED BY <1>4, <1>5, <1>6, <1>9, <1>11

\* A node goes from the program to the thread that gives it back.
LEMMA CallDeallocateMoves ==
    ASSUME IInv, NEW t \in Threads, NEW node \in nodes, CallDeallocate(t, node)
    PROVE  /\ \A u \in Threads : u # t => /\ Carrying(u)' = Carrying(u)
                                       /\ pointer'[u] = pointer[u]
           /\ Carrying(t)' /\ pointer'[t] = node /\ ~Carrying(t)
           /\ Available' = Available
<1> USE DEF IInv
<1>1. /\ pc[t] = "idle" /\ node \in held /\ pointer[t] = NULL
      /\ UNCHANGED <<nodes, free_nodes, next, mutex, size>>
      /\ pc' = [pc EXCEPT ![t] = "deallocate_enter"]
      /\ pointer' = [pointer EXCEPT ![t] = node]
      /\ held' = held \ {node}
  BY DEF CallDeallocate, Goto, allocatorVars, Protocol
<1>2. node # NULL
  BY NodeNotNull
<1>3. /\ \A u \in Threads : u # t => /\ Carrying(u)' = Carrying(u)
                                   /\ pointer'[u] = pointer[u]
      /\ Carrying(t)' /\ pointer'[t] = node /\ ~Carrying(t)
  BY <1>1, <1>2 DEF TypeOK, Carrying
<1>4. Available' = Available
  <2>1. \A a : a \in Available' <=> a \in nodes /\ a \notin held'
                /\ \A u \in Threads : Carrying(u)' => pointer'[u] # a
    BY <1>1 DEF Available
  <2>2. \A a : a \in Available' <=> a \in Available
    BY <1>1, <1>3, <2>1, AvailableIs
  <2> QED BY <2>2
<1> QED BY <1>3, <1>4

LEMMA CallDeallocateInv ==
    ASSUME IInv, NEW t \in Threads, NEW node \in nodes, CallDeallocate(t, node)
    PROVE  IInv'
<1> USE DEF IInv
<1>1. /\ pc[t] = "idle" /\ node \in held /\ pointer[t] = NULL
      /\ UNCHANGED <<nodes, free_nodes, next, mutex, size>>
      /\ pc' = [pc EXCEPT ![t] = "deallocate_enter"]
      /\ pointer' = [pointer EXCEPT ![t] = node]
      /\ held' = held \ {node}
  BY DEF CallDeallocate, Goto, allocatorVars, Protocol
<1>3. TypeOK'  BY <1>1 DEF TypeOK, DeallocateSteps
<1>4. MutualExclusion'  BY <1>1 DEF TypeOK, MutualExclusion, Outside
<1>5. Protocol'  BY <1>1 DEF TypeOK, Protocol, AllocateSteps
<1>6. /\ \A u \in Threads : u # t => /\ Carrying(u)' = Carrying(u)
                                   /\ pointer'[u] = pointer[u]
      /\ Carrying(t)' /\ pointer'[t] = node /\ ~Carrying(t)
  BY CallDeallocateMoves
<1>7. Available' = Available  BY CallDeallocateMoves
<1>8. ListIntact'  BY <1>7, ListQuiet DEF CallDeallocate
<1>9. OneHolder'  BY <1>1, <1>6 DEF OneHolder
<1> QED BY <1>3, <1>4, <1>5, <1>8, <1>9

\* The link of a node on its way back; the list does not go through it.
LEMMA LinkFreeInv ==
    ASSUME IInv, NEW t \in Threads, LinkFree(t)
    PROVE  IInv'
<1> USE DEF IInv
<1>1. /\ pc[t] = "deallocate_link" /\ pointer[t] \in nodes
      /\ pc' = [pc EXCEPT ![t] = "deallocate_push"]
      /\ next' = [next EXCEPT ![pointer[t]] = free_nodes]
      /\ UNCHANGED <<nodes, free_nodes, mutex, size, pointer, held>>
  BY DEF LinkFree, Goto, LinkNode, Protocol
<1>2. pointer[t] # NULL  BY <1>1, NodeNotNull
<1>3. TypeOK'  BY <1>1 DEF TypeOK, DeallocateSteps
<1>4. MutualExclusion'  BY <1>1 DEF TypeOK, MutualExclusion, Outside
<1>5. Protocol'
  <2>1. \A u \in Threads : u # t => pc[u] \in Outside /\ pc'[u] = pc[u]
    BY <1>1, Alone DEF TypeOK, Outside
  <2>2. pc'[t] = "deallocate_push" /\ next'[pointer[t]] = free_nodes
    BY <1>1 DEF TypeOK
  <2> QED BY <1>1, <2>1, <2>2 DEF Protocol, AllocateSteps, Outside
<1>6. \A u \in Threads : Carrying(u)' = Carrying(u)
  BY <1>1 DEF TypeOK, Carrying
<1>7. OneHolder'  BY <1>1, <1>6 DEF OneHolder
<1>8. Available' = Available  BY <1>1, <1>6 DEF Available
<1>9. PICK F : F = Available  OBVIOUS
<1>10. F \subseteq nodes /\ ListHolds(F, Nat)  BY <1>9 DEF Available, ListIntact
<1>11. pointer[t] \notin F
  BY <1>1, <1>2, <1>9, AvailableIs DEF Carrying
<1>12. \A a \in F : next'[a] = next[a]
  BY <1>1, <1>10, <1>11 DEF TypeOK
<1>13. ListHolds(F, Nat)'  BY <1>1, <1>10, <1>12, ListKept
<1>14. ListIntact'  BY <1>8, <1>9, <1>13 DEF ListIntact
<1> QED BY <1>3, <1>4, <1>5, <1>7, <1>14

\* The node becomes the head: it moves from the thread to the list.
LEMMA PushFreeMoves ==
    ASSUME IInv, NEW t \in Threads, PushFree(t)
    PROVE  /\ \A u \in Threads : u # t => /\ Carrying(u)' = Carrying(u)
                                       /\ pointer'[u] = pointer[u]
           /\ ~Carrying(t)' /\ Carrying(t)
           /\ pointer[t] \notin Available
           /\ Available' = Available \cup {pointer[t]}
<1> USE DEF IInv
<1>1. /\ pc[t] = "deallocate_push" /\ pointer[t] \in nodes
      /\ next[pointer[t]] = free_nodes
      /\ pc' = [pc EXCEPT ![t] = "deallocate_leave"]
      /\ free_nodes' = pointer[t] /\ PushNode(pointer[t])
      /\ pointer' = [pointer EXCEPT ![t] = NULL]
      /\ UNCHANGED <<nodes, next, mutex, size, held>>
  BY DEF PushFree, Goto, PushNode, Protocol
<1>2. pointer[t] # NULL /\ Carrying(t)
  BY <1>1, NullAssumption DEF TypeOK, Carrying
<1>3. /\ \A u \in Threads : u # t => /\ Carrying(u)' = Carrying(u)
                                   /\ pointer'[u] = pointer[u]
      /\ ~Carrying(t)'
  BY <1>1 DEF TypeOK, Carrying
<1>4. pointer[t] \notin Available  BY <1>2, AvailableIs
<1>5. Available' = Available \cup {pointer[t]}
  <2>1. \A a : a \in Available' <=> a \in nodes /\ a \notin held
                /\ \A u \in Threads : Carrying(u)' => pointer'[u] # a
    BY <1>1 DEF Available
  <2>2. \A a : a \in Available' <=> a \in Available \/ a = pointer[t]
    <3> SUFFICES ASSUME NEW a
                 PROVE  a \in Available' <=> a \in Available \/ a = pointer[t]
      OBVIOUS
    <3>1. CASE a = pointer[t]
      <4>1. a \notin held /\ \A u \in Threads : u # t /\ Carrying(u) => pointer[u] # a
        BY <1>2, <3>1 DEF OneHolder
      <4> QED BY <1>1, <1>3, <2>1, <3>1, <4>1
    <3>2. CASE a # pointer[t]
      BY <1>3, <2>1, <3>2, AvailableIs
    <3> QED BY <3>1, <3>2
  <2> QED BY <2>2
<1> QED BY <1>2, <1>3, <1>4, <1>5

LEMMA PushFreeInv ==
    ASSUME IInv, NEW t \in Threads, PushFree(t)
    PROVE  IInv'
<1> USE DEF IInv
<1>1. /\ pc[t] = "deallocate_push" /\ pointer[t] \in nodes
      /\ next[pointer[t]] = free_nodes
      /\ pc' = [pc EXCEPT ![t] = "deallocate_leave"]
      /\ free_nodes' = pointer[t] /\ PushNode(pointer[t])
      /\ pointer' = [pointer EXCEPT ![t] = NULL]
      /\ UNCHANGED <<nodes, next, mutex, size, held>>
  BY DEF PushFree, Goto, PushNode, Protocol
<1>2. pointer[t] # NULL /\ Carrying(t)
  BY <1>1, NullAssumption DEF TypeOK, Carrying
<1>3. TypeOK'  BY <1>1 DEF TypeOK, DeallocateSteps
<1>4. MutualExclusion'  BY <1>1 DEF TypeOK, MutualExclusion, Outside
<1>5. Protocol'
  <2>1. \A u \in Threads : u # t => pc[u] \in Outside /\ pc'[u] = pc[u]
                                    /\ pointer'[u] = pointer[u]
    BY <1>1, Alone DEF TypeOK, Outside
  <2>2. pc'[t] = "deallocate_leave" /\ pointer'[t] = NULL
    BY <1>1 DEF TypeOK
  <2> QED BY <1>1, <2>1, <2>2 DEF Protocol, AllocateSteps, Outside
<1>6. /\ \A u \in Threads : u # t => /\ Carrying(u)' = Carrying(u)
                                   /\ pointer'[u] = pointer[u]
      /\ ~Carrying(t)'
  BY PushFreeMoves
<1>7. OneHolder'  BY <1>1, <1>2, <1>6 DEF OneHolder
<1>8. PICK F : F = Available  OBVIOUS
<1>9. PICK G : G = F \cup {pointer[t]}  OBVIOUS
<1>10. nodes \subseteq Nat /\ F \subseteq nodes /\ ListHolds(F, Nat)
  BY <1>8 DEF Available, ListIntact, TypeOK
<1>11. pointer[t] \notin F  BY <1>8, PushFreeMoves
<1>12. ListHolds(G, Nat)'
  BY <1>1, <1>9, <1>10, <1>11, ListPush
<1>13. Available' = G  BY <1>8, <1>9, PushFreeMoves
<1>14. ListIntact'  BY <1>12, <1>13 DEF ListIntact
<1> QED BY <1>3, <1>4, <1>5, <1>7, <1>14

LEMMA ReturnDeallocateInv ==
    ASSUME IInv, NEW t \in Threads, ReturnDeallocate(t)
    PROVE  IInv'
<1> USE DEF IInv
<1>1. /\ pc[t] = "deallocate_leave" /\ pointer[t] = NULL /\ mutex' = NULL
      /\ pc' = [pc EXCEPT ![t] = "idle"]
      /\ UNCHANGED <<nodes, free_nodes, next, size, pointer, held>>
  BY DEF ReturnDeallocate, Goto, Unlock, allocatorVars, Protocol
<1>2. TypeOK'  BY <1>1 DEF TypeOK
<1>3. MutualExclusion'
  BY <1>1, ThreadAssumption, Alone DEF TypeOK, MutualExclusion, Outside
<1>4. Protocol'  BY <1>1 DEF TypeOK, Protocol, AllocateSteps
<1>5. \A u \in Threads : Carrying(u)' = Carrying(u)
  BY <1>1 DEF TypeOK, Carrying
<1>6. OneHolder'  BY <1>1, <1>5 DEF OneHolder
<1>7. Available' = Available  BY <1>1, <1>5 DEF Available
<1>8. ListIntact'  BY <1>7, ListQuiet DEF ReturnDeallocate
<1> QED BY <1>2, <1>3, <1>4, <1>6, <1>8

\* What a holder writes does not reach the list.
LEMMA UseBlockInv ==
    ASSUME IInv, NEW node \in nodes, UseBlock(node)
    PROVE  IInv'
<1> USE DEF IInv
<1>1. PICK w \in nodes \cup {NULL, Junk} : next' = [next EXCEPT ![node] = w]
  BY DEF UseBlock, Scribble
<1>2. /\ node \in held
      /\ UNCHANGED <<nodes, free_nodes, mutex, pc, size, pointer, held>>
  BY DEF UseBlock, Scribble
<1>3. TypeOK'  BY <1>1, <1>2 DEF TypeOK
<1>4. MutualExclusion'  BY <1>2 DEF MutualExclusion
<1>5. \A u \in Threads : Carrying(u)' = Carrying(u)
  BY <1>2 DEF Carrying
<1>6. OneHolder'  BY <1>2, <1>5 DEF OneHolder
<1>7. Protocol'
  <2>1. ASSUME NEW u \in Threads, pc[u] = "deallocate_push"
        PROVE  next'[pointer[u]] = free_nodes
    <3>1. pointer[u] \in nodes /\ Carrying(u)
      BY <2>1, NodeNotNull DEF Protocol, Carrying
    <3>2. pointer[u] # node  BY <1>2, <3>1 DEF OneHolder
    <3> QED BY <1>1, <2>1, <3>1, <3>2 DEF Protocol, TypeOK
  <2> QED BY <1>2, <2>1 DEF Protocol
<1>8. Available' = Available  BY <1>2, <1>5 DEF Available
<1>9. PICK F : F = Available  OBVIOUS
<1>10. F \subseteq nodes /\ ListHolds(F, Nat) /\ node \notin F
  BY <1>2, <1>9 DEF Available, ListIntact
<1>11. \A a \in F : next'[a] = next[a]
  BY <1>1, <1>10 DEF TypeOK
<1>12. ListHolds(F, Nat)'  BY <1>2, <1>10, <1>11, ListKept
<1>13. ListIntact'  BY <1>8, <1>9, <1>12 DEF ListIntact
<1> QED BY <1>3, <1>4, <1>6, <1>7, <1>13

LEMMA NextInv == IInv /\ [Next]_vars => IInv'
<1> SUFFICES ASSUME IInv, [Next]_vars PROVE IInv'  OBVIOUS
<1>1. CASE UNCHANGED vars
  <2>1. UNCHANGED allocatorVars /\ Available' = Available
    BY <1>1 DEF vars, allocatorVars, Available, Carrying
  <2>2. ListIntact'  BY <2>1, ListQuiet DEF IInv
  <2> QED BY <1>1, <2>2
          DEF IInv, vars, TypeOK, MutualExclusion, OneHolder, Protocol, Carrying
<1>2. CASE Next
  BY <1>2, CallAllocateInv, EnterInv, RefuseInv, ReadHeadInv, TakeHeadInv,
     ReturnAllocateInv, CallDeallocateInv, LinkFreeInv, PushFreeInv,
     ReturnDeallocateInv, UseBlockInv
     DEF Next, Inside
<1> QED BY <1>1, <1>2

(* The proxy's mutex, the free list and the blocks in use stay consistent   *)
(* for every number of threads and nodes (blocking_allocator_proxy.cpp).    *)
THEOREM IInvHolds == Spec => []IInv
BY InitInv, NextInv, PTL DEF Spec

(* At most one thread is inside the proxy.                                  *)
THEOREM MutualExclusionHolds == Spec => []MutualExclusion
<1>1. IInv => MutualExclusion  BY DEF IInv
<1> QED BY <1>1, IInvHolds, PTL

(* No node is ever with two holders.                                        *)
THEOREM OneHolderHolds == Spec => []OneHolder
<1>1. IInv => OneHolder  BY DEF IInv
<1> QED BY <1>1, IInvHolds, PTL

(* The list enumerates exactly the nodes nobody has: none is lost.          *)
THEOREM ListIntactHolds == Spec => []ListIntact
<1>1. IInv => ListIntact  BY DEF IInv
<1> QED BY <1>1, IInvHolds, PTL

\* No step makes a node.
LEMMA NodesStay == [Next]_vars => nodes' = nodes
BY DEF vars, Next, Inside, CallAllocate, EnterAllocate, Refuse, ReadHead, TakeHead,
       ReturnAllocate, CallDeallocate, EnterDeallocate, LinkFree, PushFree,
       ReturnDeallocate, UseBlock, Scribble, Pop, LinkNode, PushNode, allocatorVars

(* The same, with a list no longer than there are nodes: the constructor    *)
(* made finitely many, and no step makes one.                               *)
THEOREM FreeListIntactHolds == Spec => []FreeListIntact
<1>1. Init => IsFiniteSet(nodes)
  BY InitFinite DEF Init
<1>2. [Next]_vars => nodes' = nodes
  BY NodesStay
<1>3. IsFiniteSet(nodes) /\ [Next]_vars => IsFiniteSet(nodes)'
  BY <1>2
<1>4. Spec => []IsFiniteSet(nodes)
  BY <1>1, <1>3, PTL DEF Spec
<1>5. IsFiniteSet(nodes) /\ ListIntact => FreeListIntact
  BY ListBounded DEF ListIntact, FreeListIntact
<1> QED BY <1>4, <1>5, ListIntactHolds, PTL

(* Objects never overlap and every node is aligned, whatever the            *)
(* uninitialised node_count held.                                           *)
THEOREM ObjectsDisjointHolds == Spec => []ObjectsDisjoint
<1>1. Init => ObjectsDisjoint
  BY InitObjectsApart, InitNodesAligned DEF Init, ObjectsDisjoint
<1>2. [Next]_vars => nodes' = nodes
  BY NodesStay
<1>3. ObjectsDisjoint /\ [Next]_vars => ObjectsDisjoint'
  BY <1>2 DEF ObjectsDisjoint
<1> QED BY <1>1, <1>3, PTL DEF Spec

-----------------------------------------------------------------------------
(* The proxy implements BlockPool: one step of each call is the instant at  *)
(* which it takes effect, every other step is invisible.                    *)

\* What a thread's call looks like at each step of the proxy.
LEMMA AbstractCallIs ==
    ASSUME NEW n, NEW b, NEW step
    PROVE  /\ AbstractCall("idle", 0, NULL) = Pool!NoCall
           /\ step \in {"allocate_enter", "allocate_read"} =>
                 AbstractCall(step, n, NULL) =
                 Pool!Pending("allocate", n, NULL)
           /\ AbstractCall("allocate_pop", n, b) =
                 Pool!Pending("allocate", n, NULL)
           /\ AbstractCall("allocate_leave", n, b) =
                 Pool!Finished("allocate", n, b)
           /\ step \in {"deallocate_enter", "deallocate_link", "deallocate_push"} =>
                 AbstractCall(step, 0, b) =
                 Pool!Pending("deallocate", 0, b)
           /\ AbstractCall("deallocate_leave", 0, NULL) =
                 Pool!Finished("deallocate", 0, NULL)
<1> DEFINE done(p) == p \in {"allocate_leave", "deallocate_leave"}
           op(p) == CASE p = "idle" -> "none"
                      [] p \in AllocateSteps -> "allocate"
                      [] p \in DeallocateSteps -> "deallocate"
           block(p, x) == IF p = "allocate_pop" THEN NULL ELSE x
<1>1. \A p, m, x : AbstractCall(p, m, x) =
          [op |-> op(p), size |-> m, block |-> block(p, x), done |-> done(p)]
  BY DEF AbstractCall
<1>2. op("idle") = "none" /\ block("idle", NULL) = NULL /\ done("idle") = FALSE
  BY DEF AllocateSteps, DeallocateSteps
<1>3. step \in {"allocate_enter", "allocate_read"} =>
          op(step) = "allocate" /\ block(step, NULL) = NULL /\ done(step) = FALSE
  BY DEF AllocateSteps, DeallocateSteps
<1>4. /\ op("allocate_pop") = "allocate" /\ block("allocate_pop", b) = NULL
      /\ done("allocate_pop") = FALSE
  BY DEF AllocateSteps, DeallocateSteps
<1>5. /\ op("allocate_leave") = "allocate" /\ block("allocate_leave", b) = b
      /\ done("allocate_leave") = TRUE
  BY DEF AllocateSteps, DeallocateSteps
<1>6. step \in {"deallocate_enter", "deallocate_link", "deallocate_push"} =>
          op(step) = "deallocate" /\ block(step, b) = b /\ done(step) = FALSE
  BY DEF AllocateSteps, DeallocateSteps
<1>7. /\ op("deallocate_leave") = "deallocate"
      /\ block("deallocate_leave", NULL) = NULL /\ done("deallocate_leave") = TRUE
  BY DEF AllocateSteps, DeallocateSteps
<1> HIDE DEF done, op, block
<1> QED BY <1>1, <1>2, <1>3, <1>4, <1>5, <1>6, <1>7 DEF Pool!NoCall, Pool!Pending, Pool!Finished

\* What a change of one thread's registers does to the abstract calls.
LEMMA OneCallChanges ==
    ASSUME NEW t \in Threads,
           \A u \in Threads : u # t => /\ pc'[u] = pc[u] /\ size'[u] = size[u]
                                      /\ pointer'[u] = pointer[u]
    PROVE  /\ PoolCall' = [PoolCall EXCEPT ![t] =
                              AbstractCall(pc'[t], size'[t], pointer'[t])]
           /\ PoolCall[t] = AbstractCall(pc[t], size[t], pointer[t])
<1>1. PoolCall' = [u \in Threads |-> AbstractCall(pc'[u], size'[u], pointer'[u])]
  BY DEF PoolCall
<1>2. PoolCall' = [u \in Threads |->
          IF u = t THEN AbstractCall(pc'[t], size'[t], pointer'[t])
          ELSE AbstractCall(pc[u], size[u], pointer[u])]
  BY <1>1
<1> QED BY <1>2 DEF PoolCall

\* The same lemma, one fact at a time.
LEMMA NoCallIs ==
    ASSUME NEW p, NEW n, NEW b, p = "idle", n = 0, b = NULL
    PROVE  AbstractCall(p, n, b) = Pool!NoCall
BY AbstractCallIs

LEMMA AllocatePending ==
    ASSUME NEW p, NEW n, NEW b, p \in {"allocate_enter", "allocate_read"}, b = NULL
    PROVE  AbstractCall(p, n, b) = Pool!Pending("allocate", n, NULL)
BY AbstractCallIs

LEMMA PopPending ==
    ASSUME NEW p, NEW n, NEW b, p = "allocate_pop"
    PROVE  AbstractCall(p, n, b) = Pool!Pending("allocate", n, NULL)
BY AbstractCallIs

LEMMA AllocateDone ==
    ASSUME NEW p, NEW n, NEW b, p = "allocate_leave"
    PROVE  AbstractCall(p, n, b) =
               Pool!Finished("allocate", n, b)
BY AbstractCallIs

LEMMA DeallocatePending ==
    ASSUME NEW p, NEW n, NEW b, n = 0,
           p \in {"deallocate_enter", "deallocate_link", "deallocate_push"}
    PROVE  AbstractCall(p, n, b) =
               Pool!Pending("deallocate", 0, b)
BY AbstractCallIs

LEMMA DeallocateDone ==
    ASSUME NEW p, NEW n, NEW b, p = "deallocate_leave", n = 0, b = NULL
    PROVE  AbstractCall(p, n, b) =
               Pool!Finished("deallocate", 0, NULL)
BY AbstractCallIs

LEMMA InitRefines == Init => Pool!Init
<1> SUFFICES ASSUME Init PROVE Pool!Init  OBVIOUS
<1>1. \A t \in Threads : AbstractCall(pc[t], size[t], pointer[t]) = Pool!NoCall
  BY NoCallIs DEF Init
<1>2. PoolCall = [t \in Threads |-> Pool!NoCall]  BY <1>1 DEF PoolCall
<1> QED BY <1>2 DEF Init, Pool!Init

\* A thread whose registers give the same abstract call hides its step.
LEMMA SameCall ==
    ASSUME NEW t \in Threads, NEW r,
           \A u \in Threads : u # t => /\ pc'[u] = pc[u] /\ size'[u] = size[u]
                                      /\ pointer'[u] = pointer[u],
           AbstractCall(pc[t], size[t], pointer[t]) = r,
           AbstractCall(pc'[t], size'[t], pointer'[t]) = r
    PROVE  PoolCall' = PoolCall
<1>1. PoolCall' = [PoolCall EXCEPT ![t] = r] /\ PoolCall[t] = r
  BY OneCallChanges
<1> QED BY <1>1 DEF PoolCall

\* Steps at which no call takes effect.
LEMMA HiddenStep ==
    ASSUME IInv, NEW t \in Threads,
           EnterAllocate(t) \/ EnterDeallocate(t) \/ ReadHead(t) \/ LinkFree(t)
    PROVE  UNCHANGED <<Available, held, PoolCall>>
<1> USE DEF IInv
<1>1. held' = held /\ nodes' = nodes
  BY DEF EnterAllocate, EnterDeallocate, ReadHead, LinkFree, LinkNode, allocatorVars
<1>2. \A u \in Threads : /\ Carrying(u)' = Carrying(u)
                         /\ Carrying(u) => pointer'[u] = pointer[u]
  BY DEF TypeOK, Protocol, Carrying, EnterAllocate, EnterDeallocate, ReadHead,
         LinkFree, Goto
<1>3. Available' = Available  BY <1>1, <1>2 DEF Available
<1>4. \A u \in Threads : u # t => /\ pc'[u] = pc[u] /\ size'[u] = size[u]
                                /\ pointer'[u] = pointer[u]
  BY DEF TypeOK, EnterAllocate, EnterDeallocate, ReadHead, LinkFree, Goto
<1>5. PoolCall' = PoolCall
  <2>1. CASE EnterAllocate(t)
    <3>1. /\ pc[t] = "allocate_enter" /\ pc'[t] = "allocate_read"
          /\ pointer[t] = NULL /\ pointer'[t] = NULL /\ size'[t] = size[t]
      BY <2>1 DEF EnterAllocate, Goto, TypeOK, Protocol
    <3> DEFINE r == Pool!Pending("allocate", size[t], NULL)
    <3>2. AbstractCall(pc[t], size[t], pointer[t]) = r  BY <3>1, AllocatePending
    <3>3. AbstractCall(pc'[t], size'[t], pointer'[t]) = r  BY <3>1, AllocatePending
    <3> QED BY <1>4, <3>2, <3>3, SameCall
  <2>2. CASE ReadHead(t)
    <3>1. /\ pc[t] = "allocate_read" /\ pc'[t] = "allocate_pop"
          /\ pointer[t] = NULL /\ size'[t] = size[t]
      BY <2>2 DEF ReadHead, Goto, TypeOK, Protocol
    <3> DEFINE r == Pool!Pending("allocate", size[t], NULL)
    <3>2. AbstractCall(pc[t], size[t], pointer[t]) = r  BY <3>1, AllocatePending
    <3>3. AbstractCall(pc'[t], size'[t], pointer'[t]) = r  BY <3>1, PopPending
    <3> QED BY <1>4, <3>2, <3>3, SameCall
  <2>3. CASE EnterDeallocate(t) \/ LinkFree(t)
    <3>1. /\ pc[t] \in {"deallocate_enter", "deallocate_link"}
          /\ pointer'[t] = pointer[t]
          /\ pc'[t] \in {"deallocate_link", "deallocate_push"}
          /\ size[t] = 0 /\ size'[t] = 0
      BY <2>3 DEF EnterDeallocate, LinkFree, Goto, TypeOK, Protocol, AllocateSteps
    <3> DEFINE r == Pool!Pending("deallocate", 0, pointer[t])
    <3>2. AbstractCall(pc[t], size[t], pointer[t]) = r  BY <3>1, DeallocatePending
    <3>3. AbstractCall(pc'[t], size'[t], pointer'[t]) = r  BY <3>1, DeallocatePending
    <3> QED BY <1>4, <3>2, <3>3, SameCall
  <2> QED BY <2>1, <2>2, <2>3
<1> QED BY <1>1, <1>3, <1>5

LEMMA CallAllocateRefines ==
    ASSUME IInv, NEW t \in Threads, NEW n \in Sizes, CallAllocate(t, n)
    PROVE  Pool!CallAllocate(t, n)
<1> USE DEF IInv
<1>1. /\ pc[t] = "idle" /\ size[t] = 0 /\ pointer[t] = NULL
      /\ pc'[t] = "allocate_enter" /\ size'[t] = n
      /\ \A u \in Threads : /\ pointer'[u] = pointer[u]
                            /\ u # t => pc'[u] = pc[u] /\ size'[u] = size[u]
                            /\ Carrying(u)' = Carrying(u)
      /\ UNCHANGED <<nodes, held>>
  BY DEF CallAllocate, Goto, Protocol, TypeOK, allocatorVars, AllocateSteps, Carrying
<1>2. Available' = Available  BY <1>1 DEF Available
<1>3. AbstractCall(pc'[t], size'[t], pointer'[t]) =
          Pool!Pending("allocate", n, NULL)
  BY <1>1, AllocatePending
<1>4. PoolCall' = [PoolCall EXCEPT ![t] =
          Pool!Pending("allocate", n, NULL)]
  BY <1>1, <1>3, OneCallChanges
<1>5. PoolCall[t] = Pool!NoCall  BY <1>1, OneCallChanges, NoCallIs
<1> QED BY <1>1, <1>2, <1>4, <1>5 DEF Pool!CallAllocate

LEMMA RefuseRefines ==
    ASSUME IInv, NEW t \in Threads, Refuse(t)
    PROVE  Pool!Refuse(t)
<1> USE DEF IInv
<1>1. /\ pc[t] = "allocate_read" /\ pointer[t] = NULL /\ pc'[t] = "allocate_leave"
      /\ \A u \in Threads : /\ pointer'[u] = pointer[u] /\ size'[u] = size[u]
                            /\ u # t => pc'[u] = pc[u]
                            /\ Carrying(u)' = Carrying(u)
      /\ UNCHANGED <<nodes, held>>
      /\ size[t] > ObjectSize \/ free_nodes = NULL
  BY DEF Refuse, Goto, Protocol, TypeOK, allocatorVars, TooLarge, Carrying
<1>2. Available' = Available  BY <1>1 DEF Available
<1>3. size[t] > ObjectSize \/ Available = {}
  BY <1>1, ListHead DEF ListIntact, TypeOK, Available
<1>4. AbstractCall(pc[t], size[t], pointer[t]) =
          Pool!Pending("allocate", size[t], NULL)
  BY <1>1, AllocatePending
<1>5. AbstractCall(pc'[t], size'[t], pointer'[t]) =
          Pool!Finished("allocate", size[t], NULL)
  BY <1>1, AllocateDone
<1>6. PoolCall[t] = Pool!Pending("allocate", size[t], NULL)
  BY <1>1, <1>4, OneCallChanges
<1>7. PoolCall' = [PoolCall EXCEPT ![t] =
          Pool!Finished("allocate", size[t], NULL)]
  BY <1>1, <1>5, OneCallChanges
<1>8. /\ PoolCall[t].op = "allocate" /\ PoolCall[t].size = size[t]
      /\ PoolCall[t].done = FALSE
  BY <1>6 DEF Pool!Pending
<1> QED BY <1>1, <1>2, <1>3, <1>7, <1>8 DEF Pool!Refuse, Pool!Finish

LEMMA TakeRefines ==
    ASSUME IInv, NEW t \in Threads, TakeHead(t)
    PROVE  Pool!Take(t)
<1> USE DEF IInv
<1>1. /\ pc[t] = "allocate_pop" /\ pc'[t] = "allocate_leave"
      /\ pointer[t] = free_nodes
      /\ \A u \in Threads : /\ pointer'[u] = pointer[u] /\ size'[u] = size[u]
                            /\ u # t => pc'[u] = pc[u]
      /\ UNCHANGED held
  BY DEF TakeHead, Goto, Protocol, TypeOK
<1>2. free_nodes \in Available /\ Available' = Available \ {free_nodes}
  BY TakeHeadMoves
<1>3. AbstractCall(pc[t], size[t], pointer[t]) =
          Pool!Pending("allocate", size[t], NULL)
  BY <1>1, PopPending
<1>4. AbstractCall(pc'[t], size'[t], pointer'[t]) =
          Pool!Finished("allocate", size[t], free_nodes)
  BY <1>1, AllocateDone
<1>5. PoolCall[t] = Pool!Pending("allocate", size[t], NULL)
  BY <1>1, <1>3, OneCallChanges
<1>6. PoolCall' = [PoolCall EXCEPT ![t] =
          Pool!Finished("allocate", size[t], free_nodes)]
  BY <1>1, <1>4, OneCallChanges
<1>7. /\ PoolCall[t].op = "allocate" /\ PoolCall[t].size = size[t]
      /\ PoolCall[t].done = FALSE
  BY <1>5 DEF Pool!Pending
<1>8. size[t] <= ObjectSize
  <2>1. size[t] \in Sizes \cup {0}  BY DEF TypeOK
  <2>2. Sizes \cup {0} \subseteq Nat  BY ThreadAssumption
  <2>3. size[t] \in Nat  BY <2>1, <2>2
  <2>4. ~TooLarge(size[t])  BY DEF TakeHead, Goto, Protocol
  <2>5. ~(size[t] > ObjectSize)  BY <2>4 DEF TooLarge
  <2> QED BY <2>3, <2>5, SizeAssumption
<1>9. Pool!Finish(t, free_nodes)  BY <1>6, <1>7 DEF Pool!Finish
<1> QED BY <1>1, <1>2, <1>7, <1>8, <1>9 DEF Pool!Take

LEMMA ReturnRefines ==
    ASSUME IInv, NEW t \in Threads, ReturnAllocate(t) \/ ReturnDeallocate(t)
    PROVE  Pool!Return(t)
<1> USE DEF IInv
<1>1. /\ pc[t] \in {"allocate_leave", "deallocate_leave"} /\ pc'[t] = "idle"
      /\ pc[t] = "deallocate_leave" => size[t] = 0 /\ pointer[t] = NULL
      /\ pointer'[t] = NULL /\ size'[t] = 0
      /\ \A u \in Threads : u # t => /\ pointer'[u] = pointer[u] /\ pc'[u] = pc[u]
                                    /\ size'[u] = size[u]
      /\ held' = held \cup ({pointer[t]} \ {NULL})
  BY DEF ReturnAllocate, ReturnDeallocate, Goto, Protocol, TypeOK, AllocateSteps
<1>2. Available' = Available
  <2>1. CASE ReturnAllocate(t)  BY <2>1, ReturnAllocateMoves
  <2>2. CASE ReturnDeallocate(t)
    <3>1. \A u \in Threads : Carrying(u)' = Carrying(u)
      BY <2>2 DEF ReturnDeallocate, Goto, TypeOK, Carrying
    <3> QED BY <2>2, <3>1 DEF ReturnDeallocate, allocatorVars, Available
  <2> QED BY <2>1, <2>2
<1>3. PICK op : AbstractCall(pc[t], size[t], pointer[t]) =
          Pool!Finished(op, size[t], pointer[t])
  <2>1. CASE pc[t] = "allocate_leave"  BY <2>1, AllocateDone
  <2>2. CASE pc[t] = "deallocate_leave"
    <3>1. AbstractCall(pc[t], size[t], pointer[t]) =
              Pool!Finished("deallocate", 0, NULL)
      BY <1>1, <2>2, DeallocateDone
    <3> QED BY <1>1, <2>2, <3>1
  <2> QED BY <1>1, <2>1, <2>2
<1>4. AbstractCall(pc'[t], size'[t], pointer'[t]) = Pool!NoCall
  BY <1>1, NoCallIs
<1>5. PoolCall[t] = Pool!Finished(op, size[t], pointer[t])
  BY <1>1, <1>3, OneCallChanges
<1>6. PoolCall[t].done = TRUE /\ PoolCall[t].block = pointer[t]
  BY <1>5 DEF Pool!Finished
<1>7. PoolCall' = [PoolCall EXCEPT ![t] = Pool!NoCall]
  BY <1>1, <1>4, OneCallChanges
<1> QED BY <1>1, <1>2, <1>6, <1>7 DEF Pool!Return

LEMMA CallDeallocateRefines ==
    ASSUME IInv, NEW t \in Threads, NEW b \in nodes, CallDeallocate(t, b)
    PROVE  Pool!CallDeallocate(t, b)
<1> USE DEF IInv
<1>1. /\ pc[t] = "idle" /\ size[t] = 0 /\ pointer[t] = NULL
      /\ pc'[t] = "deallocate_enter" /\ size'[t] = 0 /\ pointer'[t] = b
      /\ \A u \in Threads : u # t => /\ pointer'[u] = pointer[u] /\ pc'[u] = pc[u]
                                    /\ size'[u] = size[u]
      /\ b \in held /\ held' = held \ {b}
  BY DEF CallDeallocate, Goto, Protocol, TypeOK, AllocateSteps
<1>2. Available' = Available  BY CallDeallocateMoves
<1>3. AbstractCall(pc'[t], size'[t], pointer'[t]) =
          Pool!Pending("deallocate", 0, b)
  BY <1>1, DeallocatePending
<1>4. PoolCall' = [PoolCall EXCEPT ![t] =
          Pool!Pending("deallocate", 0, b)]
  BY <1>1, <1>3, OneCallChanges
<1>5. PoolCall[t] = Pool!NoCall  BY <1>1, OneCallChanges, NoCallIs
<1> QED BY <1>1, <1>2, <1>4, <1>5 DEF Pool!CallDeallocate

LEMMA GiveRefines ==
    ASSUME IInv, NEW t \in Threads, PushFree(t)
    PROVE  Pool!Give(t)
<1> USE DEF IInv
<1>1. /\ pc[t] = "deallocate_push" /\ pc'[t] = "deallocate_leave"
      /\ size[t] = 0 /\ size'[t] = 0 /\ pointer'[t] = NULL
      /\ \A u \in Threads : u # t => /\ pointer'[u] = pointer[u] /\ pc'[u] = pc[u]
                                    /\ size'[u] = size[u]
      /\ held' = held
  BY DEF PushFree, Goto, Protocol, TypeOK, AllocateSteps
<1>2. Available' = Available \cup {pointer[t]}  BY PushFreeMoves
<1>3. AbstractCall(pc[t], size[t], pointer[t]) =
          Pool!Pending("deallocate", 0, pointer[t])
  BY <1>1, DeallocatePending
<1>4. AbstractCall(pc'[t], size'[t], pointer'[t]) =
          Pool!Finished("deallocate", 0, NULL)
  BY <1>1, DeallocateDone
<1>5. PoolCall[t] = Pool!Pending("deallocate", 0, pointer[t])
  BY <1>1, <1>3, OneCallChanges
<1>6. PoolCall' = [PoolCall EXCEPT ![t] =
          Pool!Finished("deallocate", 0, NULL)]
  BY <1>1, <1>4, OneCallChanges
<1>7. /\ PoolCall[t].op = "deallocate" /\ PoolCall[t].size = 0
      /\ PoolCall[t].block = pointer[t] /\ PoolCall[t].done = FALSE
  BY <1>5 DEF Pool!Pending
<1>8. Pool!Finish(t, NULL)  BY <1>6, <1>7 DEF Pool!Finish
<1> QED BY <1>1, <1>2, <1>7, <1>8 DEF Pool!Give

LEMMA NextRefines == IInv /\ [Next]_vars => [Pool!Next]_(Pool!vars)
<1> SUFFICES ASSUME IInv, [Next]_vars PROVE [Pool!Next]_(Pool!vars)  OBVIOUS
<1>1. CASE UNCHANGED vars
  <2>1. UNCHANGED <<Available, held>>
    BY <1>1 DEF vars, Available, Carrying
  <2>2. PoolCall' = PoolCall  BY <1>1 DEF vars, PoolCall
  <2> QED BY <2>1, <2>2 DEF Pool!vars
<1>2. ASSUME NEW node \in nodes, UseBlock(node)
      PROVE  UNCHANGED Pool!vars
  <2>1. UNCHANGED <<nodes, held, pc, size, pointer>>
    BY <1>2 DEF UseBlock, Scribble
  <2>2. UNCHANGED <<Available, PoolCall>>
    BY <2>1 DEF Available, Carrying, PoolCall
  <2> QED BY <2>1, <2>2 DEF Pool!vars
<1>3. ASSUME NEW t \in Threads, NEW n \in Sizes, CallAllocate(t, n)
      PROVE  Pool!Next
  BY <1>3, CallAllocateRefines DEF Pool!Next
<1>4. ASSUME NEW t \in Threads, NEW node \in nodes, CallDeallocate(t, node)
      PROVE  Pool!Next
  <2>1. node \in held  BY <1>4 DEF CallDeallocate
  <2> QED BY <1>4, <2>1, CallDeallocateRefines DEF Pool!Next
<1>5. ASSUME NEW t \in Threads, Refuse(t) PROVE Pool!Next
  BY <1>5, RefuseRefines DEF Pool!Next
<1>6. ASSUME NEW t \in Threads, TakeHead(t) PROVE Pool!Next
  BY <1>6, TakeRefines DEF Pool!Next
<1>7. ASSUME NEW t \in Threads, ReturnAllocate(t) \/ ReturnDeallocate(t)
      PROVE  Pool!Next
  BY <1>7, ReturnRefines DEF Pool!Next
<1>8. ASSUME NEW t \in Threads, PushFree(t) PROVE Pool!Next
  BY <1>8, GiveRefines DEF Pool!Next
<1>9. ASSUME NEW t \in Threads,
             EnterAllocate(t) \/ EnterDeallocate(t) \/ ReadHead(t) \/ LinkFree(t)
      PROVE  UNCHANGED Pool!vars
  BY <1>9, HiddenStep DEF Pool!vars
<1> QED BY <1>1, <1>2, <1>3, <1>4, <1>5, <1>6, <1>7, <1>8, <1>9 DEF Next, Inside

(* Every call of the proxy takes effect at one instant: whatever the number *)
(* of threads and nodes, the proxy is the atomic BlockPool.                 *)
THEOREM AtomicPoolHolds == Spec => AtomicPool
BY InitRefines, IInvHolds, NextRefines, PTL DEF Spec, AtomicPool, Pool!Spec
=============================================================================
