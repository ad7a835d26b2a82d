-------------------------- MODULE EventQueueProofs ---------------------------
(***************************************************************************)
(* Proofs about event_queue, for any number of threads, events and nodes.  *)
(* The free list of the queue's fixed_allocator and the queue's own list   *)
(* share the links, so that the invariant says both at once: what is on    *)
(* which list, and that each list is whole.                                *)
(***************************************************************************)
EXTENDS EventQueue, ListProofs, TLAPS

Outside == {"idle", "push_enter", "begin_enter"}
Mutual == \A t \in Threads : pc[t] \notin Outside => mutex = t

Protocol ==
    \A t \in Threads :
        /\ pc[t] = "push_pop" => node[t] = free_nodes /\ free_nodes # NULL
        /\ Carrying(t) => node[t] \in nodes

Carried == {node[t] : t \in {u \in Threads : Carrying(u)}}
\* The nodes whose events were accepted.
Kept == ToSet(batch) \cup dropped
Free == nodes \ (Kept \cup Carried)

Apart == ToSet(batch) \cap dropped = {} /\ Carried \cap Kept = {}
ListIntact == ListHolds(Free, Nat)

\* The node a thread pushes ends the list, before and after it is linked.
EndsList(t) == pc[t] \in {"push_link", "push_tail"} => next[node[t]] = NULL
LastLinked ==
    LET n == Len(batch) IN
    n > 0 => /\ (\A t \in Threads : pc[t] # "push_tail") => next[batch[n]] = NULL
             /\ \A t \in Threads : pc[t] = "push_tail" => next[batch[n]] = node[t]
Linked ==
    LET n == Len(batch) IN
    /\ \A i, j \in 1..n : batch[i] = batch[j] => i = j
    /\ \A i \in 1..(n - 1) : next[batch[i]] = batch[i + 1]
    /\ event_node_list_tail = IF n = 0 THEN NULL ELSE batch[n]
    /\ LastLinked
    /\ \A t \in Threads : EndsList(t)

Typed == TypeOK /\ nodes \subseteq Nat
Inv == Typed /\ Mutual /\ Protocol /\ Apart /\ ListIntact /\ Linked

-----------------------------------------------------------------------------
LEMMA NodeNotNull ==
    ASSUME Typed
    PROVE  NULL \notin nodes
<1>1. nodes \subseteq Nat /\ Nat \subseteq Int
  BY DEF Typed
<1>. QED  BY <1>1, NullAssumption

LEMMA BatchTypes ==
    ASSUME Typed
    PROVE  /\ Len(batch) \in Nat /\ DOMAIN batch = 1..Len(batch)
           /\ \A i \in 1..Len(batch) : batch[i] \in nodes /\ batch[i] \in ToSet(batch)
           /\ ToSet(batch) \subseteq nodes
BY DEF Typed, TypeOK, ToSet

\* At most one thread is past the lock.
LEMMA Alone ==
    ASSUME Mutual, NEW t \in Threads, NEW u \in Threads,
           pc[t] \notin Outside, pc[u] \notin Outside
    PROVE  t = u
BY DEF Mutual

\* What a thread does to pc.
LEMMA GotoTypes ==
    ASSUME Typed, NEW t \in Threads, NEW from, NEW to, Goto(t, from, to)
    PROVE  /\ pc[t] = from /\ pc'[t] = to
           /\ \A u \in Threads : u # t => pc'[u] = pc[u]
           /\ to \in Steps => pc' \in [Threads -> Steps]
BY DEF Goto, Typed, TypeOK

(* A thread steps while it owns the mutex, or comes in, or goes out.        *)
LEMMA MutualKept ==
    ASSUME Typed, Mutual, NEW t \in Threads, NEW from, NEW to, Goto(t, from, to),
           \/ from \notin Outside /\ to \notin Outside /\ UNCHANGED mutex
           \/ from \in Outside /\ to \in Outside /\ UNCHANGED mutex
           \/ from \in Outside /\ Lock(t)
           \/ from \notin Outside /\ to \in Outside /\ Unlock(t)
    PROVE  Mutual'
<1>1. /\ pc[t] = from /\ pc'[t] = to
      /\ \A u \in Threads : u # t => pc'[u] = pc[u]
  BY GotoTypes
<1>2. ASSUME NEW u \in Threads, pc'[u] \notin Outside
      PROVE  mutex' = u
  <2>1. CASE u = t
    BY <1>1, <1>2, <2>1 DEF Mutual, Lock
  <2>2. CASE u # t
    <3>1. pc[u] \notin Outside /\ mutex = u /\ u # NULL
      BY <1>1, <1>2, <2>2, ThreadAssumption DEF Mutual
    <3>2. from \in Outside
      BY <1>1, <2>2, <3>1 DEF Mutual
    <3>. QED  BY <2>2, <3>1, <3>2 DEF Lock
  <2>. QED  BY <2>1, <2>2
<1>. QED  BY <1>2 DEF Mutual, Outside

-----------------------------------------------------------------------------
(* Steps that leave the queue and the allocator alone.                      *)

CarriedSteps == {"push_store", "push_link", "push_tail"}

LEMMA Quiet ==
    ASSUME Inv, NEW t \in Threads, NEW from \in Steps, NEW to \in Steps,
           Goto(t, from, to), from \notin CarriedSteps, to \notin CarriedSteps,
           UNCHANGED <<allocatorVars, queueVars>>,
           node' \in [Threads -> nodes \cup {NULL}],
           \A u \in Threads : u # t => node'[u] = node[u],
           to = "push_pop" => node'[t] = free_nodes /\ free_nodes # NULL,
           Mutual', mutex' \in Threads \cup {NULL},
           argument' \in [Threads -> Events \cup {NULL}]
    PROVE  Inv'
<1>1. UNCHANGED <<nodes, free_nodes, next, event, event_node_list_head,
                  event_node_list_tail, batch, dropped>>
  BY DEF allocatorVars, queueVars
<1>2. /\ pc[t] = from /\ pc'[t] = to /\ pc' \in [Threads -> Steps]
      /\ \A u \in Threads : u # t => pc'[u] = pc[u]
  BY GotoTypes DEF Inv
<1>3. Typed'
  BY <1>1, <1>2 DEF Inv, Typed, TypeOK
<1>4. \A u \in Threads : /\ Carrying(u)' <=> Carrying(u)
                         /\ Carrying(u) => u # t /\ node'[u] = node[u]
  BY <1>2 DEF Carrying, CarriedSteps
<1>5. Protocol'
  BY <1>1, <1>2, <1>4 DEF Inv, Protocol
<1>6. Carried' = Carried
  BY <1>4 DEF Carried
<1>7. Kept' = Kept /\ Free' = Free /\ ToSet(batch)' = ToSet(batch)
  BY <1>1, <1>6 DEF Kept, Free
<1>8. Apart' /\ ListIntact'
  BY <1>1, <1>6, <1>7 DEF Inv, Apart, ListIntact, ListHolds, Enumerates
<1>9. Linked'
  <2>1. \A u \in Threads : /\ pc'[u] = "push_tail" <=> pc[u] = "push_tail"
                           /\ pc[u] = "push_tail" => node'[u] = node[u]
                           /\ EndsList(u)'
    BY <1>1, <1>2 DEF Inv, Linked, EndsList, CarriedSteps
  <2>2. LastLinked'
    BY <1>1, <2>1 DEF Inv, Linked, LastLinked
  <2>. QED  BY <1>1, <2>1, <2>2 DEF Inv, Linked
<1>. QED  BY <1>3, <1>5, <1>8, <1>9 DEF Inv

LEMMA CallKeeps ==
    ASSUME Inv, NEW t \in Threads,
           CallBegin(t) \/ \E e \in Events : CallPush(t, e)
    PROVE  Inv'
<1>1. PICK to \in {"push_enter", "begin_enter"} :
          Goto(t, "idle", to) /\ UNCHANGED <<allocatorVars, queueVars, mutex, node>>
  BY DEF CallBegin, CallPush
<1>2. Mutual'
  BY <1>1, MutualKept DEF Inv, Outside
<1>3. argument' \in [Threads -> Events \cup {NULL}]
  BY DEF CallBegin, CallPush, Inv, Typed, TypeOK
<1>. QED  BY <1>1, <1>2, <1>3, Quiet DEF Inv, Typed, TypeOK, Steps, CarriedSteps

LEMMA EnterKeeps ==
    ASSUME Inv, NEW t \in Threads, EnterPush(t) \/ EnterBegin(t)
    PROVE  Inv'
<1>1. \E from \in {"push_enter", "begin_enter"}, to \in {"push_read", "begin_clear"} :
          /\ Goto(t, from, to) /\ Lock(t)
          /\ UNCHANGED <<allocatorVars, queueVars, argument, node>>
  BY DEF EnterPush, EnterBegin
<1>2. PICK from \in {"push_enter", "begin_enter"}, to \in {"push_read", "begin_clear"} :
          /\ Goto(t, from, to) /\ Lock(t)
          /\ UNCHANGED <<allocatorVars, queueVars, argument, node>>
  BY <1>1
<1>3. Mutual' /\ mutex' \in Threads \cup {NULL}
  BY <1>2, MutualKept DEF Inv, Outside, Lock
<1>. QED  BY <1>2, <1>3, Quiet DEF Inv, Typed, TypeOK, Steps, CarriedSteps

LEMMA ReadKeeps ==
    ASSUME Inv, NEW t \in Threads, ReadFree(t) \/ Full(t)
    PROVE  Inv'
<1>1. CASE ReadFree(t)
  <2>1. Goto(t, "push_read", "push_pop") /\ free_nodes # NULL
        /\ node' = [node EXCEPT ![t] = free_nodes]
        /\ UNCHANGED <<allocatorVars, queueVars, mutex, argument>>
    BY <1>1 DEF ReadFree
  <2>2. Mutual'
    BY <2>1, MutualKept DEF Inv, Outside
  <2>3. node' \in [Threads -> nodes \cup {NULL}] /\ node'[t] = free_nodes
        /\ \A u \in Threads : u # t => node'[u] = node[u]
    BY <2>1 DEF Inv, Typed, TypeOK
  <2>. QED  BY <2>1, <2>2, <2>3, Quiet DEF Inv, Typed, TypeOK, Steps, CarriedSteps
<1>2. CASE Full(t)
  <2>1. Goto(t, "push_read", "push_leave")
        /\ UNCHANGED <<allocatorVars, queueVars, mutex, argument, node>>
    BY <1>2 DEF Full
  <2>2. Mutual'
    BY <2>1, MutualKept DEF Inv, Outside
  <2>. QED  BY <2>1, <2>2, Quiet DEF Inv, Typed, TypeOK, Steps, CarriedSteps
<1>. QED  BY <1>1, <1>2

LEMMA ReturnKeeps ==
    ASSUME Inv, NEW t \in Threads, ReturnPush(t) \/ ReturnBegin(t)
    PROVE  Inv'
<1>1. PICK from \in {"push_leave", "begin_leave"} :
          /\ Goto(t, from, "idle") /\ Unlock(t)
          /\ node' = [node EXCEPT ![t] = NULL]
          /\ UNCHANGED <<allocatorVars, queueVars>>
  BY DEF ReturnPush, ReturnBegin
<1>2. Mutual' /\ mutex' \in Threads \cup {NULL}
  BY <1>1, MutualKept DEF Inv, Outside, Unlock
<1>3. node' \in [Threads -> nodes \cup {NULL}]
      /\ \A u \in Threads : u # t => node'[u] = node[u]
  BY <1>1 DEF Inv, Typed, TypeOK
<1>4. argument' \in [Threads -> Events \cup {NULL}]
  BY DEF ReturnPush, ReturnBegin, Inv, Typed, TypeOK
<1>. QED  BY <1>1, <1>2, <1>3, <1>4, Quiet DEF Inv, Typed, TypeOK, Steps, CarriedSteps

-----------------------------------------------------------------------------
(* Steps that move nodes between the lists.                                 *)

\* The others carry nothing while a thread is past the lock.
LEMMA OthersOutside ==
    ASSUME Inv, NEW t \in Threads, pc[t] \notin Outside,
           NEW u \in Threads, u # t
    PROVE  pc[u] \in Outside /\ pc[u] \notin CarriedSteps /\ ~Carrying(u)
BY Alone DEF Inv, Outside, CarriedSteps, Carrying

\* What is carried, when only t can carry.
LEMMA CarriedIs ==
    ASSUME NEW t \in Threads, \A u \in Threads : u # t => ~Carrying(u)
    PROVE  /\ Carrying(t) => Carried = {node[t]}
           /\ ~Carrying(t) => Carried = {}
BY DEF Carried

\* The head of the free list goes to the thread.
LEMMA PopKeeps ==
    ASSUME Inv, NEW t \in Threads, PopFree(t)
    PROVE  Inv'
<1>1. /\ Goto(t, "push_pop", "push_store") /\ Pop(node[t])
      /\ UNCHANGED <<queueVars, mutex, argument, node>>
  BY DEF PopFree
<1>2. /\ pc[t] = "push_pop" /\ pc'[t] = "push_store" /\ pc' \in [Threads -> Steps]
      /\ \A u \in Threads : u # t => pc'[u] = pc[u]
  BY <1>1, GotoTypes DEF Inv, Steps
<1>3. /\ node[t] = free_nodes /\ free_nodes # NULL /\ Pop(free_nodes)
      /\ nodes' = nodes /\ next' = next
  BY <1>1, <1>2 DEF Inv, Protocol, Pop
<1>4. \A u \in Threads : u # t => pc[u] \in Outside /\ ~Carrying(u) /\ ~Carrying(u)'
  BY <1>2, OthersOutside DEF Outside, CarriedSteps, Carrying
<1>5. ~Carrying(t) /\ Carrying(t)' /\ node' = node
  BY <1>1, <1>2 DEF Carrying
<1>6. Carried = {} /\ Carried' = {free_nodes}
  <2>1. Carried = {}
    BY <1>4, <1>5, CarriedIs
  <2>2. Carried' = {node[t]}
    BY <1>4, <1>5 DEF Carried
  <2>. QED  BY <1>3, <2>1, <2>2
<1>7. PICK F : F = Free
  OBVIOUS
<1>8. PICK G : G = F \ {free_nodes}
  OBVIOUS
<1>9. nodes \subseteq Nat /\ F \subseteq nodes /\ ListHolds(F, Nat)
  BY <1>7 DEF Inv, Typed, Free, ListIntact
<1>10. free_nodes \in F
  BY <1>3, <1>9, ListHead
<1>11. ListHolds(G, Nat)' /\ free_nodes' \in G \cup {NULL}
  BY <1>3, <1>8, <1>9, ListPop
<1>12. UNCHANGED <<event, event_node_list_head, event_node_list_tail, batch, dropped>>
  BY <1>1 DEF queueVars
<1>13. Typed'
  BY <1>1, <1>2, <1>3, <1>8, <1>9, <1>11, <1>12 DEF Inv, Typed, TypeOK
<1>14. Mutual'
  BY <1>1, MutualKept DEF Inv, Outside
<1>15. Protocol'
  BY <1>2, <1>3, <1>4, <1>5, <1>9, <1>10 DEF Protocol, Outside
<1>16. Kept' = Kept /\ ToSet(batch)' = ToSet(batch)
  BY <1>12 DEF Kept
<1>17. Free' = G
  BY <1>3, <1>6, <1>7, <1>8, <1>16 DEF Free
<1>18. Apart' /\ ListIntact'
  BY <1>6, <1>7, <1>10, <1>11, <1>12, <1>16, <1>17 DEF Inv, Apart, ListIntact, Free
<1>19. Linked'
  <2>1. \A u \in Threads : EndsList(u)'
    BY <1>2, <1>4 DEF EndsList, Outside
  <2>2. LastLinked'
    <3>1. \A u \in Threads : pc[u] # "push_tail" /\ pc'[u] # "push_tail"
      BY <1>2, <1>4 DEF Outside
    <3>. QED  BY <1>3, <1>12, <3>1 DEF Inv, Linked, LastLinked
  <2>. QED  BY <1>3, <1>12, <2>1, <2>2 DEF Inv, Linked
<1>. QED  BY <1>13, <1>14, <1>15, <1>18, <1>19 DEF Inv

\* A thread that carries a node, and goes on carrying it: writing a link of
\* a node that is not free leaves the free list alone.
LEMMA Carries ==
    ASSUME Inv, NEW t \in Threads, NEW from \in CarriedSteps, NEW to \in CarriedSteps,
           Goto(t, from, to), NEW a \in nodes, a \notin Free, NEW w \in nodes \cup {NULL},
           \/ next' = [next EXCEPT ![a] = w]
           \/ next' = next,
           UNCHANGED <<nodes, free_nodes, mutex, argument, node, event_node_list_head,
                       event_node_list_tail, batch, dropped>>,
           event' \in [nodes -> Events \cup {NULL}]
    PROVE  Typed' /\ Mutual' /\ Protocol' /\ Apart' /\ ListIntact'
<1>1. /\ pc[t] = from /\ pc'[t] = to /\ pc' \in [Threads -> Steps]
      /\ \A u \in Threads : u # t => pc'[u] = pc[u]
  BY GotoTypes DEF Inv, CarriedSteps, Steps
<1>2. Typed'
  BY <1>1 DEF Inv, Typed, TypeOK
<1>3. Mutual'
  BY MutualKept DEF Inv, Outside, CarriedSteps
<1>4. \A u \in Threads : Carrying(u)' <=> Carrying(u)
  BY <1>1 DEF Carrying, CarriedSteps
<1>5. Protocol'
  BY <1>1, <1>4 DEF Inv, Protocol, CarriedSteps
<1>6. Carried' = Carried /\ Kept' = Kept /\ ToSet(batch)' = ToSet(batch)
  BY <1>4 DEF Carried, Kept
<1>7. Free' = Free /\ Apart'
  BY <1>6 DEF Inv, Free, Apart
<1>8. PICK F : F = Free
  OBVIOUS
<1>9. F \subseteq nodes /\ ListHolds(F, Nat) /\ a \notin F
  BY <1>8 DEF Inv, Free, ListIntact
<1>10. \A b \in F : next'[b] = next[b]
  BY <1>9 DEF Inv, Typed, TypeOK
<1>11. ListHolds(F, Nat)'
  BY <1>9, <1>10, ListKept
<1>12. ListIntact'
  BY <1>7, <1>8, <1>11 DEF ListIntact
<1>. QED  BY <1>2, <1>3, <1>5, <1>7, <1>12

\* A carried node is on neither list.
LEMMA CarriedNode ==
    ASSUME Inv, NEW t \in Threads, pc[t] \in CarriedSteps
    PROVE  /\ node[t] \in nodes /\ node[t] \notin Free /\ node[t] \notin Kept
           /\ node[t] # NULL
           /\ \A i \in 1..Len(batch) : batch[i] # node[t]
<1>1. Carrying(t) /\ node[t] \in nodes /\ node[t] \in Carried
  BY DEF Inv, Protocol, Carrying, CarriedSteps, Carried
<1>2. node[t] \notin Free /\ node[t] \notin Kept
  BY <1>1 DEF Inv, Apart, Free
<1>3. \A i \in 1..Len(batch) : batch[i] \in Kept
  BY BatchTypes DEF Inv, Kept
<1>. QED  BY <1>1, <1>2, <1>3, NodeNotNull DEF Inv

LEMMA StoreKeeps ==
    ASSUME Inv, NEW t \in Threads, StoreEvent(t)
    PROVE  Inv'
<1>1. /\ Goto(t, "push_store", "push_link") /\ next' = [next EXCEPT ![node[t]] = NULL]
      /\ event' = [event EXCEPT ![node[t]] = argument[t]]
      /\ UNCHANGED <<nodes, free_nodes, mutex, argument, node, event_node_list_head,
                     event_node_list_tail, batch, dropped>>
  BY DEF StoreEvent, ClearLink
<1>2. /\ pc[t] = "push_store" /\ pc'[t] = "push_link"
      /\ \A u \in Threads : u # t => pc'[u] = pc[u]
  BY <1>1, GotoTypes DEF Inv
<1>3. /\ node[t] \in nodes /\ node[t] \notin Free
      /\ \A i \in 1..Len(batch) : batch[i] # node[t]
  BY <1>2, CarriedNode DEF CarriedSteps
<1>4. event' \in [nodes -> Events \cup {NULL}]
  BY <1>1 DEF Inv, Typed, TypeOK
<1>5. Typed' /\ Mutual' /\ Protocol' /\ Apart' /\ ListIntact'
  BY <1>1, <1>3, <1>4, Carries DEF CarriedSteps
<1>6. Linked'
  <2>1. /\ next'[node[t]] = NULL
        /\ \A i \in 1..Len(batch) : next'[batch[i]] = next[batch[i]]
    BY <1>1, <1>3, BatchTypes DEF Inv, Typed, TypeOK
  <2>2. \A u \in Threads : u # t => pc[u] \in Outside
    BY <1>2, OthersOutside DEF Outside
  <2>3. \A u \in Threads : EndsList(u)'
    BY <1>1, <1>2, <2>1, <2>2 DEF EndsList, Outside
  <2>4. \A u \in Threads : pc[u] # "push_tail" /\ pc'[u] # "push_tail"
    BY <1>2, <2>2 DEF Outside
  <2>5. Len(batch) \in Nat /\ (Len(batch) > 0 => Len(batch) \in 1..Len(batch))
    BY BatchTypes DEF Inv
  <2>6. LastLinked'
    BY <1>1, <2>1, <2>4, <2>5 DEF Inv, Linked, LastLinked
  <2>7. \A i \in 1..(Len(batch) - 1) : next'[batch[i]] = batch[i + 1]
    <3>1. \A i \in 1..(Len(batch) - 1) : i \in 1..Len(batch)
      BY <2>5
    <3>. QED  BY <2>1, <3>1 DEF Inv, Linked
  <2>. QED  BY <1>1, <2>3, <2>6, <2>7 DEF Inv, Linked
<1>. QED  BY <1>5, <1>6 DEF Inv

LEMMA LinkKeeps ==
    ASSUME Inv, NEW t \in Threads, LinkTail(t)
    PROVE  Inv'
<1>. DEFINE n == Len(batch)
<1>1. /\ Goto(t, "push_link", "push_tail")
      /\ next' = IF event_node_list_tail = NULL THEN next
                 ELSE [next EXCEPT ![event_node_list_tail] = node[t]]
      /\ UNCHANGED <<nodes, free_nodes, mutex, argument, node, event,
                     event_node_list_head, event_node_list_tail, batch, dropped>>
  BY DEF LinkTail, queueVars
<1>2. /\ pc[t] = "push_link" /\ pc'[t] = "push_tail"
      /\ \A u \in Threads : u # t => pc'[u] = pc[u]
  BY <1>1, GotoTypes DEF Inv
<1>3. /\ node[t] \in nodes /\ node[t] \notin Free
      /\ \A i \in 1..n : batch[i] # node[t]
  BY <1>2, CarriedNode DEF CarriedSteps
<1>4. n \in Nat /\ \A i \in 1..n : batch[i] \in nodes /\ batch[i] \notin Free
  BY BatchTypes DEF Inv, Free, Kept
<1>5. /\ n = 0 => event_node_list_tail = NULL
      /\ n > 0 => event_node_list_tail = batch[n] /\ batch[n] # NULL /\ n \in 1..n
  <2>1. event_node_list_tail = IF n = 0 THEN NULL ELSE batch[n]
    BY DEF Inv, Linked
  <2>2. n > 0 => n \in 1..n
    BY <1>4
  <2>. QED  BY <1>4, <2>1, <2>2, NodeNotNull DEF Inv
<1>6. event' \in [nodes -> Events \cup {NULL}]
  BY <1>1 DEF Inv, Typed, TypeOK
<1>7. Typed' /\ Mutual' /\ Protocol' /\ Apart' /\ ListIntact'
  <2>1. CASE n = 0
    BY <1>1, <1>3, <1>5, <1>6, <2>1, Carries DEF CarriedSteps
  <2>2. CASE n > 0
    BY <1>1, <1>3, <1>4, <1>5, <1>6, <2>2, Carries DEF CarriedSteps
  <2>. QED  BY <1>4, <2>1, <2>2
<1>8. \A u \in Threads : u # t => pc[u] \in Outside /\ pc'[u] \in Outside
  BY <1>2, OthersOutside DEF Outside
<1>9. next[node[t]] = NULL
  BY <1>2 DEF Inv, Linked, EndsList
<1>10. Linked'
  <2>1. /\ next'[node[t]] = NULL
        /\ n > 0 => next'[batch[n]] = node[t]
        /\ \A i \in 1..n : i # n => next'[batch[i]] = next[batch[i]]
    <3>1. CASE n = 0
      BY <1>1, <1>5, <1>9, <3>1
    <3>2. CASE n > 0
      <4>1. next' = [next EXCEPT ![batch[n]] = node[t]]
        BY <1>1, <1>5, <3>2
      <4>2. next \in [nodes -> nodes \cup {NULL}] /\ batch[n] \in nodes
        BY <1>4, <1>5, <3>2 DEF Inv, Typed, TypeOK
      <4>3. \A i \in 1..n : i # n => batch[i] # batch[n]
        BY <1>5, <3>2 DEF Inv, Linked
      <4>. QED  BY <1>3, <1>4, <1>5, <1>9, <3>2, <4>1, <4>2, <4>3
    <3>. QED  BY <1>4, <3>1, <3>2
  <2>2. \A u \in Threads : EndsList(u)'
    BY <1>1, <1>2, <1>8, <2>1 DEF EndsList, Outside
  <2>3. LastLinked'
    BY <1>1, <1>2, <1>8, <2>1 DEF LastLinked, Outside
  <2>4. \A i \in 1..(n - 1) : next'[batch[i]] = batch[i + 1]
    <3>1. \A i \in 1..(n - 1) : i \in 1..n /\ i # n
      BY <1>4
    <3>. QED  BY <2>1, <3>1 DEF Inv, Linked
  <2>. QED  BY <1>1, <2>2, <2>3, <2>4 DEF Inv, Linked
<1>. QED  BY <1>7, <1>10 DEF Inv

\* A sequence with one more element.
LEMMA Appended ==
    ASSUME NEW S, NEW s \in Seq(S), NEW a \in S
    PROVE  LET longer == Append(s, a)
               n == Len(s) IN
           /\ longer \in Seq(S) /\ Len(longer) = n + 1 /\ n \in Nat
           /\ \A i \in 1..n : longer[i] = s[i]
           /\ longer[n + 1] = a
           /\ ToSet(longer) = ToSet(s) \cup {a}
<1>. DEFINE longer == Append(s, a)
            n == Len(s)
<1>1. /\ longer \in Seq(S) /\ Len(longer) = n + 1 /\ n \in Nat
      /\ \A i \in 1..n : longer[i] = s[i]
      /\ longer[n + 1] = a
  OBVIOUS
<1>2. ToSet(longer) = {longer[i] : i \in 1..(n + 1)} /\ ToSet(s) = {s[i] : i \in 1..n}
  BY <1>1 DEF ToSet
<1>3. 1..(n + 1) = 1..n \cup {n + 1}
  BY <1>1
<1>4. ToSet(longer) = ToSet(s) \cup {a}
  BY <1>1, <1>2, <1>3
<1>. QED  BY <1>1, <1>4

LEMMA SetTailKeeps ==
    ASSUME Inv, NEW t \in Threads, SetTail(t)
    PROVE  Inv'
<1>. DEFINE n == Len(batch)
<1>1. /\ Goto(t, "push_tail", "push_leave")
      /\ event_node_list_tail' = node[t]
      /\ batch' = Append(batch, node[t])
      /\ UNCHANGED <<nodes, free_nodes, next, mutex, argument, node, event,
                     event_node_list_head, dropped>>
  BY DEF SetTail, allocatorVars
<1>2. /\ pc[t] = "push_tail" /\ pc'[t] = "push_leave" /\ pc' \in [Threads -> Steps]
      /\ \A u \in Threads : u # t => pc'[u] = pc[u]
  BY <1>1, GotoTypes DEF Inv, Steps
<1>3. /\ node[t] \in nodes /\ node[t] \notin Free /\ node[t] \notin Kept
      /\ \A i \in 1..n : batch[i] # node[t]
  BY <1>2, CarriedNode DEF CarriedSteps
<1>4. \A u \in Threads : u # t => pc[u] \in Outside /\ ~Carrying(u) /\ ~Carrying(u)'
  BY <1>2, OthersOutside DEF Outside, CarriedSteps, Carrying
<1>5. /\ batch' \in Seq(nodes) /\ Len(batch)' = n + 1 /\ n \in Nat
      /\ \A i \in 1..n : batch'[i] = batch[i]
      /\ batch'[n + 1] = node[t]
      /\ ToSet(batch)' = ToSet(batch) \cup {node[t]}
  BY <1>1, <1>3, Appended DEF Inv, Typed, TypeOK
<1>6. Typed'
  BY <1>1, <1>2, <1>3, <1>5 DEF Inv, Typed, TypeOK
<1>7. Mutual'
  BY <1>1, MutualKept DEF Inv, Outside
<1>8. Protocol'
  BY <1>2, <1>4 DEF Protocol, Outside, Carrying
<1>9. Carried = {node[t]} /\ Carried' = {}
  <2>1. Carrying(t) /\ ~Carrying(t)'
    BY <1>2 DEF Carrying
  <2>2. Carried' = {}
    BY <1>4, <2>1 DEF Carried
  <2>. QED  BY <1>4, <2>1, <2>2, CarriedIs
<1>10. Kept' = Kept \cup {node[t]}
  BY <1>1, <1>5 DEF Kept
<1>11. Free' = Free
  BY <1>1, <1>9, <1>10 DEF Free
<1>12. Apart'
  BY <1>1, <1>3, <1>5, <1>9 DEF Inv, Apart, Kept
<1>13. ListIntact'
  BY <1>1, <1>11 DEF Inv, ListIntact, ListHolds, Enumerates
<1>14. Linked'
  <2>1. \A i, j \in 1..(n + 1) : batch'[i] = batch'[j] => i = j
    <3>1. \A i \in 1..(n + 1) : i \in 1..n \/ i = n + 1
      BY <1>5
    <3>. QED  BY <1>3, <1>5, <3>1 DEF Inv, Linked
  <2>2. \A i \in 1..n : next[batch[i]] = batch'[i + 1]
    <3>1. ASSUME NEW i \in 1..n
          PROVE  next[batch[i]] = batch'[i + 1]
      <4>1. CASE i = n
        <5>1. n > 0
          BY <1>5, <4>1
        <5>. QED  BY <1>2, <1>5, <4>1, <5>1 DEF Inv, Linked, LastLinked
      <4>2. CASE i # n
        <5>1. i \in 1..(n - 1) /\ i + 1 \in 1..n
          BY <1>5, <4>2
        <5>. QED  BY <1>5, <5>1 DEF Inv, Linked
      <4>. QED  BY <4>1, <4>2
    <3>. QED  BY <3>1
  <2>3. \A i \in 1..(Len(batch') - 1) : next'[batch'[i]] = batch'[i + 1]
    BY <1>1, <1>5, <2>2
  <2>4. next[node[t]] = NULL
    BY <1>2 DEF Inv, Linked, EndsList
  <2>5. LastLinked'
    BY <1>1, <1>2, <1>4, <1>5, <2>4 DEF LastLinked, Outside
  <2>6. \A u \in Threads : EndsList(u)'
    BY <1>2, <1>4 DEF EndsList, Outside
  <2>7. event_node_list_tail' = IF Len(batch') = 0 THEN NULL ELSE batch'[Len(batch')]
    BY <1>1, <1>5
  <2>. QED  BY <1>5, <2>1, <2>3, <2>5, <2>6, <2>7 DEF Linked
<1>. QED  BY <1>6, <1>7, <1>8, <1>12, <1>13, <1>14 DEF Inv

LEMMA ClearKeeps ==
    ASSUME Inv, NEW t \in Threads, Clear(t)
    PROVE  Inv'
<1>1. /\ Goto(t, "begin_clear", "begin_leave")
      /\ node' = [node EXCEPT ![t] = event_node_list_head]
      /\ event_node_list_head' = NULL /\ event_node_list_tail' = NULL
      /\ dropped' = dropped \cup ToSet(batch) /\ batch' = <<>>
      /\ UNCHANGED <<nodes, free_nodes, next, mutex, argument, event>>
  BY DEF Clear, ClearList, allocatorVars
<1>2. /\ pc[t] = "begin_clear" /\ pc'[t] = "begin_leave" /\ pc' \in [Threads -> Steps]
      /\ \A u \in Threads : u # t => pc'[u] = pc[u]
  BY <1>1, GotoTypes DEF Inv, Steps
<1>3. \A u \in Threads : u # t => pc[u] \in Outside /\ ~Carrying(u) /\ ~Carrying(u)'
  BY <1>2, OthersOutside DEF Outside, CarriedSteps, Carrying
<1>4. ~Carrying(t) /\ ~Carrying(t)'
  BY <1>2 DEF Carrying
<1>5. Len(batch') = 0 /\ ToSet(batch') = {} /\ batch' \in Seq(nodes)
  BY <1>1 DEF ToSet
<1>6. node' \in [Threads -> nodes \cup {NULL}] /\ ToSet(batch) \subseteq nodes
  BY <1>1, BatchTypes DEF Inv, Typed, TypeOK
<1>7. Typed'
  BY <1>1, <1>2, <1>5, <1>6 DEF Inv, Typed, TypeOK
<1>8. Mutual'
  BY <1>1, MutualKept DEF Inv, Outside
<1>9. Protocol'
  BY <1>2, <1>3, <1>4 DEF Protocol, Outside
<1>10. Carried = {} /\ Carried' = {}
  <2>1. Carried' = {}
    BY <1>3, <1>4 DEF Carried
  <2>. QED  BY <1>3, <1>4, <2>1, CarriedIs
<1>11. Kept' = Kept
  BY <1>1, <1>5 DEF Kept
<1>12. Free' = Free
  BY <1>1, <1>10, <1>11 DEF Free
<1>13. Apart'
  BY <1>5, <1>10 DEF Apart
<1>14. ListIntact'
  BY <1>1, <1>12 DEF Inv, ListIntact, ListHolds, Enumerates
<1>15. Linked'
  <2>1. \A u \in Threads : EndsList(u)'
    BY <1>2, <1>3 DEF EndsList, Outside
  <2>2. LastLinked'
    BY <1>5 DEF LastLinked
  <2>. QED  BY <1>1, <1>5, <2>1, <2>2 DEF Linked
<1>. QED  BY <1>7, <1>8, <1>9, <1>13, <1>14, <1>15 DEF Inv

-----------------------------------------------------------------------------
LEMMA InitInv == Init => Inv
<1>. SUFFICES ASSUME Init PROVE Inv
  OBVIOUS
<1>1. /\ nodes \subseteq Nat /\ free_nodes \in nodes \cup {NULL}
      /\ next \in [nodes -> nodes \cup {NULL}] /\ ListHolds(nodes, Nat)
  BY AllocatorInitList DEF Init
<1>2. ToSet(batch) = {} /\ Len(batch) = 0 /\ batch \in Seq(nodes)
  BY DEF Init, ToSet
<1>3. Typed
  BY <1>1, <1>2 DEF Init, Typed, TypeOK, Steps
<1>4. Mutual /\ Protocol
  BY DEF Init, Mutual, Protocol, Outside, Carrying
<1>5. Carried = {} /\ Kept = {} /\ Free = nodes
  BY <1>2 DEF Init, Carried, Carrying, Kept, Free
<1>6. Apart /\ ListIntact
  BY <1>1, <1>2, <1>5 DEF Apart, ListIntact
<1>7. Linked
  BY <1>2 DEF Init, Linked, LastLinked, EndsList
<1>. QED  BY <1>3, <1>4, <1>6, <1>7 DEF Inv

LEMMA NextKeeps == Inv /\ [Next]_vars => Inv'
<1>. SUFFICES ASSUME Inv, [Next]_vars PROVE Inv'
  OBVIOUS
<1>1. CASE UNCHANGED vars
  <2>1. UNCHANGED <<nodes, free_nodes, next, mutex, pc, argument, node, event,
                    event_node_list_head, event_node_list_tail, batch, dropped>>
    BY <1>1 DEF vars
  <2>2. \A t \in Threads : Carrying(t)' <=> Carrying(t)
    BY <2>1 DEF Carrying
  <2>3. Typed' /\ Mutual' /\ Protocol'
    BY <2>1, <2>2 DEF Inv, Typed, TypeOK, Mutual, Protocol
  <2>4. Carried' = Carried /\ Kept' = Kept /\ ToSet(batch)' = ToSet(batch)
    BY <2>1, <2>2 DEF Carried, Kept
  <2>5. Apart' /\ ListIntact'
    BY <2>1, <2>4 DEF Inv, Apart, ListIntact, Free, ListHolds, Enumerates
  <2>6. Linked'
    BY <2>1 DEF Inv, Linked, LastLinked, EndsList
  <2>. QED  BY <2>3, <2>5, <2>6 DEF Inv
<1>2. CASE Next
  BY <1>2, CallKeeps, EnterKeeps, ReadKeeps, PopKeeps, StoreKeeps, LinkKeeps,
     SetTailKeeps, ReturnKeeps, ClearKeeps DEF Next
<1>. QED  BY <1>1, <1>2

\* The two lists share the nodes and their links without disturbing each other.
THEOREM InvHolds == Spec => []Inv
<1>. QED  BY InitInv, NextKeeps, PTL DEF Spec

LEMMA InvLinked ==
    ASSUME Inv
    PROVE  BatchLinked
<1>. DEFINE n == Len(batch)
<1>1. n \in Nat /\ DOMAIN batch = 1..n
  BY BatchTypes DEF Inv
<1>2. IsInjective(batch)
  BY <1>1 DEF Inv, Linked, IsInjective
<1>3. n > 0 => \/ next[batch[n]] = NULL
               \/ \E t \in Threads : pc[t] = "push_tail" /\ next[batch[n]] = node[t]
  BY DEF Inv, Linked, LastLinked
<1>. QED  BY <1>2, <1>3 DEF Inv, Linked, BatchLinked

(* The nodes pushed since the last begin() hang together in order: no other *)
(* push, and no use of the free list through the same links, loses one.     *)
THEOREM BatchLinkedHolds == Spec => []BatchLinked
<1>. QED  BY InvHolds, InvLinked, PTL

(* Every node is in one place, and the free list holds exactly the rest.    *)
THEOREM NodesAccountedHolds == Spec => []NodesAccounted
<1>1. Init => IsFiniteSet(nodes)
  BY InitFinite DEF Init
<1>2. ASSUME IsFiniteSet(nodes), Inv, [Next]_vars
      PROVE  IsFiniteSet(nodes)'
  <2>1. nodes' = nodes
    BY <1>2 DEF Next, vars, allocatorVars, CallPush, EnterPush, ReadFree, PopFree, Full,
       StoreEvent, LinkTail, SetTail, ReturnPush, CallBegin, EnterBegin, Clear,
       ReturnBegin, Pop
  <2>. QED  BY <1>2, <2>1
<1>3. ASSUME IsFiniteSet(nodes), Inv
      PROVE  NodesAccounted
  <2>1. \A t, u \in Threads : Carrying(t) /\ Carrying(u) => t = u
    BY <1>3, Alone DEF Inv, Carrying, Outside
  <2>2. PICK F : F = Free
    OBVIOUS
  <2>3. ListHolds(F, 0..Cardinality(nodes))
    BY <1>3, <2>2, ListBounded DEF Inv, ListIntact
  <2>4. ListHolds(nodes \ (ToSet(batch) \cup dropped \cup Carried), 0..Cardinality(nodes))
    BY <2>2, <2>3 DEF Free, Kept
  <2>5. /\ Carried \cap ToSet(batch) = {}
        /\ (Carried \cup ToSet(batch)) \cap dropped = {}
    BY <1>3 DEF Inv, Apart, Kept
  <2>. QED  BY <2>1, <2>4, <2>5 DEF NodesAccounted, Carried
<1>. QED  BY <1>1, <1>2, <1>3, InvHolds, PTL DEF Spec

(* An accepted event stays as it was pushed: what a push writes is a node   *)
(* that neither a linked nor a cut-off event occupies.                      *)
THEOREM AcceptedKeptHolds == Spec => AcceptedKept
<1>1. ASSUME Inv, [Next]_vars
      PROVE  [\A a \in ToSet(batch) \cup dropped : event'[a] = event[a]]_vars
  <2>1. ASSUME NEW t \in Threads, StoreEvent(t), NEW a \in ToSet(batch) \cup dropped
        PROVE  event'[a] = event[a]
    <3>1. pc[t] \in CarriedSteps /\ event' = [event EXCEPT ![node[t]] = argument[t]]
      BY <2>1 DEF StoreEvent, Goto, CarriedSteps
    <3>2. a # node[t]
      BY <1>1, <2>1, <3>1, CarriedNode DEF Kept
    <3>3. a \in nodes
      BY <1>1, <2>1, BatchTypes DEF Inv, Typed, TypeOK
    <3>. QED  BY <1>1, <3>1, <3>2, <3>3 DEF Inv, Typed, TypeOK
  <2>2. \/ event' = event
        \/ \E t \in Threads : StoreEvent(t)
    BY <1>1 DEF Next, vars, queueVars, CallPush, EnterPush, ReadFree, PopFree, Full,
       LinkTail, SetTail, ReturnPush, CallBegin, EnterBegin, Clear, ReturnBegin
  <2>. QED  BY <2>1, <2>2
<1>. QED  BY <1>1, InvHolds, PTL DEF Spec, AcceptedKept
=============================================================================
