----------------------------- MODULE EventQueue -----------------------------
(***************************************************************************)
(* holo::event_queue: threads push events to a queue that one consumer     *)
(* empties with begin().  The nodes come from the queue's own              *)
(* fixed_allocator, whose free list and the queue's list share the first   *)
(* word of a node (module FixedAllocator's next); the queue's mutex guards *)
(* both.                                                                   *)
(*                                                                         *)
(* batch and dropped are history: the nodes linked since the last begin(), *)
(* in order, and the nodes earlier calls of begin() cut off.  push never   *)
(* sets the head that begin() makes an iterator of, so there is nothing to *)
(* iterate, and the iterator's increment and dispose never run.            *)
(***************************************************************************)
EXTENDS FixedAllocator, SequencesExt

CONSTANTS
    Threads,
    Events    \* the events threads push

ASSUME ThreadAssumption == NULL \notin Threads \cup Events

VARIABLES
    mutex,    \* the thread that holds the queue's mutex, or NULL
    pc,       \* where each thread is in push or begin
    argument, \* the event a thread pushes
    node,     \* the node a thread has: being pushed, or begin()'s iterator
    event,    \* the event stored in each node
    event_node_list_head,
    event_node_list_tail,
    batch,
    dropped

queueVars == <<event, event_node_list_head, event_node_list_tail, batch, dropped>>
vars == <<nodes, free_nodes, next, mutex, pc, argument, node, event,
          event_node_list_head, event_node_list_tail, batch, dropped>>

Steps == {"idle", "push_enter", "push_read", "push_pop", "push_store", "push_link",
          "push_tail", "push_leave", "begin_enter", "begin_clear", "begin_leave"}

TypeOK ==
    /\ free_nodes \in nodes \cup {NULL}
    /\ next \in [nodes -> nodes \cup {NULL}]
    /\ mutex \in Threads \cup {NULL}
    /\ pc \in [Threads -> Steps]
    /\ argument \in [Threads -> Events \cup {NULL}]
    /\ node \in [Threads -> nodes \cup {NULL}]
    /\ event \in [nodes -> Events \cup {NULL}]
    /\ event_node_list_head \in nodes \cup {NULL}
    /\ event_node_list_tail \in nodes \cup {NULL}
    /\ batch \in Seq(nodes)
    /\ dropped \subseteq nodes

Init ==
    /\ AllocatorInit
    /\ mutex = NULL
    /\ pc = [t \in Threads |-> "idle"]
    /\ argument = [t \in Threads |-> NULL]
    /\ node = [t \in Threads |-> NULL]
    /\ event = [a \in nodes |-> NULL]
    /\ event_node_list_head = NULL
    /\ event_node_list_tail = NULL
    /\ batch = <<>> /\ dropped = {}

Goto(t, from, to) == pc[t] = from /\ pc' = [pc EXCEPT ![t] = to]

\* Bug: push does not lock.
LockOnlyBegin(t) ==
    IF pc[t] = "begin_enter" THEN mutex = NULL /\ mutex' = t ELSE UNCHANGED mutex
\* The constructor of scoped_lock, and its destructor.
Lock(t) == mutex = NULL /\ mutex' = t
Unlock(t) == mutex' = NULL

-----------------------------------------------------------------------------
(* push.                                                                    *)

CallPush(t, e) ==
    /\ Goto(t, "idle", "push_enter")
    /\ argument' = [argument EXCEPT ![t] = e]
    /\ UNCHANGED <<allocatorVars, queueVars, mutex, node>>

EnterPush(t) ==
    /\ Goto(t, "push_enter", "push_read")
    /\ Lock(t)
    /\ UNCHANGED <<allocatorVars, queueVars, argument, node>>

\* allocator.construct: the head of the free list is read, and popped.
ReadFree(t) ==
    /\ free_nodes # NULL
    /\ Goto(t, "push_read", "push_pop")
    /\ node' = [node EXCEPT ![t] = free_nodes]
    /\ UNCHANGED <<allocatorVars, queueVars, mutex, argument>>

PopFree(t) ==
    /\ Goto(t, "push_pop", "push_store")
    /\ Pop(node[t])
    /\ UNCHANGED <<queueVars, mutex, argument, node>>

\* No node is left: push returns false.
Full(t) ==
    /\ free_nodes = NULL
    /\ Goto(t, "push_read", "push_leave")
    /\ UNCHANGED <<allocatorVars, queueVars, mutex, argument, node>>

\* node->next = nullptr
ClearLink(t) == [next EXCEPT ![node[t]] = NULL]

StoreEvent(t) ==
    /\ Goto(t, "push_store", "push_link")
    /\ next' = ClearLink(t)
    /\ event' = [event EXCEPT ![node[t]] = argument[t]]
    /\ UNCHANGED <<nodes, free_nodes, mutex, argument, node, event_node_list_head,
                   event_node_list_tail, batch, dropped>>

LinkTail(t) ==
    /\ Goto(t, "push_link", "push_tail")
    /\ next' = IF event_node_list_tail = NULL THEN next
               ELSE [next EXCEPT ![event_node_list_tail] = node[t]]
    /\ UNCHANGED <<nodes, free_nodes, mutex, argument, node, queueVars>>

\* The new node becomes the tail; the head is never set.
SetTail(t) ==
    /\ Goto(t, "push_tail", "push_leave")
    /\ event_node_list_tail' = node[t]
    /\ batch' = Append(batch, node[t])
    /\ UNCHANGED <<allocatorVars, mutex, argument, node, event,
                   event_node_list_head, dropped>>

ReturnPush(t) ==
    /\ Goto(t, "push_leave", "idle")
    /\ Unlock(t)
    /\ node' = [node EXCEPT ![t] = NULL]
    /\ argument' = [argument EXCEPT ![t] = NULL]
    /\ UNCHANGED <<allocatorVars, queueVars>>

-----------------------------------------------------------------------------
(* begin.                                                                   *)

CallBegin(t) ==
    /\ Goto(t, "idle", "begin_enter")
    /\ UNCHANGED <<allocatorVars, queueVars, mutex, argument, node>>

EnterBegin(t) ==
    /\ Goto(t, "begin_enter", "begin_clear")
    /\ Lock(t)
    /\ UNCHANGED <<allocatorVars, queueVars, argument, node>>

\* Bug: only the head is reset.
ClearHeadOnly == event_node_list_head' = NULL /\ UNCHANGED event_node_list_tail
\* event_node_list_head = event_node_list_tail = nullptr
ClearList == event_node_list_head' = NULL /\ event_node_list_tail' = NULL

\* The iterator starts at the head, and the list starts anew.
Clear(t) ==
    /\ Goto(t, "begin_clear", "begin_leave")
    /\ node' = [node EXCEPT ![t] = event_node_list_head]
    /\ ClearList
    /\ dropped' = dropped \cup ToSet(batch)
    /\ batch' = <<>>
    /\ UNCHANGED <<allocatorVars, mutex, argument, event>>

ReturnBegin(t) ==
    /\ Goto(t, "begin_leave", "idle")
    /\ Unlock(t)
    /\ node' = [node EXCEPT ![t] = NULL]
    /\ UNCHANGED <<allocatorVars, queueVars, argument>>

Next ==
    \E t \in Threads :
        \/ \E e \in Events : CallPush(t, e)
        \/ EnterPush(t) \/ ReadFree(t) \/ PopFree(t) \/ Full(t)
        \/ StoreEvent(t) \/ LinkTail(t) \/ SetTail(t) \/ ReturnPush(t)
        \/ CallBegin(t) \/ EnterBegin(t) \/ Clear(t) \/ ReturnBegin(t)

Spec == Init /\ [][Next]_vars

-----------------------------------------------------------------------------
\* Threads that have a node which is on neither list.
Carrying(t) == pc[t] \in {"push_store", "push_link", "push_tail"}

(* The nodes pushed since the last begin() are linked in the order in which *)
(* they became the tail, without a gap or a cycle; the last of them is the  *)
(* tail, and nothing follows it but the node that is being pushed.          *)
BatchLinked ==
    LET n == Len(batch) IN
    /\ IsInjective(batch)
    /\ \A i \in 1..(n - 1) : next[batch[i]] = batch[i + 1]
    /\ event_node_list_tail = IF n = 0 THEN NULL ELSE batch[n]
    /\ n > 0 => \/ next[batch[n]] = NULL
                \/ \E t \in Threads : pc[t] = "push_tail" /\ next[batch[n]] = node[t]

(* Every node is in one place: linked since the last begin(), cut off by an *)
(* earlier one, with the one thread that is pushing it, or free; and the    *)
(* free list, which shares its links, holds exactly the free ones.          *)
NodesAccounted ==
    LET carried == {node[t] : t \in {u \in Threads : Carrying(u)}}
        used == ToSet(batch) \cup dropped \cup carried
    IN  /\ \A t, u \in Threads :
              Carrying(t) /\ Carrying(u) /\ node[t] = node[u] => t = u
        /\ carried \cap ToSet(batch) = {}
        /\ (carried \cup ToSet(batch)) \cap dropped = {}
        /\ ListHolds(nodes \ used, 0..Cardinality(nodes))

(* An event that was accepted is not touched again: the node that holds it  *)
(* keeps it while other threads push and the queue is emptied.              *)
AcceptedKept ==
    [][\A a \in ToSet(batch) \cup dropped : event'[a] = event[a]]_vars
=============================================================================
