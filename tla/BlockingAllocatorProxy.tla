----------------------- MODULE BlockingAllocatorProxy -----------------------
(***************************************************************************)
(* holo::blocking_allocator_proxy in front of a fixed_allocator: threads   *)
(* that call allocate and deallocate, each call serialised by the proxy's  *)
(* mutex, and that use the blocks they were given.  A block may be given   *)
(* back by another thread than the one that allocated it.                  *)
(***************************************************************************)
EXTENDS FixedAllocator

CONSTANTS
    Threads,
    Sizes     \* the sizes threads ask for

ASSUME ThreadAssumption == NULL \notin Threads /\ Sizes \subseteq Nat

VARIABLES
    mutex,    \* the thread that holds the proxy's mutex, or NULL
    pc,       \* where each thread is in the proxy
    size,     \* the argument of each thread's allocate
    pointer,  \* each thread's block: being allocated, or being given back
    held      \* the blocks the program holds

vars == <<nodes, free_nodes, next, mutex, pc, size, pointer, held>>

AllocateSteps == {"allocate_enter", "allocate_read", "allocate_pop", "allocate_leave"}
DeallocateSteps == {"deallocate_enter", "deallocate_link", "deallocate_push",
                    "deallocate_leave"}
Outside == {"idle", "allocate_enter", "deallocate_enter"}

TypeOK ==
    /\ nodes \subseteq Nat
    /\ free_nodes \in nodes \cup {NULL}
    /\ next \in [nodes -> nodes \cup {NULL, Junk}]
    /\ mutex \in Threads \cup {NULL}
    /\ pc \in [Threads -> {"idle"} \cup AllocateSteps \cup DeallocateSteps]
    /\ size \in [Threads -> Sizes \cup {0}]
    /\ pointer \in [Threads -> nodes \cup {NULL}]
    /\ held \subseteq nodes

Init ==
    /\ AllocatorInit
    /\ mutex = NULL
    /\ pc = [t \in Threads |-> "idle"]
    /\ size = [t \in Threads |-> 0]
    /\ pointer = [t \in Threads |-> NULL]
    /\ held = {}

Goto(t, from, to) == pc[t] = from /\ pc' = [pc EXCEPT ![t] = to]

\* Bug: the critical section is entered while another thread is in it.
LockIgnoresOwner(t) == mutex' = t
\* mutex.lock(), in the constructor of scoped_lock.
Lock(t) == mutex = NULL /\ mutex' = t

\* Bug: an early return leaves the mutex locked.
UnlockForgotten(t) ==
    mutex' = IF pc[t] = "allocate_leave" /\ pointer[t] = NULL THEN mutex ELSE NULL
\* mutex.unlock(), in the destructor of scoped_lock.
Unlock(t) == mutex' = NULL

-----------------------------------------------------------------------------
CallAllocate(t, n) ==
    /\ Goto(t, "idle", "allocate_enter")
    /\ size' = [size EXCEPT ![t] = n]
    /\ UNCHANGED <<allocatorVars, mutex, pointer, held>>

EnterAllocate(t) ==
    /\ Goto(t, "allocate_enter", "allocate_read")
    /\ Lock(t)
    /\ UNCHANGED <<allocatorVars, size, pointer, held>>

\* A size that is too large, or an empty list, gives NULL.
Refuse(t) ==
    /\ TooLarge(size[t]) \/ free_nodes = NULL
    /\ Goto(t, "allocate_read", "allocate_leave")
    /\ UNCHANGED <<allocatorVars, mutex, size, pointer, held>>

ReadHead(t) ==
    /\ ~TooLarge(size[t]) /\ free_nodes # NULL
    /\ Goto(t, "allocate_read", "allocate_pop")
    /\ pointer' = [pointer EXCEPT ![t] = free_nodes]
    /\ UNCHANGED <<allocatorVars, mutex, size, held>>

TakeHead(t) ==
    /\ Goto(t, "allocate_pop", "allocate_leave")
    /\ Pop(pointer[t])
    /\ UNCHANGED <<mutex, size, pointer, held>>

\* The mutex is released and the result is the caller's.
ReturnAllocate(t) ==
    /\ Goto(t, "allocate_leave", "idle")
    /\ Unlock(t)
    /\ held' = held \cup ({pointer[t]} \ {NULL})
    /\ pointer' = [pointer EXCEPT ![t] = NULL]
    /\ size' = [size EXCEPT ![t] = 0]
    /\ UNCHANGED allocatorVars

CallDeallocate(t, node) ==
    /\ node \in held
    /\ Goto(t, "idle", "deallocate_enter")
    /\ held' = held \ {node}
    /\ pointer' = [pointer EXCEPT ![t] = node]
    /\ UNCHANGED <<allocatorVars, mutex, size>>

EnterDeallocate(t) ==
    /\ Goto(t, "deallocate_enter", "deallocate_link")
    /\ Lock(t)
    /\ UNCHANGED <<allocatorVars, size, pointer, held>>

LinkFree(t) ==
    /\ Goto(t, "deallocate_link", "deallocate_push")
    /\ LinkNode(pointer[t])
    /\ UNCHANGED <<mutex, size, pointer, held>>

PushFree(t) ==
    /\ Goto(t, "deallocate_push", "deallocate_leave")
    /\ PushNode(pointer[t])
    /\ pointer' = [pointer EXCEPT ![t] = NULL]
    /\ UNCHANGED <<mutex, size, held>>

ReturnDeallocate(t) ==
    /\ Goto(t, "deallocate_leave", "idle")
    /\ Unlock(t)
    /\ UNCHANGED <<allocatorVars, size, pointer, held>>

\* The program stores something in a block it holds.
UseBlock(node) ==
    /\ node \in held
    /\ Scribble(node)
    /\ UNCHANGED <<mutex, pc, size, pointer, held>>

Inside(t) ==
    \/ Refuse(t) \/ ReadHead(t) \/ TakeHead(t) \/ ReturnAllocate(t)
    \/ LinkFree(t) \/ PushFree(t) \/ ReturnDeallocate(t)

Next ==
    \/ \E t \in Threads :
          \/ \E n \in Sizes : CallAllocate(t, n)
          \/ EnterAllocate(t)
          \/ \E node \in nodes : CallDeallocate(t, node)
          \/ EnterDeallocate(t)
          \/ Inside(t)
    \/ \E node \in nodes : UseBlock(node)

Spec == Init /\ [][Next]_vars

\* A thread that is inside the proxy is running and never waits there.
Fairness == \A t \in Threads : WF_vars(Inside(t))
FairSpec == Spec /\ Fairness

-----------------------------------------------------------------------------
\* Threads that are taking a node off the list or putting one on.
Carrying(t) == pointer[t] # NULL /\ pc[t] # "allocate_pop"

\* Nodes that neither the program nor a call in progress has.
Available ==
    nodes \ (held \cup {pointer[t] : t \in {u \in Threads : Carrying(u)}})

(* At most one thread is between the proxy's lock and unlock, and it is the *)
(* one the mutex says.                                                      *)
MutualExclusion ==
    \A t \in Threads : pc[t] \notin Outside <=> mutex = t

(* A node is never with two holders: not given to two callers, not given    *)
(* out while another thread is giving it back, not both used and free.      *)
OneHolder ==
    /\ \A t, u \in Threads :
          Carrying(t) /\ Carrying(u) /\ pointer[t] = pointer[u] => t = u
    /\ \A t \in Threads : Carrying(t) => pointer[t] \notin held
    /\ free_nodes \notin held

(* What a thread has in its registers at each step: a head that is read is  *)
(* still the head when it is popped, a link that is written is still right  *)
(* when the node becomes the head.                                          *)
Protocol ==
    \A t \in Threads :
        /\ pc[t] \in {"idle", "allocate_enter", "allocate_read", "deallocate_leave"}
              => pointer[t] = NULL
        /\ pc[t] \in {"deallocate_enter", "deallocate_link", "deallocate_push"}
              => pointer[t] \in nodes
        /\ pc[t] = "allocate_pop"
              => pointer[t] = free_nodes /\ free_nodes # NULL /\ ~TooLarge(size[t])
        /\ pc[t] = "deallocate_push" => next[pointer[t]] = free_nodes
        /\ pc[t] \notin AllocateSteps => size[t] = 0

(* No node is lost and none is on the list twice: the list enumerates       *)
(* exactly the nodes nobody has, whatever holders write into theirs.        *)
FreeListIntact == ListHolds(Available, 0..Cardinality(nodes))

(* A lock that is taken is released by the thread that took it, on every    *)
(* path out of a call.  Which of the threads that wait gets it next, if     *)
(* ever, the platform does not say.                                         *)
LockReleased == \A t \in Threads : mutex = t ~> mutex # t

(* Every call takes effect at one instant: the list walked and relinked in  *)
(* steps under the mutex is the atomic BlockPool, which refuses a size that *)
(* fits only when there is nothing left.                                    *)
AbstractCall(step, n, b) ==
    [op |-> CASE step = "idle" -> "none"
              [] step \in AllocateSteps -> "allocate"
              [] step \in DeallocateSteps -> "deallocate",
     size |-> n,
     block |-> IF step = "allocate_pop" THEN NULL ELSE b,
     done |-> step \in {"allocate_leave", "deallocate_leave"}]

PoolCall == [t \in Threads |-> AbstractCall(pc[t], size[t], pointer[t])]

Pool == INSTANCE BlockPool WITH available <- Available, call <- PoolCall

AtomicPool == Pool!Spec
=============================================================================
