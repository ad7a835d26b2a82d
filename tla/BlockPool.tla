----------------------------- MODULE BlockPool ------------------------------
(***************************************************************************)
(* What a thread-safe allocator of equal blocks promises: each call takes  *)
(* effect at one instant between its start and its return, a block is with *)
(* the allocator or with one holder, and an allocation that fits is        *)
(* refused only when no block is left.                                     *)
(***************************************************************************)
EXTENDS Naturals

CONSTANTS
    Threads,
    NULL,
    Sizes,       \* the sizes threads ask for
    ObjectSize   \* the largest size that is served

VARIABLES
    available,   \* blocks the allocator holds
    held,        \* blocks the program holds
    call         \* each thread's call in progress

vars == <<available, held, call>>

NoCall == [op |-> "none", size |-> 0, block |-> NULL, done |-> FALSE]

\* A call before and after it has taken effect.
Pending(op, size, b) == [op |-> op, size |-> size, block |-> b, done |-> FALSE]
Finished(op, size, b) == [op |-> op, size |-> size, block |-> b, done |-> TRUE]

Init ==
    /\ held = {}
    /\ call = [t \in Threads |-> NoCall]

CallAllocate(t, size) ==
    /\ call[t] = NoCall
    /\ call' = [call EXCEPT ![t] = Pending("allocate", size, NULL)]
    /\ UNCHANGED <<available, held>>

\* The call has taken effect and will return b.
Finish(t, b) ==
    call' = [call EXCEPT ![t] = Finished(call[t].op, call[t].size, b)]

\* A call that is refused: too large, or nothing left.
Refuse(t) ==
    /\ call[t].op = "allocate" /\ ~call[t].done
    /\ call[t].size > ObjectSize \/ available = {}
    /\ Finish(t, NULL)
    /\ UNCHANGED <<available, held>>

Take(t) ==
    /\ call[t].op = "allocate" /\ ~call[t].done
    /\ call[t].size <= ObjectSize
    /\ \E b \in available :
          /\ available' = available \ {b}
          /\ Finish(t, b)
    /\ UNCHANGED held

CallDeallocate(t, b) ==
    /\ call[t] = NoCall /\ b \in held
    /\ held' = held \ {b}
    /\ call' = [call EXCEPT ![t] = Pending("deallocate", 0, b)]
    /\ UNCHANGED available

Give(t) ==
    /\ call[t].op = "deallocate" /\ ~call[t].done
    /\ available' = available \cup {call[t].block}
    /\ Finish(t, NULL)
    /\ UNCHANGED held

Return(t) ==
    /\ call[t].done
    /\ held' = held \cup ({call[t].block} \ {NULL})
    /\ call' = [call EXCEPT ![t] = NoCall]
    /\ UNCHANGED available

Next ==
    \E t \in Threads :
        \/ \E size \in Sizes : CallAllocate(t, size)
        \/ Refuse(t) \/ Take(t)
        \/ \E b \in held : CallDeallocate(t, b)
        \/ Give(t) \/ Return(t)

Spec == Init /\ [][Next]_vars
=============================================================================
