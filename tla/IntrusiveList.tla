---------------------------- MODULE IntrusiveList ----------------------------
(***************************************************************************)
(* holo::intrusive_list: doubly linked lists through the next and previous *)
(* pointers of their nodes.  A list is the record of those two functions,  *)
(* and each operation returns the record it leaves behind.                 *)
(***************************************************************************)
CONSTANT NULL

\* The pointers of the removed node stay as they are.
remove(list, node) ==
    LET previous == list.previous[node]
        next == list.next[node]
        forward == IF previous = NULL THEN list
                   ELSE [list EXCEPT !.next[previous] = next]
    IN  IF next = NULL THEN forward
        ELSE [forward EXCEPT !.previous[next] = previous]

unlink(list, node) ==
    [remove(list, node) EXCEPT !.next[node] = NULL, !.previous[node] = NULL]

insert_before(list, node, position) ==
    LET previous == list.previous[position]
        forward == IF previous = NULL THEN list
                   ELSE [list EXCEPT !.next[previous] = node]
    IN  [forward EXCEPT !.previous[position] = node,
                        !.next[node] = position, !.previous[node] = previous]

\* position is made its own successor's follower: with a successor its
\* previous becomes node, and what is then its predecessor gets node as its
\* next, although node goes behind position.
insert_after(list, node, position) ==
    LET next == list.next[position]
        backward == IF next = NULL THEN list
                    ELSE [list EXCEPT !.previous[position] = node]
        previous == backward.previous[position]
        forward == IF previous = NULL THEN backward
                   ELSE [backward EXCEPT !.next[previous] = node]
    IN  [forward EXCEPT !.next[position] = node,
                        !.next[node] = next, !.previous[node] = position]
=============================================================================
