---------------------------- MODULE StringBuilder ----------------------------
(***************************************************************************)
(* holo::string_builder: text gathered in a linked list of buffers, each   *)
(* with its characters behind a header, and turned into one string by      *)
(* another allocator.  The program has one builder at a time: it appends   *)
(* strings and formatted values, makes strings of it, destroys it, and     *)
(* constructs another, having popped what one that does not deallocate     *)
(* left behind from its stack allocator, and forgotten the strings.        *)
(***************************************************************************)
EXTENDS Format, SequencesExt

CONSTANTS
    NULL,
    Buffers,    \* where the allocator puts a character_buffer
    Texts,      \* the texts of the strings that are appended
    Formats,    \* the formats that are appended
    Garbage,    \* what the memory of a builder may hold before it is constructed
    MaxStrings  \* bound on the strings made of the builders

ASSUME BuilderAssumption ==
    /\ IsFiniteSet(Buffers) /\ NULL \notin Buffers
    /\ Garbage \subseteq Nat /\ MaxStrings \in Nat
    /\ Texts \subseteq Seq(Characters) /\ \A f \in Formats : IsFormat(f)

VARIABLES
    phase,             \* "building", "destroying", "destroyed", "faulted"
    buffer_list_head, buffer_list_tail,
    length,
    deallocate_buffer_list,
    buffer,            \* the next pointer, length and characters of each buffer
    allocated,         \* the buffers that the allocator has handed out
    current_buffer,    \* of the destructor's loop
    accepted,          \* history: the texts that append returned true for
    strings            \* the strings that to_string returned, but the empty ones

listVars == <<buffer_list_head, buffer_list_tail>>
sizeVars == <<length, deallocate_buffer_list>>
builderVars == <<phase, listVars, sizeVars, buffer, allocated, current_buffer, accepted,
          strings>>

character_buffer(next, text) == [next |-> next, length |-> Len(text), text |-> text]

BuilderTypeOK ==
    /\ phase \in {"building", "destroying", "destroyed", "faulted"}
    /\ {buffer_list_head, buffer_list_tail, current_buffer} \subseteq Buffers \cup {NULL}
    /\ length \in Garbage /\ deallocate_buffer_list \in BOOLEAN
    /\ allocated \subseteq Buffers
    /\ \A b \in Buffers : buffer[b].next \in Buffers \cup {NULL} /\ buffer[b].length \in Nat

\* What is in the memory that the allocator has, which nobody looks at.
Untouched == [b \in Buffers |-> character_buffer(NULL, <<>>)]

\* length is the one field that the constructor leaves as it is.
Constructed(deallocate) ==
    /\ phase' = "building"
    /\ buffer_list_head' = NULL /\ buffer_list_tail' = NULL
    /\ length' \in Garbage
    /\ deallocate_buffer_list' = deallocate
    /\ accepted' = <<>>

BuilderInit ==
    /\ phase = "building"
    /\ buffer_list_head = NULL /\ buffer_list_tail = NULL
    /\ length \in Garbage /\ deallocate_buffer_list \in BOOLEAN
    /\ buffer = Untouched
    /\ allocated = {} /\ current_buffer = NULL
    /\ accepted = <<>> /\ strings = <<>>

Construct(deallocate) ==
    /\ phase = "destroyed"
    /\ Constructed(deallocate)
    /\ allocated' = {} /\ buffer' = Untouched
    /\ strings' = <<>>
    /\ UNCHANGED current_buffer

-----------------------------------------------------------------------------
(* append.                                                                  *)

\* Bug: the first buffer is not made the tail.
LinkedHeadOnly(b) ==
    IF buffer_list_tail # NULL
    THEN buffer_list_tail' = b /\ UNCHANGED buffer_list_head
    ELSE buffer_list_head' = b /\ UNCHANGED buffer_list_tail
Linked(b) ==
    /\ buffer_list_tail' = b
    /\ IF buffer_list_tail # NULL THEN UNCHANGED buffer_list_head
       ELSE buffer_list_head' = b

\* request_buffer, and the caller's write of all of the buffer.
request_buffer(text) ==
    \E b \in Buffers \ allocated :
        /\ allocated' = allocated \cup {b}
        /\ buffer' = LET linked == IF buffer_list_tail = NULL THEN buffer
                                   ELSE [buffer EXCEPT ![buffer_list_tail].next = b]
                     IN  [linked EXCEPT ![b] = character_buffer(NULL, text)]
        /\ Linked(b)

Accept(text, format) ==
    /\ phase = "building"
    /\ request_buffer(text)
    /\ accepted' = Append(accepted, [text |-> text, format |-> format])
    /\ UNCHANGED <<phase, sizeVars, current_buffer, strings>>

AppendString(text) == Accept(text, NULL)

\* A managed string without a buffer, which a failed constructor leaves: its
\* characters are looked for before its length is.
AppendNull ==
    /\ phase = "building" /\ phase' = "faulted"
    /\ UNCHANGED <<listVars, sizeVars, buffer, allocated, current_buffer, accepted,
                   strings>>

\* append_format asks for room for the terminator, and leaves it in the text.
AppendFormat(f) ==
    LET text == Printed(Directive(f), f.width, f.value)
    IN  Len(text) > 0 /\ Accept(Append(text, NUL), f)

\* The allocator has no memory, or snprintf fails.
AppendFails ==
    /\ phase = "building"
    /\ UNCHANGED builderVars

-----------------------------------------------------------------------------
(* to_string.                                                               *)

\* What a loop over the buffers from b on visits in n steps.
Visited[n \in Nat] ==
    IF n = 0 THEN [b \in Buffers \cup {NULL} |-> <<>>]
    ELSE [b \in Buffers \cup {NULL} |->
             IF b = NULL THEN <<>> ELSE <<b>> \o Visited[n - 1][buffer[b].next]]
ListFrom(b) == Visited[Cardinality(Buffers)][b]

\* One after the other, as long as the buffers say they are.
Copied(list) ==
    FlattenSeq([i \in DOMAIN list |->
                    SubSeq(buffer[list[i]].text, 1, buffer[list[i]].length)])

\* There is nothing to copy, or no memory to copy it to: an empty string.
BuildNothing ==
    /\ phase = "building"
    /\ UNCHANGED builderVars

\* The buffer is as long as the builder's length says, whatever was appended, and
\* the string's own length stays 0: it is no equivalent of what it was made of.
BuildString ==
    LET text == Copied(ListFrom(buffer_list_head))
    IN  /\ phase = "building" /\ length > 0
        /\ Len(text) <= length /\ Len(strings) < MaxStrings
        /\ strings' = Append(strings, [text |-> text, buffer_length |-> length, length |-> 0])
        /\ UNCHANGED <<phase, listVars, sizeVars, buffer, allocated, current_buffer,
                       accepted>>

\* More is copied than was allocated.
BuildOverruns ==
    /\ phase = "building" /\ length > 0
    /\ Len(Copied(ListFrom(buffer_list_head))) > length
    /\ phase' = "faulted"
    /\ UNCHANGED <<listVars, sizeVars, buffer, allocated, current_buffer, accepted,
                   strings>>

\* Its buffer was never told its allocator.
DestroyString ==
    /\ phase # "faulted" /\ strings # <<>>
    /\ phase' = "faulted"
    /\ UNCHANGED <<listVars, sizeVars, buffer, allocated, current_buffer, accepted,
                   strings>>

-----------------------------------------------------------------------------
(* The destructor.                                                          *)

Destroy ==
    /\ phase = "building"
    /\ IF deallocate_buffer_list
       THEN phase' = "destroying" /\ current_buffer' = buffer_list_head
       ELSE phase' = "destroyed" /\ UNCHANGED current_buffer
    /\ UNCHANGED <<listVars, sizeVars, buffer, allocated, accepted, strings>>

\* Bug: the link is read from the buffer that was just deallocated.
NextAfterwards(b) == buffer'[b].next
\* The link is read before the buffer is deallocated.
NextBefore(b) == buffer[b].next

\* An allocator that has a block back links it to another that is free.
DestroyBuffer ==
    /\ phase = "destroying" /\ current_buffer # NULL
    /\ allocated' = allocated \ {current_buffer}
    /\ \E link \in (Buffers \ allocated) \cup {NULL} :
          buffer' = [buffer EXCEPT ![current_buffer] = character_buffer(link, <<>>)]
    /\ current_buffer' = NextBefore(current_buffer)
    /\ UNCHANGED <<phase, listVars, sizeVars, accepted, strings>>

FinishDestroy ==
    /\ phase = "destroying" /\ current_buffer = NULL
    /\ phase' = "destroyed"
    /\ UNCHANGED <<listVars, sizeVars, buffer, allocated, current_buffer, accepted,
                   strings>>

BuilderNext ==
    \/ \E b \in BOOLEAN : Construct(b)
    \/ \E text \in Texts : AppendString(text)
    \/ \E f \in Formats : AppendFormat(f)
    \/ AppendFails \/ AppendNull
    \/ BuildString \/ BuildNothing \/ BuildOverruns
    \/ DestroyString
    \/ Destroy \/ DestroyBuffer \/ FinishDestroy

BuilderSpec == BuilderInit /\ [][BuilderNext]_builderVars

-----------------------------------------------------------------------------
(* The list has every text that append returned true for, once, in order    *)
(* and as long as it is, whatever was refused between; a builder appends    *)
(* behind the last of them.                                                 *)
PiecesInOrder ==
    phase = "building" =>
        LET list == ListFrom(buffer_list_head)
        IN  /\ Len(list) = Len(accepted)
            /\ \A i \in DOMAIN list : buffer[list[i]].text = accepted[i].text
            /\ buffer_list_tail = IF list = <<>> THEN NULL ELSE Last(list)

(* While a builder lives and while it is destroyed, the buffers that are    *)
(* with it are those its list, or the rest of it, leads to: each goes back  *)
(* once, none is read that has gone back, and none is left.                 *)
BuffersAccounted ==
    /\ phase = "building" => allocated = ToSet(ListFrom(buffer_list_head))
    /\ phase = "destroying" => allocated = ToSet(ListFrom(current_buffer))
    /\ phase = "destroyed" /\ deallocate_buffer_list => allocated = {}

(* An integer fills the cell that its width, alignment and padding ask for, *)
(* and is longer only when it has more digits.                              *)
CellsFilled ==
    \A i \in DOMAIN accepted :
        LET f == accepted[i].format
        IN  f # NULL /\ ~f.floating_point =>
                FillsCell(f, SubSeq(accepted[i].text, 1, Len(accepted[i].text) - 1))
=============================================================================
