--------------------------- MODULE StringIterators ---------------------------
(***************************************************************************)
(* holo::string_iterator over one text: it is constructed at the beginning *)
(* or at the end, moved in either direction by a program that stops when   *)
(* it is invalid, or used in the loop from begin() to end().               *)
(***************************************************************************)
EXTENDS Utf8

CONSTANTS
    Texts,   \* the texts of the program
    Behind,  \* the byte behind a text: its terminator, or any other
    Firsts   \* the exceptions that can be the first to be given a code, which is 0

ASSUME TextAssumption ==
    /\ Texts \subseteq Seq(Bytes) /\ Behind \subseteq Bytes
    /\ Firsts \subseteq {"index_out_of_range", "out_of_memory", "invalid_unicode_lead"}

VARIABLES
    text,    \* the bytes of the string
    memory,  \* and the one behind them
    none,    \* the exceptions whose code is that of none
    mode,    \* does the program walk as it likes, or is it in a for loop?
    it,      \* the iterator's fields
    misled,  \* history: an exception was taken for none
    turned,  \* history: the iterator was constructed at the end or moved backwards
    before   \* history: the iterator before a decrement that ran last

iteratorVars == <<text, memory, none, mode, it, misled, turned, before>>

length == Len(text)
Unset == -1
Iterator(current, next, value, valid) ==
    [current |-> current, next |-> next, value |-> value, valid |-> valid]

IteratorTypeOK ==
    /\ text \in Texts /\ \E b \in Behind : memory = Append(text, b)
    /\ mode \in {"walk", "loop"}
    /\ it \in [current : 0..length, next : 0..length,
               value : {Unset} \cup 0..1114111, valid : BOOLEAN]

\* Bug: next_offset is not written back.
IncrementedHalf(i) ==
    LET read == utf8_increment(memory, length, i.next, i.value, none)
    IN  IF read.exception \in none
        THEN Iterator(i.next, i.next, read.value, i.valid)
        ELSE Iterator(i.current, i.next, read.value, FALSE)
\* increment of iterator i.
Incremented(i) ==
    LET read == utf8_increment(memory, length, i.next, i.value, none)
    IN  IF read.exception \in none
        THEN Iterator(i.next, read.offset, read.value, i.valid)
        ELSE Iterator(i.current, i.next, read.value, FALSE)
IncrementMisled(i) ==
    utf8_increment(memory, length, i.next, i.value, none).exception \in none \ {"none"}

\* Bug: next_offset stays where it was.
DecrementedHalf(i) ==
    LET read == utf8_decrement(memory, i.current, i.value, none)
    IN  IF read.exception \in none
        THEN Iterator(read.offset, i.next, read.value, i.valid)
        ELSE Iterator(i.current, i.next, read.value, FALSE)
\* decrement.
Decremented(i) ==
    LET read == utf8_decrement(memory, i.current, i.value, none)
    IN  IF read.exception \in none
        THEN Iterator(read.offset, i.current, read.value, i.valid)
        ELSE Iterator(i.current, i.next, read.value, FALSE)
DecrementMisled(i) ==
    utf8_decrement(memory, i.current, i.value, none).exception \in none \ {"none"}

\* The constructor increments at once unless it is at the end.
Constructed(offset) ==
    LET i == Iterator(offset, offset, Unset, TRUE)
    IN  IF offset < length THEN Incremented(i) ELSE i
ConstructMisled(offset) ==
    offset < length /\ IncrementMisled(Iterator(offset, offset, Unset, TRUE))

Start(offset) ==
    /\ it = Constructed(offset)
    /\ misled = ConstructMisled(offset)

IteratorInit ==
    /\ text \in Texts
    /\ \E b \in Behind : memory = Append(text, b)
    /\ none \in {{"none", first} : first \in Firsts}
    /\ \/ mode \in {"walk", "loop"} /\ Start(0) /\ turned = FALSE
       \/ mode = "walk" /\ Start(length) /\ turned = TRUE
    /\ before = Iterator(0, 0, Unset, FALSE)

equal(i, j) == i.next = j.next
AtEnd == equal(it, Constructed(length))

NoneBefore == before' = Iterator(0, 0, Unset, FALSE)

Increment ==
    /\ mode = "walk" /\ it.valid
    /\ it' = Incremented(it)
    /\ misled' = (misled \/ IncrementMisled(it))
    /\ NoneBefore
    /\ UNCHANGED <<text, memory, none, mode, turned>>

Decrement ==
    /\ mode = "walk" /\ it.valid
    /\ it' = Decremented(it)
    /\ misled' = (misled \/ DecrementMisled(it))
    /\ turned' = TRUE
    /\ before' = it
    /\ UNCHANGED <<text, memory, none, mode>>

\* for (i = begin(); i != end() && i.get_is_valid(); ++i)
LoopStep ==
    /\ mode = "loop" /\ it.valid /\ ~AtEnd
    /\ it' = Incremented(it)
    /\ misled' = (misled \/ IncrementMisled(it))
    /\ UNCHANGED <<text, memory, none, mode, turned, before>>

IteratorNext == Increment \/ Decrement \/ LoopStep

IteratorSpec == IteratorInit /\ [][IteratorNext]_iteratorVars

\* The thread that is in the loop keeps running.
IteratorFairSpec == IteratorSpec /\ WF_iteratorVars(LoopStep)

-----------------------------------------------------------------------------
Slice(first, past) == SubSeq(text, first + 1, past)

\* The offsets between the sequences that the text begins with: the least set
\* that has 0 and, with an offset, where a well-formed sequence from there ends.
Boundaries ==
    LET Closed == {S \in SUBSET (0..length) :
                       /\ 0 \in S
                       /\ \A o \in S : \A past \in (o + 1)..length :
                             WellFormed(Slice(o, past)) => past \in S}
    IN  {o \in 0..length : \A S \in Closed : o \in S}

LongLead == \E i \in DOMAIN text : text[i] >= 240
Trusted == it.valid /\ ~misled /\ ~LongLead

(* An iterator that says it is valid stands between well-formed sequences   *)
(* and has the code point of the one it stands on: overlong sequences,      *)
(* surrogates, truncated sequences and stray bytes are never stepped over   *)
(* on the way from the beginning, and over a text without any the iterator  *)
(* may turn as it likes.  Sequences of four bytes are left out: they are    *)
(* decoded wrongly.                                                         *)
OnBoundary ==
    Trusted /\ (turned => length \in Boundaries) =>
        /\ it.current \in Boundaries /\ it.next \in Boundaries
        /\ it.current < it.next =>
              /\ WellFormed(Slice(it.current, it.next))
              /\ it.value = CodePoint(Slice(it.current, it.next))

(* An iterator that stands on a well-formed sequence is there again after a *)
(* step back and a step forward, with the same code point, whatever text is *)
(* around it.  (One that went backwards over stray trail bytes counts them  *)
(* to the sequence before, and does not come back to where it was.)         *)
Reversible ==
    [][before.valid /\ WellFormed(Slice(before.current, before.next))
         /\ it.valid /\ ~misled' /\ Increment => it' = before]_iteratorVars

(* A loop from begin to end ends, at the end of the text or at a sequence   *)
(* that is not valid, in every text: each step moves on or makes the        *)
(* iterator invalid.  The exception is the one whose code is that of none.  *)
LoopEnds == mode = "loop" ~> AtEnd \/ ~it.valid \/ misled
=============================================================================
