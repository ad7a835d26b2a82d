---------------------------- MODULE MemoryRegion ----------------------------
(***************************************************************************)
(* holo::memory_region: ranges of virtual memory that are reserved lazily, *)
(* committed from the base upwards, decommitted as a whole, and handed     *)
(* from one object to another by move construction and move assignment.    *)
(*                                                                         *)
(* A page is a number counted from the base of its reservation, and a      *)
(* reservation is an element of Addresses.  Sizes are machine words:       *)
(* std::size_t arithmetic is taken modulo Word.                            *)
(***************************************************************************)
EXTENDS Integers, FiniteSets

CONSTANTS
    Regions,      \* the memory_region objects of the program
    Addresses,    \* the places where the platform can put a reservation
    NULL,         \* the null pointer
    PageSize,     \* memory_region_base::get_page_size()
    Granularity,  \* memory_region_base::get_granularity()
    Word,         \* 2^w for a std::size_t of w bits
    MaxSizes,     \* arguments given to the constructor
    GrowSizes     \* arguments given to grow

ASSUME NullAssumption == NULL \notin Addresses
ASSUME SizeAssumption ==
    /\ PageSize \in Nat \ {0} /\ Granularity \in Nat \ {0} /\ Word \in Nat \ {0, 1}
    /\ MaxSizes \subseteq 0..(Word - 1) /\ GrowSizes \subseteq 0..(Word - 1)

\* What a reservation is rounded to.
Unit == IF PageSize > Granularity THEN PageSize ELSE Granularity

\* Pages, granularity and word are powers of two on the platforms supported.
ASSUME UnitAssumption == Unit % PageSize = 0 /\ Word % Unit = 0

VARIABLES
    live,       \* the objects that have been constructed and not destroyed
    region,     \* each object's fields
    pages,      \* for each address, the number of pages reserved there
    committed,  \* for each address, the pages that are readable and writable
    last        \* the call that ran last and what it returned

vars == <<live, region, pages, committed, last>>

Size == 0..(Word - 1)
Empty == [max_size |-> 0, current_size |-> 0, memory |-> NULL]
Fresh(n) == [max_size |-> n, current_size |-> 0, memory |-> NULL]

-----------------------------------------------------------------------------
(* math::round_up and math::multiple_of over std::size_t.                   *)

RoundUp(n, factor) == (n + (factor - 1) - (((n - 1) % Word) % factor)) % Word
MultipleOf(n, factor) == RoundUp(n, factor) \div factor

\* The pages that the first n bytes of a region touch.
PageCount(n) == IF n = 0 THEN 0 ELSE MultipleOf(n, PageSize)

MinimumSize(n) == RoundUp(n, Unit)

ReservedSize(r) ==
    IF region[r].max_size = 0 THEN 0 ELSE MinimumSize(region[r].max_size)

ReservedPages(r) == ReservedSize(r) \div PageSize

-----------------------------------------------------------------------------
(* The platform.  Reserving and committing may fail.  VirtualFree with      *)
(* MEM_RELEASE only succeeds when it is told a size of zero.                *)

FreeAddresses == {a \in Addresses : pages[a] = 0}

\* What reserve_pages(count) can return.
ReserveOutcomes(count) == {NULL} \cup (IF count = 0 THEN {} ELSE FreeAddresses)

\* pages after release_pages(base, 0, count).
Released(base, count) ==
    IF count * PageSize = 0 THEN [pages EXCEPT ![base] = 0] ELSE pages

\* committed after commit_pages(base, first, past - first) has succeeded.
CommitPages(base, first, past) ==
    [committed EXCEPT ![base] = @ \cup first..(past - 1)]

\* committed after decommit_pages(base, 0, count).
DecommitPages(base, count) == [committed EXCEPT ![base] = @ \ 0..(count - 1)]

-----------------------------------------------------------------------------
TypeOK ==
    /\ live \subseteq Regions
    /\ region \in [Regions -> [max_size : Size, current_size : Size,
                               memory : Addresses \cup {NULL}]]
    /\ pages \in [Addresses -> Nat]
    /\ committed \in [Addresses -> SUBSET Nat]
    /\ last \in [op : {"none", "construct", "move", "grow", "reset", "destroy"},
                 obj : Regions \cup {NULL}, arg : Size,
                 result : Addresses \cup {NULL}]

Call(op, r, arg, result) ==
    last' = [op |-> op, obj |-> r, arg |-> arg, result |-> result]

Init ==
    /\ live = {}
    /\ region = [r \in Regions |-> Empty]
    /\ pages = [a \in Addresses |-> 0]
    /\ committed = [a \in Addresses |-> {}]
    /\ last = [op |-> "none", obj |-> NULL, arg |-> 0, result |-> NULL]

Construct(r, n) ==
    /\ r \notin live
    /\ live' = live \cup {r}
    /\ region' = [region EXCEPT ![r] = Fresh(n)]
    /\ Call("construct", r, n, NULL)
    /\ UNCHANGED <<pages, committed>>

\* Bug: the source of a move keeps its pointer.
TakeFromKeepsSource(r, other) == [region EXCEPT ![r] = region[other]]
\* Copies other's fields into r and empties other, in that order: a region
\* moved onto itself ends up empty.
TakeFrom(r, other) ==
    [region EXCEPT ![r] = region[other], ![other] = Empty]

MoveConstruct(r, other) ==
    /\ r \notin live /\ other \in live
    /\ live' = live \cup {r}
    /\ region' = TakeFrom(r, other)
    /\ Call("move", r, 0, NULL)
    /\ UNCHANGED <<pages, committed>>

MoveAssign(r, other) ==
    /\ r \in live /\ other \in live
    /\ region' = TakeFrom(r, other)
    /\ Call("move", r, 0, NULL)
    /\ UNCHANGED <<live, pages, committed>>

-----------------------------------------------------------------------------
(* grow and claim.                                                          *)

\* The base pointer after grow's lazy reservation.
LazyBases(r) ==
    IF region[r].memory # NULL THEN {region[r].memory}
    ELSE IF region[r].max_size = 0 THEN {NULL}
    ELSE ReserveOutcomes(ReservedPages(r))

ReservedAt(r, base) ==
    IF region[r].memory = NULL /\ base # NULL
    THEN [pages EXCEPT ![base] = ReservedPages(r)]
    ELSE pages

\* Bug: the limit is compared before the new bytes are added.
ExhaustedLate(r, n) == region[r].current_size > region[r].max_size
\* Would n more bytes exceed the region's maximum size?
Exhausted(r, n) == (n + region[r].current_size) % Word > region[r].max_size

\* Bug: the size is recorded even when the platform refused to commit.
SizeAfterCommitUnchecked(r, n, granted) == (n + region[r].current_size) % Word
\* The size recorded after the platform granted the new pages, or did not.
SizeAfterCommit(r, n, granted) ==
    IF granted THEN (n + region[r].current_size) % Word
    ELSE region[r].current_size

\* granted is what commit_pages returns, if it is called at all.
GrowFrom(r, n, base, granted) ==
    LET current == region[r].current_size
        old == PageCount(current)
        new == PageCount((n + current) % Word)
        ok == new > old => granted
    IN  IF base = NULL \/ Exhausted(r, n)
        THEN /\ region' = [region EXCEPT ![r].memory = base]
             /\ Call("grow", r, n, NULL)
             /\ UNCHANGED committed
        ELSE /\ region' = [region EXCEPT ![r] =
                     [@ EXCEPT !.memory = base,
                               !.current_size = SizeAfterCommit(r, n, ok)]]
             /\ Call("grow", r, n, IF ok THEN base ELSE NULL)
             /\ committed' = IF ok /\ new > old
                             THEN CommitPages(base, old, new) ELSE committed

Grow(r, n) ==
    /\ r \in live
    /\ \E base \in LazyBases(r), granted \in BOOLEAN :
          /\ pages' = ReservedAt(r, base)
          /\ GrowFrom(r, n, base, granted)
    /\ UNCHANGED live

ClaimNothing(r) ==
    /\ r \in live /\ region[r].max_size = region[r].current_size
    /\ Call("grow", r, 0, NULL)
    /\ UNCHANGED <<live, region, pages, committed>>

ClaimRest(r) ==
    /\ region[r].max_size # region[r].current_size
    /\ Grow(r, region[r].max_size - region[r].current_size)

-----------------------------------------------------------------------------
(* reset and the destructor.                                                *)

\* Bug: the last page is left committed.
DecommittedButLast(r) ==
    IF region[r].memory # NULL /\ region[r].current_size > 0
    THEN DecommitPages(region[r].memory, PageCount(region[r].current_size) - 1)
    ELSE committed
Decommitted(r) ==
    IF region[r].memory # NULL /\ region[r].current_size > 0
    THEN DecommitPages(region[r].memory, PageCount(region[r].current_size))
    ELSE committed

AfterReset(r, release) ==
    IF region[r].memory = NULL THEN region[r]
    ELSE [region[r] EXCEPT !.current_size = 0,
                           !.memory = IF release THEN NULL ELSE @]

ResetPages(r, release) ==
    IF region[r].memory # NULL /\ release
    THEN Released(region[r].memory, ReservedPages(r)) ELSE pages

Reset(r, release) ==
    /\ r \in live
    /\ committed' = Decommitted(r)
    /\ pages' = ResetPages(r, release)
    /\ region' = [region EXCEPT ![r] = AfterReset(r, release)]
    /\ Call("reset", r, IF release THEN 1 ELSE 0, NULL)
    /\ UNCHANGED live

\* reset(true), after which the object is gone.
Destroy(r) ==
    /\ r \in live
    /\ committed' = Decommitted(r)
    /\ pages' = ResetPages(r, TRUE)
    /\ region' = [region EXCEPT ![r] = Empty]
    /\ Call("destroy", r, 0, NULL)
    /\ live' = live \ {r}

Next ==
    \E r \in Regions :
        \/ \E n \in MaxSizes : Construct(r, n)
        \/ \E other \in Regions : MoveConstruct(r, other)
        \/ \E other \in Regions : MoveAssign(r, other)
        \/ \E n \in GrowSizes : Grow(r, n)
        \/ ClaimNothing(r)
        \/ ClaimRest(r)
        \/ \E release \in BOOLEAN : Reset(r, release)
        \/ Destroy(r)

Spec == Init /\ [][Next]_vars

-----------------------------------------------------------------------------
Owners(a) == {r \in Regions : region[r].memory = a}
UsablePages(r) == 0..(PageCount(region[r].current_size) - 1)

(* Every byte below current_size can be read and written: grow never        *)
(* records a size whose pages the platform has not committed, whatever      *)
(* fails and however the region is moved, reset and grown again.            *)
UsableCommitted ==
    \A r \in Regions : region[r].memory # NULL =>
        UsablePages(r) \subseteq committed[region[r].memory]

(* A page is only ever committed inside the reservation it is counted from, *)
(* and the reservation has room for all of max_size: the rounding of        *)
(* get_minimum_size and the wrap-around of std::size_t never let a region   *)
(* promise, or commit, memory that was not reserved.                        *)
WithinReservation ==
    /\ \A a \in Addresses : committed[a] \subseteq 0..(pages[a] - 1)
    /\ \A r \in Regions : region[r].memory # NULL =>
          region[r].max_size <= pages[region[r].memory] * PageSize

(* No two objects ever hold the same reservation, across move construction, *)
(* move assignment (also onto itself) and destruction: otherwise the second *)
(* destructor would decommit memory that is still in use.                   *)
SoleOwner ==
    \A r, s \in Regions :
        region[r].memory # NULL /\ region[r].memory = region[s].memory => r = s

\* A reservation has the size its owner computes for it, and only a region
\* with a reservation has committed anything.
Backed ==
    \A r \in Regions :
        /\ region[r].memory # NULL =>
              /\ pages[region[r].memory] = ReservedPages(r)
              /\ ReservedPages(r) > 0
        /\ region[r].memory = NULL => region[r].current_size = 0
        /\ region[r].current_size <= region[r].max_size

(* The inductive invariant: what a step needs to know of the state for the  *)
(* safety properties above to survive it.                                   *)
Inv == TypeOK /\ SoleOwner /\ UsableCommitted /\ WithinReservation /\ Backed

(* The bytes a caller has been given stay where they are, usable, until the *)
(* object that holds them is reset or destroyed: growing another region or  *)
(* moving this one never decommits them or takes them from their address.   *)
BytesPersist ==
    \A r \in Regions : region[r].memory # NULL =>
        \/ UsablePages(r) \subseteq committed'[region[r].memory]
        \/ last'.op \in {"reset", "destroy"} /\ last'.obj = r
UsableBytesPersist == [][BytesPersist]_vars

(* The pages committed at an address stay exactly those that its owner's    *)
(* size reaches, through grows, refusals, moves and resets, and none is     *)
(* left when nobody has the reservation: reset computes what to decommit    *)
(* from the size alone.  Excepted are a grow whose sum wraps around the     *)
(* word and a move over an object that had pages, which abandons them.      *)
HeldPages(a) == UNION {UsablePages(r) : r \in Owners(a)}
GrowWraps ==
    /\ last'.op = "grow"
    /\ region[last'.obj].current_size + last'.arg >= Word
Abandoned(a) == last'.op = "move" /\ Owners(a)' = {}
PagesFollowSize ==
    [][\A a \in Addresses :
          committed[a] = HeldPages(a) /\ ~GrowWraps /\ ~Abandoned(a) =>
              committed'[a] = HeldPages(a)']_vars
=============================================================================
