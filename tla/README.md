# Hologine in TLA+

TLA+ models of the core of hologine, a C++ framework for interactive
simulations, with the TLC runs that check them on small instances and the TLAPS
proofs of what they show for every instance. Paths below are relative to
`src/code/hologine_platform`; `core/` stands for `hologine/core/`.

## The system

| Part | State | Operations | Made correct by |
|---|---|---|---|
| `memory_region` (`core/memory`, `windows/core/memory`) | `max_size`, `current_size`, `memory`; the platform's reserved and committed pages | construct, move, `grow`, `claim`, `reset`, destroy | what is promised is committed, inside one reservation, with one owner |
| `fixed_allocator` | nodes, the free list linked through them | construct, `allocate`, `deallocate` | the list holds exactly the nodes nobody has; objects are disjoint and aligned |
| `blocking_allocator_proxy`, `mutex`, `scoped_lock` | a mutex in front of an allocator | `allocate`, `deallocate` by many threads | one thread at a time; calls take effect atomically; the lock is let go by its holder |
| `memory_arena_pool` | records, free arenas, `arena_count`, a region | construct, `reserve`, `take_arena`, `give_arena`, `get_arena`, destroy | arenas are committed, found by address, never lost, never handed out twice |
| `event_queue` | node list, tail, an allocator, a mutex | `push` by many threads, `begin`, iteration, `dispose` | order, no node on two lists, accepted events are kept and seen |
| `intrusive_list` | none: the links of the nodes it is given | `insert_before`, `insert_after`, `remove`, `unlink` | next and previous stay each other's inverse |
| `pool_allocator`, `heap_allocator` | lists of arenas, free nodes in arenas, one pool per power of two | `allocate`, `deallocate`, reserve, destroy | no arena lost, no block handed out twice, arenas go back when empty |
| `linear_allocator` | a region, an offset, a chain of markers in the region | `allocate`, `push_marker`, `pop_marker`, `reset` | blocks in committed memory; a pop undoes a push |
| `exception` | generated codes; a handler with a stack, per thread | push, read, enable, disable | each thread its own handler, each handler freed once and not used afterwards |
| `thread` | an argument, the platform's threads | construct, start, join, destroy, setters | a refusal leaves the object as it was and pushes an exception; an argument outlives the thread that has its address |
| `handle` | none: a 64-bit word of four fields | `encode`, `is_type`, the decoders, `increment_age` | decoding gives what was encoded |
| `string` | shared counted buffers | construct, copy, assign, substring, duplicate | counts match holders; ranges stay in the text |
| `string_builder`, `format` | a list of buffers; directives for `snprintf` | append text and values, make a string, destroy | nothing lost, repeated or reordered; cells filled; buffers go back |
| `utf8`, `string_iterator` | two offsets and a code point | decode, step either way, compare | steps land on boundaries and can be taken back |
| `memory_stream`, `binary_reader`, `binary_writer` | position, bytes, byte order | read, write, seek | position within the bytes; what is written is read back |
| `bits`, `util` | none | rounding, alignment, masks, byte swaps | as the components that call them need |
| vectors, matrices, `condition_variable`, `standard_allocator_proxy`, the hint compiler | — | — | not modelled, see below |

How they interact: a `fixed_allocator`, a `linear_allocator` and a
`memory_arena_pool` each own a `memory_region`; `pool_allocator` takes arenas
from the pool and links records the pool also links; `heap_allocator` owns the
pool and one `pool_allocator` per power of two; `event_queue` and
`blocking_allocator_proxy` put a mutex in front of an allocator; every failure
pushes an exception on the calling thread's stack.

What is hard: threads that meet at a mutex (`blocking_allocator_proxy`,
`event_queue`, `thread`), free lists kept in memory their users own, links that
two components write (`memory_arena_pool` and `pool_allocator`), platform calls
that fail in the middle of an operation (`memory_region` and everything above
it), calls whose error reporting runs other code, that of the program included (`exception` under everything),
text that is not well-formed, and machine arithmetic at the ends of a word. `PROJECT.json` lists each
hazard at its line.

## Modules

| Module | Models |
|---|---|
| `MemoryRegion` | `memory_region.cpp`, `memory_region_base.cpp`, `round_up` and `multiple_of` of `math/util.hpp` |
| `FixedAllocator` | `fixed_allocator.cpp`: the constructor's result, and `allocate` and `deallocate` in the steps another thread can fall between |
| `BlockingAllocatorProxy` | `blocking_allocator_proxy.cpp` and `scoped_lock.cpp` over `FixedAllocator`, with threads that use and exchange blocks |
| `BlockPool` | abstract: an atomic allocator of equal blocks |
| `IntrusiveList` | `intrusive_list.hpp`: each operation as what it makes of the two link functions |
| `OwnedRegion` | the `memory_region` of an allocator that owns one, as an instance of `MemoryRegion`, and `math::align_pointer` |
| `MemoryArenaPool` | `memory_arena_pool.cpp` over `OwnedRegion` |
| `PoolAllocator` | `pool_allocator.cpp` over `MemoryArenaPool` and `IntrusiveList` |
| `HeapAllocator` | `heap_allocator.cpp` over `PoolAllocator`, and the program that uses it |
| `LinearAllocator` | `linear_allocator.cpp` over `OwnedRegion` |
| `EventQueue` | `push` and `begin` of `event_queue` over `FixedAllocator` |
| `Exceptions` | `exception.cpp`, with `thread_local_variable` as it uses it |
| `Threads` | `thread.cpp` and `thread_base.cpp` over `Exceptions` |
| `Bits`, `Handle` | `mask` and `swap_bytes` of `math/bits.hpp`; `handle.hpp`: words as sets of bits |
| `MemoryStream` | `memory_stream.cpp`: read, write and seek |
| `BinaryStreams` | `binary_reader` and `binary_writer` over one `MemoryStream`, with primitives and handles |
| `Strings` | `string.cpp`, and the range constructor and `construct_buffer` of `string.hpp` |
| `Utf8`, `StringIterators` | `utf8.cpp` beside a reference decoder; `string_iterator.cpp` over one text |
| `Format`, `StringBuilder` | `format.hpp` and what C says of `snprintf`; `string_builder.cpp` |
| `ListProofs` | the constructor and the free list of `FixedAllocator`, and the operations of `IntrusiveList` |
| `MemoryRegionProofs`, `BlockingAllocatorProofs`, `EventQueueProofs`, `ThreadsProofs` | the theorems of each specification |
| `RegionAllocatorProofs` | the theorems of `LinearAllocator`, `MemoryArenaPool`, `PoolAllocator` and `HeapAllocator` |
| `StringsProofs` | the theorems of `Strings`, `Utf8` and `StringIterators` |
| `OutputProofs` | the theorems of `BinaryStreams`, `Format` and `StringBuilder` |
| `MC...` | constants and symmetry for TLC |

**MemoryRegion.** `region[r]` is the object's three fields; `pages[a]` and
`committed[a]` are what the platform did at address `a`; `last` records the call
that ran, for the action properties. Each member function is one action.
`reserve_pages` and `commit_pages` may fail at any call. `std::size_t` arithmetic
is modulo `Word`. `grow` commits nothing the second time around when a sum
wraps, because the code compares page counts; the model does the same.
`release_pages` always fails unless it is told zero bytes, because `VirtualFree`
refuses a size together with `MEM_RELEASE`. The source of a move keeps being a
live, empty object.

**FixedAllocator.** Addresses are counted from the base of the region.
`AllocatorInit` is what the constructor can leave: no nodes when `claim` fails,
or the nodes its loop pushes. `node_count` is read before it has a value
(`fixed_allocator.cpp:50`), so its old value is an arbitrary member of
`Garbage`; a leftover of 0 is a division fault and a count that puts a link
behind the committed pages is an access violation, and neither leaves a running
program. `next[a]` is the first word of node `a`, whoever owns it: `Scribble` is
an owner that writes over it. Reading the head, replacing it, linking a node and
making it the head are separate steps.

**BlockingAllocatorProxy.** `pc[t]` is where thread `t` is, `pointer[t]` its
register: the head it read or the block it is giving back. A thread is inside
the proxy from the step that takes the mutex to the step that returns. Blocks in
`held` belong to the program, which may give one back from any thread. The
refinement to `BlockPool` maps the nodes nobody has to `available` and a thread's
step to a pending or finished call; a call takes effect where the head is
replaced (`TakeHead`), where it is made (`PushFree`) or where a refusal is
decided (`Refuse`). Every other step stutters.

**OwnedRegion, MemoryArenaPool.** The region is an INSTANCE of `MemoryRegion` with
one object and one address; an action that grows the region contains that
module's `Grow`. An arena is its index. `Reached` is the least
set that has the first of some arenas and with each the next; `Free` is what is
reached along the free list. `taken` is a history variable: the arenas that each
allocator took and did not give back. `reserve` is a
sequence of steps, between which nothing else runs. When the constructor could
not commit the records, a later `allocate_arena` that succeeds writes through a
null pointer: the phase `"faulted"`.

**IntrusiveList, PoolAllocator.** A list is a record of the functions `next` and
`previous`. The records of the arenas are linked by `next` twice, once by the
pool's free list and once by the allocator that has them, as in the code. A block
is an address; a free node stands for a span of free blocks and is split when it
is reached. A call that takes or gives an arena is two steps, `call` saying what
is left of it, because the pool's part can itself be two (`reserve`). Appending
an arena never moves `arena_list_tail`. `deallocate` writes its free node through an offset it takes for an address, the
phase `"faulted"`, except for the block that empties its arena, whose node is not
written. Where the search would go round in a circle of full arenas for ever, no
action is possible.

**HeapAllocator.** `Requests` are pairs of a size and an alignment; the pool is
chosen by the alignment, as the code does, and refuses a size that it has no
room for. The pointer handed out is aligned behind the block without asking
whether the block has room. `Consistent` says that links, counts and blocks are
in order: an arena is free or with one allocator, and what an allocator finds
along its list is what it has. The run explores what is reachable through such
states and one step further; `NoArenaLost` and `FreshBlocks` say what that step
may do. `NoArenaLost` is about the links alone: an arena counts as found when the
free list, the list of an allocator or the call that runs leads to it (`Found`),
whatever `taken` says. Two kinds of steps do lose arenas, and are its exceptions.
`insert_after` leaves the arena behind the head naming the head as its previous
when another goes between the two; once it is empty, `remove` follows that
pointer and drops what stands between (`StaleRemove`: with the list 1, 3, 2,
removing 2 loses 3). And `remove` leaves the `previous` of what becomes the only
arena of a list at the one that went; when that one is free and the list appends
another, `insert_after` writes its `next`, and what is behind it on the free list
is lost (`StaleAppend`). With either exception left out of the property, TLC
finds the loss in this run. It takes four arenas to see both.

**LinearAllocator.** Offsets, the marker and the words of the region are numbers
below `Word`; every word can hold any of `Garbage`, `Written` or an offset that
was a marker. `align_pointer` and the distance between pointers wrap around. A
marker read from outside the committed memory is a fault. `called` is a history
variable: the call that ran last, for `PushPopRestores`.

**Exceptions.** While the program starts, the source files of `Units` initialize
their constants in any order, one after the other within a file. Afterwards
threads enable and disable their handler, push and read. `disable` is two steps:
the slot is cleared, then the handler goes back to its allocator, which may push
an exception afterwards; other threads run between the two. A push is two steps
as well: the handler is read and its callback called, and when the callback
returns, the rest writes to the handler that was read. Between them the thread
may take any step of its own, another push with a callback of its own included:
`pushing[t]` has the calls whose callbacks have not returned, innermost last,
at most `MaxPending`. Other threads take their steps between the two as well.
`actor` is a history variable.

**Threads.** `argument[o]` is the `thread_argument` inside object `o`, which the
platform thread is given by address; `platform` lists the threads that were
created. Every refusal is an exception of the caller (`Raise`), and so a step of
`Exceptions` as well. A callback may use any thread object but those whose
constructor or destructor it was called from (`Idle`). `start` with a callback
creates another platform thread of an object that has one already, as the code
does, although `thread.hpp:65-67` says that such an object is refused. Which of the
two a test of `exception` codes takes follows from the numbers the codes got during
the start.

**EventQueue.** The queue's nodes come from a `FixedAllocator` whose `next` is
also the queue's: both links are the first word of a node. `push` is five steps
under the mutex. Constructing an `event_node` where `allocate` returned NULL is
modelled as the null result the code goes on to test (`event_queue.hpp:124-128`).
`batch` and `dropped` are history variables: the nodes linked since the last
`begin`, in order, and those earlier calls cut off.

**Bits, Handle.** A word is the set of the positions of its one bits, so that
`|` is union, `&` intersection and a shift moves positions: the shifts and masks
of `swap_bytes`, `encode` and the decoders are there one for one, at their real
widths (`std::size_t` has 64 bits). `Mask(N)` has `N + 1` bits, as `math::mask`
has.

**MemoryStream, BinaryStreams.** One action per call of the program: a primitive
or a handle written or read, a seek, and the stream used directly with more
bytes than it has. `Values` are the words of each size; signed and unsigned
methods do the same to the bytes and share an action. `host` is the byte order
of the machine, and the object representation of a word depends on it. A handle
is four 32-bit words in a row; a write that does not fit leaves the part that
does. `seek` from the end assigns to `offset` instead of `new_position`, which is
then any number (`stream_interface.hpp:80` promises otherwise). `stored` is a history variable: what was written in full and has
not been overwritten since, not even by a part of a later write.

**Strings.** `object[s]` has the fields of a string object; its pointer is the
union of `buffer` and `const_string`, and says what it points to: a buffer, a C
string, or the characters inside a buffer, which `duplicate` of a managed string
wraps by mistake. `references[b]` is the buffer's count, and 0 once it is
deallocated. Places for objects and buffers are reused. The range constructor
gives `storage_mode` no value, so it may be either; a buffer that a string took
for a C string stays in `abandoned`, a history variable. Offsets and lengths are
words: `substring` asks that its iterators belong to the string and nothing else,
so that they are any two words, in any order, and the length wraps around. It
replaces the offset of the string it is taken from, where `string.hpp:131-132`
speaks of the text of that string: a substring of a substring is within the text,
and is the wrong part of it. `duplicate` with an allocator is a range of any string
that is not managed; what it reads outside a text is `Unknown`, or a fault, and
`strlen` over a text that is not terminated ends at an unknown character or up to
`MaxOverrun` behind it. `strayed` is a history variable: the strings whose ends
nobody compared with their text, and what was copied from these. Following a null
buffer, which `operator =` does for a managed string whose allocation failed
although `string.hpp:226` and `string.hpp:234` say that nothing happens, ends in
the phase `"faulted"`.

**Utf8, StringIterators.** A text is a sequence of byte values, with one byte
behind it that is the terminator or anything else. `utf8_increment` and
`utf8_decrement` return what the functions write through their references.
`WellFormed` and `CodePoint` are the reference, by the definition of UTF-8.
`none` is the set of the exceptions whose code is that of none: two of them, since
the code that is generated first is 0. `misled` is a history variable: an
exception was taken for none.

**Format, StringBuilder.** A format is a record of what its object was told; a
value is its sign and its digits in the base of the mode. `Directive` puts the
flags, width, length and conversion together in the code's order; `Printed` is
external, `snprintf` as the C standard defines it for those: zero gets no prefix,
`%f` a point only before a digit or with `#`; the exponent of `%e` and `%g` is
left out. The loops over the buffers are recursive functions of the number of
steps. Buffers are places;
`length`, which the constructor does not assign, is one of `Garbage`. Overrunning
the result, using an allocator that was never assigned, and appending a managed
string without a buffer (`AppendNull`) are the phase `"faulted"`. `accepted` is
history. Nothing is said of the strings that `to_string` returns: their length of
their own is 0, so that none is the equivalent string of `string_builder.hpp:106`.

## Runs

Passing runs:

| Run | Bounds | Shows |
|---|---|---|
| `memory_region` | 2 regions, 2 addresses, words of 4 bits, pages of 2, granularity 4, maximum sizes 0, 3, 8, 15, grow sizes 0, 1, 3, 15 | `UsableCommitted`, `WithinReservation`, `SoleOwner`, the inductive `Inv`, `UsableBytesPersist`, `PagesFollowSize`: through every order of construction, moves, grows, refusals, resets and destruction |
| `blocking_allocator` | 3 threads, 14 bytes, nodes of 4, an uninitialized `node_count` of 0, 3 or 5, sizes that fit and do not | `OneHolder`, `FreeListIntact`, `ObjectsDisjoint`, the refinement `AtomicPool`, and `LockReleased` under `FairSpec` |
| `heap_allocator` | 2 pools of blocks of 64 and 128 bytes over 4 arenas of 128, pages of 96, 4 requests | `ArenasCommitted`, `LookupAgrees`, `NoArenaLost`, `FreshBlocks` |
| `linear_allocator` | regions of 0 and 14 bytes at address 4, pages of 4, words of 64, sizes 0, 3, 60, alignments 1, 8, 16, leftovers 0, 3, 40 | `BlocksCommitted`, `FailedRefuses`, `PushPopRestores` |
| `event_queue` | 3 threads, 3 nodes, 2 events | `BatchLinked`, `NodesAccounted`, `AcceptedKept` |
| `threads` | 2 threads, 2 handlers of 2 entries, 1 callback of each thread at a time, 1 object, 1 platform thread, 1 platform code, 5 exceptions of 2 source files | `HandlersAccounted`, `FreedUntouched`, `OwnHandlerOnly` |
| `strings` | 3 objects, 2 buffers, a C string of one character and an empty one, words of 0 to 2, 1 byte behind a buffer | `CountsHolders`, `WithinText`, `TextKept` |
| `text` | every text of up to 3 of 10 bytes, some of each class, and 4 longer ones | `OnBoundary`, `Reversible`, and `LoopEnds` under `IteratorFairSpec` |
| `string_builder` | 3 buffers, 1 string made, 2 texts, 9 formats | `PiecesInOrder`, `BuffersAccounted`, `CellsFilled` |
| `binary_streams` | 17 bytes, 2 writes, words of 1, 2, 4 and 8 bytes that all differ, handles of 20, 18 and 18 bits, both hosts and orders | `MediumOrder`, `ReadBack`, `HandleReadBack` |

Why the bounds are enough: with a word of 16 every sum and rounding wraps within
reach, and a size can end inside a page, at a page, and inside a reservation.
Two regions are what a move involves; two addresses let one be leaked and the
other used. Three threads put one inside the proxy, one at its door and one with
a block in hand. Three nodes or arenas give a list a first, a middle and a last
element, and are few enough to be exhausted; an arena of three bytes over pages
of two starts and ends inside a page. A stream of 17 bytes holds a handle with a byte to
spare, so that a second write overlaps the first from either side, misses it, or
does not fit; words with different bytes tell every wrong shift apart.
Three strings over two buffers let one be assigned away from a buffer that
another still holds, and a third reuse it; with one character and words up to 2,
iterators are in order, out of order with a length that wraps around, or behind
the text. Two pools over four arenas let an arena be
emptied by one pool, be free, and be cut up by the other, while there is a free
arena behind it to be lost; one pool cuts an arena in two, the other has it
whole. The region of 14 bytes does not fill its last page, an alignment of 16
starts a block behind it, and 60 wraps around. Two handlers for two threads are
let go by one and taken by the other; two source files suffice for every order
in which a code can be the first. One callback at a time lets the handler it was
called for be freed and taken by the other thread before it returns; callbacks
inside callbacks are left to the proof. The bytes of a text are some of each class
that the decoder tells apart, the first and the last trail byte among them; for
the boundaries of all classes there is the proof.

Runs that end in a violation, each of a statement the repository makes:

| Run | Statement | The code |
|---|---|---|
| `memory_arena_pool_free` | `memory_arena_pool.hpp:47-48` | a stale link puts an arena in use on the free list |
| `exceptions_callback` | `exception.cpp:146-148` | a push whose callback disabled exceptions writes to the handler that was let go |

`NoArenaLost` and the other properties of those modules are stated so that they
hold although these statements do not: what a call does from a consistent pool,
who writes to a handler apart from a push that its callback disabled.

Deadlock is checked except where the model can stop for good: a heap, a linear
allocator or a builder that was destroyed or has faulted, strings and threads
after a fault, and an iterator that is invalid or has ended its loop.

Fairness: `FairSpec` of `BlockingAllocatorProxy` has weak fairness of the steps
of each thread that is inside the proxy. It owns the mutex, it waits for
nothing, and the platform schedules runnable threads; nothing is assumed of
threads that wait for the mutex (a critical section promises no order) or of
callers. `IteratorFairSpec` of `StringIterators` has weak fairness of the loop's step:
the thread in the loop keeps running.

## Where the code differs

What the modelling met, besides the two findings that runs show. Each is in the
model as the code has it, and the properties say what holds all the same.

- `memory_region`: memory is never released, because `VirtualFree` is given a
  size together with `MEM_RELEASE` (`memory_region.hpp:116-118` says it is).
- `fixed_allocator`: `node_count` is read before it is assigned, so that the
  number of nodes is what the memory held; `fixed_allocator.hpp:27` does not
  hold, objects can lie behind the region.
- `linear_allocator`: `allocate` moves the offset to the beginning of the block,
  not behind it, so that blocks overlap; `current_marker` has no initial value;
  `push_marker` at offset 0 reports success, also where the region could not be
  claimed and everything should fail (`linear_allocator.hpp:32-34`); a marker
  shares its word with the blocks behind it.
- `pool_allocator`: `deallocate` writes through an offset; the tail of an arena
  list is never moved; `insert_after` links wrongly except behind a lone node
  (`ListProofs!InsertAfterSkips`); `remove` leaves the `previous` of the next
  node pointing at the arena that goes back, so that a later append can write the
  `next` of a free arena and lose the arenas behind it; an append between the head
  and the next leaves the latter's `previous` at the head, so that a later removal
  loses what is between. `heap_allocator` chooses a pool by the
  alignment alone, and its destructor leaves out the largest pool.
- `exception`: the first code generated is 0, that of none, and all others are 1,
  because the test whether the generator was initialized is inverted; a callback
  that disables exceptions makes the push that called it write to freed memory; the depth
  of a stack is compared with itself, so that what is pushed is never retrieved;
  a handler without a callback is called through a null pointer.
- `thread`: no code sets the flags that say a thread was created, started or has
  exited, so that no thread is ever resumed and no handle closed, and `start` with a
  callback creates a second platform thread.
- `event_queue`: `push` links a node behind the tail and never sets the head, so
  that `begin`, which "retrieves a forward iterator to the first event in the
  queue" (`event_queue.hpp:67`), always returns the end, and the nodes are lost.
- `utf8`: sequences of four bytes are decoded wrongly; the iterators at both ends
  of a text of one sequence are equal; going backwards counts stray trail bytes to
  the sequence before them.
- `string_builder`: `length` is neither assigned nor updated; a string made by
  `to_string` has a length of its own of 0 and is never equivalent to what was
  appended (`string_builder.hpp:106`); `buffer->allocator` is never set; `append` of
  a managed string without a buffer follows a null pointer;
  formatted text keeps its terminator. `floating_point_formatter` passes its
  width as the precision.
- `string`: `duplicate` of a managed string is neither copied nor counted
  (`string.hpp:140-141` promises a unique string); `substring` takes offsets into the
  buffer for offsets into the string (`string.hpp:131-132`) and does not compare
  them, so that reversed iterators make a length that wraps around.
- `bits`, `handle`: a mask has one bit too many (`bits.hpp:25`), so that fields of
  a handle share a bit and decode to other values than were encoded
  (`handle.hpp:104`).

## Proofs

`MemoryRegionProofs`, for every set of regions and addresses, every page size,
granularity and word that `UnitAssumption` relates (the reservation unit is whole
pages and divides the word, as powers of two do):

- `InvHolds`: `Inv` is invariant. It adds `Backed` to the safety properties: a
  reservation has the size its owner computes for it, and `current_size` never
  exceeds `max_size`. Without it a grow could commit behind the reservation, and
  a page count could wrap. The arithmetic (`RoundUpExact`, `PageCountFits`,
  `MinimumSizeCovers`) says where rounding modulo the word is exact.
- `SoleOwnerHolds`, `UsableCommittedHolds`, `WithinReservationHolds` follow.
- `UsableBytesPersistHolds`: each action either leaves the committed pages of a
  region alone or is that region's own reset or destruction; `SoleOwner` is
  what keeps others away.
- `PagesFollowSizeHolds` needs in addition that an object which does not live has
  no reservation (`Unborn`), and that more bytes never touch fewer pages
  (`PageCountMonotone`); one lemma each for moves, grows and resets.

`BlockingAllocatorProofs`, for any number of threads, nodes and sizes:

- `IInvHolds`: `TypeOK`, `MutualExclusion`, `OneHolder`, `Protocol` and
  `ListIntact` together are inductive. `ListIntact` is `FreeListIntact` with
  any length of list; it exhibits an enumeration of the list, and `ListPop`,
  `ListPush` and `ListKept` say how one step changes it. `Protocol` is needed
  because a head that was read must still be the head when it is replaced.
- `MutualExclusionHolds`, `OneHolderHolds`, `FreeListIntactHolds` follow; the
  last also needs that there are finitely many nodes, which the constructor's
  result gives (`InitFinite`) and no step changes.
- `ObjectsDisjointHolds`: the constructor's nodes are whole nodes apart and
  aligned (`InitObjectsApart`, `InitNodesAligned`), and no step moves them.
- `AtomicPoolHolds`: `Spec => AtomicPool`, one lemma per action: the step of
  `BlockPool` it implements, or that it stutters.

`ListProofs`: how an enumeration of the free list is changed by a pop, a push
and writes elsewhere, for both specifications that use `FixedAllocator`; and, of
`intrusive_list`, that `remove`, `unlink` and `insert_before` keep next and
previous each other's inverse in every list, and that `insert_after` does so
behind a lone node (`InsertAfterAlone`) and breaks them behind the last of more.

`EventQueueProofs`, for any number of threads, nodes and events:

- `InvHolds`: `Inv` says at once what is free, carried by a thread and kept, that
  these are apart, that the free list enumerates what is free, and that the batch
  is linked. Both lists go through the same `next`, so neither half is inductive
  without the other. `EndsList` and `LastLinked` say what the links are in the
  middle of a push.
- `BatchLinkedHolds`, `NodesAccountedHolds` and `AcceptedKeptHolds` follow: the
  one write to an event is at a node that is carried, and so not kept.

`RegionAllocatorProofs`, for every page size, granularity, word, arena size, count
of arenas, set of pools and of requests that the assumptions of the modules
allow. `Backed` says what the region of either allocator owes it, `GrowsWhole`
that a grow is complete or refused, `PagesReach` that bytes within the size lie
on committed pages.

- `LinearInvHolds`: a region that was claimed is committed whole (`Claimed`), each
  block lies inside unless its size wrapped, and after a push the word at the
  marker is the marker before it (`MarkerStored`). `BlocksCommittedHolds`,
  `FailedRefusesHolds`, `PushPopRestoresHolds` follow.
- `PoolInvHolds`: the size of the region is exactly the records and the arenas
  counted so far, through every refusal in the middle of `reserve` and
  `take_arena`. `ArenasCommittedHolds` and `LookupAgreesHolds` follow.
- `HeapInvHolds`: adds the types of the links, that a record names only an
  allocator that has its arena (`NamedHas`), and that the arena in the middle of
  a call is its allocator's (`BusyOwns`). It holds in every state of `Spec`,
  whatever has become of the links.
- `NoArenaLostHolds`: `Spec => NoArenaLost`, from any consistent state and not only
  those the run reaches. One lemma per action (`TakeLosesNone`, `UseLosesNone`,
  `ReleaseLosesNone`, `GiveLosesNone`, `DestroyLosesNone`, ...): what was reached
  along each list is still reached after what the action does to `next`, from
  `Reached` as a least closed set. For `remove` and `insert_after` that needs the
  previous pointer they follow to be in place (`InPlace`), which is what the two
  exceptions say.
- `FillInvHolds`: the blocks of an arena go out from first to last and a free node
  stands for all that are left (`AllFilled`), so that the block handed out is
  none that was handed out since the arena was taken. Links that lead into another pool's arena would let a
  node's size be overwritten, so this is invariant of
  `OrderlySpec == Init /\ [][Consistent /\ Next]_vars`, which is what the run
  explores: consistent states and one step behind them. `FreshBlocksHolds` is
  `OrderlySpec => FreshBlocks`.

`StringsProofs`, for any number of objects, buffers and texts:

- `InvHolds`: types, `CountsHolders` and, of the strings that have not strayed, that
  they are within their text. Each operation writes one object; `Becoming` is what such a write owes the counts
  and the texts, and each operation is shown to pay it.
- `TypeOKHolds`, `CountsHoldersHolds`, `WithinTextHolds` follow; `TextKeptHolds`
  because only a buffer without a count is written. `WithinTextHolds` says that
  there are three ways out of a text and no others: iterators out of order or
  behind the string, `duplicate` of a managed string, and an unset `storage_mode`.
- `IteratorInvHolds`, for every text: while the iterator is valid and no exception
  was taken for none, it is in its text, stands on a well-formed sequence with its
  code point unless it came from the end of a text that does not end with one, and
  the iterator before a step back ends where the step began. Decoding is arithmetic on the bytes (`Decoding2`, `Decoding3`);
  the boundaries of a text are the least set with its start that is closed under
  well-formed sequences, and a least offset (`LeastOf`) stands in for induction.
- `OnBoundaryHolds` follows, and `ReversibleHolds`: a step forward from where a
  step back led decodes the sequence that was left.

`OutputProofs`, for every size of the stream, set of values and of handles, and
for any number of buffers, texts and formats:

- `InvHolds`, of the streams: each record of `stored` lies in the stream byte for
  byte as the writer put it there. A write that does not fit must still forget
  what its part overwrote.
- `TypeOKHolds`, `MediumOrderHolds` and `ReadBackHolds` follow, the last two
  because `swap_bytes` moves byte `i` of a word to the same place from the other end
  (`SwapBytesTurns`, bit by bit for each size); `HandleReadBackHolds` because a
  handle decodes to fields that encode to it again, whose proper bits are those
  it was made of (`FieldsDecoded`).
- `BuilderInvHolds`: while a builder is used, its buffers are a chain without loop
  that carries exactly what was accepted, in order (`Gathered`); while one is
  destroyed, the chain of those not yet given back (`Remaining`). What the loops
  visit is the chain (`ChainListed`), by the least place where the two would
  differ (`SuffixVisited`).
- `PiecesInOrderHolds` and `BuffersAccountedHolds` follow.
  `CellsFilledHolds` is about `format` and `snprintf` together: reading back the
  directive that `format` writes gives the flags and the width that were asked
  for (`DirectiveRead`), and what is printed for those fills the cell
  (`PrintedFills`), for every width, set of flags and sequence of digits.

`ThreadsProofs`, for any number of threads, handlers and objects, and callbacks
inside callbacks to any depth:

- `InvHolds`: a handler that is allocated is held by one thread (`Held`,
  `OneThread`, `NoneLost`).
- `HandlersAccountedHolds`, `FreedUntouchedHolds` and `OwnHandlerOnlyHolds` follow,
  the action properties from what a step of a thread may change (`StepOf`). The
  rest of a push writes to the handler it read before; it is the thread's own
  unless the callback disabled exceptions (`LateWrite`), which is the exception of
  both and what the run `exceptions_callback` shows.

Assumptions are those of the constants, which TLC evaluates on every run.

Proving met these in the model, which runs had not: `Printed` gave zero a prefix and
a number without decimals a point; the cases of
`get_code_point_utf8_sequence_length` overlapped; the append through a stale
previous pointer loses arenas, and the run had too few of them to notice.

Only model-checked: liveness (`LockReleased` and `LoopEnds`: fairness and ENABLED
are outside the prover's reach). The two violated statements are counterexamples
of TLC. The models use recursive functions on the natural numbers in place of
RECURSIVE operators: they unfold by `NatInductiveDef`, and where an induction over
data would be needed the proofs argue from a least counterexample or a least
closed set.

## Plan

Done, in this order: the regions, the fixed allocator and its proxy; the event
queue; the streams; the strings; the lists, pools and heap; the linear allocator;
exceptions and threads; UTF-8 and its iterators; formats and the builder; proofs of
every safety property and action property that a passing run checks, and of the
refinement.

Left: the types of the heap's records and nodes (`PoolTypeOK`) from `FillInv`;
that the operations of `BlockPool` alone never hand a block to two threads, and
`OneHolder` from the refinement; the comparison of strings.

Runs stay at two or three actors and three elements of each kind, which is
where lists and counts show their first, middle and last cases.

## Not modelled

- Vectors and matrices: formulas over floating-point numbers without state, order
  or failure.
- `condition_variable`: passes each call on to the platform, and nothing uses it.
- `standard_allocator_proxy`: stateless, used by no source file.
- The hint compiler and the interfaces it reads: a build step.
- Of `event_queue`, `increment` and `dispose`: unreachable while `begin` yields no
  node. Of `thread`, the entry point of the platform thread, for the same reason.
- Of `string`, the comparison, which subtracts the offset from the length.
- Of the allocators and regions, the exceptions they push on failure: `Exceptions`
  and `Threads` show what a push does to a thread.
