# cjson.cpp in TLA+

A model of the library's own core: scanning a text into an index, reading it into a flat
arena or walking it without one, checking it, writing it back, editing the arena in
place, streaming it through a ring of buffers, and who owns the memory meanwhile.  Every
definition is taken from `src/src/cjson/*.hpp`; `PROJECT.json` maps each to its lines.
The modules are checked on small instances with TLC.  For the scanner and the minifier,
the builder, the agreement of builder and validator, the writer's room and stack, editing
in place, the streaming sink and the ownership of memory, TLAPS proves the invariants for
every text, every option, every sequence of edits, every size and number of buffers,
documents and failures.

- [1. The system](#1-the-system)
- [2. Modules and the code they model](#2-modules-and-the-code-they-model)
- [3. What the runs check and show](#3-what-the-runs-check-and-show)
- [4. What is proved](#4-what-is-proved)
- [5. Where code and documents disagree](#5-where-code-and-documents-disagree)
- [6. What is not modelled](#6-what-is-not-modelled)
- [7. Plan](#7-plan)

## 1. The system

cjson is a header-only JSON library.  Calls are synchronous and keep no global state.
Only the streaming sink meets another actor, the kernel.  Elsewhere what makes the code
hard is shared storage and compact encodings: one array of 16-byte slots holds the whole
document, containers are linked by byte offsets that mean something else while they are
open, text stays where it was read, memory may be lent by a scratch, and several pieces
of code rely on a number another piece computed much earlier.

| Component (header) | State it keeps | Operations | Works with |
|---|---|---|---|
| Stage 1, index scanner (`stage1`, `utf8`, `simd*`) | per block: inside a string, next byte escaped, scalar before | one 64-byte block at a time to a list of structural indexes | hands the indexes to stage 2, on-demand and minify |
| Stage 2, builder (`parse.hpp` `build_t`) | arena, innermost container, child count, depth, bound accumulators, ranges | one index at a time: value, after, key | writes the arena and the pool of a `doc`, or the caller's fixed storage |
| Validator (`validate_indexes`) | a bit per level, depth | the same grammar, no arena | must agree with the builder |
| Lexical readers (`string`, `number`, `parse`) | none | check or convert one string, number, literal | called by both machines |
| Document and handles (`doc.hpp`) | arena, pool or the caller's buffer, capacities, borrowed or owned, cached write bound, sticky error | detach, grow, put text, navigate, pointer | storage under the mutators; a scratch behind borrowed documents |
| Mutators (`mutate.hpp`) | none of their own | set, rename, insert, push, erase, clear | rewrite the arena, move the storage, adjust the cached bound |
| Writer (`write.hpp`) | cursor, stack of frames, output position | bound, reserve, emit, minified or indented | reads the arena; trusts the bound for the room and the parser's limit for the stack |
| Streaming sink (`flash.hpp`) | ring of buffers, writes in flight, bytes confirmed, sticky error | put, flush, reap, drain, whole documents | hands buffers to an asynchronous file engine |
| Scratch (`scratch.hpp`) | index list, pool, arena | grow, lend | lends its storage to documents parsed with `parse_reuse` |
| On-demand (`ondemand.hpp`) | position in the index list | skip, find, pointer | reads the index list without an arena |
| Minifier (`minify.hpp`) | the scanner's carried bits | one sweep | same masks as stage 1 |
| Builder and fixed writer (`builder`, `fixed`) | output, nesting bits, pending key, sticky error | open, close, key, value | produce text from calls |
| One-shot getters, pointer (`oneshot`, `doc`) | none | a lookup by path | parse or navigate |
| Numbers (`number`, `dtoa`, `itoa`) | none | to and from text | called by readers and writer |

What makes each correct, and what is hard about it:

- **Builder.** The texts it accepts are exactly JSON within the depth limit; the arena
  it leaves is well formed; it never writes past a slab sized before the first slot.
  Its only stack is the back offset kept in the slot of every open container, which is
  overwritten one by one with forward spans as containers close; the parent's child
  count is parked in the same slot meanwhile.
- **Validator.** The same verdicts as the builder from a different encoding.
- **Writer.** What it writes is the text the value was read from; it stays inside the
  room a bound reserved, including the separator it writes and then takes back; its
  stack, sized by the depth limit, is never too small.  The bound is computed in three
  places: by the parser on the way, by a walk before writing, by differences on edits.
- **Mutators and document.** Each call edits the tree it names at the place it names or
  is refused and changes nothing else, although it patches spans of every container
  around, may have to detach from borrowed storage, may move pool and arena, and may
  fail after it did one and before it does the other.  Lent text is never written to.
- **Sink.** Bytes arrive once and in order, a failure is never lost, no buffer is
  touched while in flight, `drain` ends.  Completions come in any order and may fail.
- **Scratch and ownership.** Every block has one owner, however a parse, a detach or a
  growth fails half way; a document that lives on lent memory loses it to the next user
  of that scratch and to nobody else.
- **Stage 1, minify.** The carried bits make the blocks one scan, whatever falls on a
  seam.
- **Lexical readers.** A string is decoded over its own bytes, to which later entries of
  the index still point; a numeral is cut into significand and exponent so that nothing
  is lost.
- **On-demand, pointers.** Skipping by counting brackets stops where parsing would; two
  readers with different shortcuts resolve a path alike.
- **Builder and fixed writer.** Any order of calls gives well formed text or an error,
  and both give the same.

## 2. Modules and the code they model

| Module | Models | State and actions |
|---|---|---|
| `JsonTokens` | slots (`value.hpp`) and the verdicts of the lexical readers | lexical units; `Slot`, `SpanOf`, `GetNext` |
| `BuildFsm` | `build`, `build_t` | one variable per local of `build_t`; an action per transition: `ValueLeaf`, `ValueEmpty`, `ValueOpen`, `AfterComma`, `AfterClose`, `AfterRoot`, `Key` and a failing action per state |
| `BuildFsmProofs` | | the invariants of slab, tree and bounds, and the theorems about `BuildFsm` |
| `ValidateFsm` | `validate_indexes` | the same states with a bitset in place of the offsets |
| `Twins` | both machines on one text | a step of each at a time; one that has returned waits for the other |
| `SetLemmas` | | least elements and cardinalities of small sets, used by the proofs |
| `Arena` | what the walks of `doc.hpp`, `write.hpp` and `mutate.hpp` rely on | a finished arena, slot by slot: spans nest, lengths count children, keys are strings, texts stand apart in the pool |
| `WriteBounds` | `bound_slots`, `pretty_extra`, `write_bound` | operators over a finished arena |
| `WriteEmit` | `emit_t` | `Open`, `Empty`, `Scalar` write an item, `CloseTop` and `NextItem` what follows it; `stack` and the cached frame `top` are both kept |
| `OnDemand` | the cursors of `ondemand.hpp`: `skip`, lookup, `at`, `count`, ranges, raw spans, `at_pointer` | operators over an index that holds quotes and escapes as stage 1 delivers them |
| `Navigate` | `val::operator[]`, `arr_is_flat`, `val::at_pointer` | operators over an arena |
| `ParseWrite` | one text through `validate`, `parse`, `write` | `Twins` one machine after the other, then the writer by INSTANCE over the arena they leave; `WriteDoc` and `WriteVal` start it on the document or any value in it |
| `ParseWriteText` | what of the text the calls keep | the same calls against the grammar, and both readers over the arena and the index |
| `ParseWriteProofs` | | that builder and validator stay together; the writer's invariant, and that its room and its stack are enough |
| `JsonGrammar` | | reference: RFC 8259's grammar over units, and well formed arenas by recursion |
| `Mutate` | every mutator of `mut`, and `__detach`, `__own_pool`, `__own_vals`, `__pool_put`, `__wb_swap` of `doc`; the walks of `__patch_spans` and over children, `arr_is_flat` | `vs`, `pool`, `store`, `wb`, `merr`; an action per mutator with its refusals, its success and its failed allocations; `Steps`, `PatchWalk` are the loops, after each turn |
| `JsonTree` | | abstract: a tree of nodes, edited at a path by one call at a time, with a sticky error |
| `MutateTree` | | the mapping from arena to tree |
| `ArenaLemmas` | | what is left of an arena when a block of slots is put in or taken out; sums over slots |
| `MutateProofs` | | the invariant of arena, text, storage and bound, one lemma per mutator |
| `DocHeap` | the parsers as allocators, `scratch`, moves and destructors, `__detach`, `__own_pool`, `__own_vals` | a heap of blocks; an action per parser, per move, drop and kind of edit, each with the allocation that fails |
| `DocHeapProofs` | | the invariant on owners of blocks, one lemma per call |
| `Sink` | `flash::sink` | the ring, the call in progress and where it waits (`Put`, `Reserve`, `Submit`, `ReapInFlush`, `Drain`, `ReapInDrain`, `Drained`); external: `Kernel` completes a write, in full, short or with an error |
| `SinkProofs` | | the invariant of ring and kernel, the refinement of `AppendLog`, and what a job leaves in the file |
| `AppendLog` | | abstract: a file whose bytes stand where they belong, a sticky error, an answer that promises only what is there |
| `Job` | `write_to`, `stream_file` | the calls of a plan, one by one until one is refused (`NextCall`, `Written`), then the two drains (`DrainOnce`) |
| `Stream` | `write_to`, `__fl::one` | documents, their text, and the plan of calls each is split into (`Calls`) |
| `Emitters` | `builder` and `fixed_writer` | one call on both at a time; the builder's output, comma and nesting bits and error, the writer's cursor, stack and error |
| `Scan` | stage 1's `structural_bits_ex`, `__index_input`; minify's `sweep` | a block per step: `Head0`, `IndexBlock`, `SweepBlock`, `End`; masks are sets of bit positions |
| `Readers` | `read_string`, `unescape`, `read_number`, `validate_string`, `validate_number` | a walk over the index of `Scan`: `PlainString`, `EscapedString`, `Unescape` (a round of it), `ScanNumber` |
| `ScanProofs` | | the arithmetic on masks, the carries between blocks, and that the blocks are one scan |
| `TextGen` | | texts for the instances |
| `MC...` | | the instances |

Conventions.  In the modules of stage 2 slots and offsets count from 1 and in slots,
where the code counts bytes from 0; 0 stands for the code's "none".  A lexical unit
stands for the one or more indexes stage 1 delivers for it, and carries its reader's
verdict (`badnum`, `huge`, ...).  `Scan` and `Readers` are about bytes, and show what the
units assume: which indexes there are, and when a string or number is refused (a `huge`
one by the parser only).  In `Mutate` a text is a few characters; what a property tells apart is how long it is,
whether it needs escapes and where it stands.  In `Stream` a text is a sequence of cells,
a byte each.  Auxiliary variables (`opens`, `call`, `doc`, `len`, `calls`, `faults`) are
for properties and bounds.  Operators called `Bug...` are defects the properties are
tested against; nothing uses them.

**From arena to tree.**  `MutateTree!TreeOf` reads the arena as a tree of kinds, texts,
numbers, keys and kids; the variable `doc` holds it after every step.
`T == INSTANCE JsonTree WITH tree <- doc, err <- merr`, and `ImplementsTree` is the
abstract specification.  It allows a call to answer "oom" where it would answer "ok", in
which case the document must be untouched.  Nothing of pool, capacities or borrowing is
visible there: that they do not leak into what the user sees is the property.

**Storage.**  In `Mutate`, `store` keeps whether the document borrows, whether it has a
pool (else its text is in the caller's buffer) and both capacities.  The four
combinations are the four parse modes: `parse`, `parse_reuse`, `parse_insitu` and
`parse_insitu_reuse`.  `DocHeap` is the same storage from the outside: blocks instead of
bytes, but several documents and scratches.  A block holds the number of the parse that
wrote it, so a document is intact when its blocks hold its own number.

**Sink, kernel, file.**  A request is a buffer, an offset and a length.  It is `queued`
until the engine submits it, then in `flight`, then in `cq` until the sink reaps it.
The kernel reads the buffer when it completes the request, the latest it may; a sink that
reuses a buffer too early thus writes wrong bytes.  Byte p of the log is written p, so
the file is right when it holds p at position p.  `Log == INSTANCE AppendLog WITH failed
<- err # "ok"` and `ImplementsLog` is the abstract specification.  `Job` adds who makes
the calls and what it answers, for any plan of calls; `Stream` adds the plans of documents,
that is what the bytes are.

**Blocks of bits.**  A block of the code has 64 bits.  `Scan` takes the width from
`Widths`, any number from 2 to 64: the run uses words of 2 and 4 bits, the theorems cover
all.  Masks are sets, and the one subtraction (which finds where a run of backslashes
ends) is done on numbers modulo 2^W.  `prefix_xor` is the scalar back end's doubling by
1, 2, 4, ..., 32; the vector back ends promise the same function.

## 3. What the runs check and show

| Run | Shows |
|---|---|
| `build` | The builder at every step.  `OpenChain`: the back offsets lead through the open containers from the innermost to the root and visit all of them.  `LiveCounts`: the count kept or parked for each is the number of its children.  `ClosedSpansNest`, `DepthIsOpens`, `SlabInBounds`.  `ArenaWellFormed`: what is left in the end is a tree.  `BoundsAgree`: the accumulated bound is the walks', to the byte.  `TwinsAgree`: at every unit builder and validator expect the same, and they give the same verdict and error at the same place (but for numbers that overflow, COMPLIANCE.md F3). |
| `parse_write` | `AcceptsGrammar`: exactly the grammar's texts, stopping where the root does.  `RangesAreSources`.  `LazyReadsTheSame`: at every value, cursors find the members, elements, counts and spans the arena holds.  `PointersAgree`: both readers resolve a pointer to the same value.  `RoundTrip`: any value, written minified or indented, is the units it was read from.  `BytesFit`: within the reserved room, even when every scalar is as long as it can be.  `FramesFit`: no more frames than the parser's depth limit.  `Terminates`. |
| `mutate` | After any sequence of edits, with any allocation failing: `ArenaWellFormed`, said slot by slot as it is proved; `WalkReachesParent`: a loop over children that counts them and one that looks for the end do the same, and the walk that patches spans comes to every container around the edit and to nothing else; `FlatIndexIsWalk`: the shortcut for indexing arrays is taken only where it is right; `BoundExact`: the cached bound is what the walks compute; `RoomOwned`: owned storage holds what is in it and the terminator an overwrite adds; `EscapesMarked`; `LentStorageKept`: lent text is never written to, and a document that borrows keeps its size. |
| `mutate_tree` | `ImplementsTree`: each call does to the document what it promises and nothing more. |
| `docheap` | `OneOwner`: no block is freed twice, leaked or owned by two, whatever fails.  `OwnersKeep`: a document that owns its memory keeps what was parsed into it (text left in the caller's buffer is the caller's).  `LostByReuseOnly`: one that borrows loses it only by a call on the scratch or storage it borrows from. |
| `stream` | Buffers of 2 and 4 bytes, two or three of them, completions in any order, up to two failures.  `Accounted`: bytes and writes in flight are counted right, and a wait is always for a write that is out there.  `BuffersHeld`: no buffer in flight is staged into.  `ImplementsLog`: no byte in the wrong place, no success that is not one.  `StreamedIsWritten`: the file is the document's text.  `CallsReturn`. |
| `emitters` | Any calls in any order.  `PublishedIsJson`: what either emitter hands out is a value of the grammar.  `EmittersAgree`: on calls both accept they write the same, if the writer's depth is no more than the builder's.  `RefusalIsFinal`: a refused call, for want of room or out of place, leaves the text as it was (a copy refused on the way may have written a part) and is final. |
| `scan` | `IndexesAreStructural`: blocks of 2 and of 4 bytes find what a byte-wise reading finds.  `MinifyStrips`: exactly the white space outside strings goes, within the room given.  `StringsDecoded`: strings are refused when they have no meaning, else stand decoded in their place, nothing around them touched, and the validator says the same.  `NumbersExact`: integers exactly, anything else as the nearest double, ties to even, however many digits were cut; both readers refuse what is no numeral, and `read_number` besides exactly those that round to infinity (COMPLIANCE.md F3), which `validate_number` accepts. |
| `parse_write_uncapped`, `mutate_nesting`, `mutate_aliased_key`, `stream_pretty` | the disagreements of section 5 |

**Bounds.**  `build` and `parse_write` take every unit sequence of up to `MaxAny` units,
every document of up to nine units, and every document of up to six with one unit
dropped, doubled, replaced or appended.  Nine units hold three levels with siblings
before and after a nested container, objects in arrays and the reverse; the errors of
the machine are local to one unit, so near misses reach each failing branch in each
state.  The depth limit (2 or 3) and the fixed arena (3, 6 or 7 slots) are both hit
from below and above.  `build` takes four sets of options: plain, raw numbers with
trailing text allowed, and two fixed arenas; its validator's fallback of 2 levels
(`FallbackDepth`) is used only where the limit is 0.  `mutate` starts from an object with a nested array of text or
of raw numbers, a raw number alone, and nested arrays, in each parse mode, and takes
every sequence of edits that stays within 5 slots (`MaxSlots`) and 9 bytes of pool
(`MaxPool`): enough for a member or an element to be added beside and below a nested
container, for growth by half, by need and to the floor, for text shorter than, as
long as and longer than the text it replaces, and for a second append after each.
`SlotFloor`, `PoolFloor` and `Padding` stand for 16 slots, 256 and 64 bytes and are
small so that growth happens.  `MaxIndex` bounds the index of `erase`.  No variable is
cut off by a constraint.  `mutate_tree` uses the two modes with a pool and two of the
documents, since it tells apart states by their sticky error.  The views drop the
variables no guard and no checked property depends on: `call`, and in `mutate` the
sticky error too; `doc` is a function of the others.

`docheap`: two documents, two scratches and an on-demand view, texts of two sizes (so a
scratch is both reused and regrown), three parses (`MaxParses`: one lends, one takes
back, one more lands in between) and any number of moves, edits and drops.  `MaxBlocks`
is as large as all owners together can need (`DocHeapAssumption`), so that an allocation
fails only when it is chosen to.  Documents are interchangeable and so are scratches, hence the
symmetry; the view identifies states up to the numbers of blocks and parses.
`stream`: a scalar root longer than a buffer, an array and an object with keys and
children shorter and longer than one; `MaxFaults` two, so that a failure can meet the
handling of another.  `Slacks` is what the write bound exceeds a child's text by,
which decides whether the child is staged in the ring or goes around it.  `emitters`: 10 units, three
levels for the builder and two for the writer (1024 and 64 by default); capacities of 0 and 60 never
and always suffice, 7 and 12 run out at different calls.  `scan`: all texts up to 4 bytes
over every class, up to 6 over quotes, backslashes, spaces and others, up to 9 over
quotes and backslashes, so that a run of backslashes covers two blocks; minify's output
fits or is two bytes short.  For the readers, strings of up to three pieces (plain,
simple escapes, escapes of one to three bytes, both surrogates, malformed ones), and of
up to two before another string; numerals of up to 4 bytes, decimals with leading zeros
and cut digits, and every integer near the limits.  A word has 7 bits there and two
digits always fit it (`WordBits`, `SigDigits`), which have the relation of 64 and 19;
the exponent is capped at 10 (`ExpCap`) in place of 10^8, and numerals are shorter than
that.  Doubles have two fraction bits, the largest is 7168 and the least 2^-6, so the
powers of ten that matter are -4 to 3 in place of -342 to 308; `DoubleAssumption` states
what both choices have in common, and the numerals include those next to either end, to a
tie, and to the powers where the reader stops computing.

**Fairness.**  `Terminates` assumes weak fairness of `CallStep` only: a call, once made,
runs on.  The code has no waiting there, so a step that is possible is taken; the
caller's choices before a call are part of the initial state.  `StreamSpec` assumes weak
fairness of the program's own steps (`StreamWorker`), failing ones excepted, and of the
kernel: a submitted write completes, if not always well.  The other modules have none: a
program may stop calling whenever it likes.

**Deadlock** is checked everywhere but in the streams, where the program ends: after the
destructor's drain and the last completion nothing is left to happen.  Elsewhere a
machine that has answered stutters explicitly.

**Mutants.**  `PROJECT.json` gives for each property a plausible defect of a modelled
definition under which its run fails: a dropped ancestor in the span walk, a count
parked off by one, a buffer taken for free while in flight, a borrowed flag forgotten, a
carry between blocks dropped, ...

## 4. What is proved

Eight modules hold proofs.  Each theorem is about every value of the constants that
satisfies the assumptions of the module it is about; the assumptions say what the
constants are, and where they say more it is named below.

**Scanner and minifier** (`ScanProofs`, under `WidthAssumption`: a block has 2 to 64
bytes; and `TextsAssumption`: texts are sequences of classes and not empty, since every
caller refuses an empty one).

- `EscapesAreRight`: the subtraction tells the escaped bytes of a block and the carry.
  The difference is found bit by bit with the set of positions borrowed from
  (`MinusIs`); that it is the one CHOOSE finds is that different words are different
  numbers.
- `PrefixXorIsParity`: the doublings give the parity of the quotes.  After each the mask
  tells the parity of a window of positions, twice as wide as before (`Window`), and 64 is
  as wide as a block can be.
- `StructuralsFound`, `MinifyKeepsTheRest`: `IndexesAreStructural` and `MinifyStrips`.
  What a byte-wise reading finds is stated as sets of positions (`Esc`, `Quotes`, `Opens`,
  `Scalars`) with their recurrences.  `BlockIs`: if the carries are those of byte n, a
  block's masks are those sets from n on, moved to 0, and its carries those of n + W.
  The invariant (`IInv`) says that there is such an n, that it is the next byte unless the
  text ended before it (the first block of `__index_input` may be padded, and the carries
  then are those behind the padding), and that the list with the lagging block, and the
  output, are what there is to list below n (`AscendingJoins`).  For a minifier that runs
  out of room, that runs copied one by one fit until they do not (`FittingIs`).

The theorems are about `Scan` by itself, `Spec`.  The run `scan` checks `ReadSpec`, whose
other steps, those of the readers, leave the variables of `Scan` alone.

**Builder** (`BuildFsmProofs`, under `InputsAssumption`, `OptionsAssumption` and
`LimitAssumption`: inputs are sequences of units, limits numbers; source ranges are kept
only by the fixed parser, which always accumulates bounds).

- `TypeCorrect`: no offset, count or bound ever leaves its type; in particular none
  goes below zero.
- `SlabNeverOverrun`: sizing the growing arena by the number of units is enough, and
  the fixed one is checked before every slot.
- `BackOffsetsAreTheStack`, `DepthBounded`, `SpansNest`, `CountsAreLive`: `OpenChain`,
  `DepthIsOpens`, `ClosedSpansNest` and `LiveCounts` of the run `build`.
- `ArenaIsWellFormed`: whatever the text, the arena of a document that parses is well
  formed, `ArenaWellFormed`.  `EditsKeepTheTree` below starts from there.
- `BoundsAreTheWalks`: the accumulated bounds are the walks', flat and at every indent.

None of these is inductive alone.  `SlabInBounds` needs to know that a growing arena
has used fewer slots than units were consumed (`SlotsBehindUnits`).  Opening a container
outside any other writes offset 0, which is a link to nowhere only if that slot is the
first (`RootFirst`).  The depth counter and the bound's own depth counter can be
decremented only if they count the open containers (`DepthIsOpens`, `PairDepth`), for
which the chain must be known to lose exactly its innermost member (`OpenChain`).
That the next one out then covers only closed slots is `ClosedSpansNest`.  A child is
counted as it is written and its parent's count is parked before the next slot is, so
the number of children so far is read off the spans (`LiveCounts`, which rests on
`ClosedSpansNest` for the children that are closed).  `IInv` is the conjunction, with one
lemma per action (`ValueOpenKeepsIInv` and `AfterCloseKeepsIInv` carry the argument).

`TreeInv` adds what is true of the slots so far: a closed container counts its children
(`Settled`), the children of an open object alternate between keys and values, keys are
strings, and the state says whether a key or a value is next (`Paired`).  A closed
container's children are those it had while open, so the count it takes with it is right.
`BoundsInv` adds the sums.  A slot is charged for as many indents as containers are open
when it is written.  Those are the containers it will stand in for good (`Cover`):
closing one draws the line behind the last slot written, and changes no other's share.

**Builder and validator** (`ParseWriteProofs`).  `ParseAndValidateAgree`: on every text
without an overflowing number, at every limit, both are in the same state at every unit
and give the same verdict, error and end.  The invariant relates the two encodings: the
validator's depth is the number of containers the builder has open, and the bit of a level
tells the kind of the one open there; the level of a container is its rank in the
builder's chain.  The product takes a step of each at a time; both are deterministic, so
nothing is lost by that.  `FallbackAssumption` is the condition of finding 1.  That
neither machine gets stuck before the other is not a theorem but the deadlock check of
the run `build`.

**Writer** (`ParseWriteProofs`, with `IndentsAssumption`, and `FixedDepthAssumption`:
`parse_into` refuses a limit larger than the writer's stack, `fixed.hpp:46`).

- `RoomIsEnough`: `BytesFit`.  The writer is inside the containers on a path through the
  arena, whose ends its frames hold (`OnStack`); at an item these are all the containers
  the walks count for that slot, so the item's line is as long as the walk says.  A slot's
  share covers what it takes at once and, for a container, the closer to come; the bytes
  written and the closers owed never exceed the shares of the slots passed
  (`BytesSoFar`).  That the room is the sum of all shares is `BoundsAreTheWalks` where the
  parser kept the bound.
- `FramesAreEnough`: `FramesFit` wherever depth is counted.  The path is never longer than
  the number of containers a slot stood in when it was written (`NestsWithin`), which the
  parser's limit bounds.  With no limit compiled in (`DepthLimit = 0`) the growing parser
  counts nothing, and nothing is claimed.

**Sink** (`SinkProofs`, under `SinkAssumption`: a buffer holds a byte, there is a
buffer).  `BytesAccounted`, `HandedOverAlone`, and `SinkIsALog`: `ImplementsLog`, step by
step.  The strengthened invariant numbers the writes in the order in which they were
handed over, puts each in one of three places (queued, in flight, completed), gives each a
buffer of its own until something fails, says of each buffer in use that it still holds
the bytes its write is for, and divides the bytes accepted into those in the file, those
owed by exactly one write and those staged.  A failure freezes what is counted and
leaves the file with bytes only in their places.
Documents go through the same sink: `JobsUseTheSink` shows that every step of `Job` is a
step of `Sink` (a call asks for one byte at a time or for as much room as a buffer has,
or is refused), so the theorems above hold while a document is streamed.
`JobsArriveWhole` adds the caller's side: if `write_to` and the drain after it both answer
`ok`, then every byte of every call of the plan is in the file, in its place, and nothing
else is (`AllInFile`).  Its invariant (`Progress`) says that what the sink has accepted and
what the call in progress has yet to stage are together the bytes of the calls already
made, as long as nothing failed.  What `StreamedIsWritten` has beyond that, and leaves to
TLC, is that the cells of a document's calls, one after the other, are its text.

**Ownership** (`DocHeapProofs`, under `DocHeapAssumption`: there are at least
2·documents + 3·scratches + 2 blocks).  `BlocksHaveOneOwner`, `OwnedContentsStay` and
`BorrowedIsLostByReuse`.  A
call allocates, frees and hands over blocks several times and may fail at each, so the
invariant is said of a heap together with the blocks the call holds meanwhile; one lemma
per kind of step (allocate, ensure, release, write, give) keeps it, and each call is a
composition of those.  What a document owns is written only by the parse that made it.
For borrowers the invariant adds (`LInv`) that every parse's number belongs to one
document or view and none is newer than the last parse, so that contents once lost do not
come back, and that what an intact borrower holds is the arrays of one scratch or the
caller's storage.  Every action is then shown to be a step of one shape: it changes only
blocks that are free, owned, or used by its call, and leaves in them nothing, a newer
parse, or a copy its document owns (`StepTouches`); it moves a scratch's arrays together
(`StepLends`); and it makes documents and views only from those there were or from its
parse (`StepDocs`, `StepView`).  The theorem follows from the shape alone.

**Editing** (`MutateProofs` and `ArenaLemmas`, under `DocsAssumption`: a document is what a
parse leaves behind; `TextsAssumption`, `ScalarsAssumption`, `ModesAssumption` and
`BoundsAssumption` say what a caller may pass).

- `EditsKeepTheTree`: the arena stays well formed.  An arena after a structural edit is
  the one before with a block of slots put in or taken out and the spans around it
  changed by as much (`Edited`).  `ArenaLemmas` shows which container encloses which
  afterwards, that the children of every container but one are the same children moved,
  and that the one gains or loses exactly those put in or taken out, in pairs for an
  object, so that keys keep their odd ranks.
- `RoomIsThere`: there is room in owned storage, the terminator behind a text included;
  the invariant says it of lent pools too, since detaching copies the capacity along.
- `LentTextIsKept`: `LentStorageKept`, an action property.
- `MarksAreRight`: `EscapesMarked`, if no inserted key is text of the document (finding
  3 is the case where one is).  It needs the texts apart in the pool, each with a byte
  behind it, or writing over one could change another.
- `KeptBoundIsExact`: the cached bound is what the walks compute.  The pretty part is
  linear in the indent, so two numbers stand for it; a slot that takes the place of
  another changes the flat sum by the difference of what the two count and leaves the
  containers alone; every other edit drops the bound.
- `WalksArrive`: the loops over children and the walk of `__patch_spans`, as the code
  makes them, are right in every arena the edits leave; the edits themselves use that
  walk, so `EditsKeepTheTree` rests on it too.  A step by a span leads from a child to the
  next one, whose rank is one more (`NextChild`), so after as many steps as there are
  children the loop is at the end; of the children met exactly one covers a slot further
  in, and it is the next container around that slot (`DescendIs`).
- `FlatArraysAreFlat`: an array whose span is its length and one has as many elements as
  slots, so element n is slot n.

Sums, lists of positions and what is read byte by byte are recursive functions on the
naturals; that they exist, and what they are, is proved by the least counterexample
(`LeastOf`, `UpTo`, `StepwiseFcn`), since induction theorems that take an operator cannot
be used here.

**Only model-checked.**  Everything that compares with a recursive reference
(`AcceptsGrammar`, `RoundTrip`, `LazyReadsTheSame`, `PointersAgree`, `ImplementsTree`,
`PublishedIsJson`, `EmittersAgree`, `StreamedIsWritten`, `StringsDecoded`,
`NumbersExact`): induction over data and recursive operators are out of the prover's
reach, and a module that reaches one through EXTENDS or INSTANCE cannot hold a theorem.
`Terminates` and `CallsReturn`: liveness under fairness.  `RangesAreSources` compares a
slot with the grammar's reading of a stretch of text.

## 5. Where code and documents disagree

1. `CJSON_DEPTH_LIMIT=0` (run `parse_write_uncapped`).  `config.hpp:73` says 0 folds
   the nesting counter away entirely; the builder does, but `validate_indexes`
   (`parse.hpp:173`) falls back to a bitset of 1024 levels and refuses what `parse`
   accepts.
2. Nesting by edits (run `mutate_nesting`).  COMPLIANCE.md:94 promises that everything
   emitted re-parses; no mutator looks at the depth limit, so an edited document can be
   written as a text the parser refuses with `depth_exceeded`.
3. Inserted keys that are text of the document (run `mutate_aliased_key`).
   `tests/mutate.cpp:403` and `:411` hold that a source text, a key included, may alias
   a pool that moves.  `set` computes whether the text needs escapes before it puts it;
   `__member` (`mutate.hpp:440`) after, from bytes the put has freed.

4. Streaming indented text (run `stream_pretty`).  `tests/flash.cpp:7-9` says the bytes
   that reach the file are exactly those `write()` produces, at every chunk size.  A
   document larger than a chunk is split at its root, and `write_to`
   (`flash.hpp:301-322`) emits the root's separators without line breaks and each child
   as if it were a root, whatever the style.  The test's own indented case fits in one
   chunk.

The first is shown with a fallback of 3 levels in place of 1024, the second with a
limit of 2 in place of 1024, the last with a chunk of 4 bytes; all depend on the number
only through the comparison.

## 6. What is not modelled

- **Vendored code.**  `src/comparison` holds other libraries for benchmarks, 271 000 of
  the repository's lines; none of it runs in cjson.
- **Arithmetic on wide words.**  `compute_f64`, which turns a significand and a power of
  ten into a double, and printing one (`dtoa.hpp`, `itoa.hpp`) work with 128-bit products
  and tables of powers, beyond TLC's integers; their tables are verified at compile time by
  the code.  `Readers` has what `compute_f64` computes, the nearest double (`Nearest`), in
  its place and in that of the exact operation for small numbers; what `read_number` makes
  of it (the range tests, the two candidates, the comparison of all digits, the refusal)
  is modelled, on doubles of a few bits.
- **UTF-8 validation** (`utf8.hpp`, a table automaton) and literals (a comparison of four
  bytes): no state to speak of.
- **Vector back ends** and the thin typed wrappers (`ct`, `porcelain`, `pun`, `fp`): the same
  functions as the scalar code, or no logic of their own.  Also stage 1's fused copy and
  its padded variant, which no caller asks for.
- **Within the writer**: escaping one string (its widest case is what `BytesFit`
  assumes) and growing the output buffer.  `write_file` is one synchronous write.
- **Within the mutators**: navigation to the edited value (any handle is chosen),
  handles kept across structural edits (the code forbids them), a text that aliases the
  document other than an inserted key.
- **Within the readers**: conversions of a scalar at a handle or cursor; cursors over
  texts the parser refuses, for which the code promises nothing but an end; lookup of
  keys with escapes, where cursors compare raw bytes and handles decoded ones, as the
  library's README says; the one-shot getters, which combine a parse, a pointer and a
  read and keep nothing.
- **Ownership**: self-move, and the pools of `mut` beyond what `Mutate` has.

Assumed of external code: micron's allocator returns fresh blocks or fails; its engine
submits what was queued or says so, hands over one completion per wait, and the kernel
touches a buffer no later than at its completion.

## 7. Plan

Done, in this order: parsing and writing (`BuildFsm`, `ValidateFsm`, `WriteBounds`,
`WriteEmit`, `ParseWrite`); mutation (`Mutate`, `JsonTree`, `MutateTree`); streaming
(`Sink`, `AppendLog`, `Job`, `Stream`); ownership (`DocHeap`); emitters (`Emitters`); scanning
and lexical reading (`Scan`, `Readers`); navigation (`OnDemand`, `Navigate`).

Left to model: escaping on output, and growth of the output buffer; UTF-8's automaton on
short byte classes; the one-shot getters over `Navigate`.

Proved, in this order: `BuildFsm`, `Sink`, `DocHeap`, `Twins`, `Mutate`, the bounds,
`ParseWrite` and `Scan`.

Left to prove: nothing that the provers reach is known to be missing among the properties
the runs check; section 4 says what is only model-checked and why.
