# A verification project for jaggedcpp

jaggedcpp is a header-only C++20 library of jagged (ragged) arrays: the small
template `jagged::Array<T>`, and `awkward::Array`, a family of immutable column
layouts with the operations, the builder and the serialization around it. This
directory holds TLA+ modules translated from its source, TLC configurations that
check them on small instances, and proofs that TLAPS checks for every value of
their constants. File and line numbers refer to the repository's root; the
`map` of `PROJECT.json` gives the lines of every definition.

## The system

The library starts no thread, opens no file and keeps nothing beyond the
objects its caller holds. What makes it hard is therefore not scheduling. It
is:

* **two representations of one thing that must stay in step**: values beside
  offsets, names beside values, tags beside index, masks beside content;
* **protocols spread over many calls**, where a check made by one call protects
  an assignment made by another one much later (the builder's slots);
* **calls that stop half-way**, because any allocation may throw
  `std::bad_alloc` between two assignments;
* **arithmetic at its limits**: negative and omitted slice bounds, empty rows,
  size zero, sums that leave `std::ptrdiff_t`, counters that wrap.

| Component | State it keeps | Operations | Interacts with | Correct when |
|---|---|---|---|---|
| `ArrayBuilder` (`builder.hpp`, `value.hpp`) | finished values, a stack of open lists, tuples and records | scalars, `begin_*`, `end_*`, `index`, `field`, `snapshot` | hands its values to `layout_from_list` | what the caller wrote is what the snapshot holds, at the place it was begun; a refused call changes nothing |
| `jagged::Array` (`jagged/array.hpp`) | `values_` and `offsets_` | constructors, copy, move, `append_row`, `clear`, `reserve`, row selections, missing values, sorting, reductions | nothing else | the offsets describe the values after every call; each call does to the rows what its name says |
| index normalization (`index.hpp`) | none; two loops | `indices_for_slice`, `normalize_integer_array` | called by every layout and by `slice_layout` | the positions are those the slice asks for, and positions of the array |
| list layouts (`list_offset*`, `list_array`, `regular*`) | starts and stops, offsets or a size, beside a shared content | `take_rows`, `slice_rows`, `mask_rows`, inner selections, `flatten`, `to_packed` | call the same operation of their content, or re-index it | every operation commutes with `to_list` |
| option and indexed layouts (`option_array.hpp`, `indexed_array.hpp`) | an index, byte mask or bit mask beside a content | the same | the same | missing stays missing, and present values stay with their rows |
| record and union layouts | named contents; tags beside index beside alternatives | the same, projection, simplification | the same | columns stay aligned; a pair of tag and index is never split |
| leaf layouts (`numpy_array`, `empty_array`, `string_array`) | one vector | the same, flat only | none | bounds are checked |
| `awkward::Array` (`array.hpp`) | a shared immutable layout, attributes, named axes | `at`, `slice`, `take`, `mask`, projection | dispatches to layouts; falls back to values | the fast path and the value path agree |
| layouts from values (`operations.hpp` 57-457) | none | `layout_from_list` | the builder, the generic slice path | `to_list` of the layout is the list it was made from |
| missing values, reductions, sorting; broadcasting, elementwise, records (`operations.hpp`, `kernels.hpp`) | none | `fill_none`, `sum`, `sort`, `zip`, `where`, ... | recursive over nested values | result shapes; positions counted with missing values; broadcasting by length |
| forms and buffers, binary and JSON codecs (`operations.hpp` 2079-2487, `buffers.hpp`) | a form tree beside named byte buffers | `to_buffers`, `from_buffers`, encode, decode | rebuild layouts, whose constructors validate | a round trip is the identity; malformed input is refused |
| metadata (`array.hpp`, `operations.hpp`) | attributes, named axes | merge, drop, carry, renumber | every operation with several inputs or one axis less | the order of the inputs does not matter; conflicts are reported; a name stays with its axis |
| strings (`strings.hpp`) | none | predicates, case, pieces, `join` | walk values, come back through `layout_from_list` | each string is answered or changed in its own place |

Of the types (`types.hpp`) only what decides is modelled; their wording, the
generated `awkward.h`, packaging and scripts are left out, and `PROJECT.json`
says why.

The hazards this code is exposed to, each at its line and with the properties
that watch it, are in `PROJECT.json` under `hazards`. One has no property: the
spans that `jagged::Array` hands out die with the next call on the array
(`jagged/array.hpp:136`), which is the caller's duty as with any vector.

## Modules

### The array builder

`ArrayBuilder` is the component: `values_` and `contexts_` are the variables
`values` and `contexts`, and every public method is one action, with each of
its exceptions as a disjunct. `outcome` is what the caller sees of the last
call. An open container is moved off the stack before its value is delivered
(`builder.hpp:50-55`), so `Deliver` runs `AppendValue` on the popped stack, and
a `bad_alloc` can strike before, between and after those steps; where the code
has two pushes (field name, then value), the state between them is reachable.

`BuilderDocument` is what the caller is promised, written without a stack: each
value takes its place in a growing document at once, at the address of a
cursor. `ArrayBuilderRefinement` reads a document off the stack: each value and
container is a cell with an address, a name and a label, found level by level in
the slots of the finished values and of every open container. It states that the
builder implements the promise. The two designs run in opposite directions, since the code
delivers a container when it is closed, so the refinement says that late
delivery never lands anywhere else and drops nothing.

`MCArrayBuilder` declares the symmetry of names. `ArrayBuilderProofs` has the
proofs about the builder, `ArrayBuilderRefinementProofs` those about the
document.

### jagged::Array

`JaggedArray` is the storage: a handle is a variable of the caller, alive or
not, with a vector of values and one of offsets. Its actions are the default
and flat constructors, `append_row`, `clear`, `reserve`, copies, moves,
`concat_rows` and destruction. `JaggedRowOps` adds the methods that build an
array row by row (`from_rows`, `take_rows`, `mask_rows`, `sort_rows`,
`is_none`, `drop_none`, `fill_none`, `pad_none`) and the reductions, which give
one value per row, or none where an empty row has none. A result is constructed
through the validating constructor and reaches its handle by construction or by move
assignment. A loop is a recursive function whose value at `k` is what the loop
has collected after `k` rounds, and `std::sort` is whichever permutation puts the
row in order.

`RaggedRows` is the promise: an array is a sequence of rows, and each call
states its result on rows without saying how it is collected.
`JaggedRowsRefinement` maps storage to rows by `to_rows()`; the arguments of
the last call are part of the mapping, so the refinement compares each call
with the same call there. It also says what becomes of torn arrays: values that a
failed call left behind and no row owns join the row that `append_row` or
`concat_rows` adds next, or make `concat_rows` and `fill_none` refuse, and reach
nothing else. `MCJagged` instantiates both. The proofs are in
`Loops` (induction over the rounds of a loop), `JaggedArrayProofs` (the
storage) and `JaggedRowsProofs` (what each loop computes, the methods and the
refinement).

### Index normalization

In `IndexSlice` one behaviour is one call; both loops of `indices_for_slice`
and the loop of `normalize_integer_array` are steps. `std::ptrdiff_t` is
`-Top-1..Top` for any `Top`. Overflow of the forward sum is undefined
behaviour and is modelled by its observed outcomes: it wraps, or the loop
runs until memory is exhausted. `SliceSelectsAsked` compares the result with a
definition that neither clamps nor loops. `IndexSliceProofs` has the proofs.

### Layouts

`Indexes` has what `indices_for_slice` and `normalize_integer` compute, in closed
form and over integers without a width, and `ListRows` the rows of the list
classes: which positions of its content a row holds, what `validate()` asks of
offsets, starts, stops and indexes, and the offsets that are written for rows.
Neither has recursion over trees, so both can be proved about.
`LayoutTrees` has the immutable trees: a node is a record with the members of
its C++ class, `Made` is a constructor with the class's `validate()`, and each
method of `Content` is one operator with a case per class, an error node where
the code throws. `Layouts` is the life of one `awkward::Array`: a variable
`layout` that the caller wraps in further nodes (one action per constructor,
with good and bad arguments) and selects from (one action per method, as
`detail::slice_layout` and `operations.hpp` dispatch them). A call that throws
leaves the old layout, which other arrays may share.

`NestedLists` is the promise, and knows no columns: an array is a list of
values, an index is the positions it asks for, and every call says which list
it makes or why it is refused. A class may refuse what it does not implement.
`LayoutsRefinement` maps a layout to its values by `to_list()`, shows that the
trees implement the promise, and states the rest: every node looks only inside
its content, `num` and `local_index` count the rows there are, and no layout of
lists refuses a request for its rows. `MCLayouts` has the arguments for TLC.

### Values and operations

Nearly every free function reads its arrays with `to_list`, computes on values
and builds a layout from the result. The modules follow that path:

* `Values`: `ak::Value` as none, scalar, list or record, its order, truth and
  arithmetic. A call that throws has a failure for its value, so every
  exception is carried to the caller by the same walk that carries results.
* `FromValues`: `layout_from_list`, with one union alternative per kind of
  value and the limit of `MaxContents` alternatives.
* `Slices`: `slice_layout`, with the two paths it has: the layout's methods for
  one item or two, the values for more.
* `AxisOperations`: what walks one value to an axis or to its leaves
  (structure, missing values, reductions, sorting). The code repeats the walk
  in each function; the module has it once, as `AtAxis` and `Leafwise`.
* `Broadcasting`: what takes several values (elementwise operations, `where`,
  `mask`, `zip`, records) and, from `kernels.hpp`, what is computed on buffers
  instead of values when all inputs are primitive.
* `Strings`: `ak::str`. A string is its place in the alphabetical order, so
  sorting strings and cutting them up are about the same values.
* `Metadata`: attributes and named axes.

`Operations` is the life of one `ak::Array` in the hands of the functions: the
variable `array` holds its layout, attributes and axis names, `answer` what a
function returned that is no array, `request` and `outcome` the last call. Each free function is one
action, its exceptions included, and the last step of each is the same as in
the code: build the layout, put the merged metadata on it, which may be
refused. `OperationsReference` says what the functions promise, in another
language: a path is the sequence of positions leading to a value, and every
property says from which paths the result's value at a path comes. None of it
follows the recursion of the code. `MCOperations` has the arrays.
`MetadataProofs` has the theorems about `Metadata`.

### Forms and buffers

`BufferMaps` says what a map of buffers is and which of them memory can hold.
`Buffers` is `to_buffers` of every class, with its order of keys, and
`content_from_buffers`, which rebuilds each class through the constructor that
validates it. There are two texts: `BinaryCodec` is the binary of a map of
buffers, byte by byte, with the position that the reader checks before each
read, and `FormCodec` the JSON of a form, token by token.

`BinaryExchange` is a map on its way as binary: `to_binary`, anything that may
happen to the bytes (a cut, a byte lost, repeated, changed or added, entries in
another order or twice) and `buffers_from_binary`. `BufferExchange` adds the
array that the map belongs to and its other ways, as two programs that exchange
it: it is taken apart, written as JSON or as binary, read and put together, and
between those steps tokens of the JSON, members of the form and numbers in the
buffers change too, and the receiver asks for any length. The variables are
what is on the way (`form`, `buffers`, the current `text` and its `medium`)
beside the array that was sent. `MCBufferExchange` has the arrays and the
damages; `BinaryExchangeProofs` has the proofs about the binary.

## Runs

| Run | Instance | What it shows |
|---|---|---|
| `ArrayBuilder` | 4 values, 2 names, tuples up to 2, no failure | `TypeOK`, `SlotsAreFresh`, `ThrowsChangeNothing`, and the builder implements `BuilderDocument` |
| `ArrayBuilderOom` | 3 values, 2 failing allocations | `SlotReserved` survives failures; a failure touches the top of the stack only; values vanish only in a call that says `bad_alloc` |
| `Jagged` | 2 handles, 2 values, 2 rows, optional bits, no failure | `TypeOK`, `OffsetsWellFormed`, and every call does what `RaggedRows` says |
| `JaggedOom` | the same, 2 failing allocations | torn arrays come only from calls that say `bad_alloc`; `append_row` never disturbs an earlier row; a torn array goes on answering by its rows, and leftover values reach only the row that is added next |
| `JaggedReads` | 1 failing allocation, expected violation | after a failed move the array moved from has no offsets and accepts every row index |
| `IndexSlice` | 4-bit `ptrdiff_t`, up to 4 rows, up to 2 integers | every slice selects what it asks for, every integer array is resolved or refused as a whole, every call ends |
| `IndexSliceWrap` | the same, expected violation | a slice whose step overflows returns positions outside the array |
| `Layouts` | leaves of 0 and 3 values, any 2 nodes around them, then up to 2 selections in any order | `TypeOK`, `RowsAreCounted`, `ListsAnswer`, and every call does what `NestedLists` says |
| `LayoutsMasks` | 1 node, 1 selection, expected violation | a flat mask array is refused by some classes of layout |
| `Operations` | one call of every function, slice of several items and string function, on ragged, missing, empty, mixed, record, string and named arrays | `TypeOK`; what comes out stands where the axis, the broadcast or the selection says, by whichever of the code's paths, and carries all the metadata of its inputs or is refused |
| `OperationsArgsort` | the same, expected violation | `argsort` along the outermost of three axes returns positions in the wrong numbering |
| `Buffers` | 19 arrays of every class, 2 forms made by hand; one damaged byte or token, or up to two edits | `TypeOK`; what is unchanged comes back; what is accepted says exactly what was read, is consistent and was read inside its buffers |

**Why the bounds are enough.** Four values let a container sit in a container
that sits in a container beside a sibling, so a late delivery can go wrong at
two depths; two names are needed for a duplicate to differ from a fresh name;
a tuple of two has a first, a last and a one-past-the-end index. A second
failure lets a call run on a builder that an earlier failure has damaged. Two
values in two rows give empty rows at either end and every pair of offsets that
the flat constructor must refuse; two handles distinguish self-assignment from
assignment. With four bits and four rows every bound lies below, in and above the array
on both sides, counted from either end, and steps pass the whole array.
The layouts are polymorphic in their values, which they only move, so a leaf
needs no more than distinct values: three of them, so that rows can be empty,
of one and of two elements, and a permutation can be told from its inverse. Two
nodes put every class over and under every other; a selection makes nodes of
its own, so a second one meets trees deeper than two. Mask bytes have two bits
(`ByteBits`), so that three values need a second byte and leave an unused bit.
The arguments in `MCLayouts` hold, for each constructor and index, an empty
one, one with repetitions, one that reorders and the ones that must be refused.
The run's `VIEW` leaves out the last call, which no later step reads; the step
properties are evaluated on every step all the same.
One call of each function is enough because every property relates the result
of a call to its own inputs, and the arrays given to a call already hold what
earlier calls can make: missing lists, empty rows, unions, records in lists,
names on several axes. `ValuesSurvive` and `NamedAxesFollow` hold of the array
after the call as well. `MaxContents = 3` lets four kinds of value exceed a
union; `MaxText = 9` holds two strings and a separator and lets `join` run
into the longest string. In the buffers, bytes of four bits and
numbers of two bytes (`ByteSize`, `WordBytes`) make every number a byte of its
own range, so that lengths, sums and products of two edited numbers wrap around
(128 * 2, 255 + 1) as they would at 2^64. One damage to a text is enough for each check
of a reader to be the one that refuses it, and two edits to form and buffers let
one edit be consistent with another.
Each bound is a constant named in the module that uses it.

**Fairness.** A caller may stop calling at any time, and nothing in the library
waits, so the modules of the builder and of the arrays assume no fairness and
state no liveness. Inside one call the thread runs on: `FairSpec` of
`IndexSlice` has weak fairness of the call's own next step, and `CallEnds` says
that each loop then ends. Deadlock checking is off in the configurations of
`IndexSlice`, where a behaviour ends when the call returns, of the layouts and
the operations, where the caller stops when the bounds are used up, and of the
buffers, where the exchange ends when the array is received or lost.

## Proofs

Assumptions on the constants are the named `ASSUME`s of the modules: sizes are
naturals, the empty name is not a name, an array is no longer than a
`ptrdiff_t` counts.

* **Builder** (`ArrayBuilderProofs`). The invariant is
  `BuilderInv == TypeOK /\ SlotReserved`. `SlotReserved` is what makes `end_*`
  safe: with a slot reserved in every context below the top, the parent cannot
  refuse the container that has already been popped, and hence a refused call
  changes nothing (`ThrowsLeaveBuilderUnchanged`). `TypeOK` alone is not
  inductive, since delivering into a tuple needs its selected index.
  `ChosenSlotsAreFree` is proved for `MaxFailures = 0`; with failures it is
  false, and the proofs of the rest do not use it.
  `FailuresAreLocal` is the other half: a call that ends in `bad_alloc` leaves
  the finished values and all but the top of the stack alone; that `end_*` has a
  stack to pop is again the invariant.
* **The builder's document** (`ArrayBuilderRefinementProofs`).
  `BuilderWritesDocument` is the refinement for `MaxFailures = 0`, at any depth
  of nesting. A value is a tree without a type, so `Inside`, which descends into
  it level by level, is first shown to have a function (`InsideExists`, by
  `Loops`). The cells of the stack are then the union of the cells of each level;
  a call changes the top level only, and what it may collide with is ruled out
  by addresses: two values are never at one address, since a slot that is held is
  free (`FreeIsFree`) and what lies in one slot lies nowhere else (`Elsewhere`).
  Closing is the step that matters: the cells of the container on the stack are
  those of its value in the parent's slot (`ClosedCells`). The invariant is
  `ReadableInv`: `BuilderInv`, no record with fewer names than values, and no more
  open containers than values added, without which an address could be longer than
  the descent goes. `ChosenSlotsAreFree` gives the guards of the promise.
  `LossesAreReported` counts addresses and holds for any number of failures:
  every call either adds one address that was free, keeps all, or fails and
  keeps a part (`AddressStep`). Its invariant `HeldInv` adds that there are finitely
  many addresses, and no more than calls that added one. A name without a value,
  which a failure leaves in a record, moves later values to other names and to no
  other address; this is why addresses are counted and cells are not.
* **jagged::Array** (`JaggedArrayProofs`, `JaggedRowsProofs`). `DamageReported`
  is a step property: from well-formed arrays only a call that ends in
  `bad_alloc` reaches a torn one. With `MaxFailures = 0` it gives
  `OffsetsStayWellFormed`. `AppendKeepsEarlierRows` needs no well-formed state,
  only a readable one, and so covers arrays an earlier failure has torn.
  `JaggedRowsProofs` repeats these for `RowSpec`, where the row-building methods
  and reductions are among the calls, and adds `TornArraysAnswer`: in any state
  whose rows can be read, however many failures have torn its arrays, a call
  that does not fail itself does what `RaggedRows` says, or gives its new row the
  values nobody owns. Its lemmas follow a copied or joined vector of values cut
  by shifted offsets (`CutAcross`, `CutApart`, `RowsOfTornAppended`,
  `RowsOfTornJoined`). It ends in `ArrayImplementsRows`: under
  the mapping `to_rows()`, every call of the class is the call of that name in
  `RaggedRows`, or a stutter, while memory lasts. Each method has a lemma
  about the vectors it collects and one about the rows they describe.
* **Loops** (`Loops`, `JaggedRowsProofs`). The library's induction theorems take
  an operator as a parameter, which the provers cannot instantiate. `Loops`
  derives induction for a SET of numbers from the well-foundedness of strict
  inclusion among finite sets, and from it the lemmas `TableExists` and `TableInvariant`: a
  recursion over `0..n` has a function, and what one round preserves holds after
  every round. `JaggedRowsProofs` uses them for the loops of the row methods: the collected
  vectors describe the collected rows, the k-th position kept is the k-th that
  qualifies, sums and products are the folds of the definition in any order,
  the variance computed from differences is the one computed from squares
  (`ReductionIsReduction`), and a row has a sorting permutation, whose result is
  sorted and has the same elements (`SortedRowSorts`). The elements of an array
  are integers with `Nullopt` below those that are present, which is the order
  of `std::optional` and the reason for `ElementsAssumption`.
* **Slices** (`IndexSliceProofs`). `SliceInv` strengthens the result's
  property with the loop invariant of either direction: the positions found so
  far are the asked-for ones up to `i`, one step apart, and `i` is the next one
  if it is on the right side of the end. The theorems hold for every width,
  length, bound and step; a step must fit, which is what `Fits` says.
* **Slices of the layouts** (`IndexSliceProofs`). The layouts are modelled with
  `Indexes` and not with loops. `LoopsAnswerAsIndexes` shows that nothing is lost:
  every call that ends has the positions, or the exception, that `Indexes`
  computes. Its invariant adds to `SliceInv` how far the loop has come
  (`Stepping`): `i` and every position found are the first one and a number of
  steps, and the last one found is short of the end; the number of rounds is then
  the quotient of the closed form (`RoundsNeeded`). `PositionsStayInside` is
  about any slice or integer array that is accepted: its positions are those of
  the dimension, and a slice selects none twice.
* **Rows of list layouts** (`IndexSliceProofs`). For contents, rows and
  selections of every size: what `validate()` accepts has its rows inside its
  content (`SoundRowsStayInContent`); what a selection of rows and a selection
  in each of them pick is in those rows (`SelectionsStayInRows`); rows collected
  one after the other, with the offsets between them, are accepted by
  `validate()` and are found again as the rows of the new node
  (`CollectedRowsComeBack`). Together, a selection from a sound list layout makes
  a sound one (`SelectedListsAreSound`). `TakenNodesStaySound` says the same of
  nodes that share their content and pick from their starts, stops or index.
  This is `TypeOK` of `LayoutsRefinement` for one node and one call; that it holds
  of the whole tree, content by content, is an induction over trees and stays
  with TLC, and so do masks. `CollectedRowsComeBack` rests on the loop of
  `FlattenSeq` (`Loops`): what has been laid stays where it is (`LaidStays`).

* **Metadata** (`MetadataProofs`). `MergeIsOrderFree`: three inputs are
  refused in one order exactly if in every other, and otherwise merge to the
  same map; it rests on a merge being refused exactly when two inputs disagree
  on a key, which is said pairwise and so without an order. `RemovedAxisFits`:
  what is left of the axis names when an axis goes is accepted by an array with
  one axis less, and keeps names and axes apart, whichever end they are
  counted from. `RemovalsCommute`: two axes may go in either order, the second
  under its new number.

* **The binary** (`BinaryExchangeProofs`). For bytes of any size, numbers of any
  width and maps of any size, reader and writer are inverse to each other.
  `BuffersOfBinarySound`: the reader, given any bytes at all, throws, or returns
  a map that memory can hold and whose binary the bytes are. `BinaryComesBack`:
  what is written of such a map is read as that map. Each function of the
  reader has a lemma for either direction, from bytes over numbers, strings,
  elements and buffers to entries. They are about a text that STANDS at a
  position of a longer one, and two texts stand one behind the other when each
  stands in its place (`StandsTwo`), so lengths and positions compose. Numbers
  rest on the loop that sums up bytes: after k rounds the sum is below
  `PlaceValue[k]`, and dividing it gives the bytes back. A loop that reads has
  two inductions: upwards for what it has read, and for completeness first
  downwards, since a prefix of what stands there stands there. That the keys
  met are each met once is what makes the entries an enumeration of the map's
  keys; the reader's refusal of a duplicate key is needed exactly there.
  The invariant `BinaryInv` says what is on its way: bytes, and while nothing
  was changed the binary of the buffers in memory. From it follow the run's
  `ReadsStayInside` and `BinarySaysTheBuffers`, whatever was done to the bytes,
  and `UnchangedBinaryComesBack`. They are theorems of `BinarySpec`. The
  constants need only that a byte can hold every tag and that a number has a
  byte. The steps of `BufferExchange` that are not those of the binary are its
  `Elsewhere`: they start and end at a medium other than `binary` and `map`, or
  start at `map` and leave it, and keep what its `TypeOK` says of the buffers.

Liveness (`CallEnds`) is model-checked only. So are the trees of layouts, the
values with their operations and strings, the forms with their JSON, and what
`from_buffers` makes of form and buffers: they recurse over trees of any depth
with RECURSIVE operators, which TLAPS does not read, and their properties
compare what two such recursions compute.

## Findings

1. **A failed move leaves an array that reads out of bounds**
   (`jagged/array.hpp:489`, run `JaggedReads`). `reset_to_empty` pushes into a
   vector that has just given its storage away; if that push throws, there is
   no offset left and `rows()` wraps around.
2. **A slice with a huge step leaves the array** (`awkward/index.hpp:128`, run
   `IndexSliceWrap`). The sum of the forward loop overflows; an unoptimised
   build returns positions that do not exist, and the layouts use them
   unchecked.
3. **Flat mask arrays are not uniform** (`contents/content.hpp:79`, run
   `LayoutsMasks`). `docs/awkward-compatibility.md:73` promises them
   "uniformly across implemented layouts"; lists over anything but a primitive
   array, and empty arrays, refuse them, while the same bits as
   `index::booleans` select rows.
4. **`argsort` along the outermost axis loses the rows' numbers**
   (`operations.hpp:1254`, run `OperationsArgsort`). For lists of lists of
   lists the column is sorted by a recursive call, and its positions number the
   lists of the column; only columns of scalars map them back to the rows.
   `docs/awkward-compatibility.md:77` promises recursive axes with ragged
   columns.

Behaviour that surprises but contradicts no document is modelled as it is:
comparisons with NaN (`<=`, `>=`) differ between kernels and values; an operation
on an array and `none`, or on an empty array, ends in `bad_variant_access` or
returns the empty array unchanged; `argmin` and `argmax` count present values
only; a reduction over a middle axis makes a number of an empty list of lists;
integer sums pass through `double`; `where` is missing where any branch is
missing; `unzip` is refused when a named axis does not fit a shallower field; a
huge announced count ends in `std::length_error`; the length sums and products of
`content_from_buffers` may wrap, and the constructors then refuse what wrapped
(`TypeOK` checks that through `InBounds`); `join` of an empty list of lists is an
empty string; an `append_row` that is repeated after it failed doubles the values
of its row, and `concat_rows` gives such leftovers to the first row it adds
(`TornArraysAnswerByTheirRows` bounds the damage to these); a selection keeps the
axis names of the array it selects from as they are, and only the functions that
go through `remove_axis_metadata` renumber them.

## Abstractions

* A scalar is a model value or a small integer; strings, numbers and booleans
  behave alike wherever they are only stored.
* Capacities are not modelled: every step that may grow a vector may fail, and
  a step that certainly fits does not. Copying an element does not throw, and
  building an exception's message does not either.
* Reads that are undefined in the code (rows of a torn array) are left out of
  the methods that read rows; `ReadsStayInBounds` is the property about them.
* A row given to `append_row` does not alias the array's own values.
* `FromFlat` and `FromRows` construct into handles that are not alive.
* The booleans of `is_none` are 0 and 1, so that results stay in the same type.
* Layouts are immutable and their methods build a new tree before they return
  it, so an allocation that fails in one leaves nothing behind; it is left out
  of `Layouts`. So are record names and the tuple flag, which forms carry and no
  selection reads, `typestr` and `nbytes`, and null contents, which constructors refuse.
* Positions in layouts are far below the range of `std::ptrdiff_t`; what happens
  at its end is the subject of `IndexSlice`. Below it the two agree, which is
  proved (`LoopsAnswerAsIndexes`).
* `StringArray` selects rows as `NumpyArray` does; the two are told apart where
  their buffers are.
* Real numbers are exact fractions with two infinities and NaN; rounding is left
  out. `softmax` takes powers of two of whole numbers in place of exponentials:
  which line each result is normalised over is modelled, the function is not. Sorting with NaN, where the code's order
  is no order, is left out. The standard deviation in `jagged::Array` is the
  variance under its root, and sums do not overflow.
* Behaviours and parameters are carried as attributes are and not modelled
  beside them.
* Limits and refusals that no instance meets are left out: the 256 contents of a
  union made by its constructor (`SoundUnion`) or by `concatenate` (the limit
  itself is watched in `FromValues`, as `MaxContents`), and a record's empty field
  name. `concatenate` takes two arrays.
* Tuples: records and tuples are told apart by no selection, so the tuple flag
  is left out of layouts and forms, and with it the refusals of `with_field` and
  `without_field` on a tuple and the comparison of flags in `unzip`'s fields;
  so is `record_name`.
* The counts a reader of binaries accepts end at `max_size`; memory that runs out
  for a smaller count is left out, and `vector<bool>` is given the `max_size` of
  a vector of bytes (`Capacity`).
* A string is at most `MaxText` bytes of one character per class that the code
  tells apart; `MaxText` stands for `std::string::max_size()`.
* Keys and names of forms are single tokens of JSON and single letters of the
  binary; escapes and white space are left out.
* Memory runs out only in the builder and in `jagged::Array`, the components that
  are changed in place. The other functions return a new value or none, so an
  allocation that fails there leaves nothing half done.

## What the properties do not see

* `argmin` and `argmax` with an initial value are not among the calls.
* Equal values of a line cannot be told apart, so that a sort is stable is not
  checked; positions of `argsort` are modelled as stable, as the code's are.
* A record with one name more than values, which a failed `append_value`
  leaves, is refused by `snapshot()` alone. The properties say that no
  value is lost or doubled on the way there; they do not say that it is refused.
* The tokens of a form's JSON are compared as a bag (`JsonSaysTheForm`), so that
  two values in each other's place are noticed only by `ComesBack`.

## Not modelled

* `typestr`, `show`, `nbytes` and the wording of types and exceptions: no
  behaviour but the text depends on them.
* The typed views of `ak::Array` and the wrappers `Record` and `Scalar`: they
  copy what `at` returns.
* Concurrent readers of a shared layout: a layout has no mutable member and no
  cache, so every interleaving of readers is the sequential behaviour.
* The generated `awkward.h` (the headers of `include/` in one file), packaging,
  scripts, tests, examples and benchmarks.

What could still be proved is the selection by masks, and packing of an option
or union node: that the counts which number the packed entries stay within what
is taken of the content.
