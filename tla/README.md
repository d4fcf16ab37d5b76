# raimd in TLA+

raimd is a C++ library for market data: it reads and writes the message
formats of several vendors (RWF/OMM, TibrvMsg, Tib SASS, JSON, ...), translates
between them with dictionaries, and keeps values in flat memory structures
(list, hash, set, sorted set, stream, ...) in the manner of Redis.  This
directory models the parts of it that keep state and checks them with TLC; what
matters most is proved for all parameters with TLAPS.

Run a check with `tlc -config X.cfg M`, a proof with `tlapm M.tla`.  The runs are
listed below and in PROJECT.json.

## The system

The library keeps nothing on disk and sends no messages between processes: there
is no crash recovery and nothing to lose on the way.  It has one place that
threads share, the registry of message formats, which the first lookup fills.
What is hard about the rest is memory and encodings: structures laid out in one
allocation, moved around in place, refused when they do not fit and rebuilt in a
larger one; byte counts kept in several places; writers nested inside each other
on a buffer that moves; readers that must find what writers wrote, from lengths,
types, hints and separators, with a dictionary in between.

| component | files | state | operations | interacts with |
|---|---|---|---|---|
| flat list | `md_list.h` | two rings in one allocation: `idx[]` (offsets), `blob[]` (bytes); `first`, `count`, `data_len` | push, pop, insert, set, remove, trim, scan, copy to another size | base of hash, set, sorted set, geo, HLL; stream holds three |
| flat hash | `md_hash.h` | a list whose item 0 is a byte map of hash values, item n >= 1 is keylen, key, value | find, append, insert, update, delete, union, intersect, difference | list |
| set | `md_set.h` | a hash whose items are the members | add, remove, move, union, intersect, difference | hash |
| sorted set | `md_zset.h` | a hash whose items are score and member, sorted | add (with reorder), remove, rank, range, union, intersect | hash |
| stream | `md_stream.h` | three lists: entries, consumer groups, pending entries | add, group query, ack, claim, trim | list |
| geo, HLL | `md_geo.h`, `md_hll.h` | sorted set of cells; registers | add, query; add, merge, count | sorted set, - |
| hash table of pointers | `md_hash_tab.{h,cpp}` | open addressing table | add, find, remove, grow, shrink | dictionaries |
| message memory | `md_msg.{h,cpp}` (MDMsgMem) | blocks of a bump allocator, reference count | make, extend, reuse, reset | every message reader and writer |
| message registry | `md_msg.{h,cpp}`, `glue.cpp` | formats, groups of them by the bytes they look at, tables by type byte and by hint; who fills them | add_match, is_msg_type, unpack, get_writer | every format, several threads |
| readers | `rwf_msg`, `rv_msg`, `tib_msg`, `tib_sass_msg`, `mf_msg`, `json_msg` | iterator over a buffer | first, next, find, get_reference, update in place | message memory, dictionaries |
| writers | `rwf_writer`, `rv_msg`, `tib_msg`, `tib_sass_msg`, `mf_writer`, `json_msg` | buffer, offset, error, parent writer | append_*, nested messages, resize, update_hdr | message memory, dictionaries |
| dictionaries | `md_dict`, `cfile`, `app_a`, `enum_def`, `rwf_dict`, `flistmap`, `dict_load` | entries collected by a build, then a bit-packed image | add, build, lookup by fid and by name, enumerations both ways | every reader and writer of fields |
| JSON and YAML | `json.{h,cpp}` | window of a text in a buffer that moves and grows; a stack of open values with their indents | parse, parse_yaml, print, print_json, print_yaml | message memory, JSON messages |
| decimals, times, dates | `md_field_iter.cpp`, `md_int.h`, `md_types.h` | none (a year kept for 60000 seconds) | parse, print, convert | every format |
| capture replay | `md_replay.{h,cpp}` | window of a file in a growing buffer | first, next, fillbuf | message memory |

What makes each of them correct:

* **list**: offsets in order around the ring; `data_len` is what the offsets
  delimit; contents unchanged by moves; LIST_FULL exactly when it does not fit;
  the width inferred from the allocation size is the width it was written with.
* **hash, set, sorted set**: the byte map agrees with the items; keys unique;
  a refused write leaves the container as it was; merges resume after a resize
  and produce the union, intersection or difference.
* **stream**: a pending entry belongs to a group that exists; acknowledged and
  claimed entries are counted once; group positions do not run backwards.
* **hash table of pointers**: everything added is found, at every fill and
  after removals that close gaps.
* **message memory**: memory handed out does not overlap and keeps its bytes
  until it is given back, also when it is extended.
* **registry**: a lookup that comes back from the first filling, or comes after
  it, finds the format that is registered for the message; one that comes while a
  format is being added finds what is right without or with that format; all come
  back.
* **writers and readers**: windows of open writers stay in the buffer of the
  outermost, whatever the order of appends, resizes and errors; the reader
  returns the fields that the callers were told had been written.
* **dictionaries**: every fid and name is found with its own type, enumerations
  map values to text and back, and a declaration changes its own field only.
* **JSON and YAML**: a text is read for what it says, however the reads of the
  stream split it; what is printed is read again as what it was.
* **decimals, times, dates**: a text is read for what it says, and what is
  written as text is read as what it was.
* **replay**: the records come out in order, whole, however the reads split
  them.

## Modules

One component has up to five modules: the layout of its memory as operators
(`*Ops`), its operations as actions (`*Storage` or the name of the component),
what its callers are promised (`*Spec`, the abstract specification, or a section at the
end of the module where that is short), proofs (`*_proofs`), and a small instance
for TLC (`MC*`).

| module | what it is |
|---|---|
| `ListOps` | the ring layout: header, offsets, bytes, and each operation as an operator on the list record |
| `ListSpec` | a sequence of byte strings with two limits |
| `ListStorage` | the list, one action per operation; implements `ListSpec` |
| `ListAlloc` | sizing of allocations: `alloc_size()`, `resize_size()`, `mem_size()` |
| `ListOps_proofs` | lemmas: what each operator of `ListOps` does to offsets, bytes and items |
| `ListStorage_proofs` | type correctness, layout, copy, `lverify()` and the refinement of `ListSpec`, for rings of any size; room, widths and growth of allocations |
| `HashOps` | the map of hash bytes and the items of a hash, over `ListOps` |
| `DictSpec`, `HashStorage` | a dictionary in insertion order; the hash, which implements it |
| `HashStorage_proofs` | when `hverify()` returns 0, the map kept apart from the items, and type correctness, for rings, keys and hashes of any size |
| `SetStorage` | the set over `HashOps`, and what a set promises |
| `ZSetSpec`, `ZSetStorage` | scores of members, and ranks; the sorted set over `HashOps` |
| `StreamSpec`, `Stream` | a log with consumer groups; the three lists of lists |
| `Stream_proofs` | searches, pending entries and groups, for lists of any length |
| `HashTab` | the open addressing table, its loops as steps, and the map that callers see |
| `HashTab_proofs` | searches and the map, for tables of any size |
| `Registry` | the table of formats, its groups and hints, written store by store; the one filling by several threads, lookups meanwhile |
| `Replay` | the window over a file, the loop of `parse()` as steps, and the records that callers see |
| `MemSpec`, `MsgMem` | memory that keeps what its owners wrote; the chain of blocks |
| `Messages_proofs` | of `MsgMem`: regions apart and memory kept, for words and blocks of any size; of `Dict`: names of enumerations and forms reach their own field only, for builds of any length |
| `RwfWriter` | the writers of RWF containers: windows on one buffer that grows and moves, headers, lengths |
| `RwfWriter_proofs` | windows nested and writes in the memory, for buffers, trees and moves of any size |
| `RwfReader` | what `rwf_msg.cpp` reads from what was written, as a tree |
| `Dict` | the build of a dictionary, its two indexes, and the packed image with its lookups |
| `Buffers` | the buffer that the writers of the five formats below share the code of |
| `RvMsg`, `TibMsg`, `TibSass`, `MfMsg` | TIB/Rendezvous, TIB, Tib SASS (qform) and Marketfeed: writer and reader; TIB and SASS also update in place |
| `JsonText` | a text and the value it stands for, in memory or in parts, as operators |
| `Json` | values as text, as JSON and as YAML, and the reader of YAML; the calls of those, and what callers rely on |
| `JsonMsg` | JSON messages: writer, and reader over `JsonText` |
| `Scalars` | decimals; times, dates and stamps: text and numbers, as operators |
| `Conversions` | the calls of those, and what callers rely on |
| `MCListStorage` | an instance of the list |
| `MCCollections` | an instance of each of hash, set, sorted set and `ListAlloc` |
| `MCTables` | of `HashTab`, `Registry`, `Replay`, `Conversions` and `Json` |
| `MCMessages` | of RWF writer and reader, `Dict` and `MsgMem` |
| `MCFormats` | of the stream and the five formats |

The last four hold several instances: a behaviour is of one of them, which the
variable `which` says, and the others stay as they began.  A property says for
which it speaks, and `Active` of a configuration which are followed.

### How state and actions correspond to the code

**List.** The record of `ListOps` has the fields of `ListStorage`
(`index_size`, `data_size`, `first`, `count`, `data_len`), `idx[]` and `blob[]`.
An operator is one C++ function: `RPushItem(l, v)` is `rpush()`, `MoveTail`
`move_tail()`, and so on; a memmove is a copy of a range that reads before it
writes (`MemMove`), and where the code makes two of them the operator makes two,
in that order.  `ListStorage` adds the checks and the status of each call and is
one action for each call.  Memory that holds nothing keeps what was there.

**Hash, set, sorted set.** Item 0 of the list is the map, `Chain` the items
whose map byte is that of a key, `Locate` the search that `hget()` starts with.
`HashDelete` after each `LRemItem`, `ResizeHash` before each insertion.  A merge
is a loop; it is one action that runs until the end or until FULL, and `merge`
keeps the `MergeCtx` that its caller passes again after `Copy` to a larger
allocation.  The filter of hash bytes is the set `bits` of that context.  The
key hash is a constant `Hash`, an arbitrary function to bytes.  Scores are small
numbers of two bytes instead of Decimal64 of eight.

**Stream.** The lists are sequences (what the ring does to them is
`ListStorage`'s concern); a write that is refused is a choice.  An id is text of
one or two numbers, so `"5"` and `"5-0"` are equal to a search and different to
`ack()`.  `Read` and `UpdateAgain` are the caller's protocol of
`test/test_stream.cpp`: make the entry pending, then move the group; a refused
update is repeated after the lists were copied, and nothing but the copies comes
in between (`Ready`).  The test itself looks at no status; what becomes of the pending
entries of a caller that goes on without the update is not said here.  Entries get their ids from a
clock that does not go back.

**Hash table of pointers.** `tab` maps positions to items.  A call that loops is
an action that starts the loop and a step for each of its rounds (`FillStep`,
`ResizeStep`); nothing else runs in between.  A search, whose loop only reads,
is `Locate`: the first position from the home on that is free or has the key.
`md_hash_tab.cpp` is the same table again for C.

**Replay.** `buf`, `bufoff` and `buflen` are those of the code, `input` is what is
left of the file.  `First` and `Following` are the beginnings of `first()` and
`next()`; `Parse` is a round of the loop that looks for two lines (`ReadOn`) or
the rest of `parse()` (`Body`).  `fillbuf()` is `RoomFor`, which moves the window
and grows the buffer, and `FillTo`, its reads up to the end of the buffer or of
the file.  Pointers into the buffer are offsets.  The callers are those of
`test/read_msg.cpp`: open a file, `first()`, then `next()` until it returns
false; the next file is read through the same buffer.  `make()` and `extend()` of
the message memory are taken by what they promise.

**RWF writers.**  `w` is the chain of open writers, the outermost first, each
with its window (`buf`, `len`, `off`), `prefix_len` as `pre`, and what its header
will tell; `block` is the memory of the outermost.  A completed child has left
the chain: the code keeps it only to reuse its memory.  `AddCall` is the
`make_child()` of any `add_*()`: it ends what is open in this container,
one at a time (`EndOne` is one `complete()`), and then `Add` does the rest of the
call.  `WithSpace(s, i, n, to)` is `has_space(n)` of writer i, which may move the
buffer to `to`; `GrownTo` is `resize()`; `Header` and `LenCells` what `update_hdr()`
and `update_len()` write; `MsgEnded` moves the contents behind a longer header when
the prefix is too short.  A byte is a cell; numbers of several bytes have their
value in the first cell.  `doc` of a writer is the tree its caller asked for, with
`Lost` for what was refused, and `marks` notes what the code does not see: a write
outside of the memory, a window that was not moved.  After a mark nothing more
happens, since memory of others is gone.  `RwfReader` takes a sequence of cells
and follows `parse()` of each header and `unpack_*_entry()`.  Callers keep to the
order that works: the key of a message before its body, summaries and field
definitions before entries, no other entry open at `add_delete_entry()`, room for
the type byte at `attrib()`; what happens otherwise is under Findings.

**Message memory.**  `blks` is the chain of blocks, a word of one the name of the
owner that wrote it, or the mark behind the block.  `mem_off` is that of the code.
`held` is what callers keep: pointer and size.  `extend()` grows in place only the
last allocation, within the inline size of a block (`IsLast`), and copies anything
else; `reset()` goes back to a point noted by `mem_off`.

**Registry.**  The tables are sequences and functions: `arr`, `groups`, `ftypes`,
`hashed`.  `add_match()` is a step that counts the format in `arr` (from there on
lookups of other threads do not fill the registry, `md_msg.cpp:196`), a step for each
store it makes after that, into the group and its `xoff`, the table by type byte, and the
hint and the index of each slot (`left`), and its return.  Nothing in the code orders
these stores for another thread, so they are seen in any order, but for the one
assumed in `Registry`: who sees the place of a format in `md_match_arr[]` sees the
format there.  A lookup that goes through the groups reads in a second step
(`ReadGroups`), and `stray` notes a group whose matches `realloc()` moved meanwhile.
`claimed` and `ready` are the two atomics of `md_init_auto_unpack()`: one thread
fills, one format at a time, the others that came there wait.  Callers see to it that one
thread at a time adds formats: `add_match()` has no lock.
What `is_msg_type()` of a format says of a message is a relation, not always the
same as what its magic number says.

**Dictionaries.**  `entries` is `entry_q`; `byFid` and `byName` are the indexes that
`get_fid_entry()` and `get_fname_entry()` make and make again; `pending` is the list
of enumerations whose field has not come.  `IndexDict` is `index_dict()`: it
numbers types in a hash table that grows, and packs for each fid and name a type
and a place in the text.  The packed tables are sets of bits, written with `|=` as in
the code, so that what is written twice is the union.  Lookups are operators.

**Buffers and formats.**  `s.w` is the chain of open writers (`buf`, `len`, `off`, the
header bytes `hdr`, `err`), `s.cells` the memory of the outermost at address `s.at`,
and `s.lost` says whether anything was written outside of it.  A value is a type, its
bytes and how they lie in memory; a number of several bytes has its value in the
first of its cells.  Calls of a format are tuples in the constant `Calls`, one
action takes one of them; a nested writer is opened by a call of the code
(`append_msg()`, `append_msg_array()`) and closed by `update_hdr()`.  `TibMsg` and `TibSass`
also update fields in place.  What needs a dictionary has a small one.
Conversions to text inside formats are opaque bytes, except times.

**Decimals, times, dates.**  A text is a sequence of characters that are digits, or
numbers for the others; three letters of a month are three characters, a unit of
time one.  `Parse` is `MDDecimal::parse()`: `ScanNumbers` its loop, which stacks up to
three numbers, and `ValueOf` the rest.  `maxval` and the table of powers are constants,
since TLC has 32 bits.  `Layouts` are the branches of `parse_format()` in the
order of the code.  What the code reads of memory that it did not write
(`have_date`, `dt` in `MDStamp::parse()`) is a choice, so `ParseStamps` is a set.

**JSON and YAML.**  An input is a record: the text, the places where reads of it end
(`cuts`), and `mem`, `off`, `len`, `start` for `json`, `offset`, `length`, `line_start`.
`FillBuf` is `fill_buf()`, which moves the line that was begun to the front or doubles the
buffer; a text in memory is an input that was read to its end.  Each operator is one
function of `JsonOne`: it takes an input, and returns it where it stopped with a
value or an error.  Values keep the memory that strings were given (`size`), since a NUL is
put behind some of them, and what follows those that are a part of the text (`after`),
since printing may go on into it.  `Spell` is the only definition without code behind it:
the text that a value has, with and without quotes, escapes and white space.  YAML is
read line by line, with a stack of the values that are open, `[indent, val]`, as in
`YamlStack`.  A call reads one text twice, whole and in parts, or prints and reads again.

**JSON messages.**  What the writer appends is a sequence of pieces: the bytes that it
asks room for, and those it writes, which are not always as many.  Decimals and times
take what is left of the buffer instead of asking.  The windows are those of `Buffers`.
`AppendMsg` and `EndSub` are the case of `convert_msg()` for a message inside; `begun`
is the flag FIRST_FIELD.

### Refinements

Where a component has an abstract specification (`ListStorage`, `HashStorage`,
`SetStorage`, `ZSetStorage`, `Stream`, `HashTab`, `Replay`, `MsgMem`) the module has
an instance of it with a mapping, or states it over state functions of its own (`ASet`,
`AMap`, `Left`), and a run checks that steps of the one are steps of the other
(`Implements...`):

* list: the items read through the offsets; the capacity; which items are in two
  pieces (`torn`), because searches are wrong for those (see Findings);
* hash: entries in order, bytes set aside for the map, bytes that are lost since
  they were dropped, and what is left of a refused union;
* set and sorted set: what is in them; refusals may happen at any time;
* stream: entries as a set, the last id of each group (that of the update to be
  repeated, while there is one), what is pending by group and id;
* hash table: the map.  The rounds of the loops are stutters;
* replay: the text that is to come is the window and what is not read yet, and
  the record that callers see is where `subj` and `msgbuf` point;
* message memory: the words that each owner finds in what it was given.

Writers and readers are composed: `doc` is what callers appended, and the reader's
operators, applied to the bytes of the buffer, must return it (`RwfEncoded`,
`RvEncoded`, `TibEncoded`, `SassEncoded`, `MfEncoded`, `JsonEncoded`).

## What the runs check

| run | instance | shows |
|---|---|---|
| `list_ring` | rings of 4 slots and 8 or 16 bytes, values of 0 to 3 bytes | from every position in the ring and every fill: layout, byte count, `lverify()`, offsets of a copy, and the abstract list |
| `list_search` (violation) | the same | scans find what is there: they do not, for bytes that wrap |
| `collections` | rings of 8 and 16 bytes, 4 and 8 slots; hashes of two keys that share a hash byte and a third whose hash byte and whose text could be taken for each other's; sets and sorted sets of three members, two with one hash byte, scores 0 to 2; allocations of up to 9 items and 140000 bytes, requests around the changes of width | when `hverify()` returns 0 and when it does not, map and items agree, no member twice, order; the abstract dictionary, set and sorted set, through refused unions; an allocation holds the list, has the width that is later inferred from its size, and one resize is enough |
| `hash_union` (violation) | the hash | a union has all keys: it does not |
| `tables` | six keys that share homes at both ends of tables of 1 to 8 slots; two threads and six formats that share bytes, type bytes and hash slots; captures of up to two records cut off anywhere, in a buffer that starts with 4 bytes; some thousands of texts, decimals, times, dates and stamps; some ten values up to four deep in three spellings, in a buffer of 12 characters that are read in every two or three parts | the map, and what its searches need; lookups between any two stores of the filling and after it; whole records in order and how far the buffer grows; every loop, lookup and call comes back; conversions keep their value; a text means the same in parts as at once, and what is printed is read again |
| `messages` | outermost MSG, MAP, SERIES, VECTOR and FILTER, on 8 or 21 bytes that may become 36; four calls that build a dictionary of two names and three fids; three owners of memory in blocks of three words | windows stay nested, writes stay inside, the reader sees the tree that was asked for; fields and enumerations are found, a declaration changes its own field; memory does not overlap and keeps its words |
| `rwf_room` (violation) | the writers | room that `has_space()` found is used: not by a container opened where the buffer ends |
| `rwf_defn` (violation) | the writers, on a buffer of 8 bytes | a call that finds no room says so: `end_field_defn()` does not ask |
| `dict_index` (violation) | the dictionary | the index of fids has the entries its places say: it does not, after a smaller fid |
| `formats` | a stream of three ids (two of one millisecond), two groups, two consumers, two pending entries; three calls out of 12 to 19 for each format, on buffers of 0 to 30 bytes that may become 70, three writers open at a time | searches, pending entries, deliveries, groups that do not go back, the abstract stream; each format is read as it was written; windows follow the buffer; an Rv message is told from what looks like one |
| `mf_header` (violation) | Marketfeed headers that the documented grammar allows | they are read as written: some are not |
| `sass_date` (violation) | the same SASS fields and a date (`SassDates`) | an update that returns 0 has made the change: not that of a date |

**Why the bounds are enough.**  Rings are the smallest the code can allocate:
all positions of `first` and of offsets are reached, items wrap at every byte,
and every limit (by slots, by bytes) is hit with and without room for the map.
`ListAlloc` needs no bytes, so it goes across the two changes of width.  In the
hash table six keys in eight slots make a cluster that wraps, grow it three
times and shrink it again.  A buffer of 4 bytes is smaller than any record but
the empty one, so the window moves and the buffer grows within a line, between
lines and within a message.  For the writers few bytes are
soon too few: entries, lengths, headers and the prefix of a message all find the
buffer short, with up to two containers open above, and the new memory is the old
place or another; 36 (70) bytes are too few for the largest, so refusals happen.
Sizes at which a format changes its encoding of lengths are constants, set so low
that values cross them.  Four calls of a build make an enumeration wait for its
field, join a wrong and a right one, and lower the least fid after an index was
made; names collide in a table of two.  Two threads are enough for the registry: one fills, the
other comes before, during or after each store; the six formats make a second match
in a group, a hint that is moved to the next slot, and a group whose memory moves.  `TightMax` is 499 with powers up to 10^2, so
texts of a few digits overflow the integer, the fraction and both.  Dates are at the
ends of years and of centuries, and each of the 22 layouts meets each of them.
Strings of JSON are given 8 characters at first and texts a buffer of 12, so that both grow
and move within a name, an escape and a word; arrays fill a first and a second block.
Groups and consumers, and owners of memory, are interchangeable, hence the
symmetry.  `VIEW` leaves out memory that holds nothing, where the buffer of a message
lies (writers compare addresses with its bounds only), and answers:
properties about answers are action properties, checked on each step.  `MaxCalls`,
`MaxDepth`, `MaxBlocks`, `MaxEntries`, `MaxPending`, `MaxSlots`, `MaxCount` bound what
could go on forever; nothing else does.

**Deadlock.**  `formats`, `mf_header` and `sass_date` do not check it: a message that is finished,
or a count of calls that is used up, ends the behaviour.

**Mutants.**  `Slip_X` before a definition `X` is `X` with a plausible slip; no
module uses them.  For each property of a run one of them, put in the place of
`X`, makes TLC find that property violated.

**Fairness.**  `HashTab`, `Registry` and `Replay` assume it: a loop that was entered is
sequential code and runs on, `WF_vars(Loop)` and `WF_vars(Parse)`; a thread that is in
a lookup, in `add_match()` or in the filling runs on, `WF_vars(Runs(t))`, since none blocks
but for the wait of `md_init_auto_unpack()`, which spins until the
filling thread is done.  The other components do whatever their callers ask, in any
order or not at all, and promise safety only.

## What is proved

`ListOps_proofs` has the lemmas about rings, for records of any size, that the next two and
`HashStorage_proofs` cite.

`ListStorage_proofs`, from `ListAssumption` alone (values are strings of bytes,
ring sizes are numbers of at least two), for rings of any size:

* `TypeCorrect`: `Spec => []TypeOK`.  No operation writes outside of `idx[]` and
  `blob[]`; all fields stay in range.
* `LayoutCorrect`: `Spec => []LayoutInv`.  Offsets stay in order around the ring,
  and `data_len` is the distance from the first to the last.
* `CopyCorrect`: `Spec => []CopyOffsets`.
* `VerifyCorrect`: `Spec => []LVerify`.  Items lie inside of the buffer, and the sizes that
  `lverify()` adds up are `data_len` (an induction, done with sets of numbers).

The invariant is `IInv == TypeOK /\ LayoutInv`; `TypeOK` alone is not inductive,
since the count of bytes stays in range only because it is a distance.  The
argument is about *distances*: `Distance(l, n)` is how far around the ring the
offset of item n is from the first.  They are a monotone sequence from 0 to
`data_len`, smaller than `data_size`.  A lemma for each operation says what the
sequence is afterwards (one value appended, a slice, all beyond n moved by the
same amount), and `LayoutIntro` turns it back into the layout.

* `ListImplemented`: `Spec => ImplementsList`.  Whatever moves in the rings, the items are
  what `ListSpec` says of a sequence of byte strings, and so are the results.

The bytes are read from an offset `s` on around the ring (`At`), as if the ring began there.  `copy_move()` and the
two moves of a tail or head then shift a range from `a` to `e` whichever part goes first and wherever
the ends of the buffer are (`Shifted`, `RunShifts`), `copy_into()` overlays one (`Overlaid`),
and an item whose distances and bytes have moved alike is the same item (`SameItem`).
Searches are exact for items in one piece (`WholeMatches`); what they make of the others is the
oddity that `ListSpec` admits for torn items (`SearchFound`; finding `list_search`).

About `ListAlloc`, in `ListStorage_proofs` too, from `AllocAssumption` (the bounds on items and bytes, and the sizes asked
for, are numbers), for lists of any size:

* `AllocationFits`: `AllocSpec => []AllocFits`.  Every call reads the width of the offsets from
  the allocation's size as it was laid out, and what is stored fits.
* `ResizeSuffices`: `AllocSpec => GrowsEnough`.

`pow2size()` gives powers of two (`RoundedUp`), and of all pairs of powers only 32768 slots with
65536 bytes have a size that is read as another width (`WidthsAgree`); the next power for
the bytes is not.  So the loop of `alloc_size()` ends at the latest in its second turn
(`AllocSound`; the functions that stand for the loop exist by `Recursion`).

`HashStorage_proofs`, from `HashAssumption` (keys are not empty and their lengths fit a
byte, the hash of a key is a byte, the hashes to merge with are hashes, `IsHash`: laid out
in order and with a map that is right), for all keys, values, sizes and hashes to merge with:

* `HashVerified`: `Spec => []HVerify`.  After every call the map has a byte for each item, and
  it is the byte of that item's key.  `HashData::hverify()` is `lverify()` first and then that:
  the two together return 0 exactly when the hash is `Accounted`, that is when no bytes were
  dropped uncounted and a map that has items has bytes of its own.
* `MapKeptApart`: `Spec => []MapNoItem`.  No search takes the map for an item.
* `TypeCorrect`: `Spec => []TypeOK`.

The invariant is `Proper(list)`: the rings are in order (`Rings`), and the map agrees with
the items (`Sound`, about the sequence of items alone).  Three things make it long:

* `hremall()` and `hinter()` drop items and leave `data_len`, so a hash may count bytes that
  nothing holds.  `Layout` is then false.  Such a list is one with a layout (`Tight`)
  that counts some bytes more (`Loose`); each operator of the list does the same to both
  (`LSetLoose`, `LRemLoose`), unless it takes the list for full earlier.
* The map is item 0 and grows in the place of the items behind it: `resize_hash()` moves them all,
  around the ends of both rings (`ResizeRings`).  `happend()` and `hset()` make room in an item
  first and write into it afterwards (`StretchRings`, `Patch`), and between the
  two the item is torn.  A removal of a key closes the gap in the map too: it shifts by
  one byte, and then the item goes (`SoundRemove`).
* `Sound` does not say that a search finds *the* item with the key.  It cannot: a key that wraps
  around the ring is found where it differs (finding `list_search`).  So an item
  may be replaced by another of the same byte and length; that is all `SameKey` asks,
  and the map stays right.

The loops of `hinter()` and `hunion()` are recursive functions over the items
(`RemoveEach`, `UnionLoop`); `RemovalExists` and `AddingExists` show that they exist, and each round
keeps `Proper`.  A union that stopped for lack of room keeps its other hash (`IInv`).

`HashTab_proofs`, from the assumptions of `HashTab` alone (hashes are numbers, a new table
has a slot, a null pointer is no item), for all keys and hashes and tables of any size:

* `TableCorrect`: `Spec => []TableSound`.  The count is that of the items, every
  search comes to an empty slot, every item is found where it is.
* `MapImplemented`: `Spec => ImplementsMap`.  Callers see a map.

An item is *reached* if no slot is free between its home and itself.  Between two
rounds of a loop that does not hold: a removal leaves one hole, and cuts off
items behind it.  The invariant says what `fill_empty_hole()` relies on: whatever
is cut off by the hole lies beyond the position of the loop, and no slot between the
hole and that position is free; so nothing is cut off when the loop comes to a free slot.
Likewise, while a table grows or shrinks, the items that are cut off are those the loop has
yet to move.  With reached items a search is a function of what is in the table,
and the refinement follows step by step: rounds are stutters.

`Stream_proofs`, from the assumptions of `Stream` (ids are one or two numbers,
times and claims are numbers, a millisecond is a multiple of ten units of time, no group has
the empty name), for lists of any length:

* `SearchesExact`: `Spec => []SearchExact`.  The stream is in the order of its ids
  because the clock that gives them does not stand still; each round of a binary
  search then keeps what is lower on the left of its window and what is higher on the
  right.  This is an induction over the windows, done with sets (`Induction`).
* `PendingHasGroup`: `Spec => []PendingOwned`; `NeverTwice`: `Spec => []DeliveredOnce`;
  `GroupsGoOn`: `Spec => NeverBack`.

The invariant `IInv` adds to the three: the stream is in order and not newer than the
clock; a group has one record, in the list *or* with the caller who has to repeat a
refused update (`NamesOnce`).  What is pending is not after the last id of its group
(`Owned`), and the entry a group is given next is after it (`NextIsLater`, from the
search): so that entry is pending nowhere in the group.  Without the record that
waits to be repeated `Owned` is false: `update_group()` removes before it appends.

* `StreamImplemented`: `Spec => ImplementsStream`.  Each action is one of `StreamSpec`:
  the position that `NextFor` finds is that of the first entry above the group's
  last id (`NewIs`), a place is the number of entries below (`RankIs`, a bijection),
  `remove_pending()` counts the keys it drops (`DroppedAre`), and the update that is
  repeated changes nothing that callers see.  The last needs `AlwaysRefused`:
  nothing comes between a refused update and its repetition.

`Messages_proofs` about `MsgMem`, from `MemAssumption` (words and blocks are not empty, a mark
is no owner), for blocks and requests of any size and any number of owners:

* `MemoryApart`: `Spec => []MemorySound`.  No word is handed out twice, and the marks behind
  the blocks stand.
* `MemoryImplemented`: `Spec => ImplementsMem`.  Memory keeps what its owner wrote.

What is held in the last block ends before `mem_off`, so the memory that `extend()` makes
longer is followed by none, and a point to `reset()` to is in the chain (`MarkInv`).  All words
held are their owner's (`Owned`), also after a copy: `extend()` copies no more than there was.

`Messages_proofs` about `Dict`, from `DictAssumption` (fids, sizes and values are numbers, a kind
has a type, a size and flags), for any fids, names, kinds and hashes and builds of any length:

* `FieldsKeptApart`: `BuildSpec => OwnField`.  While the index starts at the least fid, an
  enumeration or a form changes no entry but one of the fid it is named for, and an
  enumeration that waits is taken by an entry of its fid.
* `CurrentIndex`: `BuildSpec => [](Current => IndexByFid)`.  What `get_fid_entry()` finds
  then has the fid: the finding `dict_index` happens in no other way.

The index is made of the entries there are and stays as it is while more come and change, and
`minFid` moves below it.  So the invariant `BuildInv` says of every index, also of one that is
not current, that each place has an entry whose fid is that of the place, counted from the
fid the index was made from (`IndexOf`): no step changes the fid of an entry.

`RwfWriter_proofs`, from `RwfAssumption` (sizes and addresses are numbers, callers ask for types
and options that there are), for buffers, limits and prefixes of any size, memory found
anywhere, and containers of any number, nested to any depth:

* `WindowsNested`: `RwfSpec => []OpenNested`.  An open container is the rest of its parent
  where that writes next, and all end where the memory ends, also after it moved.
* `WritesStayInBuffer`: `RwfSpec => []InBuffer`.  Nothing is written outside of the memory.

Both say where they end: a window that was left behind (finding `rwf_room`), and one of the
two calls that write without asking for all of their room, `end_field_defn()` and
`service_id()` (finding `rwf_defn`).  The model has those calls as the code does, with
and without room; each marks what it does, and the invariant `WInv` starts there: a state is
sound (`Ok`) or marked so (`Excused`).  A call that asks for its room is shown to write inside
of the memory in every sound state, and the two that do not, to write within their window or
to leave the mark (`WriteUncheckedStep`).  Neither property is inductive.
The length of a container is written *before* its window, in its parent, so a window begins
after room for it (`Child`); the outermost one has no length (`Ok`).  Only the innermost
writer may append, or it would write into the window of another: a key that
has attributes open in it refuses the rest by its flags (`HasAttrib` is larger than all of
them), a message is in no other container, and a call that adds waits for those in its way to be
ended and then fits (`Control`).  A call is a composition of operators; each is shown to be
a `Step` (sound state to sound state, same writers), ends of containers to be an `After`
(one writer less), and a header to fit because `update_hdr()` raises the size of the container
to that of the header before it asks for room.

Only model-checked so far: everything else, and liveness, which is beyond the
prover.  `RwfReader`, `RvMsg`, `TibMsg`, `TibSass`, `MfMsg`, `Scalars` and the modules of JSON read nested or
repeated structures with RECURSIVE operators, so nothing can be proved about what they
return; the writers' buffers (`Buffers`), `Registry` and `Replay` have none.
Of hashes, that they implement `DictSpec` is checked only: it needs besides which item a search
finds, for keys in one piece and for keys that wrap.
In `Scalars` and the modules of JSON the guards of a CASE may overlap, as the
conditions of an if-else chain do, and the first that is true counts, as TLC evaluates it.
Where something is proved they exclude each other.

## Findings

* `list_search`: `equals()` (`md_list.h:49`) returns `memcmp()` of the second
  part without `== 0`.  A value that wraps around the ring is found only if its
  second part *differs*.  `scan_fwd`, `scan_rev`, `linsert` and, through the
  same function, keys of hashes and members of sets are concerned.
* `hash_union`: `hunion()` (`md_hash.h:663`) takes the filter of hash bytes for
  an answer: a key of the other hash is left out if any key of this one has its
  hash byte.  `sunion()` and `zunion()` search in that case.
* `rwf_room`: `resize()` (`rwf_writer.cpp:247`) moves the windows with
  `c->buf < &old_buf[ old_len ]`.  A container that was opened exactly where the
  buffer ends (its length just fitted) is not moved: `has_space()` says yes and
  the container is written behind the memory that was given up.  A MAP writer on
  11 bytes with one entry of an element list does it in a compiled program.  The
  other properties of the writers say what holds but for this case.
* `rwf_defn`: `end_field_defn()` (`rwf_writer.cpp:783-798`) writes the definitions of a MAP
  or a SERIES without `has_space()`: on a buffer that is too short it writes behind it, and
  no error is set.  `service_id()` asks for two bytes and writes three for ids of 254 and
  more (683).  `InBuffer` says what holds of all other calls.
* `dict_index`: `get_fid_entry()` (`md_dict.cpp:250`) makes the index of fids again only
  if the place of a fid is beyond it or empty.  Places count from the least fid: after
  an entry with a smaller one the index that is there is off by the difference, and
  a fid is answered with the entry of another.  A form or an enumeration then changes the
  wrong field.  `DictFinds` and `OwnField` say what holds while the index is current.
* `mf_header`: the parser (`mf_msg.cpp:243`) tells optional parts of a header by the
  function: `rstatus` and `flist` left out of 318, 340 and 342, and a status without text,
  are documented (`mf_msg.h`) and written, and misread.
* `sass_date`: `update()` of a date (`tib_sass_msg.cpp:570`) copies the new date and then
  parses the text of the field, for its layout, into the same variable: the old date is
  written back, and 0 is returned.  The TIB message parses first (`tib_msg.cpp:576`).

The models are faithful to all seven: the abstract specifications say what is still
promised (`torn` in `ListSpec`, "passes over" in `DictSpec`), and `RwfWriter` marks
the window that was left and the room that was not asked for.

Met on the way, not checked by a run of their own:

* `hremall()`, `spopall()`, `zremall()` and the intersections drop items but not their bytes
  from `data_len`.  The room is never back, since `copy()` takes `data_len` over
  (`md_list.h:774`; `lost` in `DictSpec`), and `lverify()`, so also `hverify()`,
  `sverify()` and `zverify()`, return -17 from the next item on.  A hash whose first
  item was refused for want of room has a map without bytes, for which `hverify()` returns -20.
  `HVerify` and `SetsSound` say that these are the only two cases (`Accounted`).
* `update_group()` and `zadd()` remove before they append: when the second half
  is refused, the group or the member is gone (`StreamSpec`, `ZSetSpec` say so).
* `claim()` of a stream multiplies `idle` by 100000 (`md_stream.h:564`), a tenth of a
  millisecond in nanoseconds; `StreamClaim` documents "[IDLE ms]" (`md_stream.h:181`), and
  the two other times of the structure are multiplied by 1000000.  `Stream` has the code's
  unit (`IdleUnit`); `StreamSpec` promises callers only that an idle time counts for no
  more than it is documented to, and `ImplementsStream` says no more of it.
* `zget()` of a member in two pieces returns a second part eight bytes too long.
* `test/test_stream.cpp` never sets `is_id_next`, so its reading loop ends at once.
* `MDReplay::open("-")` means standard input, which `fillbuf()` would read, but
  `next()` takes the NULL that stands for it for closed (`md_replay.cpp:73`), so
  a replay of standard input is empty.

* RWF, entries: the writer gives a container to the CLEAR and DELETE entries of
  vectors and filters; the reader, and `doc/rwf.adoc:454`, have none there, so
  what follows is misread (`rwf_writer.cpp:2762`, `rwf_msg.cpp:1427`).  The key of
  a map entry has its length as `z16()` and is read with `u15()`: other than equal
  from 128 bytes on (`rwf_writer.cpp:2419`, `rwf_msg.cpp:1052`).
* RWF, room: `attrib()` without room returns a list that has no parent and no error (`rwf_writer.cpp:742`);
  lengths of 32768 (65536) and more are cut off in `update_len()` (198).
* RWF, order: `add_delete_entry()` does not end an open entry (2329); a summary
  after entries, and a key after a body, are written over what is there;
  `reset()` of groups keeps `container_type`; `append_defn()` extends a copy of the
  pointer to the set (809); a list with items and no set counts four bytes for one
  in `hdr_size` (1200), so one tiny field is followed by bytes never written.
* RWF, values: `set_perm()` tests the flag of the post rights
  (`rwf_writer.h:288`), `size_perm()` that of the permissions (521); `pack_time()` of
  nanoseconds leaves out the seconds (1127); a field that is not the first of a set
  can be written as the second of it by `match_set()` (1265).
* JSON, messages in messages: `append_msg()` (`json_msg.cpp:619`) writes a name without the `{` or the
  `,` that `append_field_name()` writes before one, and without noting that there is a
  field.  `convert_msg()` of a message that has a message in it returns 0 and makes
  `"a":{...}{...}` or `{"b":1"a":{...}}`, of which `JsonMsg::unpack()` ("unpack only objects
  delimited by '{' '}'") makes nothing; `test/read_msg.cpp:577` does the one after the other.
  `JsonEncoded` says what holds of messages without one.
* Registry: an own format that is registered first keeps the others from being
  registered at all (`md_add_cnt` is not 0 then); a lookup that sees a part of the filling
  without going through it uses that part: a hint whose index is not stored yet stands for
  the first format, and a group's matches may be memory that `realloc()` gave up (`Dispatched`
  says what else it may find); `init_auto_unpack()` of `StreamMsg` is never
  called; the 256th format has type byte 0 again; a hint table that is full makes
  the probe endless.
* Dictionaries: an enumeration joins the pending field with the least fid only, so one
  that waits behind another is never joined; two entries with one fid have the bits of
  both in the image; sizes of 20 bits, lengths of 8 and map numbers of 12 are cut off;
  `index_dict()` without entries uses a NULL table; `get_enum_map_val()` accepts a prefix.
* Rv: a last segment of a subject of 254 bytes or more, and a subject of 65536, are not
  checked; `append_enum()` of a text of 119 or more has a size of one byte; `update()`
  ignores the byte order; `convert_msg()` drops an enumeration without text.
* Tib: an empty message as the last field cannot be read; an array without a hint is
  written as something that cannot be read; 1/512 has no hint of its own; `update()` of a
  decimal writes the hint inside the double (`tib_msg.cpp:560`, against
  `test/cache_msg.cpp:201`); `update()` cuts a longer time and reports success; a field
  whose hint finds no room stays in the buffer after the error.
* Sass: the value of an enumeration to an unsigned field is in host order, where the
  comment says "invert endian" (`tib_sass_msg.cpp:968`); a variable field that is
  full writes a pad byte behind it, through a pointer from before the buffer moved; sizes of
  0xffff are written and read differently; a decimal for a real field of 8 bytes writes the
  low four bytes of the double (`n = fsize > 8 ? 8 : 4`, 1151; the reader and `update()` take 8),
  and the run has no such field; `update()` of a partial overwrites its offset.
* Marketfeed: the text of a status starts too late by the start of the buffer
  (`textp`); 350 without a tag is not recognised; a partial read with `append_ref()` loses its
  place; a number for a text field is written in binary.
* Decimals: an exponent after an integer that overflowed with a fraction, or after a bare
  dot, is lost; one after "n n/d" is stored behind the three numbers; `inf` at the end of
  a text is compared with what follows.
* Dates: formats with two digits of the year leave out a year that ends in 00;
  "JUL 08 2013" and "Jul 1, 2013" are found without MMM, so they are written with a number
  for the month; "06/01 05:36" takes the year of now.
* Stamps: "1.5ms" reads as 1500 seconds (`decimal_shift()` scales the wrong way);
  a month has 30 weeks (`MONTH`); `millis()` of minutes are seconds; without a date the
  flag that says so is not initialised; "2021-06-01" is the number 2021.

* JSON, text: `print()` writes strings with `%*s`, so a name without quotes, which is a
  part of the text, is printed with what follows it, and so is a string from YAML;
  `true` and `null` at the end of a stream are strings unless two more characters follow
  (`match()` needs `offset + 5 < length`); `lookahead_case()` of a stream looks at a
  character that is not read yet; a name of 8, 16, ... characters in a stream has its
  NUL behind its memory.
* JSON, YAML: the last line of a stream without a newline is read through pointers from
  before the buffer moved; a first line that is further in than a later one takes from
  an empty stack; `a: b` within an array comes back as an object; empty arrays and
  objects are printed as nothing; a line that cannot be joined is dropped without an error.
* JSON, messages: `is_jsonmsg()` adds the offset to an index that has it already; a time
  that finds little room is cut, and a decimal is an error where the buffer could grow;
  `update_hdr()` does not ask whether there was room for the end; arrays within arrays
  are null; names are not escaped.

## Not modelled

PROJECT.json lists every component with its status.  Left out within modelled
ones: `ListVal` fragments and printing; the out-of-band header of `open()`;
weights and `zscale()`, and `ZADD_DUP_KEY_OK`; fields of stream entries and
`StreamGeom`; in the replay, calls after one that returned false, and signs,
prefixes and leading space of lengths; of RWF, sets of fields, permission data,
classes of messages other than GENERIC, the message classes that show a container as
a message, and the conversion of values; in the binary formats `find()` by name,
`convert_msg()` and the rounding of decimals; of dictionaries, tags, names with ripples
and lists of dictionaries; in conversions floating point, time zones, the year that is
kept for 60000 seconds, and forms in binary.

Of JSON: reading a value as a number or a time, `JsonMsgCtx`, headers from SASS; numbers
are their characters; texts that end a stream within a word, see Findings.

Not at all: the parsers of dictionary files, which turn characters
into calls of components that are modelled; printing, base64 and other wording of
fields; geo (a sorted set of cells and floating point) and HLL (estimates); the C
interface and the dispatch of writers by type, which are switches and casts; bindings,
tests and build files.  Of these only the parsers keep state between tokens that a model
could say more about than a test.

## Plan

What is left, in this order:

1. Theorems on modules that exist and have no recursion: `SetsSound` from `Rings` and `Sound` as they are for hashes; the
   windows of `Buffers` nested; the window of `Replay` inside its buffer.
2. RWF: sets of fields (`match_set()`, definitions and their reader), the other classes of
   messages, and the conversion of values with `Scalars`.
3. Parsers: the dictionary files as callers of `Dict`.
