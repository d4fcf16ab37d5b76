----------------------------- MODULE RwfWriter -----------------------------
(***************************************************************************)
(* The writers of src/rwf_writer.cpp.  A caller builds a tree of           *)
(* containers, depth first, in one buffer: the writer of a container is a  *)
(* window on the rest of the buffer of its parent, and every container     *)
(* that is open ends where the buffer ends.  When a container needs more,  *)
(* the buffer of the root grows and may move, and the windows with it.     *)
(* Headers and lengths are written when a container is ended.              *)
(*                                                                         *)
(* A call that ends containers ends them one step at a time, innermost     *)
(* first; no other call starts before it is done.  Addresses are numbers.  *)
(* A byte is a number; one of several bytes sits in the first of its cells *)
(* with Rest in the others.  What callers ask for is kept in `doc`, asked  *)
(* whether or not there was room for it.  Slip_X is operator X with a slip *)
(* in it; no operator uses the slips.                                      *)
(***************************************************************************)
EXTENDS Integers, Sequences

CONSTANTS MaxSize,    \* of a buffer, 0x3fffffff in the code
          Extra,      \* by which it grows beyond the room needed, 1024
          Prefix,     \* room kept for the header of a message, 64
          Places,     \* where memory for a buffer may be
          BufferSizes,      \* of the buffers callers start with
          Roots,      \* <<type, options>> of outermost writers
          Kinds,      \* <<type, options>> of containers in others
          Fields,     \* sequences <<id>> \o value, appended to lists
          Keys,       \* keys of entries
          MaxCalls,   \* bound: calls that add something
          MaxDepth    \* bound: writers open at a time

\* The types of writers, RwfWriterType less RWF_CONTAINER_BASE.
NoData == 0
KEY == 1
FIELDS == 4
ELEMENTS == 5
FILTER == 7
VECTOR == 8
MAP == 9
SERIES == 10
MSG == 13

Lists == {FIELDS, ELEMENTS}
Groups == {VECTOR, MAP, SERIES}    \* entries of one type, and a summary
Types == Lists \cup Groups \cup {FILTER, MSG, KEY}

Rest == -1
Junk == -2       \* never written
Hole == -3       \* passed over by a write

\* What callers may ask of a writer: see Writer.
IsOptions(t, opt) ==
  IF t \in {FILTER, VECTOR, SERIES} THEN opt \in {<<0>>, <<1>>}
  ELSE IF t \in {MAP, MSG} THEN opt \in {<<0, 0>>, <<0, 1>>, <<1, 0>>, <<1, 1>>}
  ELSE opt = <<>>

\* A key is opened by its message; messages in others are not followed here.
ASSUME RwfAssumption ==
  /\ MaxSize \in Nat /\ Extra \in Nat /\ Prefix \in Nat
  /\ Places \subseteq Nat
  /\ BufferSizes \subseteq (1..MaxSize)
  /\ \A r \in Roots : r[1] \in Types /\ IsOptions(r[1], r[2])
  /\ \A k \in Kinds : k[1] \in Types \ {KEY, MSG} /\ IsOptions(k[1], k[2])
  /\ Fields \subseteq Seq(Nat) \ {<<>>}

VARIABLES w,        \* the open writers, the outermost first
          block,    \* [at, cells], the memory of the outermost one
          ending,   \* the writers from this one on are being ended, or None
          call,     \* what to add to the last writer once they are, or <<>>
          marks,    \* what went wrong where the code does not see it
          calls

rwfvars == <<w, block, ending, call, marks, calls>>

None == 0
Top == Len(w)
Max2(a, b) == IF a > b THEN a ELSE b
Min2(a, b) == IF a < b THEN a ELSE b

U8(x) == <<x>>
U16(x) == <<x, Rest>>
U32(x) == <<x, Rest, Rest, Rest>>
Blank(n) == [i \in 1..n |-> Hole]

-----------------------------------------------------------------------------
(* Writers. *)

\* What is written before anything else is added; the code skips it and fills
\* it in when the container is ended.
FirstOff(t, opt) ==
  CASE t = FIELDS -> 7
    [] t = ELEMENTS -> 3
    [] t = KEY -> 1
    [] t = MSG -> 0
    [] t = FILTER -> 3 + opt[1]
    [] t = MAP -> 5 + opt[2]
    [] OTHER -> 4 + 4 * opt[1]

\* A writer as its constructor makes it.  opt is <<hint>> of a FILTER, a VECTOR
\* or a SERIES, <<hint, key_fid>> of a MAP, <<seq_num, part_num>> of a MSG, which
\* has them or not.  doc is <<type, opt, summary or key, items>>.
Writer(t, opt) ==
  [type |-> t, opt |-> opt, buf |-> 0, off |-> FirstOff(t, opt), len |-> 0, pre |-> 0,
   bits |-> 0, slot |-> "", key |-> <<>>, err |-> FALSE, done |-> FALSE,
   ct |-> NoData, n |-> 0, defn |-> 0, sum |-> 0, body |-> 0, keyoff |-> 0, bodyoff |-> 0,
   doc |-> <<t, opt, <<>>, <<>>>>]

\* The outermost writer, on a buffer of len bytes at address a.
Prefixed(x, p) == [x EXCEPT !.buf = x.buf - x.pre + p, !.len = x.len + x.pre - p, !.pre = p]
ResetPrefix(x) ==
  IF x.type # MSG \/ x.pre = Prefix THEN x
  ELSE Prefixed(x, IF Prefix > x.len + x.pre THEN (x.len + x.pre) \div 2 ELSE Prefix)
Root(t, opt, a, len) ==
  ResetPrefix([Writer(t, opt) EXCEPT !.buf = a, !.len = len])

-----------------------------------------------------------------------------
(* Memory.  The operators take and return what a call has changed so far:  *)
(* s.w, s.block and s.marks.                                               *)

Now == [w |-> w, block |-> block, marks |-> marks]

InBlock(s, a, n) == s.block.at <= a /\ a + n <= s.block.at + Len(s.block.cells)

\* Cells written at an address.
Put(s, a, cells) ==
  [s EXCEPT
     !.block.cells = [k \in DOMAIN @ |->
                        LET i == s.block.at + k - a
                        IN IF i \in DOMAIN cells /\ cells[i] # Hole THEN cells[i] ELSE @[k]],
     !.marks = IF InBlock(s, a, Len(cells)) THEN @ ELSE @ \cup {"outside"}]

\* Cells appended by a writer.
WriteCells(s, i, cells) ==
  [Put(s, s.w[i].buf + s.w[i].off, cells) EXCEPT !.w[i].off = @ + Len(cells)]

\* The same by calls of which some ask for less room than they take.
WriteUnchecked(s, i, cells) ==
  LET t == WriteCells(s, i, cells)
  IN IF t.w[i].off <= t.w[i].len THEN t ELSE [t EXCEPT !.marks = @ \cup {"unasked"}]

Error(s, i) == [s EXCEPT !.w = [j \in DOMAIN @ |-> IF j <= i THEN [@[j] EXCEPT !.err = TRUE]
                                                              ELSE @[j]]]

OldLen(s) == s.w[1].pre + s.w[1].len
Needed(s, i, n) == OldLen(s) + (s.w[i].off + n - s.w[i].len)
NewLen(s, i, n) ==
  Min2(MaxSize, IF Needed(s, i, n) < 2 * OldLen(s) THEN 2 * OldLen(s)
                                                    ELSE Needed(s, i, n) + Extra)
MayGrow(s, i, n) == ~s.w[i].done /\ ~s.w[i].err /\ n <= MaxSize /\ Needed(s, i, n) <= MaxSize

\* Is a window seen as one on the old buffer?
Follows(s, x) == s.block.at <= x.buf /\ x.buf < s.block.at + OldLen(s)

Slip_Rebased(s, to, size) == \* how long the windows are is not told
  [j \in DOMAIN s.w |->
     LET x == s.w[j]
     IN IF j = 1 THEN [x EXCEPT !.buf = to + x.pre, !.len = size - x.pre]
        ELSE IF Follows(s, x) THEN [x EXCEPT !.buf = to + (x.buf - s.block.at)]
        ELSE x]

\* The writers on a buffer at `to` of `size` bytes.
Rebased(s, to, size) ==
  [j \in DOMAIN s.w |->
     LET x == s.w[j]
         there == IF j = 1 THEN to + x.pre ELSE to + (x.buf - s.block.at)
     IN IF j = 1 \/ Follows(s, x)
        THEN [x EXCEPT !.buf = there, !.len = to + size - there]
        ELSE x]

\* resize(): more memory, there or elsewhere.
GrownTo(s, to, size) ==
  [w |-> Rebased(s, to, size),
   block |-> [at |-> to, cells |-> [k \in 1..size |->
                IF k <= Len(s.block.cells) THEN s.block.cells[k] ELSE Junk]],
   marks |-> IF \A j \in 2..Len(s.w) : Follows(s, s.w[j]) THEN s.marks
             ELSE s.marks \cup {"left behind"}]

\* has_space(), and check_offset() when n is 0.
HasSpace(s, i, n) == s.w[i].off + n <= s.w[i].len
CanHave(s, i, n) == HasSpace(s, i, n) \/ MayGrow(s, i, n)
WithSpace(s, i, n, to) ==
  IF HasSpace(s, i, n) THEN s ELSE GrownTo(s, to, NewLen(s, i, n))

-----------------------------------------------------------------------------
(* Headers. *)

B(set) == IF set THEN 1 ELSE 0

HdrFlags(x) ==
  CASE x.type = MAP -> B(x.defn # 0) + 2 * B(x.sum # 0) + 8 * x.opt[1] + 16 * x.opt[2]
    [] x.type = SERIES -> B(x.defn # 0) + 2 * B(x.sum # 0) + 4 * x.opt[1]
    [] x.type = VECTOR -> 2 * B(x.sum # 0) + 8 * x.opt[1]
    [] OTHER -> 2 * x.opt[1]

\* The hint and the count of entries.
Counts(x) ==
  IF x.type = FILTER THEN (IF x.opt[1] = 1 THEN U8(1) ELSE <<>>) \o U8(x.n)
  ELSE (IF x.opt[1] = 1 THEN U32(1) ELSE <<>>) \o U16(x.n)

\* The header of a container; field definitions and summary are there already.
\* A MAP has the type of its keys and may have the field they come from.
Header(x) ==
  CASE x.type = KEY -> U8(x.n)
    [] x.type = FIELDS -> U8(9) \o U8(3) \o U8(1) \o U16(0) \o U16(x.n)
    [] x.type = ELEMENTS -> U8(8) \o U16(x.n)
    [] OTHER -> U8(HdrFlags(x)) \o (IF x.type = MAP THEN U8(1) ELSE <<>>) \o U8(x.ct)
                \o (IF x.type = MAP /\ x.opt[2] = 1 THEN U16(1) ELSE <<>>)
                \o Blank(x.defn + x.sum) \o Counts(x)

\* A list without a set of fields counts four bytes for it when it has items.
HdrSize(x) == Len(Header(x)) + IF x.type \in Lists /\ x.n > 0 THEN 4 ELSE 0

\* The header of a message is as long as its options make it: up to the key and
\* after it.  It is written before the contents, into the prefix.
UptoKey(x) == 11 + 4 * x.opt[1]
AfterKey(x) == 2 * x.opt[2]
MsgHeader(x, size) ==
  U16(size - 2) \o U8(7) \o U8(6) \o U32(1)
  \o U16(B(x.sum # 0) + 2 * x.opt[1] + 4 * x.opt[2]) \o U8(x.ct)
  \o (IF x.opt[1] = 1 THEN U32(1) ELSE <<>>)
PartNum(x) == IF x.opt[2] = 1 THEN U16(1) ELSE <<>>

-----------------------------------------------------------------------------
(* Ending a container: update_hdr() and the length before it. *)

LenBytes(bits) == CASE bits = 0 -> 0 [] bits = 15 -> 2 [] OTHER -> 3
LenCells(bits, n) == CASE bits = 0 -> <<>> [] bits = 15 -> U16(n) [] OTHER -> U8(254) \o U16(n)

WithDoc(x, slot, key, d) ==
  IF slot \in {"key", "summary", "attrib"} THEN [x EXCEPT !.doc[3] = @ \o <<d>>]
  ELSE [x EXCEPT !.doc[4] = @ \o <<<<key, <<d>>>>>>]
WithItem(x, key) == [x EXCEPT !.doc[4] = @ \o <<<<key, <<>>>>>>]
ItemIn(x, key, more) == [WithItem(x, key) EXCEPT !.n = @ + more]
Lost(x) == WithItem(x, <<-1>>)   \* asked for and refused

\* What the writer that contains x learns of its size.
Sized(p, x) ==
  LET size == x.off + LenBytes(x.bits)
  IN CASE x.slot \in {"key", "summary"} -> [p EXCEPT !.sum = @ + size, !.off = @ + x.off]
       [] x.slot = "body" -> [p EXCEPT !.body = @ + size, !.off = @ + x.off]
       [] OTHER -> [p EXCEPT !.off = @ + x.off]

\* The innermost writer leaves; the outermost stays, complete.
Left(s, i) ==
  LET x == s.w[i]
  IN IF i = 1 THEN [s EXCEPT !.w[1].done = TRUE]
     ELSE [s EXCEPT !.w = [j \in 1..(i - 1) |->
             IF j = i - 1 THEN WithDoc(@[j], x.slot, x.key, x.doc) ELSE @[j]]]

Written(s, i) ==
  LET x == s.w[i]
      h == Put(Put(s, x.buf, Header(x)), x.buf - LenBytes(x.bits), LenCells(x.bits, x.off))
  IN IF i = 1 THEN h ELSE [h EXCEPT !.w[i - 1] = Sized(@, x)]

Slip_Ended(s, i, to) == \* no check that there is room for the header
  Left(Written([s EXCEPT !.w[i].off = Max2(@, HdrSize(s.w[i]))], i), i)

Ended(s, i, to) ==
  LET t == [s EXCEPT !.w[i].off = Max2(@, HdrSize(s.w[i]))]
  IN IF CanHave(t, i, 0) THEN Left(Written(WithSpace(t, i, 0, to), i), i)
     ELSE Left(Error(t, i), i)

\* check_prefix(): room for n bytes before the contents.
Lacking(s, n) == Max2(0, n - s.w[1].pre)
Slice(s, a, n) == SubSeq(s.block.cells, a - s.block.at + 1, a - s.block.at + n)
Shifted(s, n) ==
  LET x == s.w[1]
  IN [Put(s, x.buf + n, Slice(s, x.buf, x.off)) EXCEPT !.w[1] = Prefixed(x, x.pre + n)]

\* The window of a message then starts with its header.
WithHeader(x, n) ==
  [Prefixed(x, x.pre - n) EXCEPT
     !.off = @ + n,
     !.keyoff = @ + n * B(x.sum # 0),
     !.bodyoff = @ + n * B(x.body # 0)]
MsgHdrSize(x) ==
  Max2(Max2(x.keyoff + x.sum + AfterKey(x), x.bodyoff), UptoKey(x) + AfterKey(x))

MsgWritten(s, size) ==
  Put(Put(s, s.w[1].buf, MsgHeader(s.w[1], size)),
      s.w[1].buf + size - AfterKey(s.w[1]), PartNum(s.w[1]))
MsgSized(s, size, to) ==
  LET t == [s EXCEPT !.w[1].off = Max2(@, size)]
  IN IF CanHave(t, 1, 0) THEN Left(MsgWritten(WithSpace(t, 1, 0, to), size), 1)
     ELSE Left(Error(t, 1), 1)
MsgEnded(s, to) ==
  LET x == s.w[1]
      n == Lacking(s, UptoKey(x))
      t == IF n = 0 THEN s ELSE Shifted(WithSpace(s, 1, n, to), n)
      y == IF x.off > 0 THEN WithHeader(t.w[1], UptoKey(x))
           ELSE [x EXCEPT !.off = UptoKey(x) + AfterKey(x)]
  IN IF x.off > 0 /\ n > 0 /\ ~CanHave(s, 1, n) THEN Left(Error(s, 1), 1)
     ELSE MsgSized(IF x.off > 0 THEN [t EXCEPT !.w[1] = y] ELSE [s EXCEPT !.w[1] = y],
                   MsgHdrSize(y), to)

-----------------------------------------------------------------------------
(* Adding to a container. *)

Slip_SummaryOff(x) == \* field definitions forgotten
  IF x.type = MAP THEN 3 + 2 * x.opt[2] ELSE 2

SummaryOff(x) == (IF x.type = MAP THEN 3 + 2 * x.opt[2] ELSE 2) + x.defn
EntryOff(x) ==
  CASE x.type = FILTER -> 3 + x.opt[1]
    [] x.type = MAP -> 5 + 2 * x.opt[2] + x.defn + x.sum + 4 * x.opt[1]
    [] OTHER -> 4 + x.defn + x.sum + 4 * x.opt[1]

\* check_container() of messages and groups: one key, one body, one summary, and
\* entries and summary of one type.
Refused(x, t, slot) ==
  \/ slot \in {"key", "summary"} /\ x.sum # 0
  \/ slot = "body" /\ x.ct # NoData
  \/ x.type \in Groups /\ x.ct \notin {NoData, t}

OfType(x, t) == [x EXCEPT !.ct = IF @ = NoData THEN t ELSE @]
Entry(x) == [x EXCEPT !.off = IF x.n = 0 THEN EntryOff(x) ELSE @]
Counted(x) == [x EXCEPT !.n = @ + 1]
Begun(x, t, slot) ==
  CASE slot = "key" -> [x EXCEPT !.keyoff = x.off]
    [] slot = "summary" -> [OfType(x, t) EXCEPT !.off = SummaryOff(x)]
    [] slot = "body" -> [OfType(x, t) EXCEPT !.off = @ + AfterKey(x),
                                             !.bodyoff = x.off + AfterKey(x)]
    [] slot = "attrib" -> x
    [] slot = "entry" /\ x.type \in {MAP, SERIES} -> Counted(Entry(OfType(x, t)))
    [] OTHER -> Entry(OfType(x, t))

\* What an entry has before its length; the entry of a FILTER tells its type
\* when it is not that of the first.
EntryHead(x, t, slot, key) ==
  IF slot = "attrib" THEN U8(t)
  ELSE IF slot # "entry" \/ x.type = SERIES THEN <<>>
  ELSE CASE x.type = MAP -> U8(key[1]) \o U8(1) \o U8(key[2])
         [] x.type = VECTOR -> U8(key[1]) \o U32(key[2])
         [] OTHER -> IF x.ct \in {NoData, t} THEN U8(key[1]) \o U8(key[2])
                     ELSE U8(key[1] + 32) \o U8(key[2]) \o U8(t)
Headed(x, slot) ==
  CASE slot = "attrib" -> [x EXCEPT !.n = @ + 32]
    [] slot = "entry" /\ x.type \in {VECTOR, FILTER} -> Counted(x)
    [] OTHER -> x

Bits(slot) == CASE slot = "body" -> 0 [] slot = "entry" -> 16 [] OTHER -> 15

Refuse(s, i) == [Error(s, i) EXCEPT !.w[i] = Lost(@)]

\* append_base(): a window on the rest of the buffer, after room for the length.
Window(p, c, lb) ==
  [Writer(c.type, c.opt) EXCEPT
     !.buf = p.buf + p.off + lb, !.len = p.len - (p.off + lb),
     !.bits = Bits(c.slot), !.slot = c.slot, !.key = c.key]
Appended(s, i, c, lb) ==
  LET p == s.w[i]
  IN IF p.err THEN Refuse(s, i)
     ELSE [s EXCEPT !.w = [j \in 1..(i + 1) |-> IF j > i THEN Window(p, c, lb)
                                                ELSE IF j = i THEN [p EXCEPT !.off = @ + lb]
                                                ELSE s.w[j]]]
AppendBase(s, i, c, lb, to) ==
  IF CanHave(s, i, lb) THEN Appended(WithSpace(s, i, lb, to), i, c, lb) ELSE Refuse(s, i)

WithHead(s, i, c, head, to) ==
  IF head = <<>> THEN s
  ELSE LET t == WriteCells(WithSpace(s, i, Len(head), to), i, head)
       IN [t EXCEPT !.w[i] = Headed(@, c.slot)]
Started(s, i, c, head, to) ==
  IF head # <<>> /\ ~CanHave(s, i, Len(head)) THEN Refuse(s, i)
  ELSE AppendBase(WithHead(s, i, c, head, to), i, c, LenBytes(Bits(c.slot)), to)
Added(s, i, c, to) ==
  LET x == s.w[i]
  IN IF Refused(x, c.type, c.slot) THEN Refuse(s, i)
     ELSE Started([s EXCEPT !.w[i] = Begun(x, c.type, c.slot)], i, c,
                  EntryHead(x, c.type, c.slot, c.key), to)

\* Cells appended for an item, if there is room for n.  key_flags of a KEY tell
\* what it has, n of a list how many.
Item(s, i, n, cells, key, more, to) ==
  IF CanHave(s, i, n)
  THEN LET t == WriteUnchecked(WithSpace(s, i, n, to), i, cells)
       IN [t EXCEPT !.w[i] = ItemIn(@, key, more)]
  ELSE Refuse(s, i)

FieldCells(x, f) ==
  LET val == SubSeq(f, 2, Len(f))
  IN IF x.type = FIELDS THEN U16(f[1]) \o U8(Len(val)) \o val
     ELSE U8(1) \o U8(f[1]) \o U8(17) \o U8(Len(val)) \o val

\* service_id, name, name_type, filter and identifier of a key, in this order:
\* the cells it may have, the room asked for, and the flag.  An id of 254 or more
\* takes three bytes.
KeyCells ==
  <<{U8(9), U8(254) \o U16(300)}, {U8(1) \o U8(9)}, {U8(9)}, {U32(9)}, {U32(9)}>>
KeyRoom == <<2, 2, 1, 4, 4>>
KeyFlag == <<1, 2, 4, 8, 16>>
HasAttrib == 32

-----------------------------------------------------------------------------
(* Calls. *)

RwfInit ==
  \E r \in Roots, a \in Places, len \in BufferSizes :
    /\ w = <<Root(r[1], r[2], a, len)>>
    /\ block = [at |-> a, cells |-> [k \in 1..len |-> Junk]]
    /\ ending = None /\ call = <<>> /\ marks = {}
    /\ calls = 0

Become(s) == w' = s.w /\ block' = s.block /\ marks' = s.marks

Idle == ending = None /\ call = <<>> /\ marks = {}
Ready == Idle /\ ~w[1].done
Called == Ready /\ calls < MaxCalls /\ calls' = calls + 1

\* add_*(): make_child() ends the container that is open in this one.
AddCall(i, c) ==
  /\ Called
  /\ i < MaxDepth
  /\ call' = c
  /\ ending' = IF i < Top THEN i + 1 ELSE None
  /\ UNCHANGED <<w, block, marks>>

Opening(t, opt, slot, key) == [type |-> t, opt |-> opt, slot |-> slot, key |-> key]

AddKey(i) ==
  /\ w[i].type = MSG /\ w[i].ct = NoData   \* the key comes first
  /\ AddCall(i, Opening(KEY, <<>>, "key", <<>>))
AddBody(i) ==
  /\ w[i].type = MSG
  /\ \E k \in Kinds : AddCall(i, Opening(k[1], k[2], "body", <<>>))
\* Summaries come before entries.
AddSummary(i) ==
  /\ w[i].type \in Groups /\ w[i].n = 0
  /\ \E k \in Kinds : AddCall(i, Opening(k[1], k[2], "summary", <<>>))

EntryKeys(t) ==
  CASE t = SERIES -> {<<>>}
    [] t = MAP -> {<<a, k>> : a \in {1, 2}, k \in Keys}
    [] OTHER -> {<<1, k>> : k \in Keys}
AddEntry(i) ==
  /\ w[i].type \in Groups \cup {FILTER}
  /\ \E k \in Kinds, key \in EntryKeys(w[i].type) :
       AddCall(i, Opening(k[1], k[2], "entry", key))
\* Callers of attrib() have the byte for its type.
Attrib(i) ==
  /\ w[i].type = KEY /\ w[i].n < HasAttrib /\ CanHave(Now, i, 1)
  /\ AddCall(i, Opening(ELEMENTS, <<>>, "attrib", <<>>))

\* The containers that were open are ended: now add.
Add(to) ==
  /\ ending = None /\ call # <<>> /\ marks = {}
  /\ Become(Added(Now, Top, call, to))
  /\ call' = <<>>
  /\ UNCHANGED <<ending, calls>>

\* end(): this container and those in it.
End(i) ==
  /\ Ready
  /\ ending' = i
  /\ UNCHANGED <<w, block, call, marks, calls>>

EndOne(to) ==
  /\ ending # None /\ marks = {}
  /\ Become(IF w[Top].type = MSG THEN MsgEnded(Now, to) ELSE Ended(Now, Top, to))
  /\ ending' = IF Top = ending THEN None ELSE ending
  /\ UNCHANGED <<call, calls>>

\* append_*() of lists.
AppendField(f, to) ==
  /\ Called /\ w[Top].type \in Lists
  /\ Become(Item(Now, Top, Len(FieldCells(w[Top], f)), FieldCells(w[Top], f), f, 1, to))
  /\ UNCHANGED <<ending, call>>

\* One of what identifies a key.  An attribute list may be open in it.
KeyField(i, f, cells, to) ==
  /\ Called /\ w[i].type = KEY
  /\ Become(IF ~CanHave(Now, i, KeyRoom[f]) THEN Refuse(Now, i)
            ELSE IF w[i].n >= KeyFlag[f] THEN Refuse(WithSpace(Now, i, KeyRoom[f], to), i)
            ELSE Item(Now, i, KeyRoom[f], cells, <<f>> \o cells, KeyFlag[f], to))
  /\ UNCHANGED <<ending, call>>

\* add_delete_entry() does not end what is open; callers do.
AddDeleteEntry(k, to) ==
  /\ Called /\ w[Top].type = MAP
  /\ Become(IF w[Top].err THEN [Now EXCEPT !.w[Top] = Lost(@)]
            ELSE Item([Now EXCEPT !.w[Top] = Counted(Entry(@))], Top, 3,
                      U8(3) \o U8(1) \o U8(k), <<3, k>>, 0, to))
  /\ UNCHANGED <<ending, call>>

\* A list without elements, encoded elsewhere.
RawCells == U8(8) \o U16(0)
RawDoc == <<ELEMENTS, <<>>, <<>>, <<>>>>
WithRaw(x) == [x EXCEPT !.body = Len(RawCells), !.doc[4] = @ \o <<<<<<>>, <<RawDoc>>>>>>]
RawAdded(s, to) ==
  IF CanHave(s, 1, Len(RawCells))
  THEN [WriteCells(WithSpace(s, 1, Len(RawCells), to), 1, RawCells) EXCEPT !.w[1] = WithRaw(@)]
  ELSE Refuse(s, 1)
AddRawContainer(to) ==
  /\ Called /\ w[Top].type = MSG
  /\ Become(IF w[1].ct # NoData THEN Refuse(Now, 1)
            ELSE RawAdded([Now EXCEPT !.w[1] = Begun(@, ELEMENTS, "body")], to))
  /\ UNCHANGED <<ending, call>>

\* add_field_defn() to end_field_defn(), without sets of fields; callers do it
\* before anything else.  Room is not asked for.
DefnCells == U16(2) \o U8(0) \o U8(0)
Defined(x) == [x EXCEPT !.defn = Len(DefnCells), !.doc[2] = @ \o <<Len(DefnCells)>>]
AddFieldDefn ==
  /\ Called
  /\ LET x == w[Top]
     IN /\ x.type \in {MAP, SERIES}
        /\ x.n = 0 /\ x.sum = 0 /\ x.defn = 0
        /\ Become([WriteUnchecked([Now EXCEPT !.w[Top].off = SummaryOff(x)], Top, DefnCells)
                     EXCEPT !.w[Top] = Defined(@)])
  /\ UNCHANGED <<ending, call>>

\* reset() of the outermost writer, when it is done; what type its entries have
\* stays, and a message is given its options again.
Again(x) ==
  LET y == [Writer(x.type, x.opt) EXCEPT !.buf = x.buf, !.len = x.len, !.pre = x.pre]
  IN IF x.type = MSG THEN ResetPrefix(y)
     ELSE [y EXCEPT !.ct = x.ct]
ResetWriter ==
  /\ Idle /\ w[1].done
  /\ w' = <<Again(w[1])>>
  /\ UNCHANGED <<block, ending, call, marks, calls>>

RwfNext ==
  \/ \E i \in 1..Top :
       \/ AddKey(i) \/ AddBody(i) \/ AddSummary(i) \/ AddEntry(i) \/ Attrib(i)
       \/ End(i)
  \/ \E to \in Places :
       \/ Add(to) \/ EndOne(to) \/ AddRawContainer(to)
       \/ \E f \in Fields : AppendField(f, to)
       \/ \E i \in 1..Top, f \in DOMAIN KeyFlag :
            \E cells \in KeyCells[f] : KeyField(i, f, cells, to)
       \/ \E k \in Keys : AddDeleteEntry(k, to)
  \/ AddFieldDefn
  \/ ResetWriter

RwfSpec == RwfInit /\ [][RwfNext]_rwfvars

-----------------------------------------------------------------------------
(* Properties. *)

\* An open container is the rest of its parent, where the parent will write its
\* next byte, and all of them end where the memory ends; so it is after memory
\* moved, whichever of them asked for more.  Pointers into memory given up, or
\* a length counted twice, would show.
Nested(j) == w[j].buf = w[j - 1].buf + w[j - 1].off
EndsWithBlock(j) == w[j].buf + w[j].len = block.at + Len(block.cells)
OpenNested ==
  marks = {} =>
    /\ w[1].buf = block.at + w[1].pre
    /\ \A j \in 2..Top : Nested(j)
    /\ \A j \in 1..Top : EndsWithBlock(j)

\* A write is in the memory of the outermost writer, unless the window it is
\* made through was left behind on the memory given up, or it is one of the two
\* that take more room than they ask for: end_field_defn() and service_id().
InBuffer == "outside" \in marks => "left behind" \in marks \/ "unasked" \in marks

\* What has_space() or check_offset() found short is there when they say yes:
\* no write for which all its room was asked is outside the memory of the
\* outermost writer.
RoomMade == "outside" \in marks => "unasked" \in marks

\* "Size check failed, no space" is what a call says that finds none: none
\* writes where it did not ask.
RoomAsked == "unasked" \notin marks
=============================================================================
