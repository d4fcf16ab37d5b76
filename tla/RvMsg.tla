-------------------------------- MODULE RvMsg -------------------------------
(***************************************************************************)
(* The TIB/Rendezvous wire format of src/rv_msg.cpp: the writer, with      *)
(* messages and arrays of messages inside messages, and the iterator that  *)
(* reads them.  `doc` is what callers appended, as a reader should find    *)
(* it.  Slip_X is operator X with a slip in it; no operator uses the slips.*)
(***************************************************************************)
EXTENDS Buffers, SequencesExt

CONSTANTS Tiny,      \* sizes below it take one byte, RV_TINY_SIZE
          ShortMax,  \* sizes below it take three, MAX_RV_SHORT_SIZE
          NameMax,   \* of the bytes of a name, 255
          Sizes,     \* of the buffers callers start with
          Calls,     \* <<kind, name, value>> of what they append
          Names,     \* of the messages and arrays they append
          MaxCalls,  \* bound: what is appended to a message
          MaxDepth   \* bound: writers open at a time

RvAssumption == Tiny \in Nat /\ ShortMax \in Nat /\ Tiny > 8 /\ ShortMax > Tiny

VARIABLES s,       \* the buffer and its writers
          open,    \* of each writer but the outermost, what it is a part of
          doc,     \* of each writer, what was appended
          missed,  \* was anything not appended?
          len,     \* what update_hdr() returned, 0 while the message is written
          calls

vars == <<s, open, doc, missed, len, calls>>

Short == Tiny + 1
Long == Tiny + 2
Code == [RVMSG |-> 1, SUBJECT |-> 2, DATETIME |-> 3, OPAQUE |-> 7, STRING |-> 8,
         BOOLEAN |-> 9, IPDATA |-> 10, INT |-> 11, UINT |-> 12, REAL |-> 13,
         I8 |-> 34, U8 |-> 35, I16 |-> 36, U16 |-> 37, I32 |-> 38, U32 |-> 39,
         I64 |-> 40, U64 |-> 41, F32 |-> 44, F64 |-> 45, XML |-> 47, STRS |-> 48, MSGS |-> 49]
Hdr == 8
Magic == 4774
HdrCells(n) == U32(n) \o U32(Magic)

-----------------------------------------------------------------------------
(* Encoding. *)

\* A name ends in NUL, or in NUL and a fid of two bytes.
HasFid(nm) == Len(nm) >= 3 /\ nm[Len(nm) - 2] = NUL
NameCells(nm) ==
  LET z == IF nm = <<>> \/ Last(nm) = NUL \/ HasFid(nm) THEN nm ELSE Append(nm, NUL)
  IN <<Len(z)>> \o z
TooBig(nm) == Len(NameCells(nm)) > NameMax + 1

Slip_SizeCells(n) ==   \* a size of two bytes does not count itself
  IF n < Tiny THEN U8(n)
  ELSE IF n < ShortMax THEN <<Short>> \o U16(n) ELSE <<Long>> \o U32(n + 4)
SizeCells(n) == IF n < Tiny THEN U8(n)
                ELSE IF n < ShortMax THEN <<Short>> \o U16(n + 2) ELSE <<Long>> \o U32(n + 4)

\* A value is [t, d, le, ew]: its type, its bytes with the highest first, whether
\* memory has them the other way round, and the width of the entries of an
\* array.  In a message the highest of a number is the first.
Numbers == {"UINT", "INT", "REAL", "DATETIME", "IPDATA", "BOOLEAN"}
Arrays == {"I8", "U8", "I16", "U16", "I32", "U32", "I64", "U64", "F32", "F64"}
Swapped(d, w) ==
  [k \in DOMAIN d |-> LET first == ((k - 1) \div w) * w IN d[2 * first + w + 1 - k]]
InMemory(v) == IF v.le THEN Swapped(v.d, v.ew) ELSE v.d

SwapArray(v, d) == IF v.le /\ v.t \in Arrays /\ v.ew > 1 THEN Swapped(d, v.ew) ELSE d
BigEnd(v, d) ==
  IF v.le /\ v.t \in Numbers /\ Len(d) > 1 THEN Rev(d) ELSE SwapArray(v, d)
Ended(v) == IF v.t = "STRING" /\ (v.d = <<>> \/ Last(v.d) # NUL) THEN Append(v.d, NUL)
            ELSE BigEnd(v, InMemory(v))
RefCells(v) == <<Code[v.t]>> \o SizeCells(Len(Ended(v))) \o Ended(v)

\* An array is of numbers of one, two, four or eight bytes; one of anything else
\* is an error, found when there is room for it.
ArrayType(v) == v.t # "ARRAY"

\* A decimal is a real of eight bytes, whatever it was.
DecimalCells(v) == <<Code["REAL"], 8>> \o Rev(InMemory(v))

\* A time and a date are the text they are shown as; an enumeration is its
\* display.  One byte of size is enough for what there is of these.
TextCells(v) == <<Code["STRING"], Len(v.d) + 1>> \o v.d \o <<NUL>>
EnumCells(v) == <<Code["STRING"], Len(v.d) + 1>> \o v.d \o <<NUL>>

\* Seconds and microseconds.
StampCells(v) == <<Code["DATETIME"], 8>> \o U32(v.d[1]) \o U32(v.d[2])

\* A subject: how many segments, each with its length, which counts itself and
\* the NUL at the end.
SegCells(seg) == <<Len(seg) + 2>> \o seg \o <<NUL>>
SubjectCells(v) ==
  LET body == <<Len(v.d)>> \o FlattenSeq([k \in DOMAIN v.d |-> SegCells(v.d[k])])
  IN <<Code["SUBJECT"], Short>> \o U16(Len(body) + 2) \o body
\* There is an empty segment before a dot, which is an error.
BadSubject(v) == \E k \in 1..(Len(v.d) - 1) : v.d[k] = <<>>

\* An array of strings: how many and the strings, NUL at the end of each.
StringsCells(v) ==
  LET body == U32(Len(v.d)) \o FlattenSeq([k \in DOMAIN v.d |-> v.d[k] \o <<NUL>>])
  IN <<Code["STRS"]>> \o SizeCells(Len(body)) \o body

\* A document, deflated: its size before the bytes.  v.ew is the size.
XmlCells(v) == <<Code["XML"]>> \o SizeCells(Len(SizeCells(v.ew)) + Len(v.d))
               \o SizeCells(v.ew) \o v.d

Cells(kind, v) ==
  CASE kind = "ref" -> RefCells(v)
    [] kind = "decimal" -> DecimalCells(v)
    [] kind = "text" -> TextCells(v)
    [] kind = "enum" -> EnumCells(v)
    [] kind = "stamp" -> StampCells(v)
    [] kind = "subject" -> SubjectCells(v)
    [] kind = "strings" -> StringsCells(v)
    [] OTHER -> XmlCells(v)

-----------------------------------------------------------------------------
(* Decoding. *)

Bad(why) == [bad |-> why]
IsBad(r) == "bad" \in DOMAIN r

Sized == {Code[t] : t \in {"STRING", "SUBJECT", "OPAQUE", "XML", "STRS", "MSGS"} \cup Arrays}
OneByte == {Code[t] : t \in Numbers}

\* RvFieldIter::unpack(): the field at i of c, whose message ends before `end`.
\* at is where its value starts, n the size, next where the next field is.
Bounded(c, i, szbytes, size, name, end) ==
  IF size < szbytes \/ i + size > end THEN Bad("bounds")
  ELSE [name |-> name, at |-> i + szbytes, n |-> size - szbytes, next |-> i + size]
Unpacked(c, i, end) ==
  LET nm == Cut(c, i + 1, c[i])
      t == i + 1 + c[i]
      got == IF t >= end THEN Bad("bounds")
             ELSE IF c[t] = Code["RVMSG"]
                  THEN IF t + 6 > end THEN Bad("bounds")
                       ELSE IF c[t + 1] # Long THEN Bad("size")
                       ELSE Bounded(c, t + 2, 0, c[t + 2], nm, end)
             ELSE IF c[t] \in Sized
                  THEN CASE c[t + 1] = Long -> IF t + 6 > end THEN Bad("bounds")
                                               ELSE Bounded(c, t + 2, 4, c[t + 2], nm, end)
                         [] c[t + 1] = Short -> IF t + 4 > end THEN Bad("bounds")
                                                ELSE Bounded(c, t + 2, 2, c[t + 2], nm, end)
                         [] OTHER -> Bounded(c, t + 2, 0, c[t + 1], nm, end)
             ELSE IF c[t] \in OneByte THEN Bounded(c, t + 2, 0, c[t + 1], nm, end)
             ELSE Bad("type")
  IN IF IsBad(got) THEN got
     ELSE [t |-> CHOOSE x \in DOMAIN Code : Code[x] = c[t]] @@ got

\* get_rv_name(): what is before the NUL, and the fid.
LastTwo(q) == Cut(q, Len(q) - 1, 2)
NameRead(nm) ==
  IF nm = <<>> THEN [text |-> <<>>, fid |-> <<>>]
  ELSE IF HasFid(nm) THEN [text |-> SubSeq(nm, 1, Len(nm) - 3), fid |-> LastTwo(nm)]
  ELSE [text |-> IF Last(nm) = NUL THEN Front(nm) ELSE nm, fid |-> <<>>]

\* Entries of equal width, and strings each of which ends in NUL.
Entries(d, w) == [k \in 1..(Len(d) \div w) |-> Cut(d, (k - 1) * w + 1, w)]
RECURSIVE Strings(_, _)
Strings(d, n) ==
  IF n = 0 THEN IF d = <<>> THEN <<>> ELSE <<Bad("size")>>
  ELSE IF ~Contains(d, NUL) THEN <<Bad("size")>>
  ELSE LET e == SelectInSeq(d, LAMBDA x : x = NUL)
       IN <<SubSeq(d, 1, e - 1)>> \o Strings(SubSeq(d, e + 1, Len(d)), n - 1)

\* Segments of a subject.
RECURSIVE Segments(_, _)
Segments(d, n) ==
  IF n = 0 THEN <<>>
  ELSE <<Cut(d, 2, d[1] - 2)>> \o Segments(SubSeq(d, d[1] + 1, Len(d)), n - 1)

\* The size of a document and where its bytes are.
XmlRead(d) ==
  CASE d[1] = Long -> <<d[2] - 4, SubSeq(d, 6, Len(d))>>
    [] d[1] = Short -> <<d[2] - 2, SubSeq(d, 4, Len(d))>>
    [] OTHER -> <<d[1], SubSeq(d, 2, Len(d))>>

Width == [I8 |-> 1, U8 |-> 1, I16 |-> 2, U16 |-> 2, I32 |-> 4, U32 |-> 4, F32 |-> 4,
          I64 |-> 8, U64 |-> 8, F64 |-> 8]

\* RvFieldIter::first() and next() to the end of the message at `at`, with
\* get_reference(), get_array_ref() and get_sub_msg() of every field.  A field
\* that is bad ends it.
RECURSIVE FieldsAt(_, _, _), MsgsAt(_, _, _, _)
Msg(c, at, end) == FieldsAt(c, at + Hdr, end)
Value(c, f) ==
  LET d == Cut(c, f.at, f.n)
  IN CASE f.t = "RVMSG" -> Msg(c, f.at, f.next)
       [] f.t = "MSGS" -> MsgsAt(c, f.at + 4, f.next, d[1])
       [] f.t = "STRS" -> Strings(SubSeq(d, 5, f.n), d[1])
       [] f.t = "STRING" -> IF d # <<>> /\ Last(d) = NUL THEN Front(d) ELSE d
       [] f.t = "SUBJECT" -> Segments(Tail(d), d[1])
       [] f.t = "XML" -> XmlRead(d)
       [] f.t \in Arrays -> Entries(d, Width[f.t])
       [] OTHER -> d
FieldsAt(c, i, end) ==
  IF i >= end THEN <<>>
  ELSE LET f == Unpacked(c, i, end)
       IN IF IsBad(f) THEN <<f>>
          ELSE <<[name |-> NameRead(f.name), t |-> f.t, v |-> Value(c, f)]>>
               \o FieldsAt(c, f.next, end)
MsgsAt(c, i, end, n) ==
  IF n = 0 THEN IF i = end THEN <<>> ELSE <<Bad("size")>>
  ELSE <<Msg(c, i, i + c[i])>> \o MsgsAt(c, i + c[i], end, n - 1)

\* RvMsg::unpack(): a message is as long as it says.
IsMsg(c, n) == n >= Hdr /\ c[5] = Magic /\ c[1] >= Hdr /\ c[1] <= n

\* opaque_extract(): the first field may hold a message of another format.
Named(k, x) == <<95>> \o Fill(k, x) \o <<NUL>>
TibNames == {Named(6, 84), Named(6, 82)}     \* _TIBMSG, _RAIMSG
QformName == Named(5, 81)                    \* _QFORM
DataName == Named(5, 100)                    \* _data_
RwfName == Named(6, 87)                      \* _RWFMSG
TibMagic == 5227
QformMagic == 1111
Holds(name, d) ==
  CASE name \in TibNames \cup {DataName} /\ Len(d) >= 9 /\ d[1] = TibMagic -> "tib"
    [] name \in {QformName, DataName} /\ Len(d) >= 8 /\ d[1] = QformMagic -> "qform"
    [] name = RwfName -> "rwf"
    [] OTHER -> "none"
Slip_Extracted(c, n) ==   \* the bytes of the size are taken for the message
  IF Hdr + 20 > n + 1 \/ c[Hdr + 1] \notin 7..8 THEN "none"
  ELSE LET f == Unpacked(c, Hdr + 1, n + 1)
       IN IF IsBad(f) \/ f.t # "OPAQUE" \/ f.n = 0 THEN "none"
          ELSE Holds(f.name, Cut(c, Hdr + 4 + Len(f.name), f.n))
Extracted(c, n) ==
  IF Hdr + 20 > n + 1 \/ c[Hdr + 1] \notin 7..8 THEN "none"
  ELSE LET f == Unpacked(c, Hdr + 1, n + 1)
       IN IF IsBad(f) \/ f.t # "OPAQUE" \/ f.n = 0 THEN "none"
          ELSE Holds(f.name, Cut(c, f.at, f.n))

-----------------------------------------------------------------------------
(* The writer. *)

Idle == [part |-> "root", name |-> <<>>, from |-> 0, items |-> <<>>]

Init ==
  /\ \E n \in Sizes, at \in Places : s = Started(at, n, 0, Hdr)
  /\ open = <<Idle>>
  /\ doc = <<<<>>>>
  /\ missed = FALSE
  /\ len = 0
  /\ calls = 0

TopOpen == open[Len(open)]
Meant(kind, name, v) ==
  [name |-> NameRead(name),
   t |-> CASE kind \in {"text", "enum"} -> "STRING" [] kind = "stamp" -> "DATETIME"
           [] kind = "decimal" -> "REAL" [] kind = "subject" -> "SUBJECT"
           [] kind = "strings" -> "STRS" [] kind = "xml" -> "XML" [] OTHER -> v.t,
   v |-> CASE kind = "stamp" -> U32(v.d[1]) \o U32(v.d[2])
           [] kind = "xml" -> <<v.ew, v.d>>
           [] kind = "ref" /\ v.t \in Arrays -> Entries(v.d, v.ew)
           [] OTHER -> v.d]

\* An append: into the buffer, or nothing but the error.
Error == /\ s' = Failed(s)
         /\ missed' = TRUE
         /\ UNCHANGED <<open, doc>>
Fails(kind, name, v) == TooBig(name) \/ (kind = "subject" /\ BadSubject(v))

AppendField(kind, name, v) ==
  /\ calls < MaxCalls
  /\ TopOpen.from = 0
  /\ calls' = calls + 1
  /\ len' = 0
  /\ LET c == NameCells(name) \o Cells(kind, v)
     IN \/ Fails(kind, name, v) /\ Error
        \/ ~Fails(kind, name, v) /\ ~CanHave(s, Len(c)) /\ Error
        \/ /\ ~Fails(kind, name, v) /\ CanHave(s, Len(c))
           /\ \E to \in Places :
                /\ Fits(s, Len(c)) => to = s.at
                /\ s' = Appended(WithSpace(s, Len(c), to), 0, c)
           /\ doc' = [doc EXCEPT ![Len(doc)] = Append(@, Meant(kind, name, v))]
           /\ UNCHANGED <<open, missed>>

\* append_msg(): room for the name, the type, the size and the header of the
\* message, whose first four bytes are the size.
MsgRoom(c) == Len(c) + 1 + 5 + 4
Inside(t) ==
  [t EXCEPT !.w = Append(@, Window(Inner(t).buf + Inner(t).off, Inner(t).len - Inner(t).off,
                                   0, Hdr))]
AppendMsg(name) ==
  /\ calls < MaxCalls /\ Len(s.w) < MaxDepth /\ TopOpen.from = 0
  /\ calls' = calls + 1
  /\ len' = 0
  /\ LET c == NameCells(name) \o <<Code["RVMSG"], Long>>
         n == MsgRoom(NameCells(name))
     IN \/ (TooBig(name) \/ ~CanHave(s, n)) /\ Error
        \/ /\ ~TooBig(name) /\ CanHave(s, n)
           /\ \E to \in Places :
                /\ Fits(s, n) => to = s.at
                /\ s' = Inside(Appended(WithSpace(s, n, to), 0, c))
           /\ open' = Append(open, [Idle EXCEPT !.part = "msg", !.name = name])
           /\ doc' = Append(doc, <<>>)
           /\ UNCHANGED missed

\* append_msg_array(): the size and the count are written when it is ended.
AppendMsgArray(name) ==
  /\ calls < MaxCalls /\ Len(s.w) < MaxDepth /\ TopOpen.from = 0
  /\ calls' = calls + 1
  /\ len' = 0
  /\ LET c == NameCells(name) \o <<Code["MSGS"], Long>> \o U32(8) \o U32(0)
     IN \/ (TooBig(name) \/ ~CanHave(s, Len(c))) /\ Error
        \/ /\ ~TooBig(name) /\ CanHave(s, Len(c))
           /\ \E to \in Places :
                /\ Fits(s, Len(c)) => to = s.at
                /\ s' = Appended(WithSpace(s, Len(c), to), 0, c)
           /\ open' = [open EXCEPT ![Len(open)].name = name, ![Len(open)].items = <<>>,
                                   ![Len(open)].from = Inner(s).off + Len(c) - 8]
           /\ UNCHANGED <<doc, missed>>

\* append_msg_elem()
AppendMsgElem ==
  /\ calls < MaxCalls /\ Len(s.w) < MaxDepth /\ TopOpen.from # 0
  /\ calls' = calls + 1
  /\ len' = 0
  /\ \/ ~CanHave(s, Hdr) /\ Error
     \/ /\ CanHave(s, Hdr)
        /\ \E to \in Places : /\ Fits(s, Hdr) => to = s.at
                              /\ s' = Inside(WithSpace(s, Hdr, to))
        /\ open' = Append(open, [Idle EXCEPT !.part = "elem"])
        /\ doc' = Append(doc, <<>>)
        /\ UNCHANGED missed

\* update_hdr() of a writer: the size and the magic.
Updated(t) == Put(t, Inner(t).buf, HdrCells(Inner(t).off))

\* update_hdr( submsg ): both headers, and what is inside counts outside.
Joined(t) == LET n == Len(t.w) IN [t EXCEPT !.w = [Front(@) EXCEPT ![n - 1].off = @ + t.w[n].off]]
UpdateSub ==
  /\ Len(s.w) > 1 /\ TopOpen.from = 0
  /\ s' = Updated(Joined(Updated(s)))
  /\ len' = Inner(s').off
  /\ LET n == Len(doc)
         sub == [name |-> NameRead(TopOpen.name), t |-> "RVMSG", v |-> doc[n]]
     IN IF TopOpen.part = "msg"
        THEN /\ doc' = [Front(doc) EXCEPT ![n - 1] = Append(@, sub)]
             /\ open' = Front(open)
        ELSE /\ doc' = Front(doc)
             /\ open' = [Front(open) EXCEPT ![n - 1].items = Append(@, doc[n])]
  /\ UNCHANGED <<missed, calls>>

\* update_array_hdr(): the size, which counts itself, and the count.
ArrayHead(t, from, n) == Put(t, Inner(t).buf + from, U32(Inner(t).off - from) \o U32(n))
UpdateArray ==
  /\ TopOpen.from # 0
  /\ s' = ArrayHead(s, TopOpen.from, Len(TopOpen.items))
  /\ len' = 0
  /\ doc' = [doc EXCEPT ![Len(doc)] =
               Append(@, [name |-> NameRead(TopOpen.name), t |-> "MSGS", v |-> TopOpen.items])]
  /\ open' = [open EXCEPT ![Len(open)].from = 0]
  /\ UNCHANGED <<missed, calls>>

\* update_hdr() of the outermost; one on no memory gets some first.
Update ==
  /\ Len(s.w) = 1 /\ TopOpen.from = 0 /\ len = 0
  /\ IF s.cells = <<>>
     THEN IF MayGrow(s, Hdr) THEN \E to \in Places : s' = Updated(WithSpace(s, Hdr, to))
                             ELSE UNCHANGED s
     ELSE s' = Updated(s)
  /\ len' = IF s'.cells = <<>> THEN 0 ELSE Inner(s').off
  /\ UNCHANGED <<open, doc, missed, calls>>

Next ==
  \/ \E x \in Calls : AppendField(x[1], x[2], x[3])
  \/ \E nm \in Names : AppendMsg(nm) \/ AppendMsgArray(nm)
  \/ AppendMsgElem \/ UpdateSub \/ UpdateArray \/ Update

Spec == Init /\ [][Next]_vars

-----------------------------------------------------------------------------
(* Properties. *)

\* A message that is ended is read, at every level, as just the fields whose
\* appends did not fail, with the names and values callers gave.
RvEncoded ==
  len > 0 /\ Len(s.w) = 1 /\ TopOpen.from = 0 =>
    /\ IsMsg(s.cells, len)
    /\ Msg(s.cells, 1, len + 1) = doc[1]

\* Writers stay in the memory they have, one inside the other up to its end, and
\* what was not appended is known to the outermost as an error.
RvNested ==
  /\ ~s.lost
  /\ \A k \in DOMAIN s.w : /\ s.w[k].off <= s.w[k].len \/ s.cells = <<>>
                           /\ s.w[k].buf + s.w[k].len = s.at + Len(s.cells)
                           /\ k > 1 => s.w[k].buf = s.w[k - 1].buf + s.w[k - 1].off
  /\ missed <=> s.w[1].err

\* A message that carries one of another format in its first field, and only
\* such a one, is unpacked as what it carries.
RvUnwraps ==
  len > 0 /\ Len(s.w) = 1 /\ TopOpen.from = 0 /\ doc[1] # <<>> =>
    LET f == doc[1][1]
    IN Extracted(s.cells, len) =
         IF f.t # "OPAQUE" \/ f.v = <<>> \/ len < Hdr + 19 THEN "none"
         ELSE Holds(Append(f.name.text, NUL), f.v)
=============================================================================
