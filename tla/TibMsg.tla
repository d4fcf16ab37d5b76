------------------------------- MODULE TibMsg -------------------------------
(***************************************************************************)
(* The TIB message wire format of src/tib_msg.cpp: the writer and the      *)
(* iterator.  A field may carry a hint after its value; with it a real is  *)
(* a decimal, a string a date or a time, an unsigned an enumeration.       *)
(* Slip_X is operator X with a slip in it; no operator uses the slips.     *)
(***************************************************************************)
EXTENDS Buffers, SequencesExt

CONSTANTS ByteMax,   \* of a size in one byte, 255
          NameMax,   \* of the bytes of a name, 255
          Updates,   \* <<type, value>> that fields are updated to
          Sizes, Calls, Names, MaxCalls, MaxDepth   \* as in RvMsg

TibAssumption == ByteMax \in Nat /\ ByteMax >= 8

VARIABLES s, names, doc, len, calls

vars == <<s, names, doc, len, calls>>

Type == [MESSAGE |-> 1, STRING |-> 2, OPAQUE |-> 3, BOOLEAN |-> 4, INT |-> 5, UINT |-> 6,
         REAL |-> 7, ARRAY |-> 8, PARTIAL |-> 9, IPDATA |-> 10]
Hinted == 64
Wide == 128
RootHdr == 9
SubHdr == 4
Magic == 5227

\* Hints, two bytes of them where above 255.
HINT_NONE == 0
HINT_DENOM_2 == 1
HINT_DENOM_256 == 8
HINT_PRECISION_1 == 17
HINT_BLANK == 127
HINT_DATES == {256, 258}
HINT_TIMES == {257, 259, 260}
HINT_MF_DATE == 258
HINT_MF_TIME == 259
HINT_MF_TIME_SECONDS == 260
HINT_MF_ENUM == 261

-----------------------------------------------------------------------------
(* Decimals.  A decimal is <<bytes of the real, hint>>, its hint one of the *)
(* MD_DEC ones: NULL, INTEGER, fractions and powers of ten.                 *)

DEC_NULL == 0
DEC_INTEGER == 1
FRAC_2 == 2
FRAC_512 == 10
LOGn10_1 == -11

TibHint(h) ==
  CASE h = DEC_NULL -> HINT_BLANK
    [] h <= LOGn10_1 -> LOGn10_1 - h + HINT_PRECISION_1
    [] h \in FRAC_2..FRAC_512 -> h - FRAC_2 + HINT_DENOM_2
    [] OTHER -> HINT_NONE

\* Is a real with this hint a decimal, and which: set_decimal().  Without a
\* hint it is found from the number, which here is an integer.
IsDecimal(h) == h <= HINT_DENOM_256 \/ h \in 16..31 \/ h = HINT_BLANK
DecHint(h) ==
  CASE h = HINT_BLANK -> DEC_NULL
    [] h \in HINT_DENOM_2..HINT_DENOM_256 -> h - HINT_DENOM_2 + FRAC_2
    [] h >= HINT_PRECISION_1 -> -10 - (h - 16)
    [] OTHER -> DEC_INTEGER

-----------------------------------------------------------------------------
(* Encoding. *)

NameCells(nm) ==
  LET z == IF nm = <<>> \/ Last(nm) = NUL THEN nm ELSE Append(nm, NUL) IN <<Len(z)>> \o z
TooBig(nm) == Len(NameCells(nm)) > NameMax + 1

\* A type with the size of what follows.
Typed(t, flag, n) == IF n <= ByteMax THEN <<t + flag>> \o U8(n) ELSE <<t + flag + Wide>> \o U32(n)

\* A value is [t, d, le, h]: type, bytes with the highest first, whether memory
\* has them the other way round, and a hint <<type, bytes>> or <<>>.
Endian == {"BOOLEAN", "INT", "UINT", "REAL", "ENUM", "STAMP"}
InMemory(v) == IF v.le THEN Rev(v.d) ELSE v.d
BigEnd(v, d) == IF v.le /\ v.t \in Endian THEN Rev(d) ELSE d
Ended(v) == IF v.t = "STRING" /\ (v.d = <<>> \/ Last(v.d) # NUL) THEN Append(v.d, NUL)
            ELSE BigEnd(v, InMemory(v))
TypeOf(v) == IF v.t \in DOMAIN Type THEN Type[v.t]
             ELSE IF v.t \in {"ENUM", "STAMP"} THEN Type["UINT"] ELSE Type["OPAQUE"]
RefCells(v) ==
  Typed(TypeOf(v), IF v.h # <<>> \/ v.t \in {"PARTIAL", "ENUM"} THEN Hinted ELSE 0, Len(Ended(v)))
  \o Ended(v)
\* What is written after it, with its own check for room.  A partial has where
\* it starts, in v.h.
Byte2(h) == <<h \div 256, h % 256>>
HintCells(v) ==
  CASE v.t = "PARTIAL" -> <<Type["UINT"], v.h[2][1]>>
    [] v.t = "ENUM" -> <<Type["UINT"], 2>> \o Byte2(HINT_MF_ENUM)
    [] v.h # <<>> -> <<Type[v.h[1]], Len(v.h[2])>> \o v.h[2]
    [] OTHER -> <<>>

DecimalCells(v) == <<Type["REAL"] + Hinted, 8>> \o v.d \o <<Type["UINT"], 1, TibHint(v.h)>>
TextCells(d, hint) == <<Type["STRING"] + Hinted, Len(d) + 1>> \o d \o <<NUL>>
                      \o <<Type["UINT"], 2>> \o Byte2(hint)
\* A time shows seconds or stops at minutes.
TimeCells(v) == TextCells(v.d, IF v.h = "minutes" THEN HINT_MF_TIME ELSE HINT_MF_TIME_SECONDS)
DateCells(v) == TextCells(v.d, HINT_MF_DATE)
EnumCells(v) == TextCells(v.d, HINT_MF_ENUM)

Cells(kind, v) ==
  CASE kind = "ref" -> RefCells(v)
    [] kind = "decimal" -> DecimalCells(v)
    [] kind = "time" -> TimeCells(v)
    [] kind = "date" -> DateCells(v)
    [] OTHER -> EnumCells(v)

-----------------------------------------------------------------------------
(* Decoding. *)

Bad(why) == [bad |-> why]
IsBad(r) == "bad" \in DOMAIN r

\* A type and a size at i; the bytes are at `at`.
Sized(c, i, end) ==
  IF i + 1 >= end THEN Bad("bounds")
  ELSE IF c[i] < Wide THEN [t |-> c[i], n |-> c[i + 1], at |-> i + 2]
  ELSE IF i + 5 >= end THEN Bad("bounds")
  ELSE [t |-> c[i] - Wide, n |-> c[i + 1], at |-> i + 5]

\* TibFieldIter::unpack(), of the field at i.
HintTypes == {Type[t] : t \in {"STRING", "OPAQUE", "IPDATA", "INT", "UINT", "REAL", "BOOLEAN"}}
Own == {Type["PARTIAL"], Type["ARRAY"]}     \* the hint is about the value
Field(nm, f, ht, hn, next, end) ==
  IF next > end THEN Bad("bounds")
  ELSE [name |-> nm, t |-> f.t % Hinted, at |-> f.at, n |-> f.n, ht |-> ht, hn |-> hn, next |-> next]
WithHint(c, nm, f, end) ==
  LET h == Sized(c, f.at + f.n, end)
  IN IF IsBad(h) THEN h
     ELSE IF h.t \notin HintTypes THEN Bad("type")
     ELSE Field(nm, f, h.t, h.n, h.at + IF f.t % Hinted \in Own THEN 0 ELSE h.n, end)
Unpacked(c, i, end) ==
  LET nm == Cut(c, i + 1, c[i])
      f == Sized(c, i + 1 + c[i], end)
  IN IF IsBad(f) THEN f
     ELSE IF f.t % Hinted \in Own \/ (f.t % Hinted \in HintTypes /\ f.t >= Hinted)
          THEN WithHint(c, nm, f, end)
     ELSE IF f.t % Hinted \in HintTypes \cup {Type["MESSAGE"]}
          THEN Field(nm, f, 0, 0, f.at + f.n, end)
     ELSE Bad("type")

\* get_hint_reference() as a number of one or two bytes.
Hint(c, f) ==
  IF f.hn = 1 THEN c[f.next - 1]
  ELSE IF f.hn = 2 THEN c[f.next - 2] * 256 + c[f.next - 1] ELSE HINT_NONE
Shown(c, f) ==
  LET t == CHOOSE x \in DOMAIN Type : Type[x] = f.t
  IN IF f.hn = 0 \/ f.t \in Own THEN t
     ELSE CASE t = "REAL" /\ IsDecimal(Hint(c, f)) -> "DECIMAL"
            [] t = "STRING" /\ Hint(c, f) \in HINT_DATES -> "DATE"
            [] t = "STRING" /\ Hint(c, f) \in HINT_TIMES -> "TIME"
            [] t \in {"INT", "UINT"} /\ Hint(c, f) = HINT_MF_ENUM -> "ENUM"
            [] OTHER -> t

\* first(), next() and the references of the fields from i to the end.
RECURSIVE FieldsAt(_, _, _)
Value(c, f, t) ==
  LET d == Cut(c, f.at, f.n)
  IN CASE t = "MESSAGE" -> FieldsAt(c, f.at, f.next)
       [] t = "DECIMAL" -> <<IF Hint(c, f) = HINT_BLANK THEN <<>> ELSE d, DecHint(Hint(c, f))>>
       [] t \in {"STRING", "DATE", "TIME"} -> IF d # <<>> /\ Last(d) = NUL THEN Front(d) ELSE d
       [] t = "PARTIAL" -> <<d, f.hn>>
       [] OTHER -> d
FieldsAt(c, i, end) ==
  IF i >= end THEN <<>>
  ELSE LET f == Unpacked(c, i, end)
       IN IF IsBad(f) THEN <<f>>
          ELSE <<[name |-> IF f.name = <<>> \/ Last(f.name) # NUL THEN f.name ELSE Front(f.name),
                  t |-> Shown(c, f), v |-> Value(c, f, Shown(c, f))]>>
               \o FieldsAt(c, f.next, end)

\* TibMsg::unpack(): a message of n bytes.
IsMsg(c, n) == n >= RootHdr /\ c[1] = Magic /\ c[6] + RootHdr <= n
Msg(c, n) == FieldsAt(c, RootHdr + 1, RootHdr + c[6] + 1)

-----------------------------------------------------------------------------
(* The writer. *)

Init ==
  /\ \E n \in Sizes, at \in Places : s = Started(at, n, RootHdr, 0)
  /\ names = <<<<>>>>
  /\ doc = <<<<>>>>
  /\ len = 0
  /\ calls = 0

Trim(nm) == IF nm # <<>> /\ Last(nm) = NUL THEN Front(nm) ELSE nm
Meant(kind, nm, v) ==
  [name |-> Trim(nm),
   t |-> CASE kind = "decimal" -> IF v.h = FRAC_512 THEN "REAL" ELSE "DECIMAL"
           [] kind = "time" -> "TIME" [] kind = "date" -> "DATE" [] kind = "enum" -> "STRING"
           [] v.t = "STAMP" -> "UINT"
           [] v.t \notin DOMAIN Type \cup {"ENUM"} -> "OPAQUE"
           [] OTHER -> v.t,
   v |-> CASE kind = "decimal" -> IF v.h = FRAC_512 THEN v.d
                                  ELSE <<IF v.h = DEC_NULL THEN <<>> ELSE v.d, v.h>>
           [] kind = "ref" /\ v.t = "PARTIAL" -> <<v.d, v.h[2][1]>>
           [] v.t = "STRING" -> Trim(v.d)
           [] OTHER -> v.d]

Here(t, c, to) == Appended(WithSpace(t, Len(c), to), Inner(t).hdr, c)
PlaceFor(t, n, to) == Fits(t, n) => to = t.at

\* The value and, when there is room for it, the hint after it; the value
\* stays when there is not.
Hinting(t, h, to) == IF h = <<>> THEN t ELSE IF CanHave(t, Len(h)) THEN Here(t, h, to) ELSE Failed(t)
AppendField(kind, nm, v) ==
  /\ calls < MaxCalls
  /\ calls' = calls + 1
  /\ len' = 0
  /\ names' = names
  /\ LET c == NameCells(nm) \o Cells(kind, v)
         h == IF kind = "ref" THEN HintCells(v) ELSE <<>>
     IN \/ /\ TooBig(nm) \/ ~CanHave(s, Len(c))
           /\ s' = Failed(s) /\ doc' = doc
        \/ /\ ~TooBig(nm) /\ CanHave(s, Len(c))
           /\ \E to \in Places, then \in Places :
                /\ PlaceFor(s, Len(c), to) /\ PlaceFor(Here(s, c, to), Len(h), then)
                /\ s' = Hinting(Here(s, c, to), h, then)
           /\ doc' = [doc EXCEPT ![Len(doc)] = Append(@, Meant(kind, nm, v))]

\* append_msg(): the size of what is inside is the header of its writer.
Inside(t) ==
  LET at == Inner(t).hdr + Inner(t).off
  IN [t EXCEPT !.w = Append(@, Window(Inner(t).buf + at, Inner(t).len - at, SubHdr, 0))]
AppendMsg(nm) ==
  /\ calls < MaxCalls /\ Len(s.w) < MaxDepth
  /\ calls' = calls + 1
  /\ len' = 0
  /\ LET c == NameCells(nm) \o <<Wide + Type["MESSAGE"]>>
         n == Len(c) + SubHdr
     IN \/ /\ TooBig(nm) \/ ~CanHave(s, n)
           /\ s' = Failed(s) /\ UNCHANGED <<names, doc>>
        \/ /\ ~TooBig(nm) /\ CanHave(s, n)
           /\ \E to \in Places :
                /\ PlaceFor(s, n, to)
                /\ s' = Inside(Appended(WithSpace(s, n, to), Inner(s).hdr, c))
           /\ names' = Append(names, nm)
           /\ doc' = Append(doc, <<>>)

\* update_hdr() of a writer, and of one with the one around it.
Updated(t) ==
  Put(t, Inner(t).buf, IF Inner(t).hdr = RootHdr THEN U32(Magic) \o U8(1) \o U32(Inner(t).off)
                       ELSE U32(Inner(t).off))
Slip_Joined(t) ==
  LET n == Len(t.w) IN [t EXCEPT !.w = [Front(@) EXCEPT ![n - 1].off = @ + t.w[n].off]]
Joined(t) ==
  LET n == Len(t.w)
  IN [t EXCEPT !.w = [Front(@) EXCEPT ![n - 1].off = @ + t.w[n].off + t.w[n].hdr]]
UpdateSub ==
  /\ Len(s.w) > 1
  /\ s' = Updated(Joined(Updated(s)))
  /\ len' = Used(Inner(s'))
  /\ doc' = [Front(doc) EXCEPT ![Len(doc) - 1] =
               Append(@, [name |-> Trim(Last(names)), t |-> "MESSAGE", v |-> Last(doc)])]
  /\ names' = Front(names)
  /\ UNCHANGED calls
Update ==
  /\ Len(s.w) = 1 /\ len = 0
  /\ IF s.cells = <<>>
     THEN IF MayGrow(s, 0) THEN \E to \in Places : s' = Updated(WithSpace(s, 0, to))
                           ELSE UNCHANGED s
     ELSE s' = Updated(s)
  /\ len' = IF s'.cells = <<>> THEN 0 ELSE Used(Inner(s'))
  /\ UNCHANGED <<names, doc, calls>>

-----------------------------------------------------------------------------
(* TibFieldIter::update(): a field of a message that is done is overwritten  *)
(* by a value that takes as much room.                                       *)

\* Is a message without fields the last thing in one?
RECURSIVE EndsEmpty(_)
EndsEmpty(d) == d # <<>> /\ Last(d).t = "MESSAGE" /\ (Last(d).v = <<>> \/ EndsEmpty(Last(d).v))
RECURSIVE AnyEndsEmpty(_)
AnyEndsEmpty(d) == EndsEmpty(d) \/ \E k \in DOMAIN d : d[k].t = "MESSAGE" /\ AnyEndsEmpty(d[k].v)

RECURSIVE Nth(_, _, _, _)
Nth(c, i, end, k) ==
  LET f == Unpacked(c, i, end) IN IF k = 1 THEN f ELSE Nth(c, f.next, end, k - 1)

\* Text is cut, or filled with NULs, to what is there.
Fitted(d, n) == [k \in 1..n |-> IF k <= Len(d) THEN d[k] ELSE NUL]
CanUpdate(c, f, t, d) ==
  /\ Shown(c, f) = t
  /\ CASE t = "DECIMAL" -> f.n = 8 /\ f.hn = 1
       [] t \in {"DATE", "TIME"} -> f.hn = 2
       [] t = "ENUM" -> f.hn = 2 /\ Len(d) = f.n
       [] OTHER -> f.hn = 0 /\ Len(d) = f.n

\* The hint of a decimal is written over its third byte.
Overwritten(t, at, f, ty, d) ==
  CASE ty = "DECIMAL" -> Put(Put(t, at, d[1]), at + 2, U8(TibHint(d[2])))
    [] ty \in {"DATE", "TIME"} -> Put(t, at, Fitted(d, f.n))
    [] OTHER -> Put(t, at, d)

UpdateField(k, ty, d) ==
  /\ len > 0 /\ Len(s.w) = 1 /\ k \in DOMAIN doc[1] /\ ~s.w[1].err
  /\ ~AnyEndsEmpty(doc[1])
  /\ LET f == Nth(s.cells, RootHdr + 1, len + 1, k)
     IN /\ CanUpdate(s.cells, f, ty, d)
        /\ s' = Overwritten(s, s.at + f.at - 1, f, ty, d)
  /\ doc' = [doc EXCEPT ![1][k].v = d]
  /\ UNCHANGED <<names, len, calls>>

Next == \/ \E x \in Calls : AppendField(x[1], x[2], x[3])
        \/ \E k \in 1..MaxCalls, u \in Updates : UpdateField(k, u[1], u[2])
        \/ \E nm \in Names : AppendMsg(nm)
        \/ UpdateSub \/ Update

Spec == Init /\ [][Next]_vars

-----------------------------------------------------------------------------
(* Properties. *)

\* A message whose writer met no error is read as what callers appended.  One
\* that is empty and last is beyond the reader, which wants a byte after the
\* size of a field.
TibEncoded ==
  len > 0 /\ Len(s.w) = 1 /\ ~s.w[1].err /\ ~AnyEndsEmpty(doc[1]) =>
    /\ IsMsg(s.cells, len) /\ ~s.lost
    /\ Msg(s.cells, len) = doc[1]
=============================================================================
