------------------------------ MODULE TibSass -----------------------------
(***************************************************************************)
(* The TIB SASS (qform) wire format of src/tib_sass_msg.cpp: the writer,   *)
(* with and without the record of a form, and the iterator.  A message has *)
(* no types and no names: fields are a fid and what the dictionary says    *)
(* they are, so writer and reader agree only through its sizes.            *)
(* Slip_X is operator X with a slip in it; no operator uses the slips.     *)
(***************************************************************************)
EXTENDS Buffers, SequencesExt, FiniteSetsExt

CONSTANTS Dictionary, \* the fields: [fid, name, t, n, fixed] with a size n
          Form,       \* the fids of the form of the writer, <<>> without one
          VarMax,     \* sizes above it take four bytes, 0xffff
          Updates,    \* <<type, value>> that fields are updated to
          Sizes, Calls, MaxCalls  \* as in RvMsg, by name or by fid

SassAssumption ==
  /\ VarMax \in Nat
  /\ \A f, g \in Dictionary : f.fid = g.fid \/ f.name = g.name => f = g
  /\ \A f \in Dictionary : f.fixed \/ f.t \in {"STRING", "OPAQUE"}
  /\ \A k \in DOMAIN Form : \E f \in Dictionary : f.fid = Form[k] /\ f.fixed

VARIABLES s, doc, useform, unkfid, len, calls

vars == <<s, doc, useform, unkfid, len, calls>>

Hdr == 8
Magic == 1112

-----------------------------------------------------------------------------
(* The dictionary and the form. *)

Has(fid) == \E f \in Dictionary : f.fid = fid
Entry(fid) == CHOOSE f \in Dictionary : f.fid = fid
HasForm == Form # <<>>

\* lookup() by fid and get() by name: with a form, only of its fields.
Is(f, by) == by \in {[fid |-> f.fid], [name |-> f.name]}
Known(by) == \E f \in Dictionary : Is(f, by) /\ (HasForm => f.fid \in ToSet(Form))
Found(by) == CHOOSE f \in Dictionary : Is(f, by)

\* A field is a fid and the value, on two bytes.
Pack(n) == 2 * (1 + (n + 1) \div 2)
VarPack(n, most) == IF most <= VarMax THEN Pack(n + 2) ELSE Pack(n + 4)
Room(f) == IF f.t = "PARTIAL" THEN Pack(f.n + 4) ELSE Pack(f.n)

\* make_form_class(): where each field of the form is, and the size of all.
Offset(k) == FoldLeft(LAMBDA n, fid : n + Room(Entry(fid)), 0, SubSeq(Form, 1, k - 1))
FormSize == Offset(Len(Form) + 1)
Place(f) == Offset(CHOOSE k \in DOMAIN Form : Form[k] = f.fid)

-----------------------------------------------------------------------------
(* Values.  A value is [t, d, le, h]: type, bytes with the highest first,     *)
(* whether memory has them the other way round, and the hint of a decimal,    *)
(* where a partial starts, or the text of an enumeration.                    *)

DEC_NULL == 0
DEC_INTEGER == 1
FRAC_2 == 2
FRAC_512 == 10
LOGn10_1 == -11
HINT_NONE == 0
HINT_DENOM_2 == 1
HINT_PRECISION_1 == 17
HINT_BLANK == 127

SassHint(h) ==
  CASE h = DEC_NULL -> HINT_BLANK
    [] h <= LOGn10_1 -> LOGn10_1 - h + HINT_PRECISION_1
    [] h \in FRAC_2..FRAC_512 -> h - FRAC_2 + HINT_DENOM_2
    [] OTHER -> HINT_NONE
\* Other hints leave it to the number, which here is an integer.
DecHint(h) ==
  CASE h = HINT_BLANK -> DEC_NULL
    [] h \in HINT_DENOM_2..8 -> h - HINT_DENOM_2 + FRAC_2
    [] h \in 16..31 -> -10 - (h - 16)
    [] OTHER -> DEC_INTEGER

\* A real of eight bytes as one of four: bytes of its own.
Float4(d) == [k \in 1..4 |-> d[k] + 100]
Real(d, n) == IF n < 8 THEN Float4(d) ELSE d

Numbers == {"UINT", "INT"}
Endian == Numbers \cup {"REAL", "BOOLEAN"}
InMemory(v) == IF v.le THEN Rev(v.d) ELSE v.d

Resized(d, t, n) ==
  IF Len(d) >= n THEN SubSeq(d, Len(d) - n + 1, Len(d))
  ELSE Fill(n - Len(d), IF t = "INT" /\ d[1] >= 128 THEN 255 ELSE 0) \o d
Fitted(d, n) == [k \in 1..n |-> IF k <= Len(d) THEN d[k] ELSE NUL]

\* The text of a time stops at the minutes or the seconds of a small field.
Minutes == 5
Seconds == 8
TimeText(d, n) ==
  LET m == IF n <= Minutes + 1 THEN Minutes ELSE IF n <= Seconds + 2 THEN Seconds ELSE Len(d)
  IN SubSeq(d, 1, Min({m, Len(d)}))

\* Is there a conversion, and what the field gets of the value by it: bytes in
\* the order they have in a message, not yet cut or filled to its size.
Bytes == {"OPAQUE", "STRING"}
Same(f, v) == f.t = v.t /\ f.t \notin {"TIME", "DATE"} /\ Len(v.d) = f.n
Converts(f, v) ==
  \/ Same(f, v)
  \/ f.t = "PARTIAL" /\ v.t \in Bytes \cup {"PARTIAL"}
  \/ f.t \in {"DECIMAL", "TIME", "DATE"} /\ v.t = f.t
  \/ f.t \in Numbers \cup {"BOOLEAN"} /\ v.t \in Numbers
  \/ f.t = "REAL" /\ v.t = "REAL" /\ Len(v.d) = 8 /\ f.n > 8
  \/ f.t \in Bytes /\ v.t \in Bytes \cup {"PARTIAL"}
  \/ f.t \in Numbers \cup {"STRING"} /\ v.t = "ENUM"
Content(f, v) ==
  CASE Same(f, v) -> IF v.le /\ f.t \in Endian THEN Rev(InMemory(v)) ELSE InMemory(v)
    [] v.t \in Numbers -> Resized(v.d, v.t, f.n)
    [] v.t = "TIME" -> TimeText(v.d, f.n)
    [] v.t = "ENUM" -> IF f.t = "STRING" THEN v.h ELSE Resized(InMemory(v), "UINT", f.n)
    [] OTHER -> v.d
Kept(f, v) == LET d == Content(f, v) IN SubSeq(d, 1, Min({Len(d), f.n}))

-----------------------------------------------------------------------------
(* Encoding. *)

VarSize(f, n) == IF f.n < VarMax THEN U16(n) ELSE U32(n)
\* A decimal of a field of exactly eight bytes gets the low four of its real.
Cut8(d, n) == IF n = 8 THEN SubSeq(d, 5, 8) ELSE Real(d, n)
DecimalCells(f, v) == Cut8(v.d, f.n) \o <<SassHint(v.h), NUL>>
PartialCells(v) == U16(v.h) \o U16(Len(v.d)) \o v.d \o Fill(Len(v.d) % 2, NUL)

\* In the place a form has for it, a partial begins at its first byte: the
\* bytes before its own are spaces.
Blank == 32
FormPartial(f, v) ==
  U16(0) \o U16(f.n)
  \o [k \in 1..f.n |-> IF k <= v.h THEN Blank
                       ELSE IF k - v.h <= Len(v.d) THEN v.d[k - v.h] ELSE NUL]

\* After an odd number of bytes a byte is left as it is, and the one after the
\* field made zero.
Padding(n) == IF n % 2 = 1 THEN <<Junk, NUL>> ELSE <<>>

\* append_ref(), with what it writes after the fid.
Cells(f, v) ==
  U16(f.fid) \o
    CASE f.t = "PARTIAL" -> IF useform THEN FormPartial(f, v) ELSE PartialCells(v)
      [] f.t = "DECIMAL" -> DecimalCells(f, v)
      [] f.fixed -> Fitted(Kept(f, v), f.n)
      [] OTHER -> VarSize(f, Len(Kept(f, v))) \o Kept(f, v) \o Padding(Len(Kept(f, v)))
Taken(f, v) ==
  CASE f.t = "PARTIAL" -> Pack(Len(v.d) + 4)
    [] f.fixed -> Pack(f.n)
    [] OTHER -> VarPack(Len(Kept(f, v)), f.n)

\* append_form_record(): what is not yet written of the form, all zeros, but
\* for the fids and the sizes of partials.
FormField(f) ==
  IF f.t = "PARTIAL" THEN U16(f.fid) \o U16(0) \o U16(f.n) \o Fill(Room(f) - 6, 0)
  ELSE U16(f.fid) \o Fill(Room(f) - 2, 0)
FormCells(from) ==
  FlattenSeq([k \in 1..Len(Form) |-> IF Offset(k) >= from THEN FormField(Entry(Form[k])) ELSE <<>>])

-----------------------------------------------------------------------------
(* Decoding. *)

Bad(why) == [bad |-> why]
IsBad(r) == "bad" \in DOMAIN r

\* TibSassFieldIter::unpack(), of the field at i.
Sized(c, i, f, end) ==
  CASE f.t = "PARTIAL" ->
         IF i + 6 > end THEN Bad("bounds")
         ELSE [at |-> i + 6, n |-> c[i + 4], next |-> i + Pack(c[i + 4] + 4)]
    [] f.fixed -> [at |-> i + 2, n |-> f.n, next |-> i + Pack(f.n)]
    [] f.n <= VarMax -> [at |-> i + 4, n |-> c[i + 2], next |-> i + Pack(c[i + 2] + 2)]
    [] OTHER -> [at |-> i + 6, n |-> c[i + 2], next |-> i + Pack(c[i + 2] + 4)]
Unpacked(c, i, end) ==
  IF i + 2 > end THEN Bad("bounds")
  ELSE IF ~Has(c[i]) THEN Bad(IF c[i] = 0 THEN "null" ELSE "unknown")
  ELSE LET x == Sized(c, i, Entry(c[i]), end)
       IN IF IsBad(x) \/ x.next > end THEN Bad("bounds")
          ELSE [f |-> Entry(c[i]), i |-> i, at |-> x.at, n |-> x.n, next |-> x.next]

\* get_name() and get_reference().  Zeros after a text are not part of it.
Trim(d) == SubSeq(d, 1, Max({0} \cup {k \in DOMAIN d : d[k] # NUL}))
Value(c, x) ==
  LET d == Cut(c, x.at, x.n)
      w == IF x.n >= 8 THEN 8 ELSE 4
  IN CASE x.f.t = "DECIMAL" ->
            <<IF d[w + 1] = HINT_BLANK THEN <<>> ELSE SubSeq(d, 1, w), DecHint(d[w + 1])>>
       [] x.f.t = "PARTIAL" -> <<d, c[x.i + 2] % 256>>
       [] x.f.t \in {"TIME", "DATE"} -> Trim(d)
       [] OTHER -> d

\* first() and next(), to the end or two bytes of no field before it.
RECURSIVE FieldsAt(_, _, _)
FieldsAt(c, i, end) ==
  IF i >= end THEN <<>>
  ELSE LET x == Unpacked(c, i, end)
       IN IF IsBad(x) THEN IF x.bad = "null" /\ i + 2 = end THEN <<>> ELSE <<x>>
          ELSE <<[name |-> x.f.name, t |-> x.f.t, v |-> Value(c, x)]>> \o FieldsAt(c, x.next, end)

\* TibSassMsg::unpack(): a message of n bytes.
IsMsg(c, n) == n >= Hdr /\ c[1] = Magic /\ c[5] + Hdr <= n
Msg(c, n) == FieldsAt(c, Hdr + 1, Hdr + c[5] + 1)

-----------------------------------------------------------------------------
(* The writer. *)

Init ==
  /\ \E n \in Sizes, at \in Places : s = Started(at, n, Hdr, 0)
  /\ doc = <<>>
  /\ useform = FALSE
  /\ unkfid = 0
  /\ len = 0
  /\ calls = 0

MeantValue(f, v) ==
  CASE f.t = "DECIMAL" -> <<IF v.h = DEC_NULL THEN <<>> ELSE Real(v.d, f.n), v.h>>
    [] f.t = "PARTIAL" ->
         IF useform THEN <<SubSeq(Fill(v.h, Blank) \o v.d \o Fill(f.n, NUL), 1, f.n), 0>>
         ELSE <<v.d, v.h>>
    [] f.t = "INT" \/ f.t = "UINT" ->
         [k \in 1..f.n |-> LET j == Len(v.d) - f.n + k
                           IN IF j >= 1 THEN v.d[j]
                              ELSE IF v.t = "INT" /\ v.d[1] >= 128 THEN 255 ELSE 0]
    [] f.t = "TIME" -> TimeText(v.d, f.n)
    [] f.t = "DATE" -> v.d
    [] f.fixed -> Fitted(IF v.t = "ENUM" THEN v.h ELSE v.d, f.n)
    [] OTHER -> SubSeq(v.d, 1, Min({Len(v.d), f.n}))
Meant(f, v) == [name |-> f.name, t |-> f.t, v |-> MeantValue(f, v)]

PlaceFor(t, n, to) == Fits(t, n) => to = t.at
Ptr(t) == Inner(t).buf + Inner(t).off + Hdr
Advanced(t, n) == [t EXCEPT !.w[1].off = @ + n]

\* append_ref(): a variable field is written where there was room for one of
\* the size of the dictionary, also when the room for it is then elsewhere.
FirstRoom(f, v) == IF f.t = "PARTIAL" THEN Taken(f, v) ELSE Pack(f.n)
Written(f, v, first, then) ==
  LET t == WithSpace(s, FirstRoom(f, v), first)
      u == WithSpace(t, Taken(f, v), then)
  IN Advanced(Put(u, Ptr(t), Cells(f, v)), Taken(f, v))
Placed(f, v) == Put(s, Inner(s).buf + Hdr + Place(f), Cells(f, v))

Rejected(f, v) ==
  \/ ~useform /\ f.t # "PARTIAL" /\ ~CanHave(s, FirstRoom(f, v))
  \/ ~Converts(f, v)
  \/ ~useform /\ ~CanHave(s, Taken(f, v))
Unknown(by) ==
  /\ ~Known(by)
  /\ unkfid' = unkfid + 1
  /\ UNCHANGED <<s, doc>>
Appending(f, v) ==
  /\ UNCHANGED unkfid
  /\ IF Rejected(f, v) THEN s' = Failed(s) /\ doc' = doc
     ELSE IF useform
     THEN /\ s' = Placed(f, v)
          /\ doc' = [k \in DOMAIN doc |-> IF doc[k].name = f.name THEN Meant(f, v) ELSE doc[k]]
     ELSE /\ \E first \in Places, then \in Places :
               /\ PlaceFor(s, FirstRoom(f, v), first)
               /\ PlaceFor(WithSpace(s, FirstRoom(f, v), first), Taken(f, v), then)
               /\ s' = Written(f, v, first, then)
          /\ doc' = Append(doc, Meant(f, v))
AppendRef(by, v) ==
  /\ calls < MaxCalls
  /\ calls' = calls + 1
  /\ len' = 0
  /\ UNCHANGED useform
  /\ Unknown(by) \/ (Known(by) /\ Appending(Found(by), v))

\* append_form_record(), once what is there is the start of the form, which is
\* how append_sass_hdr() leaves it.
IsFormStart == /\ Len(doc) <= Len(Form)
               /\ \A k \in DOMAIN doc : doc[k].name = Entry(Form[k]).name
               /\ Inner(s).off = Offset(Len(doc) + 1)
Zero(f) == CASE f.t = "DECIMAL" -> <<Fill(IF f.n >= 8 THEN 8 ELSE 4, 0), DEC_INTEGER>>
             [] f.t = "PARTIAL" -> <<Fill(f.n, 0), 0>>
             [] f.t \in {"TIME", "DATE"} -> <<>>
             [] OTHER -> Fill(f.n, 0)
FormRest == FormSize - Inner(s).off
AppendForm ==
  /\ ~useform /\ (HasForm => IsFormStart) /\ calls < MaxCalls
  /\ len' = 0
  /\ UNCHANGED <<unkfid, calls>>
  /\ IF ~HasForm \/ (FormRest > 0 /\ ~CanHave(s, FormRest))
     THEN s' = Failed(s) /\ UNCHANGED <<doc, useform>>
     ELSE /\ \E to \in Places :
               /\ PlaceFor(s, FormRest, to)
               /\ s' = LET t == WithSpace(s, FormRest, to)
                       IN Advanced(Put(t, Ptr(t), FormCells(Inner(t).off)), FormRest)
          /\ useform' = TRUE
          /\ doc' = [k \in DOMAIN Form |->
                       IF k <= Len(doc) THEN doc[k]
                       ELSE LET f == Entry(Form[k]) IN [name |-> f.name, t |-> f.t, v |-> Zero(f)]]

\* append_iter(): a field of another message, as it is there.
AppendIter(f, v) ==
  /\ calls < MaxCalls /\ ~useform
  /\ calls' = calls + 1
  /\ len' = 0
  /\ UNCHANGED <<useform, unkfid>>
  /\ IF CanHave(s, Taken(f, v))
     THEN /\ \E to \in Places :
               /\ PlaceFor(s, Taken(f, v), to)
               /\ s' = LET t == WithSpace(s, Taken(f, v), to)
                       IN Advanced(Put(t, Ptr(t), Cells(f, v)), Taken(f, v))
          /\ doc' = Append(doc, Meant(f, v))
     ELSE s' = Failed(s) /\ doc' = doc

\* update_hdr(); one on no memory gets some first.
Headed(t) == Put(t, Inner(t).buf, U32(Magic) \o U32(Inner(t).off))
Update ==
  /\ len = 0
  /\ IF s.cells = <<>>
     THEN IF MayGrow(s, 0) THEN \E to \in Places : s' = Headed(WithSpace(s, 0, to))
                           ELSE UNCHANGED s
     ELSE s' = Headed(s)
  /\ len' = IF s'.cells = <<>> THEN 0 ELSE Used(Inner(s'))
  /\ UNCHANGED <<doc, useform, unkfid, calls>>

-----------------------------------------------------------------------------
(* TibSassFieldIter::update(): a field of a message that is done is          *)
(* overwritten by a value that takes as much room.                           *)

RECURSIVE Nth(_, _, _, _)
Nth(c, i, end, k) ==
  LET x == Unpacked(c, i, end) IN IF k = 1 THEN x ELSE Nth(c, x.next, end, k - 1)

CanUpdate(x, v) ==
  /\ v.t = x.f.t
  /\ CASE ~x.f.fixed -> Len(v.d) = x.n
       [] v.t \in {"DECIMAL", "TIME", "DATE"} -> TRUE
       [] OTHER -> Len(v.d) = x.f.n /\ ~v.le

\* The text of a date is parsed for its layout into the date to be written, which
\* becomes that of the text, or none.
DateTexts == {v.d : v \in {x \in Updates \cup {y[2] : y \in Calls} : x.t = "DATE"}}
NoDate == Fill(11, Blank)
DateWritten(old) == IF old \in DateTexts THEN old ELSE NoDate

Start(x) == IF x.f.t = "PARTIAL" /\ x.f.fixed THEN x.i + 2 ELSE x.at
Overwriting(c, x, v) ==
  CASE x.f.t = "DECIMAL" -> Real(v.d, x.n) \o <<SassHint(v.h)>>
    [] x.f.t = "TIME" -> Fitted(TimeText(v.d, x.n), x.n)
    [] x.f.t = "DATE" -> Fitted(DateWritten(Trim(Cut(c, x.at, x.n))), x.n)
    [] OTHER -> v.d
UpdateField(k, v) ==
  /\ len > 0 /\ k \in DOMAIN doc /\ ~s.w[1].err
  /\ LET x == Nth(s.cells, Hdr + 1, len + 1, k)
     IN /\ CanUpdate(x, v)
        /\ s' = Put(s, s.at + Start(x) - 1, Overwriting(s.cells, x, v))
        /\ doc' = [doc EXCEPT ![k] = Meant(x.f, v)]
  /\ UNCHANGED <<useform, unkfid, len, calls>>

Next == \/ \E x \in Calls : AppendRef(x[1], x[2])
        \/ \E x \in Calls : /\ Known(x[1]) /\ Found(x[1]).fixed /\ Converts(Found(x[1]), x[2])
                            /\ AppendIter(Found(x[1]), x[2])
        \/ \E k \in 1..(Len(Form) + MaxCalls), v \in Updates : UpdateField(k, v)
        \/ AppendForm \/ Update

Spec == Init /\ [][Next]_vars

-----------------------------------------------------------------------------
(* Properties. *)

\* A message whose writer met no error is read as what callers appended, with
\* the values as the dictionary's sizes let them be; with a form, as all its
\* fields, those that were given a value with that value.
SassEncoded ==
  len > 0 /\ ~s.w[1].err =>
    /\ IsMsg(s.cells, len) /\ ~s.lost
    /\ Msg(s.cells, len) = doc
=============================================================================
