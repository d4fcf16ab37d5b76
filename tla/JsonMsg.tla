------------------------------- MODULE JsonMsg ------------------------------
(***************************************************************************)
(* The JSON messages of src/json_msg.cpp: the writer, with arrays and with *)
(* messages inside messages as convert_msg() makes them, and the iterator  *)
(* over what the parser (JsonText) makes of them.  `doc` is what callers   *)
(* appended, as a reader should find it.                                   *)
(* Slip_X is operator X with a slip in it; no operator uses the slips.     *)
(***************************************************************************)
EXTENDS Buffers, SequencesExt

CONSTANTS NumMax,      \* as in JsonText
          Sizes, Calls, Names, MaxCalls, MaxDepth   \* as in RvMsg

VARIABLES s, names, doc, len, calls,
          begun        \* of each writer, FIRST_FIELD: is there a field?

vars == <<s, names, doc, len, calls, begun>>

J == INSTANCE JsonText WITH BufLen <- 1, MaxBlocks <- 40, Word <- 8
D == INSTANCE Scalars WITH  \* its parsers are not used here
       MaxVal <- 100, NPow <- 9, Now <- 0, EpochMin <- 0, EpochMax <- 0, StampUnit <- 0,
       JunkDates <- {}

Quote == J!DQ

-----------------------------------------------------------------------------
(* Values are [t, d]: a type, and bytes, a number, a decimal, a text or the *)
(* values of an array.  They are written in pieces: [n, c], the characters  *)
(* c for which the writer asks for n bytes; a decimal or a text, which take *)
(* what is left in the buffer and do not make it larger.                    *)

Piece(n, c) == [kind |-> "cells", n |-> n, c |-> c]
Plain(c) == Piece(Len(c), c)                       \* s()
InPlace(kind, x) == [kind |-> kind, x |-> x]

Hex(n) == IF n < 10 THEN 48 + n ELSE 87 + n
ShortEscape == 8 :> 98 @@ 12 :> 102 @@ 10 :> 110 @@ 13 :> 114 @@ 9 :> 116 @@ 34 :> 34 @@ 92 :> 92

\* get_escaped_string_output(): a text ends at a NUL, bytes that are not shown
\* are code points.
UpToNul(d) == LET i == SelectInSeq(d, LAMBDA x : x = NUL) IN IF i = 0 THEN d ELSE SubSeq(d, 1, i - 1)
Shown(v) == IF v.t = "OPAQUE" THEN v.d ELSE UpToNul(v.d)
Escaped(b) == CASE b \in DOMAIN ShortEscape -> <<92, ShortEscape[b]>>
                [] b \in 32..126 -> <<b>>
                [] OTHER -> <<92, 117, 48, 48, Hex(b \div 16), Hex(b % 16)>>
TextCells(v) ==
  IF v.d = <<>> THEN J!NullWord
  ELSE <<Quote>> \o FlattenSeq([k \in DOMAIN Shown(v) |-> Escaped(Shown(v)[k])]) \o <<Quote>>

\* get_escaped_string_len(), and one for the NUL.
Slip_TextRoom(v) == Len(v.d) + 3     \* what is escaped is longer
TextRoom(v) == Len(TextCells(v)) + 1

\* int_str() and MDDecimal::get_string(), in ASCII.
Ascii == [c \in 0..9 |-> 48 + c] @@ D!Minus :> 45 @@ D!Dot :> 46 @@ D!I :> 73 @@ D!N :> 110 @@ D!F :> 102
InAscii(t) == [k \in DOMAIN t |-> Ascii[t[k]]]
DecimalText(x, avail) == InAscii(D!GetString(x, avail, TRUE))
Digits(n) == DecimalText(D!Dec(n, D!Integer), 20)

Octets(d) ==
  [k \in 1..4 |-> LET t == Digits(d[k]) IN Piece(Len(t) + 1, IF k = 4 THEN t ELSE Append(t, 46))]
NaNWord == <<Quote, 78, 97, 78, Quote>>
NNaNWord == <<Quote, 45, 78, 97, 78, Quote>>
InfWord == <<Quote, 73, 110, 102, Quote>>

\* append_ref()
RefPieces(v) ==
  CASE v.t \in {"STRING", "OPAQUE", "PARTIAL"} -> <<Piece(TextRoom(v), TextCells(v))>>
    [] v.t \in {"INT", "UINT", "ENUM"} -> <<Plain(Digits(v.d))>>
    [] v.t = "IPDATA" -> <<Plain(<<Quote>>)>> \o Octets(v.d) \o <<Plain(<<Quote>>)>>
    [] v.t = "DECIMAL" -> CASE v.d.hint = D!NullHint -> <<Plain(J!NullWord)>>
                            [] v.d.hint = D!NNaN -> <<Plain(NNaNWord)>>
                            [] v.d.hint = D!NaN -> <<Plain(NaNWord)>>
                            [] v.d.hint = D!Inf -> <<Plain(InfWord)>>
                            [] OTHER -> <<InPlace("decimal", v.d)>>
    [] v.t = "BOOLEAN" -> <<Plain(IF v.d THEN J!TrueWord ELSE J!FalseWord)>>
    [] v.t \in {"TIME", "DATE"} -> <<Plain(<<Quote>>), InPlace("text", v.d), Plain(<<Quote>>)>>
    [] OTHER -> <<Plain(J!NullWord)>>

\* convert_msg() of an array: what is in it is no array and no message.
ArrayPieces(vs) ==
  <<Plain(<<J!LBracket>>)>>
  \o FlattenSeq([k \in DOMAIN vs |-> RefPieces(vs[k])
                                     \o IF k = Len(vs) THEN <<>> ELSE <<Plain(<<J!Comma>>)>>])
  \o <<Plain(<<J!RBracket>>)>>

\* append_field_name(), and the name as append_msg() writes it.
Trim(nm) == IF nm = <<>> THEN nm ELSE Front(nm)
NamePiece(nm) == Piece(Len(nm) + 3, <<Quote>> \o Trim(nm) \o <<Quote, J!Colon>>)
NamePieces(first, nm) ==
  <<IF first THEN Piece(3, <<J!LBrace>>) ELSE Plain(<<J!Comma>>), NamePiece(nm)>>

\* finish()
EndPieces(first) == <<IF first THEN Piece(3, <<J!LBrace, J!RBrace>>) ELSE Piece(2, <<J!RBrace>>)>>

-----------------------------------------------------------------------------
(* Pieces written one after the other, up to one for which there is no room. *)

Left(t) == Inner(t).len - Inner(t).off
Taken(t, p) ==
  IF p.kind = "text" THEN SubSeq(p.x, 1, IF Left(t) - 1 < Len(p.x) THEN Left(t) - 1 ELSE Len(p.x))
  ELSE DecimalText(p.x, Left(t))
Stops(t, p) == IF p.kind = "cells" THEN ~CanHave(t, p.n)
               ELSE p.kind = "decimal" /\ Taken(t, p) = <<>>
After(t, p) ==
  IF p.kind = "cells"
  THEN {Appended(WithSpace(t, p.n, to), 0, p.c) : to \in IF Fits(t, p.n) THEN {t.at} ELSE Places}
  ELSE {Appended(t, 0, Taken(t, p))}

RECURSIVE Written(_, _)
Written(t, ps) ==
  IF ps = <<>> THEN {[s |-> t, ok |-> TRUE]}
  ELSE IF Stops(t, ps[1]) THEN {[s |-> t, ok |-> FALSE]}
  ELSE UNION {Written(u, Tail(ps)) : u \in After(t, ps[1])}

-----------------------------------------------------------------------------
(* What a reader should find. *)

Text(d) == [t |-> "STRING", v |-> d]
NoData == [t |-> "NODATA", v |-> <<>>]
DotBefore(t) == <<46>> \o t
RECURSIVE Meant(_)
Within(v) == IF v.t = "ARRAY" THEN NoData ELSE Meant(v)
Meant(v) ==
  CASE v.t \in {"STRING", "OPAQUE", "PARTIAL"} ->
         IF v.d = <<>> THEN NoData
         ELSE Text(FlattenSeq([k \in DOMAIN Shown(v) |-> J!Utf8(Shown(v)[k])]))
    [] v.t \in {"INT", "UINT", "ENUM"} -> [t |-> "DECIMAL", v |-> Digits(v.d)]
    [] v.t = "IPDATA" ->
         Text(Digits(v.d[1]) \o FlattenSeq([k \in 1..3 |-> DotBefore(Digits(v.d[k + 1]))]))
    [] v.t = "DECIMAL" -> CASE v.d.hint = D!NullHint -> NoData
                            [] v.d.hint = D!NNaN -> Text(<<45, 78, 97, 78>>)
                            [] v.d.hint = D!NaN -> Text(<<78, 97, 78>>)
                            [] v.d.hint = D!Inf -> Text(<<73, 110, 102>>)
                            [] OTHER -> [t |-> "DECIMAL", v |-> DecimalText(v.d, 40)]
    [] v.t = "BOOLEAN" -> [t |-> "BOOLEAN", v |-> v.d]
    [] v.t \in {"TIME", "DATE"} -> [t |-> "CLOCK", v |-> v.d]
    [] v.t = "ARRAY" -> [t |-> "ARRAY", v |-> [k \in DOMAIN v.d |-> Within(v.d[k])]]
    [] OTHER -> NoData

-----------------------------------------------------------------------------
(* The reader. *)

\* is_jsonmsg(): braces around it, white space after it.
IsMsg(c) ==
  LET last == SelectLastInSeq(c, LAMBDA x : x > 32)
  IN  Len(c) >= 2 /\ c[1] = J!LBrace /\ last > 1 /\ c[last] = J!RBrace

\* value_to_ref(), get_sub_msg(), get_array_ref(); first() and next().
RECURSIVE Value(_), Fields(_)
Value(x) ==
  CASE x.type = "object" -> [t |-> "MESSAGE", v |-> Fields(x)]
    [] x.type = "array" -> [t |-> "ARRAY", v |-> [k \in DOMAIN x.items |-> Value(x.items[k])]]
    [] x.type = "number" -> [t |-> "DECIMAL", v |-> x.val]
    [] x.type = "string" -> Text(x.val)
    [] x.type = "boolean" -> [t |-> "BOOLEAN", v |-> x.val = J!TrueWord]
    [] OTHER -> NoData
Fields(x) == [k \in DOMAIN x.pairs |-> [name |-> x.pairs[k][1].val] @@ Value(x.pairs[k][2])]

\* unpack(): the fields, or none if it is no message.
NoMsg == <<[name |-> <<>>, t |-> "BAD", v |-> <<>>]>>
FieldsOf(p) == IF p.err = "ok" /\ p.val.type = "object" THEN Fields(p.val) ELSE NoMsg
Unpacked(c) == IF IsMsg(c) THEN FieldsOf(J!Parse(J!SkipBom(J!Whole(c)))) ELSE NoMsg

\* find() and find_next(): the fields of a name, one after the other.
FindFrom(fs, nm, i) ==
  LET at == {k \in DOMAIN fs : k >= i /\ fs[k].name = nm}
  IN  IF at = {} THEN 0 ELSE CHOOSE k \in at : \A j \in at : k <= j
RECURSIVE Finds(_, _, _)
Finds(fs, nm, i) ==
  LET k == FindFrom(fs, nm, i) IN IF k = 0 THEN <<>> ELSE <<fs[k]>> \o Finds(fs, nm, k + 1)

-----------------------------------------------------------------------------
(* The writer. *)

Init ==
  /\ \E n \in Sizes, at \in Places : s = Started(at, n, 0, 0)
  /\ names = <<<<>>>> /\ doc = <<<<>>>> /\ begun = <<FALSE>>
  /\ len = 0 /\ calls = 0

First == ~begun[Len(begun)]
Open == calls < MaxCalls /\ len = 0 /\ calls' = calls + 1

\* append_field(), and of an array what convert_msg() does.  What has no room is
\* an error, or the end of convert_msg(), which then made no message; what was
\* written before it stays.
AppendField(nm, v) ==
  /\ Open
  /\ \E r \in Written(s, NamePieces(First, nm)
                         \o IF v.t = "ARRAY" THEN ArrayPieces(v.d) ELSE RefPieces(v)) :
       /\ s' = IF r.ok THEN r.s ELSE Failed(r.s)
       /\ len' = IF r.ok \/ v.t # "ARRAY" THEN 0 ELSE -1
       /\ doc' = IF ~r.ok THEN doc
                 ELSE [doc EXCEPT ![Len(doc)] = Append(@, [name |-> Trim(nm)] @@ Meant(v))]
       /\ begun' = [begun EXCEPT ![Len(begun)] = @ \/ Inner(r.s).off > Inner(s).off]
  /\ UNCHANGED names

\* append_msg(): the writer inside starts at what is left of the buffer.
Inside(t) ==
  [t EXCEPT !.w = Append(@, Window(Inner(t).buf + Inner(t).off, Left(t), 0, 0))]
AppendMsg(nm) ==
  /\ Open /\ Len(s.w) < MaxDepth /\ UNCHANGED len
  /\ \E r \in Written(s, <<NamePiece(nm)>>) :
       IF r.ok THEN /\ s' = Inside(r.s)
                    /\ names' = Append(names, nm) /\ doc' = Append(doc, <<>>)
                    /\ begun' = Append(begun, FALSE)
       ELSE s' = Failed(s) /\ UNCHANGED <<names, doc, begun>>

\* The end of a message inside: finish(), and what was written counts outside.
\* Without room for the end convert_msg() returns and there is no message.
Joined(t) == LET n == Len(t.w) IN [t EXCEPT !.w = [Front(@) EXCEPT ![n - 1].off = @ + t.w[n].off]]
Dropped(t) == [t EXCEPT !.w = Front(@)]
EndSub ==
  /\ len = 0 /\ Len(s.w) > 1
  /\ \E r \in Written(s, EndPieces(First)) :
       /\ s' = IF r.ok THEN Joined(r.s) ELSE Dropped(r.s)
       /\ len' = IF r.ok THEN 0 ELSE -1
  /\ doc' = [Front(doc) EXCEPT ![Len(doc) - 1] =
               Append(@, [name |-> Trim(Last(names)), t |-> "MESSAGE", v |-> Last(doc)])]
  /\ names' = Front(names) /\ begun' = Front(begun)
  /\ UNCHANGED calls

\* update_hdr(): whether there was room for the end is not asked.
Update ==
  /\ len = 0 /\ Len(s.w) = 1
  /\ \E r \in Written(s, EndPieces(First)) : s' = r.s /\ len' = Inner(r.s).off
  /\ UNCHANGED <<names, doc, calls, begun>>

Next == \/ \E x \in Calls : AppendField(x[1], x[2])
        \/ \E nm \in Names : AppendMsg(nm)
        \/ EndSub \/ Update

Spec == Init /\ [][Next]_vars

-----------------------------------------------------------------------------
(* Properties. *)

text == SubSeq(s.cells, 1, len)
IsDone == len > 0 /\ ~s.w[1].err
Flat == \A k \in DOMAIN doc[1] : doc[1][k].t # "MESSAGE"

\* A time is what there was room for of it.
Agree(got, meant) ==
  IF meant.t = "CLOCK" THEN got.name = meant.name /\ got.t = "STRING" /\ IsPrefix(got.v, meant.v)
  ELSE got = meant
AllAgree(fs, ds) == Len(fs) = Len(ds) /\ \A k \in DOMAIN ds : Agree(fs[k], ds[k])
Named(ds, nm) == SelectSeq(ds, LAMBDA f : f.name = nm)
ReadAs(fs, ds) ==
  /\ AllAgree(fs, ds)
  /\ \A k \in DOMAIN fs : AllAgree(Finds(fs, fs[k].name, 1), Named(ds, fs[k].name))
Told(fs, ds) == IF fs = NoMsg THEN ~CanHave(s, 2) ELSE ReadAs(fs, ds)

\* A message without messages in it whose writer met no error is read as what
\* callers appended, by first() and next() and by find() and find_next(), or as
\* no message when there was no room for its end.  Writers, also those of
\* messages in it, write to the memory they have and to none other.
JsonEncoded ==
  /\ ~s.lost
  /\ IsDone /\ Flat => Told(Unpacked(text), doc[1])
=============================================================================
