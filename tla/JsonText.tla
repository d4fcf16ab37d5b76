------------------------------ MODULE JsonText ------------------------------
(***************************************************************************)
(* The parser of src/json.cpp: a text, all of it in memory (JsonBufInput)  *)
(* or read in parts (JsonStreamInput), and the value it stands for.        *)
(*                                                                         *)
(* A text is a sequence of characters, numbers as in ASCII.  A parser      *)
(* takes an input and returns it where it stopped, with the value or an    *)
(* error.  A text in memory is an input that was read to its end.          *)
(* A number is kept as its characters (Scalars says what they stand for).  *)
(* Slip_X is operator X with a slip in it; no operator uses the slips.     *)
(***************************************************************************)
EXTENDS Integers, Sequences

CONSTANTS BufLen,     \* of the buffer of a stream at first: 4096
          NumMax,     \* characters of a number: 64
          MaxBlocks,  \* of the values of an array: 40
          Word        \* by which strings grow: 8

JsonAssumption == BufLen > 0 /\ NumMax > 1 /\ MaxBlocks > 1 /\ Word > 0

EOF == 256
NL == 10
SP == 32
DQ == 34
Pound == 35
SQ == 39
Comma == 44
Dash == 45
Dot == 46
Colon == 58
LBracket == 91
Backslash == 92
RBracket == 93
LBrace == 123
RBrace == 125
Digits == 48..57
Letters == (65..90) \cup (97..122)
White == (9..13) \cup {SP}
Punct == (33..47) \cup (58..64) \cup (91..96) \cup (123..126)
Ident == Letters \cup {95}
IdentMore == Ident \cup Digits \cup {Dash, Dot}

TrueWord == <<116, 114, 117, 101>>
FalseWord == <<102, 97, 108, 115, 101>>
NullWord == <<110, 117, 108, 108>>
Odd == {<<105, 110, 102>>, <<110, 97, 110>>}   \* inf, nan

\* What follows the characters of a string in memory: nothing if there is a
\* NUL, the rest of the text if they are part of it.
Null == [type |-> "null"]
Boolean(b) == [type |-> "boolean", val |-> IF b THEN TrueWord ELSE FalseWord]
Number(t) == [type |-> "number", val |-> t]
String(t, after) == [type |-> "string", val |-> t, after |-> after]
Array(vs) == [type |-> "array", items |-> vs]
Object(ps) == [type |-> "object", pairs |-> ps]     \* of <<name, value>>
NoValue == [type |-> "none"]

Least(m, n) == IF m < n THEN m ELSE n

-----------------------------------------------------------------------------
(* Inputs.  `mem` is the buffer with what was in it before; `used` counts   *)
(* what was read of the text, which comes in parts that end at `cuts`.      *)

Whole(t) == [whole |-> TRUE, text |-> t, cuts |-> {}, mem |-> t, off |-> 0, len |-> Len(t),
             start |-> 0, used |-> Len(t), eof |-> TRUE]
Stream(t, cuts, junk) ==
  [whole |-> FALSE, text |-> t, cuts |-> cuts, mem |-> [k \in 1..BufLen |-> junk], off |-> 0,
   len |-> 0, start |-> 0, used |-> 0, eof |-> FALSE]

\* JsonStreamInput::fill_buf(): the line that was begun moves to the start of
\* the buffer, or the buffer grows, and more is read.
Slip_MadeRoom(in) ==      \* the offset stays
  IF in.start = 0 /\ in.len = Len(in.mem) THEN [in EXCEPT !.mem = @ \o @]
  ELSE [in EXCEPT !.mem = [k \in DOMAIN @ |-> IF k <= in.len - in.start THEN @[k + in.start] ELSE @[k]],
                  !.len = @ - in.start, !.start = 0]
MadeRoom(in) ==
  IF in.start = 0 /\ in.len = Len(in.mem) THEN [in EXCEPT !.mem = @ \o @]
  ELSE [in EXCEPT !.mem = [k \in DOMAIN @ |-> IF k <= in.len - in.start THEN @[k + in.start] ELSE @[k]],
                  !.len = @ - in.start, !.off = @ - in.start, !.start = 0]

ReadN(in, n) ==
  [in EXCEPT !.mem = [k \in DOMAIN @ |-> IF k \in (in.len + 1)..(in.len + n)
                                         THEN in.text[in.used + k - in.len] ELSE @[k]],
             !.len = @ + n, !.used = @ + n, !.eof = (n = 0)]
NextCut(in) ==
  LET cuts == {c \in in.cuts : c > in.used}
  IN  IF cuts = {} THEN Len(in.text) ELSE CHOOSE c \in cuts : \A d \in cuts : c <= d
ReadMore(in) == ReadN(in, Least(Len(in.mem) - in.len, NextCut(in) - in.used))

FillBuf(in) == IF in.eof THEN in ELSE ReadMore(MadeRoom(in))

\* cur(): reads until there is a character; which one it is then.
RECURSIVE Cur(_)
Cur(in) == IF in.off < in.len \/ in.eof THEN in ELSE Cur(FillBuf(in))
Char(in) == IF in.off < in.len THEN in.mem[in.off + 1] ELSE EOF
Advance(in, n) == [in EXCEPT !.off = @ + n]

\* next() and forward(), of an input from cur().
Next1(in) == IF Char(in) = EOF THEN in ELSE Advance(in, 1)
Forward(in) == Cur(Next1(in))

RECURSIVE EatWhite(_)
Skipped(in) ==
  IF Char(in) = NL THEN EatWhite([Next1(in) EXCEPT !.start = in.off + 1])
  ELSE IF Char(in) \in White THEN EatWhite(Next1(in))
  ELSE in
EatWhite(in) == Skipped(Cur(in))

\* Characters from the offset on, those there are.
Ahead(in, n) == SubSeq(in.mem, in.off + 1, Least(in.off + n, in.len))
IsPrefixOf(s, t) == Len(s) <= Len(t) /\ s = SubSeq(t, 1, Len(s))

\* match(): of a stream it asks for a character after a word of five, and for
\* two after one of four.
Hit(in, n) == [in |-> Advance(in, n), hit |-> TRUE]
Miss(in) == [in |-> in, hit |-> FALSE]

RECURSIVE Match(_, _)
Compared(in, w, a) ==
  IF a = w THEN Hit(in, Len(w))
  ELSE IF in.whole \/ ~IsPrefixOf(a, w) THEN Miss(in)
  ELSE Match(in, w)
ComparedMore(in, w) == IF in.eof THEN Miss(in) ELSE Compared(in, w, Ahead(in, Len(w)))
Match(in, w) ==
  IF in.whole \/ in.off + 5 < in.len THEN Compared(in, w, Ahead(in, Len(w)))
  ELSE ComparedMore(FillBuf(in), w)

\* lookahead_case(), for inf and nan.  What a stream looks at may not be read yet.
Lower(c) == IF c \in 65..90 THEN c + 32 ELSE c
LowerAll(t) == [k \in DOMAIN t |-> Lower(t[k])]
IsOdd(in) ==
  /\ LowerAll(Ahead(in, 3)) \in Odd
  /\ \/ in.off + 3 = in.len /\ in.eof
     \/ in.off + 4 <= Len(in.mem) /\ in.mem[in.off + 4] \in White \cup Punct
RECURSIVE Lookahead(_)
LookMore(in) == IF in.eof THEN Miss(in) ELSE Lookahead(in)
Lookahead(in) ==
  IF IsOdd(in) THEN Hit(in, 0)
  ELSE IF in.off + 4 < in.len \/ in.eof THEN Miss(in)
  ELSE LookMore(FillBuf(in))

\* skip_BOM(), of which the bytes are EF BB BF.
BOM == <<239, 187, 191>>
RECURSIVE SkipBom(_)
BomSkipped(in, a) ==
  IF a = BOM THEN Advance(in, 3) ELSE IF IsPrefixOf(a, BOM) THEN SkipBom(in) ELSE in
BomMore(in) == IF in.eof THEN in ELSE BomSkipped(in, Ahead(in, 3))
SkipBom(in) ==
  IF in.off + 3 > in.len THEN BomMore(FillBuf(in)) ELSE BomSkipped(in, Ahead(in, 3))

-----------------------------------------------------------------------------
(* Parts of values. *)

Got(in, v) == [in |-> in, val |-> v, err |-> "ok"]
Fails(in, e) == [in |-> in, val |-> NoValue, err |-> e]

\* parse_number(): what follows a state of the scan.
Exps == {69, 101}
Signs == {43, Dash}
NumberStep(st, c) ==
  CASE st \in {0, 1, 3} /\ c \in Digits -> st
    [] st = 0 /\ c = Dot -> 1
    [] st \in {0, 1} /\ c \in Exps -> 2
    [] st = 2 /\ c \in Signs \cup Digits -> 3
    [] OTHER -> -1

RECURSIVE ScanNumber(_, _, _)
Scanned(in, st, t) ==
  IF st = -1 THEN [in |-> in, t |-> t]
  ELSE IF Len(t) + 1 >= NumMax THEN [in |-> Forward(in), t |-> Append(t, Char(in))]
  ELSE ScanNumber(Forward(in), st, Append(t, Char(in)))
ScanNumber(in, st, t) == Scanned(in, NumberStep(st, Char(in)), t)

OddNumber(t, odd) ==
  IF odd.hit THEN Got(Advance(odd.in, 3), Number(t \o Ahead(odd.in, 3))) ELSE Got(odd.in, Number(t))
NumberEnd(s) ==
  IF Len(s.t) <= 1 /\ Lower(Char(s.in)) \in {105, 110} THEN OddNumber(s.t, Lookahead(s.in))
  ELSE Got(s.in, Number(s.t))
ParseNumber(in) ==
  NumberEnd(IF Char(in) \in Signs THEN ScanNumber(Forward(in), 0, <<Char(in)>>)
            ELSE ScanNumber(in, 0, <<>>))

\* parse_string(): escapes, and \uXXXX as UTF-8.
HexDigit(c) == CASE c \in Digits -> c - 48
                 [] c \in 97..102 -> c - 87
                 [] c \in 65..70 -> c - 55
                 [] OTHER -> -1
Utf8(u) ==
  IF u <= 127 THEN <<u>>
  ELSE IF u <= 2047 THEN <<192 + u \div 64, 128 + (u % 64)>>
  ELSE <<224 + u \div 4096, 128 + ((u \div 64) % 64), 128 + (u % 64)>>
Escaped(c) == CASE c = 98 -> 8 [] c = 102 -> 12 [] c = 110 -> NL [] c = 114 -> 13 [] c = 116 -> 9
                [] OTHER -> c

\* The memory of a string, and whether it was written beyond.
Room(s, n, more) == IF Len(s.t) + n > s.size THEN [s EXCEPT !.size = @ + more] ELSE s
Written(s, cs) == [s EXCEPT !.t = @ \o cs, !.over = @ \/ Len(s.t) + Len(cs) > s.size]

RECURSIVE Hex4(_, _, _)
HexMore(in, n, u, h) == IF h = -1 THEN [in |-> in, u |-> -1] ELSE Hex4(Next1(in), n - 1, u * 16 + h)
HexAt(in, n, u) == HexMore(in, n, u, HexDigit(Char(in)))
Hex4(in, n, u) == IF n = 0 THEN [in |-> in, u |-> u] ELSE HexAt(Cur(in), n, u)

RECURSIVE StringRest(_, _, _)
StringEnd(in, s) ==
  IF Written(s, <<0>>).over THEN Fails(in, "beyond") ELSE Got(in, String(s.t, <<>>))
HexChar(hex, quote, s, cs) ==
  StringRest(hex.in, quote, Written(Room(s, Len(cs), 2 * Word), cs))
HexEscape(hex, quote, s) ==
  IF hex.u = -1 THEN Fails(hex.in, "INVALID_CHAR_HEX") ELSE HexChar(hex, quote, s, Utf8(hex.u))
Escape(in, quote, s) ==       \* from the character after the backslash
  CASE Char(in) = EOF -> Fails(in, "UNEXPECTED_STRING_END")
    [] Char(in) = 117 -> HexEscape(Hex4(Next1(in), 4, 0), quote, s)
    [] OTHER -> StringRest(Next1(in), quote, Written(s, <<Escaped(Char(in))>>))
StringChar(in, quote, s) ==
  CASE Char(in) = EOF -> Fails(in, "UNEXPECTED_STRING_END")
    [] Char(in) = quote -> StringEnd(Next1(in), s)
    [] Char(in) = Backslash -> Escape(Cur(Next1(in)), quote, s)
    [] OTHER -> StringRest(Next1(in), quote, Written(s, <<Char(in)>>))
StringRest(in, quote, s) == StringChar(Cur(in), quote, Room(s, 1, Word))
StringFrom(in) == StringRest(Next1(in), Char(in), [t |-> <<>>, size |-> Word, over |-> FALSE])
ParseString(in) == StringFrom(Cur(in))

\* parse_ident(): of a text in memory a part of it, of a stream a copy.
RECURSIVE ScanIdent(_, _)
IdentNext(in, t) == IF Char(in) \in IdentMore THEN ScanIdent(in, t) ELSE [in |-> in, t |-> t]
ScanIdent(in, t) == IdentNext(Forward(in), Append(t, Char(in)))
IdentEnd(s) ==
  IF s.in.whole THEN Got(s.in, String(s.t, SubSeq(s.in.mem, s.in.off + 1, s.in.len)))
  ELSE IF Len(s.t) % Word = 0 THEN Fails(s.in, "beyond")
  ELSE Got(s.in, String(s.t, <<>>))
ParseIdent(in) == IdentEnd(ScanIdent(in, <<>>))

\* The blocks in which parse_array() and parse_object() keep values until they
\* know how many there are: each half as large again as the one before.
Added(blocks, v) ==
  LET n == Len(blocks)
      cap == IF n = 0 THEN 0 ELSE blocks[n].cap
  IN  IF n > 0 /\ Len(blocks[n].vals) < cap THEN [blocks EXCEPT ![n].vals = Append(@, v)]
      ELSE Append(blocks, [cap |-> ((cap + 2) * 3) \div 2, vals |-> <<v>>])

\* One after the other, all but the last to their ends.
RECURSIVE Joined(_)
Joined(blocks) == IF blocks = <<>> THEN <<>> ELSE Head(blocks).vals \o Joined(Tail(blocks))

-----------------------------------------------------------------------------
(* Values. *)

RECURSIVE Parse(_)
RECURSIVE Elements(_, _)
RECURSIVE Members(_, _)

\* What an error of a value that is missing is.
Missing(in, atend, else) == Fails(in, IF Char(in) = EOF THEN atend ELSE else)

\* The list goes on after a comma, else it is at its end, the character `close`.
AtEnd(in, close, err, v) ==
  IF Char(in) = close THEN Got(Next1(in), v) ELSE Fails(in, err)

\* parse_array() after the '[' or a comma.
AfterElement(in, blocks) ==
  IF Char(in) = Comma THEN Elements(Next1(in), blocks)
  ELSE AtEnd(in, RBracket, "UNEXPECTED_ARRAY_END", Array(Joined(blocks)))
Element(p, blocks) ==
  CASE p.err # "ok" -> p
    [] p.val = NoValue -> Missing(Cur(p.in), "UNEXPECTED_ARRAY_END", "EXPECTING_AR_VALUE")
    [] Len(Added(blocks, p.val)) = MaxBlocks -> Fails(p.in, "TOO_BIG")
    [] OTHER -> AfterElement(EatWhite(p.in), Added(blocks, p.val))
ElementAt(in, blocks) ==
  IF Char(in) = RBracket THEN Got(Next1(in), Array(Joined(blocks))) ELSE Element(Parse(in), blocks)
Elements(in, blocks) == ElementAt(EatWhite(in), blocks)

\* parse_object() after the '{' or a comma: a name without quotes is as good.
AfterMember(in, blocks) ==
  IF Char(in) = Comma THEN Members(Next1(in), blocks)
  ELSE AtEnd(in, RBrace, "UNEXPECTED_OBJECT_END", Object(Joined(blocks)))
Member(name, p, blocks) ==
  CASE p.err # "ok" -> p
    [] p.val = NoValue -> Missing(Cur(p.in), "UNEXPECTED_OBJECT_END", "EXPECTING_OBJ_VALUE")
    [] Len(Added(blocks, <<name, p.val>>)) = MaxBlocks -> Fails(p.in, "TOO_BIG")
    [] OTHER -> AfterMember(EatWhite(p.in), Added(blocks, <<name, p.val>>))
AfterName(in, name, blocks) ==
  IF Char(in) = Colon THEN Member(name, Parse(Next1(in)), blocks)
  ELSE Missing(in, "UNEXPECTED_OBJECT_END", "EXPECTING_COLON")
Named(name, blocks) ==
  IF name.err # "ok" THEN name ELSE AfterName(EatWhite(name.in), name.val, blocks)
MemberAt(in, blocks) ==
  CASE Char(in) = DQ -> Named(ParseString(in), blocks)
    [] Char(in) \in Ident -> Named(ParseIdent(in), blocks)
    [] OTHER -> AtEnd(in, RBrace, "UNEXPECTED_OBJECT_END", Object(Joined(blocks)))
Members(in, blocks) == MemberAt(EatWhite(in), blocks)

\* A word that is none of true, false, null, inf and nan is a string.
OddWord(odd) ==
  IF odd.hit THEN Got(Advance(odd.in, 3), Number(Ahead(odd.in, 3))) ELSE ParseIdent(odd.in)
Word4(m) == IF m.hit THEN Got(m.in, Null) ELSE OddWord(Lookahead(m.in))
Try(in, first, c, w) == IF first \in c THEN Match(in, w) ELSE Miss(in)
Word3(m, c) == IF m.hit THEN Got(m.in, Boolean(FALSE)) ELSE Word4(Try(m.in, c, {116, 102, 110}, NullWord))
Word2(m, c) == IF m.hit THEN Got(m.in, Boolean(TRUE)) ELSE Word3(Try(m.in, c, {116, 102}, FalseWord), c)
ParseWord(in) == Word2(Try(in, Char(in), {116}, TrueWord), Char(in))

ParseAt(in, c) ==
  CASE c = LBrace -> Members(Next1(in), <<>>)
    [] c = LBracket -> Elements(Next1(in), <<>>)
    [] c = DQ -> ParseString(in)
    [] c \in Digits \cup Signs -> ParseNumber(in)
    [] c = EOF -> Got(in, NoValue)
    [] c \in {116, 102, 110, 105} -> ParseWord(in)
    [] c \in Ident -> ParseIdent(in)
    [] OTHER -> Fails(in, "INVALID_TOKEN")
ParseFrom(in) == ParseAt(in, Char(in))
Parse(in) == ParseFrom(EatWhite(in))
=============================================================================
