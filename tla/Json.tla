-------------------------------- MODULE Json --------------------------------
(***************************************************************************)
(* Values of src/json.cpp as text: print() and print_json(), print_yaml(), *)
(* and parse_yaml(), which reads lines with a stack of the values that are *)
(* open, each with its indent.  Then the calls of parsers and printers, of *)
(* JsonText too, one at a time, and what callers rely on: a text is read   *)
(* for what it says, whether all of it is there or it comes in parts, and  *)
(* what is printed is read again.                                          *)
(***************************************************************************)
EXTENDS JsonText, SequencesExt

CONSTANTS Depth,       \* of the stack of the reader of YAML: 40
          Unknown,     \* characters that memory not written to may have
          Values,      \* that are spelled and printed, a sequence; strings of code points
          YamlValues,  \* that are printed as YAML, a sequence
          Styles,      \* [sp, bare, hex]: between tokens, names without quotes, \uXXXX
          Tails,       \* what may follow a text
          JunkChars    \* what may be in a buffer at first

YamlAssumption == Depth \in Nat /\ Depth > 1

Spaces(n) == [k \in 1..n |-> SP]
Glue(ts) == FlattenSeq(ts)
Between(ts, sep) == FlattenSeq([k \in DOMAIN ts |-> IF k = 1 THEN ts[k] ELSE sep \o ts[k]])

-----------------------------------------------------------------------------
(* To text. *)

\* JsonString::print().  Without an escape it is "%*s": the characters up to a
\* NUL, filled up to the length.
Quoted(s) ==
  <<DQ>> \o Glue([k \in DOMAIN s.val |-> IF s.val[k] \in {DQ, Backslash} THEN <<Backslash, s.val[k]>>
                                         ELSE <<s.val[k]>>]) \o <<DQ>>
CutAt(t, i) == IF i = 0 THEN t ELSE SubSeq(t, 1, i - 1)
AtNul(t) == CutAt(t, SelectInSeq(t, LAMBDA c : c = 0))
Filled(t, n) == Spaces(n - Len(t)) \o t
UpToNul(s) == Filled(AtNul(s.val \o s.after), Len(s.val))
PrintString(s) ==
  IF \E k \in DOMAIN s.val : s.val[k] \in {DQ, Backslash} THEN Quoted(s)
  ELSE <<DQ>> \o UpToNul(s) \o <<DQ>>

PrintAtom(v) == CASE v.type \in {"number", "boolean"} -> v.val
                  [] v.type = "string" -> PrintString(v)
                  [] OTHER -> NullWord

\* JsonValue::print().
RECURSIVE PrintValue(_)
PrintValue(v) ==
  CASE v.type = "array" ->
         <<LBracket>> \o Between([k \in DOMAIN v.items |-> PrintValue(v.items[k])], <<Comma>>)
         \o <<RBracket>>
    [] v.type = "object" ->
         <<LBrace>>
         \o Between([k \in DOMAIN v.pairs |->
                       PrintString(v.pairs[k][1]) \o <<Colon>> \o PrintValue(v.pairs[k][2])], <<Comma>>)
         \o <<RBrace>>
    [] OTHER -> PrintAtom(v)

\* JsonValue::print_json(): one member a line, with indents.
JsonLines(ts, indent) ==
  Glue([k \in DOMAIN ts |-> Spaces(indent) \o ts[k] \o IF k = Len(ts) THEN <<NL>> ELSE <<Comma, NL>>])
RECURSIVE PrintJson(_, _)
PrintJson(v, indent) ==
  CASE v.type = "array" ->
         <<LBracket, NL>>
         \o JsonLines([k \in DOMAIN v.items |-> PrintJson(v.items[k], indent + 2)], indent + 2)
         \o Spaces(indent) \o <<RBracket>>
    [] v.type = "object" ->
         <<LBrace, NL>>
         \o JsonLines([k \in DOMAIN v.pairs |->
                         PrintString(v.pairs[k][1]) \o <<Colon, SP>>
                         \o PrintJson(v.pairs[k][2], indent + 2)], indent + 2)
         \o Spaces(indent) \o <<RBrace>>
    [] OTHER -> PrintAtom(v)

\* JsonString::print_yaml(): quotes are needed where a reader would take the
\* string for something else.
Plain == {94, 40, 41, 60, Dot, 59}   \* ^ ( ) < . ;
YesNo == {89, 121, 78, 110}
EndsInColon(t) ==
  LET i == SelectLastInSeq(t, LAMBDA c : c # SP) IN i > 0 /\ t[i] = Colon
NeedsQuotes(t) ==
  \/ t = <<>>
  \/ Len(t) = 1 /\ t[1] \in YesNo
  \/ t[1] \in Punct \ Plain
  \/ \E k \in DOMAIN t : t[k] \in {SQ, DQ, Backslash}
  \/ [k \in DOMAIN t |-> Lower(t[k])] \in {TrueWord, FalseWord, NullWord}
  \/ EndsInColon(t)
YamlString(s) == IF NeedsQuotes(s.val) THEN PrintString(s) ELSE UpToNul(s)

RECURSIVE PrintYaml(_, _)
YamlSep(x, indent) ==
  IF x.type \in {"array", "object"} THEN <<Colon, NL>> \o Spaces(indent + 2) ELSE <<Colon, SP>>
YamlItems(v, indent) ==
  CASE v.type = "array" -> [k \in DOMAIN v.items |-> <<Dash, SP>> \o PrintYaml(v.items[k], indent + 2)]
    [] v.type = "object" -> [k \in DOMAIN v.pairs |->
                               YamlString(v.pairs[k][1]) \o YamlSep(v.pairs[k][2], indent)
                               \o PrintYaml(v.pairs[k][2], indent + 2)]
    [] v.type = "string" -> <<YamlString(v)>>
    [] OTHER -> <<PrintAtom(v)>>
PrintYaml(v, indent) == Between(YamlItems(v, indent), <<NL>> \o Spaces(indent))

-----------------------------------------------------------------------------
(* The stack of parse_yaml(): [indent, val], the innermost last.  A value    *)
(* that is complete becomes the last of the one around it.                  *)

Kept(t) == String(t, Unknown)   \* make_string(): a copy without a NUL
Stacked(stk) == [stk |-> stk, err |-> "ok"]
Refused(stk, e) == [stk |-> stk, err |-> e]
Top(stk) == stk[Len(stk)]
WithTop(stk, v) == [stk EXCEPT ![Len(stk)].val = v]

Extended(a, vs) ==
  IF a.type = "array" THEN [a EXCEPT !.items = @ \o vs] ELSE [a EXCEPT !.pairs = @ \o vs]

\* collapse(): below the only one of the stack there is none to take it.
Collapse(stk) ==
  LET n == Len(stk)
      outer == stk[n - 1].val
      inner == stk[n].val
      rest == SubSeq(stk, 1, n - 1)
  IN  CASE n = 1 -> Refused(stk, "beyond")
        [] outer.type = "object" ->
             IF outer.pairs = <<>> THEN Refused(rest, "beyond")
             ELSE Stacked(WithTop(rest, [outer EXCEPT !.pairs[Len(outer.pairs)][2] = inner]))
        [] outer.type = "array" -> Stacked(WithTop(rest, Extended(outer, <<inner>>)))
        [] OTHER -> Refused(rest, "BAD_FORMAT")

\* The loop of append_*() that closes what is further in than i.
RECURSIVE Closed(_, _)
CloseMore(c, i) == IF c.err # "ok" THEN c ELSE Closed(c.stk, i)
Closed(stk, i) == IF i >= Top(stk).indent THEN Stacked(stk) ELSE CloseMore(Collapse(stk), i)

\* append_array(), append_field() and append_object(): a value further in is
\* pushed, others go to the value that is open at their indent.
Push(stk, i, v) == IF Len(stk) = Depth THEN Refused(stk, "NO_SPACE")
                   ELSE Stacked(Append(stk, [indent |-> i, val |-> v]))
Opens(stk, i) == stk = <<>> \/ i > Top(stk).indent

AddItems(c, vs) ==
  CASE c.err # "ok" -> c
    [] Top(c.stk).val.type # "array" -> Refused(c.stk, "BAD_FORMAT")
    [] OTHER -> Stacked(WithTop(c.stk, Extended(Top(c.stk).val, vs)))
AppendArray(stk, i, vs) ==
  IF Opens(stk, i) THEN Push(stk, i, Array(vs)) ELSE AddItems(Closed(stk, i), vs)

AddPair(c, pair) ==
  CASE c.err # "ok" -> c
    [] Top(c.stk).val.type # "object" -> Refused(c.stk, "BAD_FORMAT")
    [] OTHER -> Stacked(WithTop(c.stk, Extended(Top(c.stk).val, <<pair>>)))
AppendField(stk, i, field, v) ==
  IF Opens(stk, i) THEN Push(stk, i, Object(<<<<field, v>>>>))
  ELSE AddPair(Closed(stk, i), <<field, v>>)

AddValue(c, v) ==
  CASE c.err # "ok" -> c
    [] Top(c.stk).val.type = "array" -> Stacked(WithTop(c.stk, Extended(Top(c.stk).val, <<v>>)))
    [] Top(c.stk).val.type = "object" /\ v.type = "object" ->
         Stacked(WithTop(c.stk, Extended(Top(c.stk).val, v.pairs)))
    [] OTHER -> Refused(c.stk, "BAD_FORMAT")
AppendObject(stk, i, v) ==
  IF Opens(stk, i) THEN Push(stk, i, v) ELSE AddValue(Closed(stk, i), v)

\* append_string(): a line that is only a string goes on with the last value.
JoinString(v, s) == CASE v.type = "string" -> Kept(v.val \o s.val)
                      [] v.type = "null" -> s
                      [] OTHER -> NoValue
LastPut(stk, a, v) ==
  CASE v = NoValue -> stk
    [] a.type = "array" -> WithTop(stk, [a EXCEPT !.items[Len(a.items)] = v])
    [] OTHER -> WithTop(stk, [a EXCEPT !.pairs[Len(a.pairs)][2] = v])
JoinLast(stk, a, s) ==
  CASE a.type = "array" /\ a.items = <<>> -> WithTop(stk, Array(<<s>>))
    [] a.type = "array" /\ a.items # <<>> -> LastPut(stk, a, JoinString(Last(a.items), s))
    [] a.type = "object" /\ a.pairs # <<>> -> LastPut(stk, a, JoinString(Last(a.pairs)[2], s))
    [] OTHER -> stk
AppendString(stk, s) == IF stk = <<>> THEN stk ELSE JoinLast(stk, Top(stk).val, s)

-----------------------------------------------------------------------------
(* Lines. *)

\* split_field(): what a line, or what follows "- " in it, holds.
Item(kind, field, x) == [kind |-> kind, field |-> field, x |-> x]
Openers == {DQ, SQ, LBracket, LBrace}
Flow(t) == IF t[1] \in {DQ, SQ} THEN ParseString(Whole(t)) ELSE Parse(Whole(t))

TextItem(t) == IF \A k \in DOMAIN t : t[k] \in White THEN Item("empty", NoValue, NoValue)
               ELSE Item("string", Kept(t), NoValue)
\* What follows a field.
Taken(p, t) == IF p.err = "ok" THEN p.val ELSE Kept(t)
FieldValue(t) ==
  IF t = <<>> THEN Null ELSE IF t[1] \in Openers THEN Taken(Flow(t), t) ELSE Kept(t)

\* A line, or its rest, that starts with a quote or a bracket: with `rest` after it.
FlowItem(p, t, rest) ==
  CASE p.err # "ok" -> TextItem(t)
    [] p.val.type # "string" -> Item(p.val.type, NoValue, p.val)
    [] rest = <<>> \/ rest[1] # Colon -> Item("string", p.val, NoValue)
    [] Len(rest) > 1 /\ rest[2] = SP -> Item("field", p.val, FieldValue(SubSeq(rest, 3, Len(rest))))
    [] OTHER -> Item("field", p.val, Null)
FlowLine(p, t) == FlowItem(p, t, SubSeq(t, p.in.off + 1, Len(t)))
PlainLine(t, c) ==          \* with the first colon at c
  IF c > 1 /\ (c = Len(t) \/ t[c + 1] <= SP \/ t[c + 1] > 127)
  THEN Item("field", Kept(SubSeq(t, 1, c - 1)),
            FieldValue(SubSeq(t, IF c < Len(t) /\ t[c + 1] = SP THEN c + 2 ELSE c + 1, Len(t))))
  ELSE TextItem(t)
SplitField(t) ==
  IF t # <<>> /\ t[1] \in Openers THEN FlowLine(Flow(t), t)
  ELSE PlainLine(t, SelectInSeq(t, LAMBDA x : x = Colon))

\* "- " as often as there is one: an array for each; the first of the rest is
\* in the innermost.
IsItem(t, k) == k + 1 <= Len(t) /\ t[k] = Dash /\ t[k + 1] = SP
DashesFrom(t, k) == CHOOSE n \in 0..Len(t) : /\ \A j \in 0..(n - 1) : IsItem(t, k + 2 * j)
                                             /\ ~IsItem(t, k + 2 * n)
RECURSIVE Arrays(_, _, _, _)
ArraysMore(a, i, n, vs) == IF a.err # "ok" THEN a ELSE Arrays(a.stk, i + 2, n - 1, vs)
Arrays(stk, i, n, vs) ==
  IF n = 0 THEN Stacked(stk) ELSE ArraysMore(AppendArray(stk, i, IF n = 1 THEN vs ELSE <<>>), i, n, vs)

ItemValues(item) == CASE item.kind = "empty" -> <<Null>>
                      [] item.kind = "string" -> <<item.field>>
                      [] item.kind = "field" -> <<>>
                      [] OTHER -> <<item.x>>
WithField(a, at, item) ==
  IF item.kind = "field" /\ a.err = "ok" THEN AppendField(a.stk, at, item.field, item.x) ELSE a
ListItem(stk, i, n, item) == WithField(Arrays(stk, i, n, ItemValues(item)), i + 2 * n, item)
ListAt(stk, t, i, n) == ListItem(stk, i, n, SplitField(SubSeq(t, i + 2 * n + 1, Len(t))))
ListLine(stk, t, i) == ListAt(stk, t, i, DashesFrom(t, i + 1))   \* i characters before the first "- "

\* What a string or a value without a field is refused for is not returned.
FieldItem(stk, i, item) ==
  CASE item.kind = "field" -> AppendField(stk, i, item.field, item.x)
    [] item.kind = "string" -> Stacked(AppendString(stk, item.field))
    [] item.kind = "empty" -> Stacked(stk)
    [] OTHER -> Stacked(AppendObject(stk, i, item.x).stk)
FieldLine(stk, t, i) == FieldItem(stk, i, SplitField(SubSeq(t, i + 1, Len(t))))

LineFrom(stk, t, k) ==
  IF k = 0 THEN Stacked(stk)
  ELSE IF t[k] = Pound THEN Stacked(stk)
  ELSE IF IsItem(t, k) THEN ListLine(stk, t, k - 1)
  ELSE FieldLine(stk, t, k - 1)
YamlLine(stk, t) == LineFrom(stk, t, SelectInSeq(t, LAMBDA c : c \notin White))

\* The loop of parse_yaml(): `line` and `end` are places in the buffer; they
\* stay where they are when there is no more to read.
RECURSIVE Lines(_, _, _, _)
LineDone(in, next, line, end, y) ==
  IF y.err # "ok" THEN y ELSE Lines([in EXCEPT !.off = next, !.start = next], line, end, y.stk)
LineHad(in, line, end, t, stk) ==
  LineDone(in, in.start + Len(t) + 1, line + Len(t) + 1, end, YamlLine(stk, t))
LineMore(in, line, end, stk) ==        \* after fill_buf()
  CASE ~in.eof -> Lines(in, in.start, in.len, stk)
    [] in.eof /\ line >= end -> Stacked(stk)
    [] OTHER -> LineHad(in, line, end, SubSeq(in.mem, line + 1, end), stk)
LinesIn(in, line, end, t, n, stk) ==
  IF n = 0 THEN LineMore(FillBuf(in), line, end, stk)
  ELSE LineHad(in, line, end, SubSeq(t, 1, n - 1), stk)
LinesOf(in, line, end, t, stk) ==
  LinesIn(in, line, end, t, SelectInSeq(t, LAMBDA c : c = NL), stk)
Lines(in, line, end, stk) == LinesOf(in, line, end, SubSeq(in.mem, line + 1, end), stk)

RECURSIVE CloseAll(_)
CloseNext(c) == IF c.err # "ok" THEN c ELSE CloseAll(c.stk)
CloseAll(stk) == IF Len(stk) <= 1 THEN Stacked(stk) ELSE CloseNext(Collapse(stk))

YamlValue(in, c) ==
  CASE c.err # "ok" -> Fails(in, c.err)
    [] c.stk = <<>> -> Got(in, NoValue)
    [] OTHER -> Got(in, c.stk[1].val)
ParseYaml(in) == YamlValue(in, CloseNext(Lines(in, in.start, in.len, <<>>)))

-----------------------------------------------------------------------------
(* Calls. *)

VARIABLES conv,    \* the call, and what it is given
          result

vars == <<conv, result>>

NoConv == [op |-> "none"]
Idle == conv = NoConv
Does(c, r) == conv' = c /\ result' = <<r>>

-----------------------------------------------------------------------------
(* Texts of values, by no code of the program. *)

HexOf(c) == [k \in 1..4 |-> LET d == (c \div (16 ^ (4 - k))) % 16 IN IF d < 10 THEN 48 + d ELSE 87 + d]
SpellChar(c, st) ==
  IF st.hex THEN <<Backslash, 117>> \o HexOf(c)
  ELSE IF c \in {DQ, Backslash} THEN <<Backslash, c>>
  ELSE IF c = NL /\ st.bare THEN <<Backslash, 110>>
  ELSE Utf8(c)
SpellString(t, st) == <<DQ>> \o Glue([k \in DOMAIN t |-> SpellChar(t[k], st)]) \o <<DQ>>
SpellName(t, st) ==
  IF st.bare /\ t # <<>> /\ t[1] \in Ident /\ \A k \in DOMAIN t : t[k] \in IdentMore THEN t
  ELSE SpellString(t, st)

RECURSIVE Spell(_, _)
Spell(v, st) ==
  LET comma == st.sp \o <<Comma>> \o st.sp
      Around(l, ts, r) == <<l>> \o st.sp \o Between(ts, comma) \o st.sp \o <<r>>
  IN  CASE v.type = "array" ->
             Around(LBracket, [k \in DOMAIN v.items |-> Spell(v.items[k], st)], RBracket)
        [] v.type = "object" ->
             Around(LBrace, [k \in DOMAIN v.pairs |->
                               SpellName(v.pairs[k][1].val, st) \o st.sp \o <<Colon>>
                               \o st.sp \o Spell(v.pairs[k][2], st)], RBrace)
        [] v.type = "string" -> SpellString(v.val, st)
        [] OTHER -> PrintAtom(v)

\* A value with its strings in UTF-8; and without what follows them in memory.
RECURSIVE Encoded(_)
Encoded(v) ==
  CASE v.type = "array" -> Array([k \in DOMAIN v.items |-> Encoded(v.items[k])])
    [] v.type = "object" ->
         Object([k \in DOMAIN v.pairs |-> <<Encoded(v.pairs[k][1]), Encoded(v.pairs[k][2])>>])
    [] v.type = "string" -> String(Glue([k \in DOMAIN v.val |-> Utf8(v.val[k])]), <<>>)
    [] OTHER -> v
RECURSIVE Bare(_)
Bare(v) ==
  CASE v.type = "array" -> Array([k \in DOMAIN v.items |-> Bare(v.items[k])])
    [] v.type = "object" ->
         Object([k \in DOMAIN v.pairs |-> <<Bare(v.pairs[k][1]), Bare(v.pairs[k][2])>>])
    [] v.type = "string" -> String(v.val, <<>>)
    [] OTHER -> v
\* In YAML all that has no members is a string.
RECURSIVE Texts(_)
Texts(v) ==
  CASE v.type = "array" -> Array([k \in DOMAIN v.items |-> Texts(v.items[k])])
    [] v.type = "object" -> Object([k \in DOMAIN v.pairs |-> <<v.pairs[k][1], Texts(v.pairs[k][2])>>])
    [] v.type = "string" -> v
    [] OTHER -> String(PrintAtom(v), <<>>)

Answer(p) == [val |-> Bare(p.val), err |-> p.err]
Is(v) == [val |-> v, err |-> "ok"]

-----------------------------------------------------------------------------
(* The calls: JsonParser::parse() and parse_yaml() of either input.         *)

\* The parts a text is read in: one, two, three with a short one, or each
\* character for itself.
Parts(t) == {{}, 1..(Len(t) - 1)} \cup {{c} : c \in 1..(Len(t) - 1)}
            \cup {{c, c + 1} : c \in 1..(Len(t) - 2)}

Both(t, cuts, junk) ==
  [whole |-> Answer(Parse(SkipBom(Whole(t)))), parts |-> Answer(Parse(SkipBom(Stream(t, cuts, junk))))]
BothYaml(t, cuts, junk) ==
  [whole |-> Answer(ParseYaml(SkipBom(Whole(t)))),
   parts |-> Answer(ParseYaml(SkipBom(Stream(t, cuts, junk))))]

ReadText(v, st, tail) ==
  LET t == Spell(v, st) \o tail
  IN  \E cuts \in Parts(t), junk \in JunkChars, bom \in {<<>>, BOM} :
        Does([op |-> "read", v |-> v, st |-> st], Both(bom \o t, cuts, junk))
ReadPart(v, st, tail) ==
  LET t == Spell(v, st)
  IN  \E n \in 0..(Len(t) - 1), junk \in JunkChars : \E c \in 0..n :
        Does([op |-> "part", v |-> v, st |-> st], Both(SubSeq(t, 1, n) \o tail, {c}, junk))
PrintText(v) ==
  Does([op |-> "print", v |-> v],
       <<Answer(Parse(Whole(PrintValue(v)))), Answer(Parse(Whole(PrintJson(v, 0) \o <<NL>>)))>>)
PrintAsYaml(v) ==
  LET t == PrintYaml(v, 0) \o <<NL>>
  IN  \E cuts \in Parts(t), junk \in JunkChars :
        Does([op |-> "yaml", v |-> v], BothYaml(t, cuts, junk))

Return == ~Idle /\ conv' = NoConv /\ result' = <<>>

Init == conv = NoConv /\ result = <<>>

Call ==
  \/ \E k \in DOMAIN Values, st \in Styles, tail \in Tails :
       ReadText(Values[k], st, tail) \/ ReadPart(Values[k], st, tail)
  \/ \E k \in DOMAIN Values : PrintText(Encoded(Values[k]))
  \/ \E k \in DOMAIN YamlValues : PrintAsYaml(YamlValues[k])

Next == (Idle /\ Call) \/ Return

Spec == Init /\ [][Next]_vars

-----------------------------------------------------------------------------
got == result[1]
Op(x) == conv.op = x

\* parse(): a text is read for what it says, in whichever parts it comes, and
\* with its strings in the memory made for them.
ReadAsSpelled == Op("read") => got.whole = Is(Encoded(conv.v)) /\ got.parts = got.whole
\* A text that ends too early is read the same in parts as at once.
PartsAgree == Op("part") => got.parts = got.whole
\* print() and print_json(): what is printed is read as what it was.
PrintedAgain == Op("print") => got = <<Is(conv.v), Is(conv.v)>>
\* print_yaml(): what is printed is read by parse_yaml() as what it was, down to
\* its texts.
YamlAgain == Op("yaml") => got.whole = Is(Texts(conv.v)) /\ got.parts = got.whole

\* All of these.
JsonRead == ReadAsSpelled /\ PartsAgree /\ PrintedAgain /\ YamlAgain
=============================================================================
