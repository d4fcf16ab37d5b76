------------------------------- MODULE MfMsg ------------------------------
(***************************************************************************)
(* Marketfeed records: the writer of src/mf_writer.cpp, the parser of the  *)
(* header and the iterator of src/mf_msg.cpp.  A record is text            *)
(*                                                                         *)
(*   FS func US tag GS ric [RS rstatus] [US flist] US rtl                  *)
(*     [GS status [RS text]] { RS fid US value } FS                        *)
(*                                                                         *)
(* A byte is a number below NumberBase; the decimal digits of a number are *)
(* one cell, NumberBase plus the number.                                   *)
(* Slip_X is operator X with a slip in it; no operator uses the slips.     *)
(***************************************************************************)
EXTENDS Buffers, SequencesExt, FiniteSetsExt

CONSTANTS Dictionary, \* the fields: [fid, name, t, n] with the length of a text
          Enums,      \* <<fid, text, value>> of the enumerations
          Headers,    \* <<func, tag, ric, parts>> of the headers callers write,
                      \* parts being <<name, numbers, text>> in their order
          RepMax,     \* of the text with a repeated character, 128
          Sizes, Calls, MaxCalls   \* as in RvMsg, by name or by fid

MfAssumption ==
  /\ RepMax \in Nat
  /\ \A f, g \in Dictionary : f.fid = g.fid \/ f.name = g.name => f = g

VARIABLES s,       \* the buffer and the writer
          inhdr,   \* may parts of the header be added?
          closed,  \* is the last FS written?
          hdr,     \* <<func, tag, ric, parts>> so far
          doc,     \* the fields appended
          len, calls

vars == <<s, inhdr, closed, hdr, doc, len, calls>>

FS == 28
GS == 29
RS == 30
US == 31
Seps == FS..US
ESC == 27
CSI1 == 91
CSI2 == 155
HPA == 96
REP == 98
Space == 32
Plus == 43
Minus == 45
NumberBase == 1000
Digits(n) == NumberBase + n
IsNumber(x) == x >= NumberBase

Rec == 340
Snap == 342
Verify == 318
Aggregate == 350
Full == {Rec, Snap, Verify}

-----------------------------------------------------------------------------
(* Encoding. *)

PutInt(n) == IF n < 0 THEN <<Minus, Digits(-n)>> ELSE <<Digits(n)>>
Signed(n) == IF n < 0 THEN PutInt(n) ELSE <<Plus>> \o PutInt(n)

StartCells(fn, tag, ric) ==
  <<FS, Digits(fn)>> \o (IF fn = Aggregate THEN <<>> ELSE <<US>> \o tag) \o <<GS>> \o ric
\* add_rstatus(), add_flist(), add_rtl() and add_status().
PartCells(p) ==
  CASE p[1] = "rstatus" -> <<RS>> \o PutInt(p[2])
    [] p[1] \in {"flist", "delta", "rtl"} -> <<US>> \o PutInt(p[2])
    [] p[1] = "nortl" -> <<US>>
    [] OTHER -> <<GS>> \o PutInt(p[2]) \o (IF p[3] = <<>> THEN <<>> ELSE <<RS>> \o p[3])
PartRoom(p) ==
  CASE p[1] = "flist" -> 6
    [] p[1] = "nortl" -> 1
    [] p[1] \in {"delta", "rtl"} -> 11
    [] p[1] = "rstatus" -> 12
    [] OTHER -> 13 + Len(p[3])

\* A value is [t, d, h]: its type, the number in <<number>>, <<>> for null, or
\* the bytes, and where a partial starts.
Numbers == {"DECIMAL", "INT", "UINT"}
Trim(d) == IF d # <<>> /\ Last(d) = NUL THEN Front(d) ELSE d
EnumVal(f, text) == CHOOSE x \in {e[3] : e \in {y \in Enums : y[1] = f.fid /\ y[2] = text}} : TRUE
HasEnum(f, text) == \E e \in Enums : e[1] = f.fid /\ e[2] = text
Converts(f, v) ==
  CASE f.t \in Numbers -> v.t \in Numbers
    [] f.t = "ENUM" -> v.t \in {"ENUM", "UINT"} \/ (v.t = "STRING" /\ HasEnum(f, Trim(v.d)))
    [] f.t \in {"TIME", "DATE"} -> v.t = f.t
    [] OTHER -> TRUE

\* The text of a time stops at minutes or seconds, as the dictionary's length.
TimeText(f, d) == SubSeq(d, 1, Min({Len(d), IF f.n <= 5 THEN 5 ELSE 8}))
Padded(f, d) == IF f.t = "STRING" /\ Len(d) < f.n /\ f.n <= 255 THEN d \o Fill(f.n - Len(d), Space)
                ELSE d
Text(f, v) ==
  CASE f.t \in {"DECIMAL", "INT"} -> IF v.d = <<>> THEN <<>> ELSE Signed(v.d[1])
    [] f.t = "UINT" -> PutInt(v.d[1])
    [] f.t = "ENUM" -> PutInt(IF v.t = "STRING" THEN EnumVal(f, Trim(v.d)) ELSE v.d[1])
    [] f.t = "TIME" -> TimeText(f, v.d)
    [] f.t = "DATE" -> v.d
    [] OTHER -> Padded(f, IF f.t = "STRING" THEN Trim(v.d) ELSE v.d)
FieldRoom(d) == 13 + Len(d)
FieldCells(fid, d) == <<RS>> \o PutInt(fid) \o <<US>> \o d

-----------------------------------------------------------------------------
(* Decoding.  All scans go on to the FS at the end. *)

Until(c, i, set) == Min({j \in i..Len(c) : c[j] \in set})
Sep(c, i) == Until(c, i, Seps)
FieldSep(c, i) == Until(c, i, {RS, FS})

\* scan_int() from a separator: the number after it and what follows.
Slip_Scan(c, i) ==     \* the sign is lost
  LET j == IF c[i + 1] = Minus THEN i + 2 ELSE i + 1
  IN [n |-> IF IsNumber(c[j]) THEN c[j] - NumberBase ELSE 0, i |-> IF IsNumber(c[j]) THEN j + 1 ELSE j]
Scan(c, i) ==
  LET j == IF c[i + 1] = Minus THEN i + 2 ELSE i + 1
      n == IF IsNumber(c[j]) THEN c[j] - NumberBase ELSE 0
  IN [n |-> IF c[i + 1] = Minus THEN -n ELSE n, i |-> IF IsNumber(c[j]) THEN j + 1 ELSE j]

\* parse_header().  A number that may be there: the next separator is after it.
Maybe(there, c, i) ==
  IF there THEN [n |-> Scan(c, i).n, i |-> Sep(c, Scan(c, i).i)] ELSE [n |-> 0, i |-> i]
HeaderAfter(c, fn, tag, ric, from) ==
  LET rstatus == Maybe(c[from] = RS /\ fn \in Full, c, from)
      flist == Maybe(c[rstatus.i] = US /\ fn \in Full, c, rstatus.i)
      delta == Maybe(c[flist.i] = US /\ fn = Aggregate, c, flist.i)
      rtl == Maybe(c[delta.i] = US, c, delta.i)
      status == Maybe(c[rtl.i] = GS, c, rtl.i)
      hastext == c[rtl.i] = GS /\ c[status.i] = RS
      end == IF hastext THEN Sep(c, status.i + 1) ELSE status.i
  IN [func |-> fn, tag |-> tag, ric |-> ric, rstatus |-> rstatus.n, flist |-> flist.n,
      rtl |-> rtl.n, status |-> status.n,
      \* the text is taken from where the tag's length is
      text |-> IF hastext THEN SubSeq(c, Len(tag) + 1, Len(tag) + end - status.i - 1) ELSE <<>>,
      data |-> FieldSep(c, end)]
Header(c) ==
  LET fn == Scan(c, 1)
      sep == Sep(c, fn.i)
      gs == IF c[sep] = US THEN Sep(c, sep + 1) ELSE sep
      end == Sep(c, gs + 1)
  IN HeaderAfter(c, fn.n, IF c[sep] = US THEN SubSeq(c, sep + 1, gs - 1) ELSE <<>>,
                 SubSeq(c, gs + 1, end - 1), end)

\* is_marketfeed(): FS, a number and US, and FS at the end.
IsMarketfeed(c) == c[1] = FS /\ Last(c) = FS /\ IsNumber(c[2]) /\ c[3] = US

\* scan_esc_sep(): the next field or escape sequence, and the count of a
\* repeated character that it is, after which the scan is.
IsEsc(x) == x \in {ESC, CSI2}
EscNumber(c, i) == IF c[i] = CSI2 THEN Scan(c, i)
                   ELSE IF c[i + 1] = CSI1 THEN Scan(c, i + 1) ELSE [n |-> 0, i |-> i]
EscSep(c, i, rep) ==
  LET j == Until(c, i, {RS, FS, ESC, CSI2})
      e == EscNumber(c, j)
  IN IF ~IsEsc(c[j]) \/ rep > 0 THEN [ch |-> c[j], i |-> j, rep |-> rep]
     ELSE IF c[e.i] = REP THEN [ch |-> c[j], i |-> e.i + 1, rep |-> e.n]
     ELSE [ch |-> c[j], i |-> j, rep |-> 0]

\* MktfdFieldIter::unpack(), of what is at i; a partial that follows another in
\* the same field has its fid.
Bad(why) == [bad |-> why]
IsBad(r) == "bad" \in DOMAIN r
At(fid, data, rep, end) == [fid |-> fid, data |-> data, rep |-> rep, end |-> end]
FieldAt(c, fid, data, rep) ==
  IF IsEsc(c[data]) THEN LET e == EscSep(c, data + 1, rep) IN At(fid, data, e.rep, e.i)
  ELSE At(fid, data, rep, FieldSep(c, data))
Unpacked(c, i, fid) ==
  LET a == EscSep(c, i, 0)
      us == Sep(c, Scan(c, a.i).i)
      e == EscSep(c, a.i + 1, a.rep)
  IN IF a.ch = RS THEN IF c[us] = US THEN FieldAt(c, Scan(c, a.i).n, us + 1, a.rep) ELSE Bad("field")
     ELSE IF IsEsc(a.ch) THEN At(fid, a.i, e.rep, e.i)
     ELSE Bad("field")

\* lookup_fid(): one the dictionary has not is a string.
Has(fid) == \E f \in Dictionary : f.fid = fid
Entry(fid) == IF Has(fid) THEN CHOOSE f \in Dictionary : f.fid = fid
              ELSE [fid |-> fid, name |-> "", t |-> "STRING", n |-> 0]

\* get_reference(): what cannot be read as the type is a string.
Ref(t, d) == [t |-> t, d |-> d]
String(d) == Ref("STRING", IF d = <<>> THEN <<NUL>> ELSE d)
Number(t, d) ==
  LET i == IF d # <<>> /\ d[1] \in {Plus, Minus} THEN 2 ELSE 1
  IN IF i > Len(d) \/ ~IsNumber(d[i]) THEN String(d)
     ELSE Ref(t, <<IF d[1] = Minus THEN -(d[i] - NumberBase) ELSE d[i] - NumberBase>>)
\* The last character before the count is repeated, when all of it fits.
Repeated(d, rep) ==
  LET esc == {k \in DOMAIN d : IsEsc(d[k]) /\ k > 1}
      n == Max(esc) - 1
  IN IF rep = 0 \/ esc = {} THEN d
     ELSE IF n + rep > RepMax THEN d ELSE SubSeq(d, 1, n) \o Fill(rep, d[n])
Partial(c, d, rep) ==
  LET e == EscNumber(d, 1)
  IN IF Len(d) > 3
     THEN IF IsEsc(d[1]) /\ e.i > 1 /\ d[e.i] = HPA
          THEN Ref("PARTIAL", <<Repeated(SubSeq(d, e.i + 1, Len(d)), rep), e.n % 256>>)
          ELSE Ref("PARTIAL", <<d, 0>>)
     ELSE Ref("PARTIAL", <<String(d).d, 0>>)
Value(c, x) ==
  LET f == Entry(x.fid)
      d == SubSeq(c, x.data, x.end - 1)
  IN CASE f.t = "PARTIAL" -> Partial(c, d, x.rep)
       [] f.t = "DECIMAL" -> IF d = <<>> THEN Ref("DECIMAL", <<>>) ELSE Number("DECIMAL", d)
       [] f.t \in {"INT", "UINT"} -> Number(f.t, d)
       [] f.t = "ENUM" -> IF d # <<>> /\ IsNumber(d[1]) THEN Number("ENUM", d) ELSE Ref("STRING", d)
       [] f.t \in {"TIME", "DATE"} -> Ref(f.t, d)
       [] OTHER -> String(d)

\* first() and next().
RECURSIVE FieldsAt(_, _, _, _)
FieldsAt(c, i, end, fid) ==
  IF i >= end THEN <<>>
  ELSE LET x == Unpacked(c, i, fid)
       IN IF IsBad(x) THEN <<x>>
          ELSE <<[fid |-> x.fid, name |-> Entry(x.fid).name, v |-> Value(c, x)]>>
               \o FieldsAt(c, x.end, end, x.fid)

-----------------------------------------------------------------------------
(* The writer.  It counts one byte beyond what it has, for the last FS. *)

Spare == 1

Init ==
  /\ \E n \in Sizes, at \in Places : s = Started(at, n, Spare, 0)
  /\ inhdr = FALSE
  /\ closed = FALSE
  /\ hdr = <<>>
  /\ doc = <<>>
  /\ len = 0
  /\ calls = 0

PlaceFor(t, n, to) == Fits(t, n) => to = t.at
Write(t, room, c) ==
  /\ CanHave(t, room)
  /\ \E to \in Places : PlaceFor(t, room, to) /\ s' = Appended(WithSpace(t, room, to), 0, c)

\* start(): another record, in the same buffer.
Again(t) == [t EXCEPT !.w[1].off = 0]
StartRoom(tag, ric) == 8 + Len(tag) + Len(ric)
Start(fn, tag, ric) ==
  /\ calls < MaxCalls
  /\ calls' = calls + 1
  /\ len' = 0
  /\ closed' = FALSE
  /\ IF CanHave(Again(s), StartRoom(tag, ric))
     THEN /\ Write(Again(s), StartRoom(tag, ric), StartCells(fn, tag, ric))
          /\ inhdr' = TRUE
          /\ hdr' = <<fn, tag, ric, <<>>>>
          /\ doc' = <<>>
     ELSE /\ s' = Failed(Again(s))
          /\ UNCHANGED <<inhdr, hdr, doc>>

\* The parts callers add are those of a header.
AddPart(p) ==
  /\ hdr # <<>>
  /\ \E h \in Headers : /\ SubSeq(h, 1, 3) = SubSeq(hdr, 1, 3)
                        /\ IsPrefix(Append(hdr[4], p), h[4])
  /\ len' = 0
  /\ UNCHANGED <<inhdr, closed, doc, calls>>
  /\ IF inhdr /\ CanHave(s, PartRoom(p))
     THEN Write(s, PartRoom(p), PartCells(p)) /\ hdr' = [hdr EXCEPT ![4] = Append(@, p)]
     ELSE s' = Failed(s) /\ UNCHANGED hdr

\* append_raw(): it ends the header.  A field is then read for each partial of
\* its value, which may end with a count to repeat its last character.
Meant(f, v) ==
  CASE f.t = "PARTIAL" -> Ref("PARTIAL", <<v.d, v.h>>)
    [] f.t \in {"DECIMAL", "INT", "UINT"} -> Ref(f.t, v.d)
    [] f.t = "ENUM" -> Ref("ENUM", IF v.t = "STRING" THEN <<EnumVal(f, Trim(v.d))>> ELSE v.d)
    [] f.t = "TIME" -> Ref("TIME", TimeText(f, v.d))
    [] f.t = "DATE" -> Ref("DATE", v.d)
    [] OTHER -> String(Padded(f, Trim(v.d)))
InHeader == hdr # <<>> /\ hdr \in Headers
Raw(f, d, meant) ==
  /\ UNCHANGED <<closed, hdr>>
  /\ inhdr' = (inhdr /\ closed)
  /\ IF ~closed /\ CanHave(s, FieldRoom(d))
     THEN /\ Write(s, FieldRoom(d), FieldCells(f.fid, d))
          /\ doc' = doc \o [k \in DOMAIN meant |-> [fid |-> f.fid, name |-> f.name, v |-> meant[k]]]
     ELSE s' = Failed(s) /\ UNCHANGED doc

PartialCells(v) ==
  <<ESC, CSI1, Digits(v.h), HPA>> \o v.d
  \o (IF v.t = "REPEAT" THEN <<ESC, CSI1, Digits(v.rep), REP>> ELSE <<>>)
MeantPartial(v) ==
  Ref("PARTIAL", <<IF v.t = "REPEAT" THEN v.d \o Fill(v.rep, Last(v.d)) ELSE v.d, v.h>>)
AppendRaw(f, vs) ==
  /\ InHeader /\ calls < MaxCalls
  /\ calls' = calls + 1
  /\ len' = 0
  /\ Raw(f, FlattenSeq([k \in DOMAIN vs |-> PartialCells(vs[k])]),
         [k \in DOMAIN vs |-> MeantPartial(vs[k])])

\* append_ref(): a fid the dictionary has not is written as what it is, a name
\* it has not is an error.
AppendRef(by, v) ==
  /\ InHeader /\ calls < MaxCalls
  /\ calls' = calls + 1
  /\ len' = 0
  /\ LET known == {f \in Dictionary : by \in {[fid |-> f.fid], [name |-> f.name]}}
         f == IF known # {} THEN CHOOSE x \in known : TRUE
              ELSE [fid |-> by.fid, name |-> "", t |-> v.t, n |-> 0]
     IN IF (known = {} /\ "name" \in DOMAIN by) \/ ~Converts(f, v)
        THEN s' = Failed(s) /\ UNCHANGED <<inhdr, closed, hdr, doc>>
        ELSE Raw(f, Text(f, v), <<Meant(Entry(f.fid), v)>>)

\* update_hdr(): the FS at the end, once.
UpdateHdr ==
  /\ InHeader /\ len = 0
  /\ UNCHANGED <<hdr, doc, calls>>
  /\ IF s.w[1].err THEN UNCHANGED <<s, inhdr, closed, len>>
     ELSE /\ inhdr' = FALSE
          /\ IF closed THEN UNCHANGED <<s, closed>> /\ len' = Inner(s).off
             ELSE IF CanHave(s, Spare)
             THEN Write(s, Spare, <<FS>>) /\ closed' = TRUE /\ len' = Inner(s').off
             ELSE s' = Failed(s) /\ UNCHANGED <<closed, len>>

Next == \/ \E h \in Headers : Start(h[1], h[2], h[3])
        \/ \E h \in Headers : \E k \in DOMAIN h[4] : AddPart(h[4][k])
        \/ \E x \in Calls : IF x[1] = "raw" THEN AppendRaw(Entry(x[2]), x[3]) ELSE AppendRef(x[2], x[3])
        \/ UpdateHdr

Spec == Init /\ [][Next]_vars

-----------------------------------------------------------------------------
(* Properties. *)

\* A record that update_hdr() ended is read as the header and the fields callers
\* wrote, and is known for what it is but for an aggregate update, which has no
\* tag.
Part(name) == LET p == {k \in DOMAIN hdr[4] : hdr[4][k][1] = name}
              IN IF p = {} THEN 0 ELSE hdr[4][Max(p)][2]
MfEncoded ==
  len > 0 =>
    LET c == SubSeq(s.cells, 1, len)
        h == Header(c)
    IN /\ ~s.lost
       /\ <<h.func, h.tag, h.ric>> = SubSeq(hdr, 1, 3)
       /\ <<h.rstatus, h.flist, h.rtl, h.status>>
          = <<Part("rstatus"), Part("flist"), Part("rtl"), Part("status")>>
       /\ FieldsAt(c, h.data, len, 0) = doc
       /\ hdr[1] # Aggregate => IsMarketfeed(c)
=============================================================================
