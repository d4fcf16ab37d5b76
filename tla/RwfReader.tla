----------------------------- MODULE RwfReader -----------------------------
(***************************************************************************)
(* What src/rwf_msg.cpp reads from what src/rwf_writer.cpp has written: a  *)
(* container is parsed from its cells and gives the tree that was asked    *)
(* for, as `doc` of a writer keeps it, or one with Bad in it.  The options *)
(* are those that the writers of RwfWriter have; sets of fields are not    *)
(* among them.                                                             *)
(***************************************************************************)
EXTENDS RwfWriter

Bad == <<Junk>>

Cell(b, i) == IF i \in DOMAIN b THEN b[i] ELSE Junk
Size(b, i) == Max2(0, Cell(b, i))
From(b, i, n) == SubSeq(b, i, Min2(i + n - 1, Len(b)))
Bit(flags, k) == (flags \div k) % 2

\* get_u15_prefix() takes two bytes or one, get_fe_prefix() three or one.  The
\* writers have two for the lengths of containers, and no number here needs two.
Long(b, i) == Cell(b, i + 1) = Rest
U15Len(b, i) == IF Long(b, i) THEN 2 ELSE 1
FeLen(b, i) == IF Cell(b, i) = 254 THEN 3 ELSE 1
FeValue(b, i) == IF Cell(b, i) = 254 THEN Size(b, i + 1) ELSE Size(b, i)

\* The header of a container with entries: where its entries start, how many.
HasHint(t, flags) ==
  CASE t = SERIES -> Bit(flags, 4) [] t = FILTER -> Bit(flags, 2) [] OTHER -> Bit(flags, 8)
HasFid(t, flags) == IF t = MAP THEN Bit(flags, 16) ELSE 0
HasDefn(t, flags) == IF t \in {MAP, SERIES} THEN Bit(flags, 1) ELSE 0
HasSummary(t, flags) == IF t = FILTER THEN 0 ELSE Bit(flags, 2)

Sub(b, i, has) == IF has = 1 THEN U15Len(b, i) + Size(b, i) ELSE 0
EntryHdr(t, b) ==
  LET flags == Cell(b, 1)
      first == IF t = MAP THEN 4 ELSE 3
      defn == first + 2 * HasFid(t, flags)
      summary == defn + Sub(b, defn, HasDefn(t, flags))
      hint == summary + Sub(b, summary, HasSummary(t, flags))
      count == hint + HasHint(t, flags) * (IF t = FILTER THEN 1 ELSE 4)
  IN [type |-> t, ct |-> Cell(b, first - 1), n |-> Cell(b, count),
      opt |-> <<HasHint(t, flags)>> \o (IF t = MAP THEN <<HasFid(t, flags)>> ELSE <<>>)
              \o (IF HasDefn(t, flags) = 1 THEN <<Sub(b, defn, 1)>> ELSE <<>>),
      summary |-> IF hint = summary THEN <<>>
                  ELSE <<From(b, summary + U15Len(b, summary), Cell(b, summary))>>,
      data |-> count + IF t = FILTER THEN 1 ELSE 2]

\* An entry: its key, the type of its container, where the length of that is.
EntryAt(h, b, i) ==
  CASE h.type = MAP ->
         [key |-> <<Cell(b, i) % 16, Cell(b, i + 2)>>, ct |-> h.ct, len |-> i + 2 + Size(b, i + 1),
          has |-> Cell(b, i) % 16 # 3 /\ h.ct # NoData]
    [] h.type = VECTOR ->
         [key |-> <<Cell(b, i) % 16, Cell(b, i + 1)>>, ct |-> h.ct, len |-> i + 5,
          has |-> Cell(b, i) % 16 \notin {3, 5} /\ h.ct # NoData]
    [] h.type = FILTER ->
         LET own == Bit(Cell(b, i) \div 16, 2)
         IN [key |-> <<Cell(b, i) % 16, Cell(b, i + 1)>>,
             ct |-> IF own = 1 THEN Cell(b, i + 2) ELSE h.ct, len |-> i + 2 + own,
             has |-> Cell(b, i) % 16 # 3]
    [] OTHER -> [key |-> <<>>, ct |-> h.ct, len |-> i, has |-> TRUE]

\* Items of lists, n of them from i on.
RECURSIVE ListItems(_, _, _, _)
ListItems(t, b, i, n) ==
  IF n = 0 THEN <<>> ELSE IF n < 0 \/ i > Len(b) THEN <<Bad>>
  ELSE LET len == IF t = FIELDS THEN i + 2 ELSE i + 2 + Size(b, i)
           val == From(b, len + FeLen(b, len), FeValue(b, len))
           name == IF t = FIELDS THEN Cell(b, i) ELSE Cell(b, i + 1)
       IN IF Len(val) < FeValue(b, len) THEN <<Bad>>
          ELSE <<<<<<name>> \o val, <<>>>>>>
               \o ListItems(t, b, len + FeLen(b, len) + Len(val), n - 1)

ReadList(t, b) ==
  LET count == IF t = FIELDS /\ Bit(Cell(b, 1), 1) = 1 THEN 3 + Size(b, 2) ELSE 2
  IN <<t, <<>>, <<>>, ListItems(t, b, count + 2, Cell(b, count))>>

\* Fields of a key: the f-th is at i if the flags have it.
FieldLen(b, f, i) ==
  CASE f = 1 -> FeLen(b, i) [] f = 2 -> 1 + Size(b, i) [] f = 3 -> 1 [] OTHER -> 4
RECURSIVE KeyItems(_, _, _)
KeyItems(b, f, i) ==
  IF f \notin DOMAIN KeyFlag THEN [items |-> <<>>, next |-> i]
  ELSE IF Bit(Cell(b, 1), KeyFlag[f]) = 0 THEN KeyItems(b, f + 1, i)
  ELSE LET more == KeyItems(b, f + 1, i + FieldLen(b, f, i))
       IN [more EXCEPT !.items = <<<<<<f>> \o From(b, i, FieldLen(b, f, i)), <<>>>>>> \o @]

RECURSIVE ReadAs(_, _), Entries(_, _, _, _)

ReadKey(b) ==
  LET k == KeyItems(b, 1, 2)
      at == k.next + 1
      data == From(b, at + U15Len(b, at), Cell(b, at))
  IN <<KEY, <<>>, IF Bit(Cell(b, 1), HasAttrib) = 1 THEN <<ReadAs(Cell(b, k.next), data)>> ELSE <<>>,
       k.items>>

Entries(h, b, i, n) ==
  IF n = 0 THEN <<>> ELSE IF n < 0 \/ i > Len(b) THEN <<Bad>>
  ELSE LET e == EntryAt(h, b, i)
           next == IF e.has THEN e.len + FeLen(b, e.len) + FeValue(b, e.len) ELSE e.len
           data == From(b, e.len + FeLen(b, e.len), FeValue(b, e.len))
       IN IF next > Len(b) + 1 THEN <<Bad>>
          ELSE <<<<e.key, IF e.has THEN <<ReadAs(e.ct, data)>> ELSE <<>>>>>>
               \o Entries(h, b, next, n - 1)

ReadGroup(h, b) ==
  <<h.type, h.opt, IF h.summary = <<>> THEN <<>> ELSE <<ReadAs(h.ct, h.summary[1])>>,
    Entries(h, b, h.data, h.n)>>

\* A generic message: sequence number, key and part number, if it has them, are
\* where the header has them, the body is after header_size.
ReadMsg(b) ==
  LET flags == Cell(b, 9)
      seq == Bit(flags, 2)
      key == 12 + 4 * seq
      part == key + Sub(b, key, Bit(flags, 1))
      body == 3 + Size(b, 1)
  IN IF (seq = 1 /\ Cell(b, 12) # 1) \/ (Bit(flags, 4) = 1 /\ Cell(b, part) # 1)
     THEN Bad
     ELSE <<MSG, <<seq, Bit(flags, 4)>>,
            IF Bit(flags, 1) = 1
            THEN <<ReadAs(KEY, From(b, key + U15Len(b, key), Cell(b, key)))>> ELSE <<>>,
            IF Cell(b, 11) = NoData THEN <<>>
            ELSE <<<<<<>>, <<ReadAs(Cell(b, 11), From(b, body, Len(b)))>>>>>>>>

ReadAs(t, b) ==
  CASE t \in Lists -> ReadList(t, b)
    [] t \in Groups \cup {FILTER} -> ReadGroup(EntryHdr(t, b), b)
    [] t = KEY -> ReadKey(b)
    [] t = MSG -> ReadMsg(b)
    [] OTHER -> Bad

-----------------------------------------------------------------------------

\* When the outermost writer is done and saw no error, what it gives its caller
\* is read as what was asked for: no container, item or option is lost, read
\* twice, or has another's bytes.
Output == SubSeq(block.cells, w[1].buf - block.at + 1, w[1].buf - block.at + w[1].off)
Encoded ==
  w[1].done /\ ~w[1].err /\ marks = {} => ReadAs(w[1].type, Output) = w[1].doc
=============================================================================
