----------------------------- MODULE ZSetStorage -----------------------------
(***************************************************************************)
(* raimd's sorted set, ZSetData of include/raimd/md_zset.h: a hash whose   *)
(* items are a score and a member, in the order of score and then member.  *)
(* New members are found a place by binary search; the map of hash bytes   *)
(* follows the items.  Scores are Decimal64 of 8 bytes in the code; here   *)
(* small numbers of two bytes, so that one can wrap around the ring.       *)
(***************************************************************************)
EXTENDS HashOps, SequencesExt

CONSTANTS Members,    \* the members callers use, strings of Byte, not empty
          Sizes,      \* the <<index_size, data_size>> pairs of allocations
          Others,     \* the sets to merge with, lists like the one here
          Fill,       \* the byte that memory holds before it is written
          MaxScore    \* bounds the sums

VARIABLES list, ret, merge

vars == <<list, ret, merge>>

NoMerge == [x |-> <<>>, j |-> 0, bits |-> {}, type |-> "NONE"]

Status(s) == [status |-> s, val |-> <<>>]
Reply(l, s) == list' = l /\ ret' = Status(s) /\ UNCHANGED merge
ReplyValue(s, v) == ret' = [status |-> s, val |-> v] /\ UNCHANGED <<list, merge>>

\* A caller does not leave a union half done.
Ready == merge.j = 0

-----------------------------------------------------------------------------
(* Items. *)

ScoreSize == 2
ScoreBytes(score) == <<score \div 4, score % 4>>
ScoreOf(bytes) == bytes[1] * 4 + bytes[2]

\* zscore(), zindex(): split_score() puts a score together that wraps.
ScoreAt(l, i) == ScoreOf(ReadBytes(l, StartOf(l, i), ScoreSize))
MemberAt(l, i) ==
  ReadBytes(l, DataOffset(l, StartOf(l, i), ScoreSize), GetSize(l, i) - ScoreSize)

MatchMember(l, member, i) ==
  /\ GetSize(l, i) = ScoreSize + Len(member)
  /\ Equals(l, DataOffset(l, StartOf(l, i), ScoreSize), member)

\* zexists()
FindMember(l, member) ==
  LocateBy(l, Hash[member], LAMBDA i : MatchMember(l, member, i))

\* cmp_key() is negative: a is a prefix of b, or smaller where they differ.
KeyBefore(a, b) ==
  \E n \in 0..Smaller(Len(a), Len(b)) :
    /\ SubSeq(a, 1, n) = SubSeq(b, 1, n)
    /\ \/ n = Len(a) /\ n < Len(b)
       \/ n < Len(a) /\ n < Len(b) /\ a[n + 1] < b[n + 1]

-----------------------------------------------------------------------------
(* Binary search. *)

Slip_RangePos(l, score, from, n, gt) == \* the pivot looked at again
  LET f[p \in 1..l.count, s \in 0..l.count] ==
        LET piv == s \div 2
            r   == ScoreAt(l, p + piv)
        IN  IF s = 0 \/ p + piv >= l.count THEN p
            ELSE IF IF gt THEN score < r ELSE score <= r THEN f[p, piv]
            ELSE f[p + piv, s - piv - 1]
  IN  f[from, n]

\* zbsearch_range(): the first of the n items from `from' on with a score that
\* is not less than score, or with gt greater than it.
RangePos(l, score, from, n, gt) ==
  LET f[p \in 1..l.count, s \in 0..l.count] ==
        LET piv == s \div 2
            r   == ScoreAt(l, p + piv)
        IN  IF p + piv >= l.count THEN p
            ELSE IF s = 0 THEN IF gt /\ score = r THEN p + 1 ELSE p
            ELSE IF IF gt THEN score < r ELSE score <= r THEN f[p, piv]
            ELSE f[p + piv + 1, s - (piv + 1)]
  IN  f[from, n]

\* zbsearch_key_range(): the same by member, among items of one score.
KeyPos(l, member, from, n) ==
  LET f[p \in 1..l.count, s \in 0..l.count] ==
        LET piv == s \div 2
        IN  IF s = 0 \/ p + piv >= l.count THEN p
            ELSE IF KeyBefore(member, MemberAt(l, p + piv)) THEN f[p, piv]
            ELSE f[p + piv + 1, s - (piv + 1)]
  IN  f[from, n]

\* zbsearch_key(), with gt: where a new member goes.
PosAmong(l, member, score, pos) ==
  IF pos >= l.count \/ ScoreAt(l, pos) # score THEN pos
  ELSE KeyPos(l, member, pos, RangePos(l, score, pos, l.count - pos, TRUE) - pos)

InsertPos(l, member, score) ==
  IF l.count <= 1 THEN l.count
  ELSE PosAmong(l, member, score, RangePos(l, score, 1, l.count - 1, FALSE))

-----------------------------------------------------------------------------
(* Adding. *)

PlaceAt(l, pos, h, item) ==
  IF Full(l, Len(item)) THEN Result(l, LIST_FULL)
  ELSE Result(HashInsert(InsertItem(l, pos - 1, item), pos, h), LIST_OK)

\* At the end it is an append; else the map must have two bytes to spare before
\* the items are touched.
InsertOrAppend(l, pos, h, item) ==
  IF pos = l.count THEN AppendItem(l, h, item, LIST_OK)
  ELSE IF l.count + 1 < MapSize(l) THEN PlaceAt(l, pos, h, item)
  ELSE IF DataFull(l, MapGrowth(l)) THEN Result(l, LIST_FULL)
  ELSE PlaceAt(ResizeHash(l), pos, h, item)

\* zinsert()
ZInsertItem(l, member, score) ==
  InsertOrAppend(l, InsertPos(l, member, score), Hash[member],
                 ScoreBytes(score) \o member)

Combine(type, old, score) ==
  CASE type = "NONE" -> score
    [] type = "SUM"  -> old + score
    [] type = "MIN"  -> Smaller(old, score)
    [] type = "MAX"  -> Larger(old, score)

\* zadd() compares the new score and the member with the neighbours only.
InOrder(l, i, member, score) ==
  LET Before(k) == \/ ScoreAt(l, k) < score
                   \/ (ScoreAt(l, k) = score /\ ~ KeyBefore(member, MemberAt(l, k)))
      After(k)  == \/ ScoreAt(l, k) > score
                   \/ (ScoreAt(l, k) = score /\ ~ KeyBefore(MemberAt(l, k), member))
  IN  /\ i > 1 => Before(i - 1)
      /\ i + 1 < l.count => After(i + 1)

Added(r, ok) == IF r.status = LIST_OK THEN Result(r.list, ok) ELSE r

SetScore(l, i, member, old, new, done) ==
  IF new = old THEN Result(l, LIST_OK)
  ELSE IF InOrder(l, i, member, new)
  THEN Result(CopyInto(l, ScoreBytes(new), StartOf(l, i)), done)
  ELSE Added(ZInsertItem(HRemItem(l, i), member, new), done)

ZAddAt(l, i, member, score, type, flags) ==
  IF i >= l.count
  THEN IF "XX" \in flags THEN Result(l, LIST_NOT_FOUND)
       ELSE Added(ZInsertItem(l, member, score), HASH_UPDATED)
  ELSE IF "NX" \in flags THEN Result(l, HASH_EXISTS)
  ELSE SetScore(l, i, member, ScoreAt(l, i),
                Combine(IF "INCR" \in flags THEN "SUM" ELSE type, ScoreAt(l, i), score),
                IF "CH" \in flags THEN HASH_UPDATED ELSE LIST_OK)

\* zadd(): a member whose new score is out of order is removed and inserted
\* again, which may then not fit.
ZAddItem(l, member, score, type, flags) ==
  ZAddAt(l, FindMember(l, member), member, score, type, flags)

-----------------------------------------------------------------------------
Scores == 0..MaxScore
Types  == {"NONE", "SUM", "MIN", "MAX"}
Flags  == {{}, {"NX"}, {"XX"}, {"INCR"}, {"CH"}}

Init == /\ \E size \in Sizes : list = EmptyList(size[1], size[2], Fill)
        /\ ret = Status(LIST_OK)
        /\ merge = NoMerge

\* No sum goes above MaxScore.
Bounded(l) == \A i \in 1..(l.count - 1) : ScoreAt(l, i) <= MaxScore

Answer(r) == Bounded(r.list) /\ Reply(r.list, r.status)

ZAdd(member, score, flags) ==
  Ready /\ Answer(ZAddItem(list, member, score, "NONE", flags))

ZGet(member) ==
  LET i == FindMember(list, member)
  IN  /\ Ready
      /\ IF i < list.count THEN ReplyValue(LIST_OK, <<ScoreAt(list, i)>>)
         ELSE ReplyValue(LIST_NOT_FOUND, <<>>)

\* Callers count from 1; item 0 is the map.
ZIndex(n) ==
  /\ Ready
  /\ IF n < list.count
     THEN ReplyValue(LIST_OK, <<MemberAt(list, n), ScoreAt(list, n)>>)
     ELSE ReplyValue(LIST_NOT_FOUND, <<>>)

ZBSearch(score, gt) ==
  /\ Ready
  /\ IF list.count <= 1 THEN ReplyValue(LIST_NOT_FOUND, <<1>>)
     ELSE ReplyValue(LIST_OK, <<RangePos(list, score, 1, list.count - 1, gt)>>)

ZRem(member) ==
  LET i == FindMember(list, member)
  IN  /\ Ready
      /\ IF i < list.count THEN Reply(HRemItem(list, i), LIST_OK)
         ELSE Reply(list, LIST_NOT_FOUND)

ZRemIndex(n) ==
  /\ Ready
  /\ IF n < list.count THEN Reply(HRemItem(list, n), LIST_OK)
     ELSE Reply(list, LIST_NOT_FOUND)

ZRemAll == Ready /\ Reply(HRemAllItems(list), LIST_OK)

\* ListData::copy() into another allocation.
Copy(size) == /\ list.count < size[1]
              /\ list.data_len < size[2]
              /\ Reply(CopyList(list, size[1], size[2], Fill), LIST_OK)

-----------------------------------------------------------------------------
(* Merging. *)

Advance(r, i) ==
  [list |-> r.list, j |-> IF r.status = LIST_FULL THEN i ELSE i + 1,
   status |-> IF r.status = LIST_FULL THEN LIST_FULL ELSE LIST_OK]

\* The loop over the items of x from j on, up to one that does not fit.
MergeLoop(x, l, j, Step(_, _)) ==
  FoldLeft(LAMBDA acc, i : IF acc.status = LIST_FULL THEN acc
                           ELSE Advance(Step(acc.list, i), i),
           [list |-> l, j |-> j, status |-> LIST_OK],
           [k \in 1..(MapLen(x) - j) |-> j + k - 1])

UnionFrom(x, ctx) ==
  MergeLoop(x, list, ctx.j,
            LAMBDA l, i : IF MapByte(x, i) \in ctx.bits
                          THEN ZAddItem(l, MemberAt(x, i), ScoreAt(x, i), ctx.type, {})
                          ELSE ZInsertItem(l, MemberAt(x, i), ScoreAt(x, i)))

EndUnion(ctx, r) ==
  /\ Bounded(r.list)
  /\ list' = r.list
  /\ ret' = Status(r.status)
  /\ merge' = IF r.status = LIST_FULL THEN [ctx EXCEPT !.j = r.j] ELSE NoMerge

ContinueUnion(x, ctx) == EndUnion(ctx, UnionFrom(x, ctx))

\* zunion(): what is not in the filter of its start is inserted, the rest is
\* added to what there may be.
ZUnion(x, type) ==
  \/ /\ Ready
     /\ IF x.count <= 1 THEN Reply(list, LIST_OK)
        ELSE ContinueUnion(x, [x |-> x, j |-> 1, bits |-> HashBits(list), type |-> type])
  \/ /\ ~ Ready
     /\ merge.x = x /\ merge.type = type
     /\ ContinueUnion(x, merge)

ZInterItems(l, x, is_intersect) ==
  InterBy(l, x, is_intersect, LAMBDA i : FindMember(x, MemberAt(l, i)) < x.count)

AddScores(x, kept, bits, type) ==
  MergeLoop(x, kept, 1,
            LAMBDA l, i : IF MapByte(x, i) \notin bits THEN Result(l, LIST_OK)
                          ELSE ZAddItem(l, MemberAt(x, i), ScoreAt(x, i), type, {"XX"}))

\* zinter(): items are removed, then the scores of x are added to the rest.
\* Nothing is kept for a second call.
ZInter(x, type, is_intersect) ==
  /\ Ready
  /\ \E kept \in {ZInterItems(list, x, is_intersect)} :
       IF x.count <= 1 \/ list.count <= 1 \/ type = "NONE" THEN Reply(kept, LIST_OK)
       ELSE Answer(AddScores(x, kept, HashBits(kept), type))

Next ==
  \/ \E member \in Members :
       \/ \E score \in Scores, flags \in Flags : ZAdd(member, score, flags)
       \/ ZGet(member)
       \/ ZRem(member)
  \/ \E n \in 1..list.count : ZIndex(n) \/ ZRemIndex(n)
  \/ \E score \in Scores, gt \in BOOLEAN : ZBSearch(score, gt)
  \/ ZRemAll
  \/ \E size \in Sizes : Copy(size)
  \/ \E x \in Others, type \in Types :
       \/ ZUnion(x, type)
       \/ \E is_intersect \in BOOLEAN : ZInter(x, type, is_intersect)

Spec == Init /\ [][Next]_vars

-----------------------------------------------------------------------------
(* Properties. *)

Items == 1..(list.count - 1)
Held == {MemberAt(list, i) : i \in Items}

\* zverify() returns 0 except where hverify() does (Accounted): the map has the
\* byte of each member at the member's position, also after an insertion in the
\* middle.
ZVerify ==
  /\ Tallied(list) <=> Accounted(list)
  /\ list.count > 1 =>
       /\ list.count <= MapSize(list)
       /\ \A i \in Items : /\ MemberAt(list, i) \in Members
                           /\ ScoreAt(list, i) \in Scores
                           /\ MapByte(list, i) = Hash[MemberAt(list, i)]

\* "insert in score + lexical sorted order": what every search relies on holds
\* after each operation, and no member is there twice.
Sorted ==
  \A i, k \in Items : i < k =>
    \/ ScoreAt(list, i) < ScoreAt(list, k)
    \/ ScoreAt(list, i) = ScoreAt(list, k)
         /\ KeyBefore(MemberAt(list, i), MemberAt(list, k))

\* Callers see a map from members to scores, and the ranks that go with it.
Abstract == INSTANCE ZSetSpec WITH
          Others <- {[n \in 1..(Larger(x.count, 1) - 1) |-> <<MemberAt(x, n), ScoreAt(x, n)>>] :
                       x \in Others},
          scores <- [m \in Held |-> ScoreAt(list, CHOOSE i \in Items : MemberAt(list, i) = m)],
          todo <- IF Ready THEN <<>>
                  ELSE [k \in 1..(merge.x.count - merge.j) |->
                          LET i == merge.j + k - 1
                          IN  <<MemberAt(merge.x, i), ScoreAt(merge.x, i)>>],
          type <- merge.type
ImplementsZSet == Abstract!Spec
=============================================================================
