------------------------------- MODULE ListOps -------------------------------
(***************************************************************************)
(* The memory layout of raimd's flat list, template ListStorage of         *)
(* include/raimd/md_list.h, byte for byte.                                 *)
(*                                                                         *)
(* A list is one allocation with two rings.  idx[] is a ring of            *)
(* index_size offsets; the count+1 slots from `first' on are live: slot n  *)
(* holds the offset at which item n begins and the last one the offset at  *)
(* which the last item ends.  blob[] is a ring of data_size bytes; an item *)
(* lies between two consecutive offsets and may wrap around the end.       *)
(* index_size and data_size are powers of two and the code masks where the *)
(* operators below use %.                                                  *)
(*                                                                         *)
(* An operator takes a list record and returns the new one, so that the    *)
(* handlers, which are several memmoves and index loops long, compose.     *)
(*                                                                         *)
(* Slip_X is operator X with a slip in it.  No operator uses the slips:    *)
(* they stand in for X to show that the properties notice.                 *)
(* data_start is left out: the code writes it and never reads it.          *)
(***************************************************************************)
EXTENDS Integers, Sequences

CONSTANT Byte     \* the values a byte of blob[] may have

LIST_OK        == "LIST_OK"
LIST_NOT_FOUND == "LIST_NOT_FOUND"
LIST_FULL      == "LIST_FULL"

ListStatus == {LIST_OK, LIST_NOT_FOUND, LIST_FULL}

-----------------------------------------------------------------------------
(* Offsets. *)

\* index_ref(): the slot of idx[] that holds the nth live offset.
IndexRef(l, n) == (l.first + n) % l.index_size

\* ListHeader::data_offset(): start plus len, wrapped.
DataOffset(l, start, len) == (start + len) % l.data_size

\* get_offset( n ): where item n starts.
StartOf(l, n) == l.idx[IndexRef(l, n)]

\* get_offset( n, true ): where item n-1 ends.  An offset 0 that is not also
\* the start of that item means the end of the buffer.
EndOf(l, n) ==
  LET i == IndexRef(l, n)
  IN  IF \/ l.idx[i] # 0
         \/ i = l.first
         \/ l.idx[(i - 1) % l.index_size] = 0
      THEN l.idx[i]
      ELSE l.data_size

\* The bytes from start to end, going around the ring when end is before start.
Span(l, start, end) ==
  IF end >= start THEN end - start ELSE (l.data_size - start) + end

GetSize(l, n) == Span(l, StartOf(l, n), EndOf(l, n + 1))

Slip_DataFull(l, size) == size + l.data_len > l.data_size

\* data_full() and full(): one byte and one index slot always stay unused.
DataFull(l, size) == size + l.data_len > l.data_size - 1
Full(l, size) == l.count >= l.index_size - 1 \/ DataFull(l, size)

-----------------------------------------------------------------------------
(* Bytes. *)

\* ListHeader::copy(), lindex(): size bytes from start on, as one sequence.
ReadBytes(l, start, size) ==
  [k \in 1..size |-> l.blob[DataOffset(l, start, k - 1)]]

Item(l, n) == ReadBytes(l, StartOf(l, n), GetSize(l, n))

\* ListHeader::equals(): whether mem is stored from start on.  When the bytes
\* wrap around the end, the code takes memcmp() of the second part, which is
\* 0 if it is equal, for the answer.
Equals(l, start, mem) ==
  LET part == l.data_size - start
      size == Len(mem)
  IN  IF start + size <= l.data_size THEN ReadBytes(l, start, size) = mem
      ELSE /\ ReadBytes(l, start, part) = SubSeq(mem, 1, part)
           /\ ReadBytes(l, 0, size - part) # SubSeq(mem, part + 1, size)

\* copy_into(), ListHeader::copy2(): data from start on, split at the end.
CopyInto(l, data, start) ==
  [l EXCEPT !.blob =
     [p \in DOMAIN l.blob |->
        LET k == (p - start) % l.data_size
        IN  IF k < Len(data) THEN data[k + 1] ELSE l.blob[p]]]

\* ::memmove() of size bytes of src to offset dest of blob.
MemMove(blob, dest, src, from, size) ==
  [p \in DOMAIN blob |->
     IF dest <= p /\ p < dest + size THEN src[from + (p - dest)] ELSE blob[p]]

\* copy_move(): the source is contiguous, the destination may be split; the
\* source is saved first when the split cuts into it.
CopyMove(l, source, size, dest) ==
  IF dest + size <= l.data_size
  THEN [l EXCEPT !.blob = MemMove(@, dest, @, source, size)]
  ELSE LET len   == l.data_size - dest
           upper == MemMove(l.blob, dest, l.blob, source, len)
           from  == IF dest >= source \/ (size - len) > source + size
                    THEN l.blob ELSE upper
       IN  [l EXCEPT !.blob =
              MemMove(upper, 0, from, source + len, size - len)]

-----------------------------------------------------------------------------
(* Growing and shrinking in the middle.  amt is the change of item n's size *)
(* (insert: the size of the new item after n).                              *)

Slip_MoveTail(l, n, amt) == \* the two pieces moved in the wrong order
  LET start     == StartOf(l, n + 1)
      end       == EndOf(l, l.count)
      new_start == DataOffset(l, start, amt)
      len       == l.data_size - start
  IN  IF n = l.count - 1 THEN l
      ELSE IF start <= end THEN CopyMove(l, start, end - start, new_start)
      ELSE IF amt > 0
           THEN CopyMove(CopyMove(l, start, len, new_start), 0, end, amt)
           ELSE CopyMove(CopyMove(l, start, len, new_start),
                         0, end, new_start + len)

\* move_tail(): moves what follows item n by amt.
MoveTail(l, n, amt) ==
  LET start     == StartOf(l, n + 1)
      end       == EndOf(l, l.count)
      new_start == DataOffset(l, start, amt)
      len       == l.data_size - start
  IN  IF n = l.count - 1 THEN l
      ELSE IF start <= end THEN CopyMove(l, start, end - start, new_start)
      ELSE IF amt > 0
           THEN CopyMove(CopyMove(l, 0, end, amt), start, len, new_start)
           ELSE CopyMove(CopyMove(l, start, len, new_start),
                         0, end, new_start + len)

\* adjust_tail(): the offsets after item n follow.
AdjustTail(l, n, amt) ==
  [l EXCEPT !.idx =
     [i \in DOMAIN l.idx |->
        LET k == (i - l.first) % l.index_size
        IN  IF n + 1 <= k /\ k <= l.count
            THEN DataOffset(l, l.idx[i], amt) ELSE l.idx[i]]]

\* move_head(): moves what precedes item n by -amt.
MoveHead(l, n, amt) ==
  LET start     == StartOf(l, 0)
      end       == EndOf(l, n)
      new_start == DataOffset(l, start, -amt)
      len       == l.data_size - start
  IN  IF n = 0 THEN l
      ELSE IF start <= end THEN CopyMove(l, start, end - start, new_start)
      ELSE IF amt < 0
           THEN CopyMove(CopyMove(l, 0, end, -amt), start, len, new_start)
           ELSE CopyMove(CopyMove(l, start, len, new_start),
                         0, end, new_start + len)

\* adjust_head(): the offsets up to item n follow.
AdjustHead(l, n, amt) ==
  [l EXCEPT !.idx =
     [i \in DOMAIN l.idx |->
        IF (i - l.first) % l.index_size <= n
        THEN DataOffset(l, l.idx[i], -amt) ELSE l.idx[i]]]

-----------------------------------------------------------------------------
(* The operations that change the list, for arguments that fit.             *)

\* rpush_size() and rpush() once full() is false.
RPushItem(l, data) ==
  LET start == StartOf(l, l.count)
      end   == DataOffset(l, start, Len(data))
      grown == [l EXCEPT !.count = @ + 1,
                         !.idx[IndexRef(l, l.count + 1)] = end,
                         !.data_len = @ + Len(data)]
  IN  CopyInto(grown, data, start)

Slip_LPushItem(l, data) == \* the ring of offsets not wrapped
  LET start == DataOffset(l, StartOf(l, 0), -Len(data))
  IN  CopyInto([l EXCEPT !.first = @ - 1, !.count = @ + 1,
                         !.idx[l.first - 1] = start, !.data_len = @ + Len(data)],
               data, start)

\* lpush_size() and lpush() once full() is false.
LPushItem(l, data) ==
  LET start == DataOffset(l, StartOf(l, 0), -Len(data))
      first == (l.first - 1) % l.index_size
      grown == [l EXCEPT !.first = first,
                         !.count = @ + 1,
                         !.idx[first] = start,
                         !.data_len = @ + Len(data)]
  IN  CopyInto(grown, data, start)

\* insert_space() and insert() once full() is false: a new item after item n.
InsertItem(l, n, data) ==
  LET size  == Len(data)
      moved == AdjustTail(MoveTail(l, n, size), n, size)
      count == l.count + 1
      Old(k) == moved.idx[IndexRef(l, k)]
      shift == [moved EXCEPT
                  !.count = count,
                  !.idx = [i \in DOMAIN l.idx |->
                     LET k == (i - l.first) % l.index_size
                     IN  IF n + 2 <= k /\ k <= count THEN Old(k - 1)
                         ELSE moved.idx[i]]]
      start == DataOffset(l, shift.idx[IndexRef(l, n + 2)], -size)
      placed == [shift EXCEPT !.idx[IndexRef(l, n + 1)] = start,
                              !.data_len = @ + size]
  IN  CopyInto(placed, data, start)

\* trim_size(): data_len recomputed from the offsets.
TrimSize(l) ==
  [l EXCEPT !.data_len = Span(l, StartOf(l, 0), EndOf(l, l.count))]

\* ltrim() and rtrim(), n already limited to count.
LTrimItems(l, n) ==
  TrimSize([l EXCEPT !.count = @ - n, !.first = IndexRef(l, n)])
RTrimItems(l, n) == TrimSize([l EXCEPT !.count = @ - n])

\* lpop() and rpop() of a list that is not empty.
LPopItem(l) == [l EXCEPT !.first = IndexRef(l, 1),
                         !.count = @ - 1,
                         !.data_len = @ - GetSize(l, 0)]
Slip_RPopItem(l) == [l EXCEPT !.count = @ - 1]
RPopItem(l) == [l EXCEPT !.count = @ - 1,
                         !.data_len = @ - GetSize(l, l.count - 1)]

\* lrem(), n < count: both ends are cut off, an inner item is closed over.
LRemItem(l, n) ==
  LET size  == GetSize(l, n)
      moved == IF size > 0 THEN MoveTail(l, n, -size) ELSE l
      Old(k) == l.idx[IndexRef(l, k)]
  IN  IF n + 1 = l.count
      THEN [l EXCEPT !.count = @ - 1, !.data_len = @ - size]
      ELSE IF n = 0
      THEN [l EXCEPT !.first = IndexRef(l, 1), !.count = @ - 1,
                     !.data_len = @ - size]
      ELSE [moved EXCEPT
              !.idx = [i \in DOMAIN l.idx |->
                 LET k == (i - l.first) % l.index_size
                 IN  IF n + 1 <= k /\ k < l.count
                     THEN DataOffset(l, Old(k + 1), -size) ELSE l.idx[i]],
              !.count = @ - 1,
              !.data_len = @ - size]

\* lset(), n < count and room for the growth: the shorter side makes room.
LSetItem(l, n, data) ==
  LET amt   == Len(data) - GetSize(l, n)
      moved == IF amt = 0 THEN l
               ELSE IF n < l.count \div 2
               THEN AdjustHead(MoveHead(l, n, amt), n, amt)
               ELSE AdjustTail(MoveTail(l, n, amt), n, amt)
      sized == [moved EXCEPT !.data_len = @ + amt]
  IN  CopyInto(sized, data, StartOf(sized, n))

-----------------------------------------------------------------------------
(* init(), and copy() into a list that init() has prepared.                 *)

EmptyList(index_size, data_size, fill) ==
  [index_size |-> index_size, data_size |-> data_size,
   first |-> 0, count |-> 0, data_len |-> 0,
   idx  |-> [i \in 0..(index_size - 1) |-> 0],
   blob |-> [p \in 0..(data_size - 1) |-> fill]]

\* copy(): count and data_len are taken over, copy_data() makes the bytes
\* contiguous, and the offsets are rebuilt from the sizes.
Slip_Offset(l, n) == IF n = 0 THEN 0 ELSE EndOf(l, n) - StartOf(l, 0)

Offset(l, n) == \* the start of item n in the copy: the sizes before it
  IF n = 0 THEN 0
  ELSE LET start == StartOf(l, 0)
           end   == EndOf(l, n)
       IN  Span(l, start, end)

CopyList(l, index_size, data_size, fill) ==
  LET size == Span(l, StartOf(l, 0), EndOf(l, l.count))
  IN  [EmptyList(index_size, data_size, fill) EXCEPT
         !.count = l.count,
         !.data_len = l.data_len,
         !.blob = [p \in 0..(data_size - 1) |->
                     IF l.count > 0 /\ p < size
                     THEN l.blob[DataOffset(l, StartOf(l, 0), p)]
                     ELSE fill],
         !.idx = [i \in 0..(index_size - 1) |->
                     IF l.count > 0 /\ i <= l.count THEN Offset(l, i) ELSE 0]]

-----------------------------------------------------------------------------
(* What a list is, whatever was done to it. *)

\* The header fields, the offsets and the bytes are within their ranges.
WellFormed(l) ==
  /\ l \in [index_size : Nat, data_size : Nat,
            first : Nat, count : Nat, data_len : Nat,
            idx : [0..(l.index_size - 1) -> 0..(l.data_size - 1)],
            blob : [0..(l.data_size - 1) -> Byte]]
  /\ l.index_size > 1
  /\ l.data_size > 1
  /\ l.first < l.index_size

\* How far offset n is from the first one, going around the ring.
Distance(l, n) == (StartOf(l, n) - StartOf(l, 0)) % l.data_size

\* The offsets never run backwards around the ring and the last one is
\* data_len away from the first, with a byte and an index slot to spare.
Layout(l) ==
  /\ l.count < l.index_size
  /\ l.data_len < l.data_size
  /\ Distance(l, l.count) = l.data_len
  /\ \A m, n \in 0..l.count : m <= n => Distance(l, m) <= Distance(l, n)

\* The sum of the sizes, as lverify() adds them up.
SumOfSizes(l) ==
  LET total[n \in 0..l.count] == IF n = 0 THEN 0 ELSE total[n - 1] + GetSize(l, n - 1)
  IN  total[l.count]

\* lverify() returns 0.
LVerified(l) ==
  /\ l.count < l.index_size
  /\ \A n \in 0..(l.count - 1) :
        /\ StartOf(l, n) < l.data_size
        /\ EndOf(l, n + 1) <= l.data_size
        /\ GetSize(l, n) < l.data_size
  /\ SumOfSizes(l) = l.data_len
=============================================================================
