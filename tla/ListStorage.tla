----------------------------- MODULE ListStorage -----------------------------
(***************************************************************************)
(* raimd's flat list as its callers use it: one action for each operation  *)
(* of ListData (include/raimd/md_list.h) with its checks and its result,   *)
(* over the memory layout of ListOps.                                      *)
(***************************************************************************)
EXTENDS ListOps, FiniteSetsExt, SequencesExt

CONSTANTS Values,     \* the byte strings callers store
          Sizes,      \* the <<index_size, data_size>> pairs of allocations
          Fill        \* the byte that memory holds before it is written

ASSUME ListAssumption ==
  /\ Values \subseteq Seq(Byte)
  /\ Sizes \subseteq (Nat \ {0, 1}) \X (Nat \ {0, 1})
  /\ Fill \in Byte

VARIABLES list,       \* header fields, idx[] and blob[]
          ret         \* status, value and position of the last call

vars == <<list, ret>>

Ok        == [status |-> LIST_OK, val |-> <<>>, pos |-> 0]
OkVal(v)  == [Ok EXCEPT !.val = v]
OkPos(n)  == [Ok EXCEPT !.pos = n]
Failed(s) == [Ok EXCEPT !.status = s]

Reply(l, r) == list' = l /\ ret' = r

\* Calls pass positions up to one beyond the end.
Positions == 0..(list.count + 1)

-----------------------------------------------------------------------------
Init == /\ \E size \in Sizes : list = EmptyList(size[1], size[2], Fill)
        /\ ret = Ok

RPush(v) == IF Full(list, Len(v)) THEN Reply(list, Failed(LIST_FULL))
            ELSE Reply(RPushItem(list, v), Ok)

LPush(v) == IF Full(list, Len(v)) THEN Reply(list, Failed(LIST_FULL))
            ELSE Reply(LPushItem(list, v), Ok)

\* lindex() of item 0, respectively of item count-1, decides.
LPop == IF list.count = 0 THEN Reply(list, Failed(LIST_NOT_FOUND))
        ELSE Reply(LPopItem(list), OkVal(Item(list, 0)))

RPop == IF list.count = 0 THEN Reply(list, Failed(LIST_NOT_FOUND))
        ELSE Reply(RPopItem(list), OkVal(Item(list, list.count - 1)))

LIndex(n) == IF n >= list.count THEN Reply(list, Failed(LIST_NOT_FOUND))
             ELSE Reply(list, OkVal(Item(list, n)))

LSet(n, v) ==
  LET amt == Len(v) - GetSize(list, n)
  IN  IF n >= list.count THEN Reply(list, Failed(LIST_NOT_FOUND))
      ELSE IF amt > 0 /\ DataFull(list, amt)
      THEN Reply(list, Failed(LIST_FULL))
      ELSE Reply(LSetItem(list, n, v), Ok)

LRem(n) == IF n < list.count THEN Reply(LRemItem(list, n), Ok)
           ELSE Reply(list, Failed(LIST_NOT_FOUND))

LTrim(n) == Reply(LTrimItems(list, IF n > list.count THEN list.count ELSE n), Ok)
RTrim(n) == Reply(RTrimItems(list, IF n > list.count THEN list.count ELSE n), Ok)

\* The items that scan_fwd() and scan_rev() find equal to v.
Matches(v) == {n \in 0..(list.count - 1) :
                 GetSize(list, n) = Len(v) /\ Equals(list, StartOf(list, n), v)}

ScanFwd(v, pos) ==
  LET at == {n \in Matches(v) : n >= pos}
  IN  Reply(list, IF at = {} THEN Failed(LIST_NOT_FOUND) ELSE OkPos(Min(at)))

\* Callers start at most at count: scan_rev() steps down before it looks.
ScanRev(v, pos) ==
  LET at == {n \in Matches(v) : n < pos}
  IN  /\ pos <= list.count
      /\ Reply(list, IF at = {} THEN Failed(LIST_NOT_FOUND) ELSE OkPos(Max(at)))

\* linsert(): before the head is lpush(), everything else goes after an item.
LInsert(piv, v, after) ==
  LET n  == Min(Matches(piv))
  IN  IF Matches(piv) = {} THEN Reply(list, Failed(LIST_NOT_FOUND))
      ELSE IF Full(list, Len(v)) THEN Reply(list, Failed(LIST_FULL))
      ELSE IF after THEN Reply(InsertItem(list, n, v), Ok)
      ELSE IF n = 0 THEN Reply(LPushItem(list, v), Ok)
      ELSE Reply(InsertItem(list, n - 1, v), Ok)

\* copy() into a fresh allocation, which its caller sizes to hold the list.
Copy(size) ==
  /\ list.count < size[1]
  /\ list.data_len < size[2]
  /\ Reply(CopyList(list, size[1], size[2], Fill), Ok)

Next ==
  \/ \E v \in Values : RPush(v)
  \/ \E v \in Values : LPush(v)
  \/ LPop
  \/ RPop
  \/ \E n \in Positions : LIndex(n)
  \/ \E n \in Positions, v \in Values : LSet(n, v)
  \/ \E n \in Positions : LRem(n)
  \/ \E n \in Positions : LTrim(n)
  \/ \E n \in Positions : RTrim(n)
  \/ \E v \in Values, pos \in Positions : ScanFwd(v, pos)
  \/ \E v \in Values, pos \in Positions : ScanRev(v, pos)
  \/ \E piv, v \in Values, after \in BOOLEAN : LInsert(piv, v, after)
  \/ \E size \in Sizes : Copy(size)

Spec == Init /\ [][Next]_vars

-----------------------------------------------------------------------------
(* Properties. *)

\* No operation writes outside of idx[] and blob[].
TypeOK == WellFormed(list) /\ ret.status \in ListStatus

\* lverify() returns 0: every item lies inside of the buffer, and data_len,
\* which decides LIST_FULL, is the sum of what the offsets delimit.
LVerify == LVerified(list)

\* The offsets never run backwards around the ring and the last one is
\* data_len away from the first, with a byte and an index slot to spare: what
\* full() and data_full() test is what is really left.
LayoutInv == Layout(list)

\* copy() adds up the sizes item by item; Offset(), which measures the
\* distance from the head, is that sum.
CopyOffsets ==
  /\ Offset(list, 0) = 0
  /\ \A n \in 0..(list.count - 1) :
        Offset(list, n + 1) = Offset(list, n) + GetSize(list, n)

\* Whatever the handlers do to the rings, callers see a list of byte strings
\* with the two limits of ListSpec, and the results that go with it.
Contents == [n \in 1..list.count |-> Item(list, n - 1)]
Torn == {n \in 1..list.count :
           StartOf(list, n - 1) + GetSize(list, n - 1) > list.data_size}
Abs == INSTANCE ListSpec WITH
         items <- Contents, cap <- <<list.index_size, list.data_size>>,
         torn <- Torn
ImplementsList == Abs!Spec

\* equals() is to "compare mem with blob region": a search finds the items
\* that hold the bytes looked for, wherever they lie in the ring.
SearchExact ==
  \A v \in Values : Matches(v) = {n \in 0..(list.count - 1) : Item(list, n) = v}

=============================================================================
