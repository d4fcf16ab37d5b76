------------------------------ MODULE ListSpec ------------------------------
(***************************************************************************)
(* What ListData of include/raimd/md_list.h promises its callers: a list   *)
(* of byte strings that holds fewer than index_size items and fewer than   *)
(* data_size bytes, and says LIST_FULL instead of taking more.  Searches   *)
(* are exact but for the items that memory holds in two pieces (torn),     *)
(* which may be missed or mistaken.                                        *)
(***************************************************************************)
EXTENDS Integers, Sequences, SequencesExt

CONSTANTS Values,     \* the byte strings callers store
          Sizes       \* the <<index_size, data_size>> pairs of allocations

VARIABLES items,      \* the stored byte strings, head first
          cap,        \* <<index_size, data_size>> of the current allocation
          torn,       \* the items (1 is the head) stored in two pieces
          ret         \* status, value and position of the last call

vars == <<items, cap, torn, ret>>

Total(s) ==
  LET sum[n \in 0..Len(s)] == IF n = 0 THEN 0 ELSE sum[n - 1] + Len(s[n])
  IN  sum[Len(s)]

Room(size) == Total(items) + size <= cap[2] - 1
HasRoom(size) == Len(items) < cap[1] - 1 /\ Room(size)

Ok        == [status |-> "LIST_OK", val |-> <<>>, pos |-> 0]
OkVal(v)  == [Ok EXCEPT !.val = v]
OkPos(n)  == [Ok EXCEPT !.pos = n]
Failed(s) == [Ok EXCEPT !.status = s]

\* Calls pass positions up to one beyond the end.
Positions == 0..(Len(items) + 1)

Stored(list) == items' = list /\ torn' \in SUBSET DOMAIN list
Reply(list, r) == Stored(list) /\ ret' = r /\ UNCHANGED cap

Init == /\ items = <<>>
        /\ cap \in Sizes
        /\ torn = {}
        /\ ret = Ok

\* Positions count from 0, as in the code; sequences from 1.
Push(v, side) ==
  IF HasRoom(Len(v))
  THEN Reply(IF side = "head" THEN <<v>> \o items ELSE Append(items, v), Ok)
  ELSE Reply(items, Failed("LIST_FULL"))

Pop(side) ==
  IF items = <<>> THEN Reply(items, Failed("LIST_NOT_FOUND"))
  ELSE IF side = "head" THEN Reply(Tail(items), OkVal(Head(items)))
  ELSE Reply(Front(items), OkVal(Last(items)))

Get(n) ==
  IF n < Len(items) THEN Reply(items, OkVal(items[n + 1]))
  ELSE Reply(items, Failed("LIST_NOT_FOUND"))

Set(n, v) ==
  IF n >= Len(items) THEN Reply(items, Failed("LIST_NOT_FOUND"))
  ELSE IF Len(v) > Len(items[n + 1]) /\ ~ Room(Len(v) - Len(items[n + 1]))
  THEN Reply(items, Failed("LIST_FULL"))
  ELSE Reply([items EXCEPT ![n + 1] = v], Ok)

Drop(n) ==
  IF n < Len(items) THEN Reply(RemoveAt(items, n + 1), Ok)
  ELSE Reply(items, Failed("LIST_NOT_FOUND"))

\* What a search for v may find: what is equal, and odd ones among the torn.
Found(v, odd) == {n \in DOMAIN items \ torn : items[n] = v} \cup odd
Odd(v) == SUBSET {n \in torn : Len(items[n]) = Len(v)}

\* Next to the first item equal to piv.
Insert(piv, v, after) == \E odd \in Odd(piv) :
  LET at == Found(piv, odd)
  IN  IF at = {} THEN Reply(items, Failed("LIST_NOT_FOUND"))
      ELSE IF ~ HasRoom(Len(v)) THEN Reply(items, Failed("LIST_FULL"))
      ELSE Reply(InsertAt(items, Min(at) + (IF after THEN 1 ELSE 0), v), Ok)

Trim(n, side) ==
  LET k == IF n > Len(items) THEN Len(items) ELSE n
  IN  Reply(IF side = "head" THEN SubSeq(items, k + 1, Len(items))
            ELSE SubSeq(items, 1, Len(items) - k), Ok)

\* The nearest equal item at or after pos, or before pos.
Scan(v, pos, forward) == \E odd \in Odd(v) :
  LET at == {n \in Found(v, odd) : IF forward THEN n > pos ELSE n <= pos}
  IN  Reply(items,
            IF at = {} THEN Failed("LIST_NOT_FOUND")
            ELSE OkPos((IF forward THEN Min(at) ELSE Max(at)) - 1))

\* A copy into another allocation that can hold what is stored.
Move(size) ==
  /\ Len(items) < size[1]
  /\ Total(items) < size[2]
  /\ cap' = size
  /\ ret' = Ok
  /\ Stored(items)

Next ==
  \/ \E v \in Values, side \in {"head", "tail"} : Push(v, side)
  \/ \E side \in {"head", "tail"} : Pop(side)
  \/ \E n \in Positions : Get(n) \/ Drop(n)
  \/ \E n \in Positions, v \in Values : Set(n, v)
  \/ \E piv, v \in Values, after \in BOOLEAN : Insert(piv, v, after)
  \/ \E n \in Positions, side \in {"head", "tail"} : Trim(n, side)
  \/ \E v \in Values, pos \in Positions, fwd \in BOOLEAN : Scan(v, pos, fwd)
  \/ \E size \in Sizes : Move(size)

Spec == Init /\ [][Next]_vars
=============================================================================
