----------------------------- MODULE HashStorage -----------------------------
(***************************************************************************)
(* raimd's hash table as its callers use it: one action for each operation *)
(* of HashData (include/raimd/md_hash.h) over the memory layout of         *)
(* HashOps, with another hash to merge with.                               *)
(***************************************************************************)
EXTENDS HashOps, SequencesExt

CONSTANTS Keys,       \* the keys callers use, strings of Byte, not empty
          Values,     \* the byte strings callers store
          Sizes,      \* the <<index_size, data_size>> pairs of allocations
          Others,     \* the hashes to merge with, lists like the one here
          Fill        \* the byte that memory holds before it is written

\* The loop of hverify(): the map has a byte for each item, each holds its key,
\* and the byte is that of the key.
Verified(l) ==
  l.count > 1 =>
    /\ l.count <= MapSize(l)
    /\ \A i \in 1..(l.count - 1) : /\ GetSize(l, i) > KeyLen(l, i)
                                  /\ KeyOf(l, i) \in Keys
                                  /\ MapByte(l, i) = Hash[KeyOf(l, i)]

\* A hash that operations on an empty one can have made.  Not all bytes that
\* data_len counts need lie between the offsets (see hremall() and hinter()).
IsHash(l) ==
  LET len == Distance(l, l.count)
  IN  /\ WellFormed(l)
      /\ Layout([l EXCEPT !.data_len = len])
      /\ len <= l.data_len /\ l.data_len < l.data_size
      /\ l.count > 0 /\ MapSize(l) > 0 => MapByte(l, 0) = 0
      /\ Verified(l)

ASSUME HashAssumption ==
  /\ Byte \subseteq Nat
  /\ Keys \subseteq Seq(Byte) \ {<<>>}
  /\ \A key \in Keys : Len(key) \in Byte
  /\ Values \subseteq Seq(Byte)
  /\ Hash \in [Keys -> Byte]
  /\ Sizes \subseteq (Nat \ {0, 1}) \X (Nat \ {0, 1})
  /\ Fill \in Byte /\ 0 \in Byte
  /\ MapAlign \in Nat \ {0}
  /\ \A x \in Others : IsHash(x)

VARIABLES list,       \* the hash
          ret,        \* status and value of the last call
          merge       \* the MergeCtx of a union that has not fitted yet

vars == <<list, ret, merge>>

NoMerge == [x |-> <<>>, j |-> 0, bits |-> {}]

Status(s) == [status |-> s, val |-> <<>>]

Reply(l, s) == list' = l /\ ret' = Status(s) /\ UNCHANGED merge
ReplyResult(r) == Reply(r.list, r.status)
ReplyValue(s, v) == ret' = [status |-> s, val |-> v] /\ UNCHANGED <<list, merge>>

\* A caller does not leave a union half done.
Ready == merge.j = 0

-----------------------------------------------------------------------------
Init == /\ \E size \in Sizes : list = EmptyList(size[1], size[2], Fill)
        /\ ret = Status(LIST_OK)
        /\ merge = NoMerge

HSet(key, val) == Ready /\ ReplyResult(HUpdate(list, Locate(list, key), key, val))

HSetNx(key, val) ==
  /\ Ready
  /\ IF Locate(list, key) < list.count THEN Reply(list, HASH_EXISTS)
     ELSE ReplyResult(HNew(list, key, val))

HAlloc(key, val)  == Ready /\ ReplyResult(HAllocate(list, key, val))
HAppend(key, val) == Ready /\ ReplyResult(HAppendValue(list, key, val))

HGet(key) ==
  LET i == Locate(list, key)
  IN  /\ Ready
      /\ IF i < list.count THEN ReplyValue(LIST_OK, ValueOf(list, i))
         ELSE ReplyValue(LIST_NOT_FOUND, <<>>)

HDel(key) ==
  LET i == Locate(list, key)
  IN  /\ Ready
      /\ IF i < list.count THEN Reply(HRemItem(list, i), LIST_OK)
         ELSE Reply(list, LIST_NOT_FOUND)

HRemAll == Ready /\ Reply(HRemAllItems(list), LIST_OK)

\* ListData::copy() into another allocation, when the hash is HASH_FULL.
Copy(size) ==
  /\ list.count < size[1]
  /\ list.data_len < size[2]
  /\ Reply(CopyList(list, size[1], size[2], Fill), LIST_OK)

-----------------------------------------------------------------------------
(* Merging. *)

HInter(x) == Ready /\ Reply(HInterItems(list, x, TRUE), LIST_OK)
HDiff(x)  == Ready /\ Reply(HInterItems(list, x, FALSE), LIST_OK)

\* The body of the loop of hunion() for item i of x: one whose byte is in bits is
\* taken to be there.
UnionStep(ctx, acc, i) ==
  LET x   == ctx.x
      l   == acc.list
      key == KeyOf(x, i)
      r   == IF Locate(l, key) < l.count THEN Result(l, HASH_EXISTS)
             ELSE HNew(l, key, ValueOf(x, i))
  IN  IF acc.status = LIST_FULL \/ i < ctx.j THEN acc
      ELSE IF MapByte(x, i) \in ctx.bits THEN [acc EXCEPT !.j = i + 1]
      ELSE IF r.status = LIST_FULL
      THEN [list |-> r.list, j |-> i, status |-> LIST_FULL]
      ELSE [list |-> r.list, j |-> i + 1, status |-> LIST_OK]

\* hunion(): the loop over the items of x, from item j on, up to one that does
\* not fit.
UnionLoop(ctx) ==
  LET len == MapLen(ctx.x)
      f[i \in 0..(len - 1)] ==  \* items 1 to i done
        IF i = 0 THEN [list |-> list, j |-> ctx.j, status |-> LIST_OK]
        ELSE UnionStep(ctx, f[i - 1], i)
  IN  f[len - 1]

\* A MergeCtx that has started goes on where it stopped, with the bits it had.
HUnion(x) ==
  LET ctx == IF Ready THEN [x |-> x, j |-> 1, bits |-> HashBits(list)] ELSE merge
      r   == UnionLoop(ctx)
  IN  /\ Ready \/ merge.x = x
      /\ IF x.count <= 1 THEN Reply(list, LIST_OK)
         ELSE /\ list' = r.list
              /\ ret' = Status(r.status)
              /\ merge' = IF r.status = LIST_FULL THEN [ctx EXCEPT !.j = r.j]
                          ELSE NoMerge

Next ==
  \/ \E key \in Keys, val \in Values :
        HSet(key, val) \/ HSetNx(key, val) \/ HAlloc(key, val) \/ HAppend(key, val)
  \/ \E key \in Keys : HGet(key) \/ HDel(key)
  \/ HRemAll
  \/ \E size \in Sizes : Copy(size)
  \/ \E x \in Others : HUnion(x) \/ HInter(x) \/ HDiff(x)

Spec == Init /\ [][Next]_vars

-----------------------------------------------------------------------------
(* Properties. *)

\* Offsets, header fields and bytes stay within the rings.
TypeOK ==
  /\ list.idx \in [0..(list.index_size - 1) -> 0..(list.data_size - 1)]
  /\ list.blob \in [0..(list.data_size - 1) -> Byte]
  /\ list.first \in 0..(list.index_size - 1)
  /\ list.count \in 0..(list.index_size - 1)
  /\ list.data_len \in 0..(list.data_size - 1)
  /\ ret.status \in HashStatus

\* hverify() of HashData, which is lverify() and then the map against the items,
\* returns 0 except after one of two things: hremall() or hinter() dropped items
\* and left their bytes in data_len (-17, for as long as the hash is used), or the
\* map has no room yet (-20).  The map and the items themselves always agree.
HVerify ==
  /\ Tallied(list) /\ Verified(list) <=> Accounted(list)
  /\ Verified(list)

\* The first byte of the map never passes for the length of a key: no search
\* takes the map for an item.
MapNoItem == \A key \in Keys : list.count > 0 => Locate(list, key) # 0

\* Whatever happens to the rings, callers see a dictionary that keeps the
\* order of first insertion, with the limits and the answers of DictSpec.
EntriesOf(l) == [n \in 1..(Larger(l.count, 1) - 1) |-> <<KeyOf(l, n), ValueOf(l, n)>>]
Entries == EntriesOf(list)
Pending ==
  LET x == merge.x
      Left == {i \in merge.j..(x.count - 1) : MapByte(x, i) \notin merge.bits}
  IN  IF Ready THEN <<>>
      ELSE [n \in 1..Cardinality(Left) |->
              LET i == CHOOSE i \in Left : Cardinality({k \in Left : k < i}) = n - 1
              IN  <<KeyOf(x, i), ValueOf(x, i)>>]
Dict == INSTANCE DictSpec WITH
          Others <- {EntriesOf(x) : x \in Others},
          entries <- Entries, pending <- Pending, lost <- LostBytes(list),
          map <- IF list.count = 0 THEN 0 ELSE MapSize(list),
          cap <- <<list.index_size, list.data_size>>
ImplementsDict == Dict!Spec

\* "me={a,b,c,d} | x={a,c,e} = me={a,b,c,d,e}": a union that returns HASH_OK
\* has every key of the other hash.
UnionComplete ==
  [][\A x \in Others : HUnion(x) /\ ret'.status = LIST_OK =>
        \A i \in 1..(x.count - 1) : Locate(list', KeyOf(x, i)) < list'.count]_vars
=============================================================================
