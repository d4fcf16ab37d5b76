----------------------------- MODULE SetStorage -----------------------------
(***************************************************************************)
(* raimd's set, SetData of include/raimd/md_set.h: a hash whose items are  *)
(* the members themselves.                                                 *)
(***************************************************************************)
EXTENDS HashOps, SequencesExt

CONSTANTS Members,    \* the members callers use, strings of Byte, not empty
          Sizes,      \* the <<index_size, data_size>> pairs of allocations
          Others,     \* the sets to merge with, lists like the one here
          Fill        \* the byte that memory holds before it is written

VARIABLES list,       \* the set
          ret,        \* the status of the last call
          merge       \* the MergeCtx of a union that has not fitted yet

vars == <<list, ret, merge>>

NoMerge == [x |-> <<>>, j |-> 0, bits |-> {}]

Reply(l, s) == list' = l /\ ret' = s /\ UNCHANGED merge

\* A caller does not leave a union half done.
Ready == merge.j = 0

-----------------------------------------------------------------------------
MatchMember(l, member, i) ==
  GetSize(l, i) = Len(member) /\ Equals(l, StartOf(l, i), member)

Slip_FindMember(l, member) == \* the first item with the byte only
  LET at == Chain(l, Hash[member])
  IN  IF l.count > 0 /\ at # {} /\ MatchMember(l, member, Min(at)) THEN Min(at) ELSE l.count

\* sismember()
FindMember(l, member) ==
  LocateBy(l, Hash[member], LAMBDA i : MatchMember(l, member, i))

\* sappend()
SAppendItem(l, member) == AppendItem(l, Hash[member], member, HASH_UPDATED)

SAddItem(l, member) ==
  IF FindMember(l, member) < l.count THEN Result(l, LIST_OK)
  ELSE SAppendItem(l, member)

-----------------------------------------------------------------------------
Init == /\ \E size \in Sizes : list = EmptyList(size[1], size[2], Fill)
        /\ ret = LIST_OK
        /\ merge = NoMerge

SAdd(member) ==
  LET r == SAddItem(list, member) IN Ready /\ Reply(r.list, r.status)

SIsMember(member) ==
  /\ Ready
  /\ Reply(list, IF FindMember(list, member) < list.count THEN LIST_OK
                 ELSE LIST_NOT_FOUND)

SRem(member) ==
  LET i == FindMember(list, member)
  IN  /\ Ready
      /\ IF i < list.count THEN Reply(HRemItem(list, i), LIST_OK)
         ELSE Reply(list, LIST_NOT_FOUND)

\* spopn() of an item, which the caller picks from 1 on.
SPopN(n) ==
  /\ Ready
  /\ IF n < list.count THEN Reply(HRemItem(list, n), LIST_OK)
     ELSE Reply(list, LIST_NOT_FOUND)

SPopAll == Ready /\ Reply(HRemAllItems(list), LIST_OK)

\* ListData::copy() into another allocation.
Copy(size) == /\ list.count < size[1]
              /\ list.data_len < size[2]
              /\ Reply(CopyList(list, size[1], size[2], Fill), LIST_OK)

-----------------------------------------------------------------------------
(* Merging. *)

InX(x, i) == FindMember(x, Item(list, i)) < x.count

SInter(x) ==
  Ready /\ Reply(InterBy(list, x, TRUE, LAMBDA i : InX(x, i)), LIST_OK)
SDiff(x) ==
  Ready /\ Reply(InterBy(list, x, FALSE, LAMBDA i : InX(x, i)), LIST_OK)

Slip_UnionStep(ctx, acc, i) == \* a byte not in the filter of the start: appended
  LET x == ctx.x
      r == IF MapByte(x, i) \in ctx.bits THEN Result(acc.list, LIST_OK)
           ELSE SAppendItem(acc.list, Item(x, i))
  IN  IF acc.status = LIST_FULL \/ i < ctx.j THEN acc
      ELSE IF r.status = LIST_FULL THEN [list |-> r.list, j |-> i, status |-> LIST_FULL]
      ELSE [list |-> r.list, j |-> i + 1, status |-> LIST_OK]

\* The body of the loop of sunion() for item i of x: what is not in the filter
\* is appended, what may be there is searched for.
UnionStep(ctx, acc, i) ==
  LET x == ctx.x
      r == IF MapByte(x, i) \in ctx.bits THEN SAddItem(acc.list, Item(x, i))
           ELSE SAppendItem(acc.list, Item(x, i))
  IN  IF acc.status = LIST_FULL \/ i < ctx.j THEN acc
      ELSE IF r.status = LIST_FULL THEN [list |-> r.list, j |-> i, status |-> LIST_FULL]
      ELSE [list |-> r.list, j |-> i + 1, status |-> LIST_OK]

\* sunion(): a MergeCtx that has started goes on where it stopped.
SUnion(x) ==
  LET ctx == IF Ready THEN [x |-> x, j |-> 1, bits |-> HashBits(list)] ELSE merge
      r   == FoldLeft(LAMBDA acc, i : UnionStep(ctx, acc, i),
                      [list |-> list, j |-> ctx.j, status |-> LIST_OK],
                      [k \in 1..(MapLen(x) - 1) |-> k])
  IN  /\ Ready \/ merge.x = x
      /\ IF x.count <= 1 THEN Reply(list, LIST_OK)
         ELSE /\ list' = r.list
              /\ ret' = r.status
              /\ merge' = IF r.status = LIST_FULL THEN [ctx EXCEPT !.j = r.j]
                          ELSE NoMerge

Next ==
  \/ \E member \in Members : SAdd(member) \/ SIsMember(member) \/ SRem(member)
  \/ \E n \in 1..list.count : SPopN(n)
  \/ SPopAll
  \/ \E size \in Sizes : Copy(size)
  \/ \E x \in Others : SUnion(x) \/ SInter(x) \/ SDiff(x)

Spec == Init /\ [][Next]_vars

-----------------------------------------------------------------------------
(* Properties. *)

Items == 1..(list.count - 1)

\* sverify() returns 0 except where hverify() does (Accounted): the map has the
\* byte of each member at the member's position.
SVerify ==
  /\ Tallied(list) <=> Accounted(list)
  /\ list.count > 1 =>
       /\ list.count <= MapSize(list)
       /\ \A i \in Items : /\ Item(list, i) \in Members
                           /\ MapByte(list, i) = Hash[Item(list, i)]

\* A member is stored once, although a union appends without a search what its
\* filter says is new, and may be resumed with the filter of its start.
Distinct == \A i, k \in Items : Item(list, i) = Item(list, k) => i = k

-----------------------------------------------------------------------------
(* What callers are promised: a set.  Any addition may be refused; a union     *)
(* that was refused is resumed until it fits.                                  *)

MembersOf(l) == {Item(l, i) : i \in 1..(l.count - 1)}
ASet == MembersOf(list)

\* What a union that was refused has left to add.
ATodo == IF Ready THEN {} ELSE {Item(merge.x, i) : i \in merge.j..(merge.x.count - 1)}
avars == <<ASet, ATodo, ret>>

AReply(s, status) == ASet' = s /\ ret' = status /\ UNCHANGED ATodo

AAdd(m) == IF m \in ASet THEN AReply(ASet, LIST_OK)
           ELSE AReply(ASet \cup {m}, HASH_UPDATED) \/ AReply(ASet, LIST_FULL)

AContains(m) == AReply(ASet, IF m \in ASet THEN LIST_OK ELSE LIST_NOT_FOUND)

ARemove(m) == AReply(ASet \ {m}, IF m \in ASet THEN LIST_OK ELSE LIST_NOT_FOUND)

APop == \/ \E m \in ASet : AReply(ASet \ {m}, LIST_OK)
        \/ AReply(ASet, LIST_NOT_FOUND)

AUnite(s) ==
  \/ ASet' = ASet \cup s /\ ret' = LIST_OK /\ ATodo' = {}
  \/ \E left \in SUBSET s \ {{}} :   \* all of s is added, but for left
       ASet' = ASet \cup (s \ left) /\ ret' = LIST_FULL /\ ATodo' = left

ANext ==
  \/ /\ ATodo = {}
     /\ \/ \E m \in Members : AAdd(m) \/ AContains(m) \/ ARemove(m)
        \/ APop
        \/ AReply({}, LIST_OK)
        \/ \E s \in {MembersOf(x) : x \in Others} : \/ AUnite(s)
                                                    \/ AReply(ASet \cap s, LIST_OK)
                                                    \/ AReply(ASet \ s, LIST_OK)
  \/ ATodo # {} /\ AUnite(ATodo)
  \/ AReply(ASet, LIST_OK)   \* a larger allocation

AInit == ASet = {} /\ ATodo = {} /\ ret = LIST_OK

\* Callers see a set; a union that is resumed until it fits adds every member
\* of the other, although a filter of hash bytes decides what is looked for.
ImplementsSet == AInit /\ [][ANext]_avars
=============================================================================
