------------------------------- MODULE HashTab -------------------------------
(***************************************************************************)
(* The hash table of pointers of include/raimd/md_hash_tab.h, MDHashTabT,  *)
(* which src/md_hash_tab.cpp repeats for C: open addressing with linear    *)
(* probing and no tombstones.  A removal closes the gap it leaves by       *)
(* looking at the items behind it, one after the other; when the table is  *)
(* more than three quarters or less than a quarter full, its items are     *)
(* moved to another one.  The two loops are steps of their own here, since *)
(* what holds between their rounds is what makes them right; nothing else  *)
(* runs until they end.                                                    *)
(***************************************************************************)
EXTENDS Integers, FiniteSets

CONSTANTS Keys, Values,
          Hash,        \* hash() of each key
          InitSize,    \* the size of a new table, a power of two
          MaxSlots,    \* bounds its growth
          NIL          \* an empty slot

ASSUME HashIsNat == Hash \in [Keys -> Nat]
ASSUME InitIsSize == InitSize \in Nat \ {0}

VARIABLES tab,          \* from positions 0..tab_mask to values with their keys
          elem_count,
          pc,           \* the loop under way: "idle", "fill" or "resize"
          pos,          \* its position
          tmp,          \* resize(): the new table
          count,        \* and the items left to move
          ret           \* what the call returns

vars == <<tab, elem_count, pc, pos, tmp, count, ret>>

Item == [key : Keys, val : Values]

\* An empty slot is a null pointer, which no item has.
ASSUME NilIsNoItem == NIL \notin Item

-----------------------------------------------------------------------------
(* Tables. *)

NewTab(n) == [p \in 0..(n - 1) |-> NIL]
Size(t) == Cardinality(DOMAIN t)
Free(t) == {p \in DOMAIN t : t[p] = NIL}
Home(t, k) == Hash[k] % Size(t)

\* The position of ps that is met first from i on, around the end.
Met(t, i, ps) == CHOOSE p \in ps : \A q \in ps : (p - i) % Size(t) <= (q - i) % Size(t)

FirstFree(t, i) == Met(t, i, Free(t))

\* locate(): the item, or the slot where it goes.
Locate(t, k) ==
  Met(t, Home(t, k), Free(t) \cup {p \in DOMAIN t : t[p] # NIL /\ t[p].key = k})

ValueAt(t, p) == IF t[p] = NIL THEN NIL ELSE t[p].val

MaxSize(t) == Size(t) \div 2 + Size(t) \div 4
MinSize(t) == Size(t) \div 2 - Size(t) \div 4

-----------------------------------------------------------------------------
Init ==
  /\ tab = NewTab(InitSize)
  /\ elem_count = 0
  /\ pc = "idle" /\ pos = 0
  /\ tmp = <<>> /\ count = 0
  /\ ret = NIL

Rest == pc' = "idle" /\ pos' = 0 /\ tmp' = <<>> /\ count' = 0

\* resize() of n items.
StartResize(new_sz, n) ==
  /\ new_sz <= MaxSlots
  /\ pc' = "resize" /\ pos' = 0
  /\ tmp' = NewTab(new_sz)
  /\ count' = n

Find(k) ==
  /\ pc = "idle"
  /\ ret' = ValueAt(tab, Locate(tab, k))
  /\ UNCHANGED <<tab, elem_count, pc, pos, tmp, count>>

\* upsert(): locate() and insert().
Upsert(k, v) ==
  LET p == Locate(tab, k)
  IN  /\ pc = "idle"
      /\ tab' = [tab EXCEPT ![p] = [key |-> k, val |-> v]]
      /\ ret' = ValueAt(tab, p)
      /\ IF tab[p] # NIL THEN elem_count' = elem_count /\ Rest
         ELSE /\ elem_count' = elem_count + 1
              /\ IF elem_count + 1 > MaxSize(tab)
                 THEN StartResize(Size(tab) * 2, elem_count + 1)
                 ELSE Rest

\* remove(): the gap is filled before the count goes down.
Remove(k) ==
  LET p == Locate(tab, k)
  IN  /\ pc = "idle"
      /\ ret' = ValueAt(tab, p)
      /\ IF tab[p] = NIL THEN UNCHANGED <<tab, elem_count, pc, pos, tmp, count>>
         ELSE /\ tab' = [tab EXCEPT ![p] = NIL]
              /\ pc' = "fill" /\ pos' = p
              /\ UNCHANGED <<elem_count, tmp, count>>

\* remove_slot() when fill_empty_hole() is done.
EndRemove ==
  /\ elem_count' = elem_count - 1
  /\ IF elem_count - 1 < MinSize(tab) /\ Size(tab) > 4
     THEN StartResize(Size(tab) \div 2, elem_count - 1)
     ELSE Rest
  /\ UNCHANGED <<tab, ret>>

\* An item is taken out and put where a search for it ends.
Reseat(p) ==
  LET out == [tab EXCEPT ![p] = NIL]
  IN  [out EXCEPT ![FirstFree(out, Home(tab, tab[p].key))] = tab[p]]

SlipA_FillStep == \* ends at an item that is where it belongs
  LET next == (pos + 1) % Size(tab)
  IN  /\ pc = "fill"
      /\ IF tab[next] = NIL \/ next = Home(tab, tab[next].key) THEN EndRemove
         ELSE /\ pos' = next
              /\ tab' = Reseat(next)
              /\ UNCHANGED <<elem_count, pc, tmp, count, ret>>

SlipB_FillStep == \* the position kept when the item stays
  LET next == (pos + 1) % Size(tab)
  IN  /\ pc = "fill"
      /\ IF tab[next] = NIL THEN EndRemove
         ELSE /\ pos' = IF next = Home(tab, tab[next].key) THEN pos ELSE next
              /\ tab' = IF next = Home(tab, tab[next].key) THEN tab ELSE Reseat(next)
              /\ UNCHANGED <<elem_count, pc, tmp, count, ret>>

\* A round of fill_empty_hole(): it ends at the next empty slot.
FillStep ==
  LET next == (pos + 1) % Size(tab)
  IN  /\ pc = "fill"
      /\ IF tab[next] = NIL THEN EndRemove
         ELSE /\ pos' = next
              /\ tab' = IF next = Home(tab, tab[next].key) THEN tab ELSE Reseat(next)
              /\ UNCHANGED <<elem_count, pc, tmp, count, ret>>

Slip_ResizeStep == \* put at its home even if that is taken
  /\ pc = "resize"
  /\ IF count = 0 THEN tab' = tmp /\ Rest
     ELSE /\ pos' = pos + 1
          /\ IF tab[pos] = NIL THEN UNCHANGED <<tmp, count>>
             ELSE /\ tmp' = [tmp EXCEPT ![Home(tmp, tab[pos].key)] = tab[pos]]
                  /\ count' = count - 1
          /\ UNCHANGED <<tab, pc>>
  /\ UNCHANGED <<elem_count, ret>>

\* A round of resize(): it ends when count items are moved.
ResizeStep ==
  /\ pc = "resize"
  /\ IF count = 0 THEN tab' = tmp /\ Rest
     ELSE /\ pos' = pos + 1
          /\ IF tab[pos] = NIL THEN UNCHANGED <<tmp, count>>
             ELSE /\ tmp' = [tmp EXCEPT ![FirstFree(tmp, Home(tmp, tab[pos].key))] = tab[pos]]
                  /\ count' = count - 1
          /\ UNCHANGED <<tab, pc>>
  /\ UNCHANGED <<elem_count, ret>>

Loop == FillStep \/ ResizeStep

Next ==
  \/ \E k \in Keys : Find(k) \/ Remove(k) \/ \E v \in Values : Upsert(k, v)
  \/ Loop

Spec == Init /\ [][Next]_vars /\ WF_vars(Loop)

-----------------------------------------------------------------------------
(* Properties. *)

Used(t) == DOMAIN t \ Free(t)

\* The count is that of the items, also while a removed one is still counted,
\* and the items that are left to move are in the slots not looked at.
Counted ==
  /\ Cardinality(Used(tab)) = elem_count - (IF pc = "fill" THEN 1 ELSE 0)
  /\ pc = "resize" =>
       /\ count = Cardinality({p \in Used(tab) : p >= pos})
       /\ Cardinality(Used(tmp)) + count = elem_count

\* Every search ends: where one is made there is an empty slot.  A table that
\* has grown full is not searched before its items are moved.
SearchesEnd == Free(IF pc = "resize" THEN tmp ELSE tab) # {}

\* Every item is found where it is after each call, and after each round of a
\* resize in the table it was put in.
AllFound(t) == \A p \in Used(t) : Locate(t, t[p].key) = p
Found == /\ pc = "idle" => AllFound(tab)
         /\ pc = "resize" => AllFound(tmp)

\* Items are counted and found, and every search comes to an empty slot.
TableSound == Counted /\ SearchesEnd /\ Found

-----------------------------------------------------------------------------
(* What callers are promised: a map from keys to the values last put there.    *)

Content == {tab[p] : p \in Used(tab)}
AMap == [k \in {item.key : item \in Content} |->
           (CHOOSE item \in Content : item.key = k).val]
avars == <<AMap, ret>>

AAt(k) == IF k \in DOMAIN AMap THEN AMap[k] ELSE NIL

AFind(k) == ret' = AAt(k) /\ UNCHANGED AMap

AUpsert(k, v) ==
  /\ AMap' = [key \in DOMAIN AMap \cup {k} |-> IF key = k THEN v ELSE AMap[key]]
  /\ ret' = AAt(k)

ARemove(k) ==
  /\ AMap' = [key \in DOMAIN AMap \ {k} |-> AMap[key]]
  /\ ret' = AAt(k)

ANext == \E k \in Keys : AFind(k) \/ ARemove(k) \/ \E v \in Values : AUpsert(k, v)
AInit == AMap = <<>> /\ ret = NIL

\* Callers see a map.
ImplementsMap == AInit /\ [][ANext]_avars

\* A removal and a resize come to an end.
LoopsEnd == (pc # "idle") ~> (pc = "idle")
=============================================================================
