------------------------------ MODULE DictSpec ------------------------------
(***************************************************************************)
(* What HashData of include/raimd/md_hash.h promises its callers: a        *)
(* dictionary in the order of first insertion, in a bounded allocation.    *)
(*                                                                         *)
(* The room is shared by the entries, the map of hash bytes, and what      *)
(* hremall() and an intersection with nothing drop without giving it back. *)
(* A union passes over keys whose hash byte some key already has.          *)
(***************************************************************************)
EXTENDS Integers, Sequences, SequencesExt

CONSTANTS Keys, Values,   \* what callers store
          Hash,           \* the hash byte of each key
          Sizes,          \* the <<index_size, data_size>> of allocations
          Others,         \* the dictionaries to merge with
          MapAlign        \* the map grows to multiples of this

VARIABLES entries,        \* <<key, value>> pairs, oldest first
          map,            \* the bytes set aside for the map
          lost,           \* bytes counted as used that hold nothing
          cap,            \* <<index_size, data_size>>
          pending,        \* what is left to do of a union that was refused
          ret

vars == <<entries, map, lost, cap, pending, ret>>

Positions(key) == {n \in DOMAIN entries : entries[n][1] = key}
Has(key) == Positions(key) # {}
At(key) == CHOOSE n \in Positions(key) : TRUE

Used(s) == FoldLeft(LAMBDA sum, e : sum + 1 + Len(e[1]) + Len(e[2]), 0, s)

Fits(s, m, size) == Used(s) + m + lost + size < cap[2]

\* The map has a byte for itself and for each entry, and some to spare.
MapFor(s, m) ==
  LET count == Len(s) + 1
      spare == IF m \div 4 > 2 THEN m \div 4 ELSE 2
      size  == count + spare + MapAlign - 1
  IN  IF count < m THEN m ELSE size - (size % MapAlign)

\* Adding an entry may leave the map larger and the entry refused.
Added(s, m, e) ==
  LET grown == MapFor(s, m)
      size  == 1 + Len(e[1]) + Len(e[2])
  IN  IF grown > m /\ ~ Fits(s, m, grown - m)
      THEN [entries |-> s, map |-> m, full |-> TRUE]
      ELSE IF Len(s) + 1 < cap[1] - 1 /\ Fits(s, grown, size)
      THEN [entries |-> Append(s, e), map |-> grown, full |-> FALSE]
      ELSE [entries |-> s, map |-> grown, full |-> TRUE]

Status(s) == [status |-> s, val |-> <<>>]

Reply(s, r) == entries' = s /\ ret' = r /\ UNCHANGED <<map, lost, cap, pending>>

Add(key, val) ==
  LET a == Added(entries, map, <<key, val>>)
  IN  /\ entries' = a.entries
      /\ map' = a.map
      /\ ret' = Status(IF a.full THEN "LIST_FULL" ELSE "LIST_OK")
      /\ UNCHANGED <<lost, cap, pending>>

Replace(key, val, ok) ==
  LET n == At(key)
      more == Len(val) - Len(entries[n][2])
  IN  IF more > 0 /\ ~ Fits(entries, map, more)
      THEN Reply(entries, Status("LIST_FULL"))
      ELSE Reply([entries EXCEPT ![n][2] = val], Status(ok))

Ready == pending = <<>>

-----------------------------------------------------------------------------
Init == /\ entries = <<>> /\ pending = <<>>
        /\ map = 0 /\ lost = 0
        /\ cap \in Sizes
        /\ ret = Status("LIST_OK")

Set(key, val)   == IF Has(key) THEN Replace(key, val, "HASH_UPDATED") ELSE Add(key, val)
Alloc(key, val) == IF Has(key) THEN Replace(key, val, "LIST_OK") ELSE Add(key, val)
SetNew(key, val) ==
  IF Has(key) THEN Reply(entries, Status("HASH_EXISTS")) ELSE Add(key, val)
AppendTo(key, val) ==
  IF Has(key) THEN Replace(key, entries[At(key)][2] \o val, "HASH_UPDATED")
  ELSE Add(key, val)

Get(key) ==
  Reply(entries, IF Has(key) THEN [status |-> "LIST_OK", val |-> entries[At(key)][2]]
                 ELSE Status("LIST_NOT_FOUND"))

Delete(key) ==
  IF Has(key) THEN Reply(RemoveAt(entries, At(key)), Status("LIST_OK"))
  ELSE Reply(entries, Status("LIST_NOT_FOUND"))

Clear == /\ entries' = <<>>
         /\ lost' = lost + Used(entries)
         /\ ret' = Status("LIST_OK")
         /\ UNCHANGED <<map, cap, pending>>

Move(size) == /\ Len(entries) + 1 < size[1]
              /\ Used(entries) + map + lost < size[2]
              /\ cap' = size
              /\ ret' = Status("LIST_OK")
              /\ UNCHANGED <<entries, map, lost, pending>>

\* An empty x, or nothing to intersect, drops even the map.
Intersect(x) ==
  IF x = <<>> \/ entries = <<>>
  THEN /\ entries' = <<>> /\ map' = 0
       /\ lost' = lost + map + Used(entries)
       /\ ret' = Status("LIST_OK")
       /\ UNCHANGED <<cap, pending>>
  ELSE Reply(SelectSeq(entries, LAMBDA e : \E k \in DOMAIN x : x[k][1] = e[1]),
             Status("LIST_OK"))

Subtract(x) ==
  Reply(SelectSeq(entries, LAMBDA e : \A k \in DOMAIN x : x[k][1] # e[1]),
        Status("LIST_OK"))

\* Add what is pending, up to the first entry that is refused.
Unite(todo) ==
  LET Step(acc, e) ==
        LET a == Added(acc.entries, acc.map, e)
        IN  IF acc.left # <<>> \/ a.full
            THEN [entries |-> IF acc.left = <<>> THEN a.entries ELSE acc.entries,
                  map |-> IF acc.left = <<>> THEN a.map ELSE acc.map,
                  left |-> Append(acc.left, e)]
            ELSE [entries |-> a.entries, map |-> a.map, left |-> <<>>]
      r == FoldLeft(Step, [entries |-> entries, map |-> map, left |-> <<>>], todo)
  IN  /\ entries' = r.entries
      /\ map' = r.map
      /\ pending' = r.left
      /\ ret' = Status(IF r.left = <<>> THEN "LIST_OK" ELSE "LIST_FULL")
      /\ UNCHANGED <<lost, cap>>

Filtered(x) ==
  SelectSeq(x, LAMBDA e : \A n \in DOMAIN entries : Hash[entries[n][1]] # Hash[e[1]])

Next ==
  \/ \E key \in Keys, val \in Values :
        Ready /\ (Set(key, val) \/ SetNew(key, val) \/ Alloc(key, val)
                  \/ AppendTo(key, val))
  \/ \E key \in Keys : Ready /\ (Get(key) \/ Delete(key))
  \/ Ready /\ Clear
  \/ \E size \in Sizes : Move(size)
  \/ \E x \in Others : Ready /\ (Intersect(x) \/ Subtract(x) \/ Unite(Filtered(x)))
  \/ ~ Ready /\ Unite(pending)

Spec == Init /\ [][Next]_vars
=============================================================================
