------------------------------- MODULE HashOps -------------------------------
(***************************************************************************)
(* The memory layout of raimd's hash tables, HashStorage of                *)
(* include/raimd/md_hash.h, over the rings of ListOps.                     *)
(*                                                                         *)
(* A hash is a list whose item 0 is a map: byte i of it is the low byte of *)
(* the hash of the key of item i.  The map has spare bytes and grows at    *)
(* its head, towards the end of the list in the ring.  Item i > 0 is the   *)
(* length of the key, the key and the value.  A search goes through the    *)
(* map and compares the keys of the items with an equal byte.              *)
(***************************************************************************)
EXTENDS ListOps, FiniteSetsExt

CONSTANTS Hash,       \* the low byte of hash32() of each key
          MapAlign    \* the map grows to multiples of this (8 in the code)

HASH_UPDATED == "HASH_UPDATED"
HASH_EXISTS  == "HASH_EXISTS"

HashStatus == ListStatus \cup {HASH_UPDATED, HASH_EXISTS}

Larger(a, b) == IF a > b THEN a ELSE b
Smaller(a, b) == IF a < b THEN a ELSE b

-----------------------------------------------------------------------------
(* The map. *)

\* init_hash(): an empty map.
InitHash(l) == IF l.count = 0 THEN RPushItem(l, <<>>) ELSE l

MapByte(l, i) == l.blob[DataOffset(l, StartOf(l, 0), i)]

MapSize(l) == GetSize(l, 0)

\* Bytes that data_len counts and no item has, see HRemAllItems and InterBy.
LostBytes(l) == l.data_len - Distance(l, l.count)

\* What hverify(), sverify() and zverify() look at first: lverify(), and whether
\* the map has a byte for each item.
Tallied(l) == LVerified(l) /\ (l.count > 0 => l.count <= MapSize(l))

\* That fails in two ways: bytes were dropped, or the map, which is the first
\* item, has none, because resize_hash() found no room when it was made.
Accounted(l) == LostBytes(l) = 0 /\ (l.count > 0 => MapSize(l) > 0)

\* The number of items the map has a byte for.
MapLen(l) == Smaller(l.count, MapSize(l))

\* resize_hash(): a quarter more, at least 2, rounded up.
NewMapSize(cur_size, count) ==
  LET pad == Larger(cur_size \div 4, 2)
      new == Larger(cur_size, count + pad) + (MapAlign - 1)
  IN  new - (new % MapAlign)

MapGrowth(l) == NewMapSize(MapSize(l), l.count) - MapSize(l)

\* Whether the map has a byte for one more item, or can get it.
HasMapRoom(l) == l.count < MapSize(l) \/ ~ DataFull(l, MapGrowth(l))

Slip_ResizeHash(l) == \* a map that grows leaves its first byte behind
  LET new_start == DataOffset(l, StartOf(l, 0), -MapGrowth(l))
      grown     == [l EXCEPT !.idx[l.first] = new_start, !.data_len = @ + MapGrowth(l)]
  IN  IF MapSize(l) = 0 THEN [grown EXCEPT !.blob[new_start] = 0]
      ELSE CopyInto(grown, [k \in 1..(MapLen(l) - 1) |-> MapByte(l, k)],
                    DataOffset(l, new_start, 1))

\* resize_hash() when the ring has room: the bytes of the map move down to
\* the new start, in two pieces if they wrap.
ResizeHash(l) ==
  LET start     == StartOf(l, 0)
      cur_size  == MapSize(l)
      need      == MapGrowth(l)
      new_start == DataOffset(l, start, -need)
      upper     == l.data_size - start
      grown     == [l EXCEPT !.idx[l.first] = new_start, !.data_len = @ + need]
  IN  IF cur_size = 0 THEN [grown EXCEPT !.blob[new_start] = 0]
      ELSE IF start + cur_size <= l.data_size
           THEN CopyMove(grown, start, cur_size, new_start)
      ELSE CopyMove(CopyMove(grown, start, upper, new_start),
                    0, cur_size - upper, DataOffset(l, new_start, upper))

WithMapRoom(l) == IF l.count < MapSize(l) THEN l ELSE ResizeHash(l)

SetMapByte(l, i, h) ==
  [l EXCEPT !.blob[DataOffset(l, StartOf(l, 0), i)] = h]

Slip_HashDelete(l, pos) == l   \* the map left alone

\* hash_delete(), after the item is gone: the bytes after pos move down.  The
\* last byte moved comes from beyond the live ones; nothing reads it.
HashDelete(l, pos) ==
  LET len == Smaller(l.count + 1, MapSize(l))
  IN  IF pos = l.count THEN l
      ELSE CopyInto(l, [k \in 1..(len - pos) |-> MapByte(l, pos + k)],
                    DataOffset(l, StartOf(l, 0), pos))

MapInsert(l, pos, h) ==
  CopyInto(l, <<h>> \o [k \in 1..(MapLen(l) - pos) |-> MapByte(l, pos + k - 1)],
           DataOffset(l, StartOf(l, 0), pos))

\* hash_insert() when the map has room: the bytes from pos on move up.
HashInsert(l, pos, h) == MapInsert(WithMapRoom(l), pos, h)

-----------------------------------------------------------------------------
(* Searching. *)

\* hash_find(): the items whose byte in the map is h.
Chain(l, h) == {i \in 0..(MapLen(l) - 1) : MapByte(l, i) = h}

\* match_key()
MatchKey(l, key, i) ==
  LET start == StartOf(l, i)
  IN  /\ GetSize(l, i) >= Len(key) + 1
      /\ l.blob[start] = Len(key)
      /\ Equals(l, DataOffset(l, start, 1), key)

\* Where the search for a key ends: at the first item with its byte that
\* matches, or at count.
LocateBy(l, h, Match(_)) ==
  LET at == {i \in Chain(l, h) : Match(i)}
  IN  IF l.count = 0 \/ at = {} THEN l.count ELSE Min(at)

Locate(l, key) == LocateBy(l, Hash[key], LAMBDA i : MatchKey(l, key, i))

\* The value of item i, after the length and the key.
KeyLen(l, i) == l.blob[StartOf(l, i)]
KeyOf(l, i) == ReadBytes(l, DataOffset(l, StartOf(l, i), 1), KeyLen(l, i))
ValueOf(l, i) ==
  ReadBytes(l, DataOffset(l, StartOf(l, i), KeyLen(l, i) + 1),
            GetSize(l, i) - KeyLen(l, i) - 1)

-----------------------------------------------------------------------------
(* The operations; each gives the new list and the status. *)

Result(l, s) == [list |-> l, status |-> s]

Entry(key, val) == <<Len(key)>> \o key \o val

PushOrFull(l, item, ok) ==
  IF Full(l, Len(item)) THEN Result(l, LIST_FULL)
  ELSE Result(RPushItem(l, item), ok)

AppendAfter(l, h, item, ok) ==
  IF ~ HasMapRoom(l) THEN Result(l, LIST_FULL)
  ELSE PushOrFull(SetMapByte(WithMapRoom(l), l.count, h), item, ok)

\* hash_append() and then an item, as hnew(), sappend() and zappend() do: the
\* map is made longer if it has to be, and stays so when the item does not fit.
AppendItem(l, h, item, ok) == AppendAfter(InitHash(l), h, item, ok)

HNew(l, key, val) == AppendItem(l, Hash[key], Entry(key, val), LIST_OK)

\* The item at i made amt bytes longer, or shorter: room is made on the side
\* of fewer items by hupdate(), always behind it by halloc() and happend().
Stretch(l, i, amt, either) ==
  LET moved == IF amt = 0 THEN l
               ELSE IF either /\ i < l.count \div 2
               THEN AdjustHead(MoveHead(l, i, amt), i, amt)
               ELSE AdjustTail(MoveTail(l, i, amt), i, amt)
  IN  [moved EXCEPT !.data_len = @ + amt]

\* copy_value()
CopyValue(l, i, key, val) ==
  CopyInto(l, val, DataOffset(l, StartOf(l, i), Len(key) + 1))

Slip_HUpdate(l, i, key, val) == \* only the value copied after a move
  LET amt == Len(Entry(key, val)) - GetSize(l, i)
  IN  IF i >= l.count THEN HNew(l, key, val)
      ELSE IF amt > 0 /\ DataFull(l, amt) THEN Result(l, LIST_FULL)
      ELSE Result(CopyValue(Stretch(l, i, amt, TRUE), i, key, val), HASH_UPDATED)

\* hupdate(): a value of the same size is overwritten, else the whole item is.
HUpdate(l, i, key, val) ==
  LET amt == Len(Entry(key, val)) - GetSize(l, i)
      m   == Stretch(l, i, amt, TRUE)
  IN  IF i >= l.count THEN HNew(l, key, val)
      ELSE IF amt > 0 /\ DataFull(l, amt) THEN Result(l, LIST_FULL)
      ELSE IF amt = 0 THEN Result(CopyValue(l, i, key, val), HASH_UPDATED)
      ELSE Result(CopyInto(m, Entry(key, val), StartOf(m, i)), HASH_UPDATED)

\* halloc(), and the caller's writing of the value to where it is told to.
HAllocate(l, key, val) ==
  LET i   == Locate(l, key)
      amt == Len(Entry(key, val)) - GetSize(l, i)
  IN  IF i >= l.count THEN HNew(l, key, val)
      ELSE IF amt > 0 /\ DataFull(l, amt) THEN Result(l, LIST_FULL)
      ELSE Result(CopyValue(Stretch(l, i, amt, FALSE), i, key, val), LIST_OK)

\* happend(): val after the bytes of the value there is.
HAppendValue(l, key, val) ==
  LET i   == Locate(l, key)
      m   == Stretch(l, i, Len(val), FALSE)
      end == DataOffset(m, StartOf(m, i), GetSize(l, i))
  IN  IF i >= l.count THEN HNew(l, key, val)
      ELSE IF val = <<>> THEN Result(l, HASH_UPDATED)
      ELSE IF DataFull(l, Len(val)) THEN Result(l, LIST_FULL)
      ELSE Result(CopyInto(m, val, end), HASH_UPDATED)

\* hrem()
HRemItem(l, i) == HashDelete(LRemItem(l, i), i)

\* hremall(): the items are dropped, their bytes stay counted.
HRemAllItems(l) == IF l.count > 1 THEN [l EXCEPT !.count = 1] ELSE l

-----------------------------------------------------------------------------
(* Two hashes: a filter of 256 bits, one for each value of a map byte, saves *)
(* searching for what cannot be there.                                      *)

\* get_hash_bits()
HashBits(l) == {MapByte(l, i) : i \in 1..(MapLen(l) - 1)}

\* From the last item to the first, so that what is not looked at stays.
RemoveEach(l, drop) ==
  LET len == MapLen(l)
      f[i \in 1..len] ==  \* items i to len-1 done
        IF i = len THEN l
        ELSE IF i \in drop THEN HRemItem(f[i + 1], i) ELSE f[i + 1]
  IN  f[1]

\* hinter(), sinter(), zinter(): what x has is kept (intersection) or removed
\* (difference).  When there is nothing to compare, an intersection drops
\* everything and leaves its bytes counted.
InterBy(l, x, is_intersect, Found(_)) ==
  LET bits == HashBits(x)
      Has(i) == MapByte(l, i) \in bits /\ Found(i)
  IN  IF x.count <= 1 \/ l.count <= 1
      THEN IF is_intersect THEN [l EXCEPT !.count = 0] ELSE l
      ELSE RemoveEach(l, {i \in 1..(MapLen(l) - 1) : Has(i) # is_intersect})

HInterItems(l, x, is_intersect) ==
  InterBy(l, x, is_intersect, LAMBDA i : Locate(x, KeyOf(l, i)) < x.count)
=============================================================================
