---------------------------- MODULE ListOps_proofs ----------------------------
(***************************************************************************)
(* For every size of the rings and all byte strings: what each operator of *)
(* ListOps does to the offsets, the bytes and the items of a list.         *)
(*                                                                         *)
(* The argument is carried by distances: the offset of item n is the first *)
(* offset plus Distance(l, n) around the ring, and the distances form a    *)
(* monotone sequence from 0 to data_len.  For each operation the distances *)
(* after it are written down (Shape), and LayoutIntro turns them back into *)
(* Layout.  The bytes are read from an offset on around the ring (At); an  *)
(* item whose distances and bytes have moved alike is the same item        *)
(* (SameItem).                                                             *)
(***************************************************************************)
EXTENDS ListOps, FiniteSetsExt, SequencesExt, WellFoundedInduction, TLAPS

-----------------------------------------------------------------------------
(* Remainders: masks are applied to numbers at most one turn off. *)

\* A remainder is less than the divisor.
LEMMA ModRange ==
  ASSUME NEW d \in Nat, d > 0, NEW x \in Int
  PROVE  x % d \in 0..(d - 1)
  BY SMT

\* A number that fits is its remainder.
LEMMA ModSmall ==
  ASSUME NEW d \in Nat, d > 0, NEW x \in Int, 0 <= x, x < d
  PROVE  x % d = x
  BY SMT

\* Going the distance from b to a leads to a.
LEMMA ModDistance ==
  ASSUME NEW d \in Nat, d > 0, NEW a \in 0..(d - 1), NEW b \in 0..(d - 1)
  PROVE  (b + ((a - b) % d)) % d = a
  BY SMT

\* Two distances are the same step apart as the offsets they lead to.
LEMMA ModStep ==
  ASSUME NEW d \in Nat, d > 0, NEW b \in 0..(d - 1),
         NEW i \in 0..(d - 1), NEW j \in 0..(d - 1), i <= j
  PROVE  (((b + j) % d) - ((b + i) % d)) % d = j - i
  BY SMT

\* Different slots within one turn are different slots of the ring.
LEMMA ModDistinct ==
  ASSUME NEW d \in Nat, d > 0, NEW b \in 0..(d - 1),
         NEW i \in 0..(d - 1), NEW j \in 0..(d - 1), i # j
  PROVE  (b + i) % d # (b + j) % d
  BY SMT
\* Two steps in a row.
LEMMA ModAdd ==
  ASSUME NEW d \in Nat, d > 0, NEW b \in 0..(d - 1), NEW i \in (1 - d)..(d - 1),
         NEW k \in Int, 0 <= i + k, i + k < d
  PROVE  (((b + i) % d) + k) % d = (b + (i + k)) % d
  BY SMT

\* Back from where i steps lead.
LEMMA ModBack ==
  ASSUME NEW d \in Nat, d > 0, NEW b \in 0..(d - 1), NEW i \in 0..(d - 1)
  PROVE  (((b + i) % d) - b) % d = i
  BY SMT

\* The slot before a slot.
LEMMA ModPrevious ==
  ASSUME NEW d \in Nat, d > 0, NEW b \in 0..(d - 1), NEW i \in 1..(d - 1)
  PROVE  (((b + i) % d) - 1) % d = (b + (i - 1)) % d
  BY SMT

-----------------------------------------------------------------------------
(* Offsets and distances. *)

\* The types WellFormed gives to the header.
LEMMA HeaderType ==
  ASSUME NEW l, WellFormed(l)
  PROVE  /\ l.index_size \in Nat /\ l.index_size > 1
         /\ l.data_size \in Nat /\ l.data_size > 1
         /\ l.first \in 0..(l.index_size - 1)
         /\ l.count \in Nat /\ l.data_len \in Nat
  BY DEF WellFormed

\* A slot number lies inside of idx[].
LEMMA IndexRefType ==
  ASSUME NEW l, WellFormed(l), NEW n \in Int
  PROVE  IndexRef(l, n) \in 0..(l.index_size - 1)
<1>1. l.index_size \in Nat /\ l.index_size > 0 /\ l.first + n \in Int
  BY HeaderType
<1> QED BY <1>1, ModRange DEF IndexRef

\* An offset lies inside of blob[].
LEMMA StartType ==
  ASSUME NEW l, WellFormed(l), NEW n \in Int
  PROVE  StartOf(l, n) \in 0..(l.data_size - 1)
<1>1. l.idx \in [0..(l.index_size - 1) -> 0..(l.data_size - 1)]
  BY DEF WellFormed
<1> QED BY <1>1, IndexRefType DEF StartOf

\* A distance is less than a turn.
LEMMA DistanceType ==
  ASSUME NEW l, WellFormed(l), NEW n \in Int
  PROVE  Distance(l, n) \in 0..(l.data_size - 1)
<1>1. l.data_size \in Nat /\ l.data_size > 0
  BY HeaderType
<1>2. StartOf(l, n) - StartOf(l, 0) \in Int
  BY <1>1, StartType
<1> QED BY <1>1, <1>2, ModRange DEF Distance

\* The slots of the live offsets are distinct.
LEMMA SlotsDistinct ==
  ASSUME NEW l, WellFormed(l), NEW m \in 0..(l.index_size - 1),
         NEW n \in 0..(l.index_size - 1), m # n
  PROVE  IndexRef(l, m) # IndexRef(l, n)
<1>1. l.index_size \in Nat /\ l.index_size > 0 /\ l.first \in 0..(l.index_size - 1)
  BY HeaderType
<1> QED BY <1>1, ModDistinct DEF IndexRef

\* The number of a slot, counted from first.
LEMMA SlotNumber ==
  ASSUME NEW l, WellFormed(l), NEW n \in 0..(l.index_size - 1)
  PROVE  (IndexRef(l, n) - l.first) % l.index_size = n
<1>1. l.index_size \in Nat /\ l.index_size > 0 /\ l.first \in 0..(l.index_size - 1)
  BY HeaderType
<1> QED BY <1>1, ModBack DEF IndexRef

\* What Layout says of every live offset.
LEMMA LayoutElim ==
  ASSUME NEW l, WellFormed(l), Layout(l)
  PROVE  /\ Distance(l, 0) = 0
         /\ Distance(l, l.count) = l.data_len
         /\ l.count \in 0..(l.index_size - 1)
         /\ l.data_len \in 0..(l.data_size - 1)
         /\ \A n \in 0..l.count :
              /\ Distance(l, n) \in 0..l.data_len
              /\ StartOf(l, n) = (StartOf(l, 0) + Distance(l, n)) % l.data_size
         /\ \A m, n \in 0..l.count : m <= n => Distance(l, m) <= Distance(l, n)
<1>1. Distance(l, 0) = 0
  BY StartType, SMTT(30) DEF Distance, WellFormed
<1>2. \A n \in 0..l.count : Distance(l, n) \in 0..l.data_len
  <2> TAKE n \in 0..l.count
  <2> QED BY DistanceType DEF Layout, WellFormed
<1>3. \A n \in 0..l.count :
        StartOf(l, n) = (StartOf(l, 0) + Distance(l, n)) % l.data_size
  <2> TAKE n \in 0..l.count
  <2> DEFINE a == StartOf(l, n)
             b == StartOf(l, 0)
             d == l.data_size
  <2>1. n \in Int
    BY HeaderType
  <2>2. d \in Nat /\ d > 0 /\ a \in 0..(d - 1) /\ b \in 0..(d - 1)
    BY <2>1, HeaderType, StartType
  <2>3. (b + ((a - b) % d)) % d = a
    <3> HIDE DEF a, b, d
    <3> QED BY <2>2, ModDistance
  <2>4. Distance(l, n) = (a - b) % d
    BY DEF Distance
  <2>5. (b + Distance(l, n)) % d = a
    <3> HIDE DEF a, b, d
    <3> QED BY <2>3, <2>4, Zenon
  <2> QED BY <2>5
<1> QED BY <1>1, <1>2, <1>3 DEF Layout, WellFormed

\* Layout from a table of distances.
LEMMA LayoutIntro ==
  ASSUME NEW l, WellFormed(l), l.count < l.index_size, l.data_len < l.data_size,
         NEW D, D[0] = 0, D[l.count] = l.data_len,
         \A n \in 0..l.count : D[n] \in 0..l.data_len,
         \A m, n \in 0..l.count : m <= n => D[m] <= D[n],
         \A n \in 0..l.count :
            StartOf(l, n) = (StartOf(l, 0) + D[n]) % l.data_size
  PROVE  Layout(l) /\ \A n \in 0..l.count : Distance(l, n) = D[n]
<1>1. ASSUME NEW n \in 0..l.count PROVE Distance(l, n) = D[n]
  <2>1. l.data_size \in Nat /\ l.data_size > 0 /\ l.count \in Nat /\ l.data_len \in Nat
    BY HeaderType
  <2>2. StartOf(l, 0) \in 0..(l.data_size - 1) /\ D[n] \in 0..(l.data_size - 1)
    BY <1>1, <2>1, StartType
  <2>3. StartOf(l, n) = (StartOf(l, 0) + D[n]) % l.data_size
    BY <1>1
  <2> QED BY <2>1, <2>2, <2>3, ModBack DEF Distance
<1> QED BY <1>1 DEF Layout, WellFormed

\* What get_size() and its like measure is the difference of the distances;
\* the rule of get_offset() for an offset 0 that ends an item is what it
\* takes.
LEMMA SpanDistance ==
  ASSUME NEW l, WellFormed(l), Layout(l), NEW m \in 0..l.count,
         NEW n \in 0..l.count, m < n \/ (n = 0 /\ m = 0)
  PROVE  Span(l, StartOf(l, m), EndOf(l, n)) = Distance(l, n) - Distance(l, m)
<1> DEFINE s == StartOf(l, m)
           e == StartOf(l, n)
           ds == l.data_size
<1>0. /\ ds \in Nat /\ ds > 1 /\ l.index_size \in Nat /\ l.index_size > 1
      /\ l.count \in Nat /\ l.first \in 0..(l.index_size - 1)
      /\ n \in Nat /\ m \in Nat /\ n <= l.count /\ m <= n
  BY HeaderType
<1>1. s \in 0..(ds - 1) /\ e \in 0..(ds - 1) /\ ds \in Nat /\ ds > 1
  BY <1>0, StartType
<1>2. /\ Distance(l, m) \in 0..(ds - 1) /\ Distance(l, n) \in 0..(ds - 1)
      /\ Distance(l, m) <= Distance(l, n)
      /\ s = (StartOf(l, 0) + Distance(l, m)) % ds
      /\ e = (StartOf(l, 0) + Distance(l, n)) % ds
      /\ StartOf(l, 0) \in 0..(ds - 1)
  <2>1. 0 \in 0..l.count
    BY <1>0
  <2> QED BY <1>0, <2>1, LayoutElim, StartType, DistanceType
<1>3. Distance(l, n) - Distance(l, m) = (e - s) % ds
  <2> HIDE DEF s, e, ds
  <2> DEFINE b == StartOf(l, 0)
             i == Distance(l, m)
             j == Distance(l, n)
  <2>1. /\ ds \in Nat /\ ds > 0 /\ b \in 0..(ds - 1) /\ i \in 0..(ds - 1)
        /\ j \in 0..(ds - 1) /\ i <= j /\ s = (b + i) % ds /\ e = (b + j) % ds
    BY <1>1, <1>2
  <2> HIDE DEF b, i, j
  <2>2. j - i = (e - s) % ds
    BY <2>1, ModStep
  <2> QED BY <2>2 DEF i, j
<1>4. CASE n = 0
  <2>1. EndOf(l, n) = e
    <3>1. IndexRef(l, 0) = l.first
      BY <1>0, ModSmall DEF IndexRef
    <3> QED BY <1>4, <3>1 DEF EndOf, StartOf
  <2>2. s = e
    BY <1>4
  <2> QED BY <1>1, <1>2, <2>1, <2>2, <1>4 DEF Span
<1>5. CASE n # 0 /\ e # 0
  <2>1. EndOf(l, n) = e
    BY <1>5 DEF EndOf, StartOf
  <2>2. Span(l, s, e) = (e - s) % ds
    <3> HIDE DEF s, e
    <3> QED BY <1>1, SMT DEF Span
  <2> QED BY <2>1, <2>2, <1>3
<1>6. CASE n # 0 /\ e = 0
  <2>1. m <= n - 1 /\ n - 1 \in 0..l.count /\ n \in 0..(l.index_size - 1)
    BY <1>0, <1>6, LayoutElim
  <2>2. IndexRef(l, n) # l.first
    <3>1. l.first = IndexRef(l, 0)
      BY <1>0, ModSmall DEF IndexRef
    <3> QED BY <3>1, <2>1, <1>6, SlotsDistinct, HeaderType
  <2>3. l.idx[(IndexRef(l, n) - 1) % l.index_size] = StartOf(l, n - 1)
    <3>1. (IndexRef(l, n) - 1) % l.index_size = IndexRef(l, n - 1)
      <4>1. n \in 1..(l.index_size - 1)
        BY <1>0, <1>6, <2>1
      <4>2. l.index_size > 0
        BY <1>0
      <4> QED BY <1>0, <4>1, <4>2, ModPrevious DEF IndexRef
    <3> QED BY <3>1 DEF StartOf
  <2>4. CASE StartOf(l, n - 1) = 0
    <3>1. EndOf(l, n) = e
      BY <2>2, <2>3, <2>4 DEF EndOf, StartOf
    <3>2. Span(l, s, e) = (e - s) % ds
      <4>1. (e - s) % ds = IF s = 0 THEN 0 ELSE ds - s
        <5> HIDE DEF s, e, ds
        <5> QED BY <1>1, <1>6, SMT
      <4> QED BY <4>1, <1>1, <1>6 DEF Span
    <3> QED BY <3>1, <3>2, <1>3
  <2>5. CASE StartOf(l, n - 1) # 0
    <3>1. EndOf(l, n) = ds
      BY <2>2, <2>3, <2>5, <1>6 DEF EndOf, StartOf
    <3>2. s # 0
      <4>1. SUFFICES ASSUME s = 0 PROVE FALSE
        OBVIOUS
      <4>2. Distance(l, n) - Distance(l, m) = 0
        BY <4>1, <1>1, <1>3, <1>6, SMT
      <4>3. /\ Distance(l, m) <= Distance(l, n - 1)
            /\ Distance(l, n - 1) <= Distance(l, n)
            /\ Distance(l, n - 1) \in 0..l.data_len
            /\ StartOf(l, n - 1) = (StartOf(l, 0) + Distance(l, n - 1)) % ds
        BY <1>0, <2>1, LayoutElim
      <4>4. Distance(l, n - 1) = Distance(l, m)
        <5>1. Distance(l, n) \in Int /\ Distance(l, m) \in Int /\ Distance(l, n - 1) \in Int
          BY <1>0, <1>2, <4>3, DistanceType
        <5> QED BY <5>1, <4>2, <4>3
      <4> QED BY <4>1, <4>3, <4>4, <2>5, <1>2
    <3>3. (e - s) % ds = ds - s
      <4> HIDE DEF s, e, ds
      <4> QED BY <1>1, <1>6, <3>2, SMT
    <3>4. Span(l, s, ds) = ds - s
      BY <1>1 DEF Span
    <3> QED BY <3>1, <3>3, <3>4, <1>3
  <2> QED BY <2>4, <2>5
<1> QED BY <1>4, <1>5, <1>6

\* The size of an item is the step between its distances.
LEMMA SizeDistance ==
  ASSUME NEW l, WellFormed(l), Layout(l), NEW n \in 0..(l.count - 1)
  PROVE  /\ GetSize(l, n) = Distance(l, n + 1) - Distance(l, n)
         /\ GetSize(l, n) \in 0..l.data_len
<1>1. l.count \in Nat /\ n \in 0..l.count /\ n + 1 \in 0..l.count /\ n < n + 1
  BY DEF WellFormed
<1>2. GetSize(l, n) = Distance(l, n + 1) - Distance(l, n)
  BY <1>1, SpanDistance DEF GetSize
<1>3. /\ Distance(l, n) \in 0..l.data_len /\ Distance(l, n + 1) \in 0..l.data_len
      /\ Distance(l, n) <= Distance(l, n + 1)
  <2>1. n <= n + 1
    BY <1>1
  <2> QED BY <1>1, <2>1, LayoutElim
<1>4. l.data_len \in Nat
  BY HeaderType
<1> QED BY <1>2, <1>3, <1>4

-----------------------------------------------------------------------------
(* Moving bytes touches neither the header nor the offsets. *)

SameIndex(l, m) ==
  /\ m.index_size = l.index_size /\ m.data_size = l.data_size
  /\ m.first = l.first /\ m.count = l.count /\ m.data_len = l.data_len
  /\ m.idx = l.idx

\* g has the rings of l, with c items from s on at the distances D.
Shape(g, l, c, s, D) ==
  /\ g.index_size = l.index_size /\ g.data_size = l.data_size
  /\ g.count = c
  /\ StartOf(g, 0) = s
  /\ \A n \in 0..c : Distance(g, n) = D[n]

\* So does what differs from g in bytes only.
LEMMA SameIndexShape ==
  ASSUME NEW g, NEW m, SameIndex(g, m), NEW l, NEW c, NEW s, NEW D, Shape(g, l, c, s, D)
  PROVE  Shape(m, l, c, s, D)
  BY DEF SameIndex, Shape, Distance, StartOf, IndexRef

\* Layout looks only at the header and the offsets.
LEMMA SameIndexLayout ==
  ASSUME NEW l, NEW m, SameIndex(l, m), Layout(l)
  PROVE  Layout(m)
  BY DEF SameIndex, Layout, Distance, StartOf, IndexRef

\* Other bytes, the same header and offsets.
LEMMA BlobUpdate ==
  ASSUME NEW l, WellFormed(l), NEW b \in [0..(l.data_size - 1) -> Byte]
  PROVE  LET m == [l EXCEPT !.blob = b] IN WellFormed(m) /\ SameIndex(l, m)
  BY DEF WellFormed, SameIndex

\* copy_into() writes bytes only.
LEMMA CopyIntoIndex ==
  ASSUME NEW l, WellFormed(l), NEW data \in Seq(Byte), NEW start \in Int
  PROVE  WellFormed(CopyInto(l, data, start)) /\ SameIndex(l, CopyInto(l, data, start))
<1> DEFINE B == [p \in DOMAIN l.blob |->
                   LET k == (p - start) % l.data_size
                   IN  IF k < Len(data) THEN data[k + 1] ELSE l.blob[p]]
<1>1. DOMAIN l.blob = 0..(l.data_size - 1) /\ l.blob \in [0..(l.data_size - 1) -> Byte]
  BY DEF WellFormed
<1>2. ASSUME NEW p \in 0..(l.data_size - 1) PROVE B[p] \in Byte
  <2>1. (p - start) % l.data_size \in Nat
    <3>1. p - start \in Int /\ l.data_size \in Nat /\ l.data_size > 0
      BY HeaderType
    <3> QED BY <3>1, ModRange
  <2>2. ASSUME NEW k \in Nat, k < Len(data) PROVE data[k + 1] \in Byte
    <3>1. Len(data) \in Nat /\ k + 1 \in 1..Len(data)
      BY <2>2
    <3> QED BY <3>1
  <2>3. B[p] = LET k == (p - start) % l.data_size
               IN  IF k < Len(data) THEN data[k + 1] ELSE l.blob[p]
    BY <1>1, <1>2
  <2>4. l.blob[p] \in Byte
    BY <1>1, <1>2
  <2> HIDE DEF B
  <2> QED BY <2>1, <2>2, <2>3, <2>4
<1>3. B \in [0..(l.data_size - 1) -> Byte]
  BY <1>1, <1>2
<1>4. CopyInto(l, data, start) = [l EXCEPT !.blob = B]
  BY DEF CopyInto
<1> HIDE DEF B
<1> QED BY <1>3, <1>4, BlobUpdate

\* memmove() from inside of the buffer writes bytes only.
LEMMA MemMoveType ==
  ASSUME NEW d \in Nat, NEW blob \in [0..(d - 1) -> Byte],
         NEW src \in [0..(d - 1) -> Byte], NEW dest \in Int,
         NEW from \in Nat, NEW size \in Int, from + size <= d
  PROVE  MemMove(blob, dest, src, from, size) \in [0..(d - 1) -> Byte]
  BY DEF MemMove

\* copy_move() of bytes that lie inside of the buffer stays inside of it.
LEMMA CopyMoveIndex ==
  ASSUME NEW l, WellFormed(l), NEW source \in Nat, NEW size \in Nat,
         source + size <= l.data_size, NEW dest \in 0..l.data_size
  PROVE  /\ WellFormed(CopyMove(l, source, size, dest))
         /\ SameIndex(l, CopyMove(l, source, size, dest))
<1> DEFINE ds == l.data_size
           Blobs == [0..(ds - 1) -> Byte]
<1>1. /\ ds \in Nat /\ l.blob \in Blobs /\ dest \in Int /\ size \in Int
      /\ source \in Nat /\ source + size <= ds
  BY DEF WellFormed
<1>move. ASSUME NEW to \in Blobs, NEW src \in Blobs, NEW at \in Int, NEW fr \in Nat,
             NEW sz \in Int, fr + sz <= ds
      PROVE  MemMove(to, at, src, fr, sz) \in Blobs
  <2> HIDE DEF ds
  <2> QED BY <1>1, <1>move, MemMoveType
<1>2. CASE dest + size <= ds
  <2> DEFINE b == MemMove(l.blob, dest, l.blob, source, size)
  <2>1. b \in Blobs
    <3> HIDE DEF ds, Blobs
    <3> QED BY <1>1, <1>move
  <2>2. CopyMove(l, source, size, dest) = [l EXCEPT !.blob = b]
    BY <1>2 DEF CopyMove
  <2> HIDE DEF b
  <2> QED BY <2>1, <2>2, BlobUpdate
<1>3. CASE ~ (dest + size <= ds)
  <2> DEFINE len == ds - dest
             upper == MemMove(l.blob, dest, l.blob, source, len)
             from == IF dest >= source \/ (size - len) > source + size
                     THEN l.blob ELSE upper
             b == MemMove(upper, 0, from, source + len, size - len)
  <2>1. /\ len \in Nat /\ source + len <= ds /\ source + len \in Nat
        /\ size - len \in Int /\ (source + len) + (size - len) <= ds
    BY SMTT(30), <1>1, <1>3
  <2>2. upper \in Blobs
    <3> HIDE DEF ds, Blobs, len
    <3> QED BY <1>1, <2>1, <1>move
  <2>3. from \in Blobs
    BY <1>1, <2>2
  <2>4. b \in Blobs
    <3>1. 0 \in Int
      OBVIOUS
    <3> HIDE DEF upper, from, len, ds, Blobs
    <3> QED BY <2>1, <2>2, <2>3, <3>1, <1>move
  <2>5. CopyMove(l, source, size, dest) = [l EXCEPT !.blob = b]
    BY <1>3 DEF CopyMove
  <2> HIDE DEF b
  <2> QED BY <2>4, <2>5, BlobUpdate
<1> QED BY <1>2, <1>3

\* One move after another.
LEMMA SameIndexTrans ==
  ASSUME NEW l, NEW m, NEW n, SameIndex(l, m), SameIndex(m, n)
  PROVE  SameIndex(l, n)
  BY DEF SameIndex

\* Two moves, one after the other.
LEMMA TwoMovesIndex ==
  ASSUME NEW l, WellFormed(l),
         NEW s1 \in Nat, NEW z1 \in Nat, s1 + z1 <= l.data_size,
         NEW d1 \in 0..l.data_size,
         NEW s2 \in Nat, NEW z2 \in Nat, s2 + z2 <= l.data_size,
         NEW d2 \in 0..l.data_size
  PROVE  LET m == CopyMove(CopyMove(l, s1, z1, d1), s2, z2, d2)
         IN  WellFormed(m) /\ SameIndex(l, m)
<1> DEFINE k == CopyMove(l, s1, z1, d1)
<1>1. WellFormed(k) /\ SameIndex(l, k)
  BY CopyMoveIndex
<1>2. s2 + z2 <= k.data_size /\ d2 \in 0..k.data_size
  BY <1>1 DEF SameIndex
<1> HIDE DEF k
<1>3. WellFormed(CopyMove(k, s2, z2, d2)) /\ SameIndex(k, CopyMove(k, s2, z2, d2))
  BY <1>1, <1>2, CopyMoveIndex
<1>4. SameIndex(l, CopyMove(k, s2, z2, d2))
  BY <1>1, <1>3, SameIndexTrans
<1> QED BY <1>3, <1>4 DEF k

\* The end of an item is an offset or the end of the buffer.
LEMMA EndType ==
  ASSUME NEW l, WellFormed(l), NEW n \in Int
  PROVE  EndOf(l, n) \in 0..l.data_size
<1>1. l.data_size \in Nat
  BY HeaderType
<1> QED BY <1>1, StartType DEF EndOf, StartOf

\* move_tail() stays inside of the buffer: item n can give up no more than
\* its size and gain no more than what is free.
LEMMA MoveTailIndex ==
  ASSUME NEW l, WellFormed(l), Layout(l), NEW n \in 0..(l.count - 1),
         NEW amt \in Int, -amt <= GetSize(l, n), amt + l.data_len < l.data_size
  PROVE  WellFormed(MoveTail(l, n, amt)) /\ SameIndex(l, MoveTail(l, n, amt))
<1> DEFINE ds        == l.data_size
           start     == StartOf(l, n + 1)
           end       == EndOf(l, l.count)
           new_start == DataOffset(l, start, amt)
           len       == ds - start
<1>1. /\ ds \in Nat /\ ds > 1 /\ l.count \in Nat /\ n \in Nat /\ n < l.count
      /\ l.data_len \in 0..(ds - 1)
  BY HeaderType DEF Layout
<1>2. start \in 0..(ds - 1) /\ end \in 0..ds
  BY <1>1, StartType, EndType
<1>3. new_start \in 0..ds
  BY <1>1, <1>2, ModRange DEF DataOffset
<1>4. CASE n = l.count - 1
  BY <1>4 DEF MoveTail, SameIndex
<1>5. CASE n # l.count - 1 /\ start <= end
  <2>1. MoveTail(l, n, amt) = CopyMove(l, start, end - start, new_start)
    BY <1>5 DEF MoveTail
  <2>2. start \in Nat /\ end - start \in Nat /\ start + (end - start) <= ds
    BY <1>1, <1>2, <1>5
  <2> HIDE DEF start, end, new_start, ds
  <2> QED BY <2>1, <2>2, <1>3, CopyMoveIndex DEF ds
<1>6. CASE n # l.count - 1 /\ ~ (start <= end)
  <2>1. /\ start \in Nat /\ end \in Nat /\ len \in Nat
        /\ 0 + end <= ds /\ start + len <= ds /\ 0 \in Nat
    BY <1>1, <1>2, <1>6
  <2>2. /\ Span(l, start, end) = Distance(l, l.count) - Distance(l, n + 1)
        /\ GetSize(l, n) = Distance(l, n + 1) - Distance(l, n)
        /\ Distance(l, l.count) \in 0..(ds - 1)
        /\ Distance(l, n + 1) \in 0..(ds - 1)
        /\ Distance(l, n) \in 0..(ds - 1)
    <3>1. n + 1 \in 0..l.count /\ l.count \in 0..l.count /\ n + 1 < l.count
      BY <1>1, <1>6
    <3> QED BY <1>1, <3>1, SpanDistance, SizeDistance, DistanceType
  <2>3. Span(l, start, end) = (ds - start) + end
    BY <1>6, <1>2, <1>1 DEF Span
  <2>4. -amt < start
    <3> HIDE DEF start, end, ds
    <3> QED BY <1>1, <1>2, <2>2, <2>3
  <2>5. CASE amt > 0
    <3>1. MoveTail(l, n, amt)
            = CopyMove(CopyMove(l, 0, end, amt), start, len, new_start)
      BY <1>6, <2>5 DEF MoveTail
    <3>2. amt \in 0..ds
      BY <1>1, <2>5
    <3> HIDE DEF start, end, new_start, len, ds
    <3> QED BY <3>1, <3>2, <2>1, <1>3, TwoMovesIndex DEF ds
  <2>6. CASE ~ (amt > 0)
    <3>1. MoveTail(l, n, amt)
            = CopyMove(CopyMove(l, start, len, new_start), 0, end, new_start + len)
      BY <1>6, <2>6 DEF MoveTail
    <3>2. CASE amt = 0
      <4>1. new_start = start
        <5>1. start + amt = start /\ 0 <= start /\ start < ds /\ ds > 0
          BY <1>1, <1>2, <3>2
        <5> HIDE DEF start
        <5> QED BY <5>1, <1>1, <1>2, ModSmall DEF DataOffset, new_start
      <4>2. new_start + len \in 0..ds
        <5> HIDE DEF start, new_start
        <5> QED BY <1>1, <1>2, <4>1
      <4> HIDE DEF start, end, new_start, len, ds
      <4> QED BY <3>1, <4>2, <2>1, <1>3, TwoMovesIndex DEF ds
    <3>3. CASE amt < 0
      <4>1. new_start = start + amt
        <5>1. start + amt \in Int /\ 0 <= start + amt /\ start + amt < ds /\ ds > 0
          BY <1>1, <1>2, <2>4, <3>3
        <5> HIDE DEF start
        <5> QED BY <5>1, <1>1, ModSmall DEF DataOffset, new_start
      <4>2. new_start + len \in 0..ds
        <5> HIDE DEF start, new_start
        <5> QED BY <1>1, <1>2, <4>1, <3>3, <2>4
      <4> HIDE DEF start, end, new_start, len, ds
      <4> QED BY <3>1, <4>2, <2>1, <1>3, TwoMovesIndex DEF ds
    <3> QED BY <2>6, <3>2, <3>3
  <2> QED BY <2>5, <2>6
<1> QED BY <1>4, <1>5, <1>6

\* move_head() likewise.
LEMMA MoveHeadIndex ==
  ASSUME NEW l, WellFormed(l), Layout(l), NEW n \in 0..(l.count - 1),
         NEW amt \in Int, amt # 0, -amt <= GetSize(l, n),
         amt + l.data_len < l.data_size
  PROVE  WellFormed(MoveHead(l, n, amt)) /\ SameIndex(l, MoveHead(l, n, amt))
<1> DEFINE ds        == l.data_size
           start     == StartOf(l, 0)
           end       == EndOf(l, n)
           new_start == DataOffset(l, start, -amt)
           len       == ds - start
<1>1. /\ ds \in Nat /\ ds > 1 /\ l.count \in Nat /\ n \in Nat /\ n < l.count
      /\ l.data_len \in 0..(ds - 1)
  BY HeaderType DEF Layout
<1>2. start \in 0..(ds - 1) /\ end \in 0..ds
  BY <1>1, StartType, EndType
<1>3. new_start \in 0..ds
  BY <1>1, <1>2, ModRange DEF DataOffset
<1>4. CASE n = 0
  BY <1>4 DEF MoveHead, SameIndex
<1>5. CASE n # 0 /\ start <= end
  <2>1. MoveHead(l, n, amt) = CopyMove(l, start, end - start, new_start)
    BY <1>5 DEF MoveHead
  <2>2. start \in Nat /\ end - start \in Nat /\ start + (end - start) <= ds
    BY <1>1, <1>2, <1>5
  <2> HIDE DEF start, end, new_start, ds
  <2> QED BY <2>1, <2>2, <1>3, CopyMoveIndex DEF ds
<1>6. CASE n # 0 /\ ~ (start <= end)
  <2>1. /\ start \in Nat /\ end \in Nat /\ len \in Nat
        /\ 0 + end <= ds /\ start + len <= ds /\ 0 \in Nat
    BY <1>1, <1>2, <1>6
  <2>2. /\ Span(l, start, end) = Distance(l, n) - Distance(l, 0)
        /\ GetSize(l, n) \in 0..l.data_len
        /\ Distance(l, n) \in 0..l.data_len
        /\ Distance(l, 0) = 0
    <3>1. n \in 0..l.count /\ 0 \in 0..l.count /\ 0 < n
      BY <1>1, <1>6
    <3> QED BY <1>1, <3>1, SpanDistance, SizeDistance, LayoutElim
  <2>3. Span(l, start, end) = (ds - start) + end
    BY <1>6, <1>2, <1>1 DEF Span
  <2>4. amt < start
    <3> HIDE DEF start, end, ds
    <3>1. amt + l.data_len < ds
      BY DEF ds
    <3> QED BY <1>1, <1>2, <2>2, <2>3, <3>1
  <2>5. CASE amt < 0
    <3> DEFINE back == -amt
    <3>1. MoveHead(l, n, amt)
            = CopyMove(CopyMove(l, 0, end, back), start, len, new_start)
      BY <1>6, <2>5 DEF MoveHead
    <3>2. back \in 0..ds
      BY <1>1, <2>2, <2>5
    <3> HIDE DEF start, end, new_start, len, ds, back
    <3> QED BY SMTT(40), <3>1, <3>2, <2>1, <1>1, <1>3, TwoMovesIndex DEF ds
  <2>6. CASE ~ (amt < 0)
    <3>1. MoveHead(l, n, amt)
            = CopyMove(CopyMove(l, start, len, new_start), 0, end, new_start + len)
      BY <1>6, <2>6 DEF MoveHead
    <3>2. new_start = start - amt
      <4>1. /\ start - amt \in Int /\ 0 <= start - amt /\ start - amt < ds /\ ds > 0
            /\ start + (-amt) = start - amt
        BY <1>1, <1>2, <2>4, <2>6
      <4> HIDE DEF start
      <4> QED BY <4>1, <1>1, ModSmall DEF DataOffset, new_start
    <3>3. new_start + len \in 0..ds
      <4> HIDE DEF start, new_start
      <4> QED BY <1>1, <1>2, <3>2, <2>4, <2>6
    <3> HIDE DEF start, end, new_start, len, ds
    <3> QED BY <3>1, <3>3, <2>1, <1>3, TwoMovesIndex DEF ds
  <2> QED BY <2>5, <2>6
<1> QED BY <1>4, <1>5, <1>6

-----------------------------------------------------------------------------
(* The operations. *)

\* A list with another header and other offsets.
Rebuilt(l, f, c, d, x) ==
  [l EXCEPT !.first = f, !.count = c, !.data_len = d, !.idx = x]

\* The fields of a rebuilt list and their types.
LEMMA RebuiltType ==
  ASSUME NEW l, WellFormed(l), NEW f \in 0..(l.index_size - 1), NEW c \in Nat,
         NEW d \in Nat, NEW x \in [0..(l.index_size - 1) -> 0..(l.data_size - 1)]
  PROVE  LET m == Rebuilt(l, f, c, d, x)
         IN  /\ WellFormed(m)
             /\ m.index_size = l.index_size /\ m.data_size = l.data_size
             /\ m.first = f /\ m.count = c /\ m.data_len = d
             /\ m.idx = x /\ m.blob = l.blob
<1> DEFINE m == Rebuilt(l, f, c, d, x)
<1>1. /\ m.index_size = l.index_size /\ m.data_size = l.data_size
      /\ m.first = f /\ m.count = c /\ m.data_len = d
      /\ m.idx = x /\ m.blob = l.blob
  BY DEF WellFormed, Rebuilt
<1>2. l \in [index_size : Nat, data_size : Nat,
           first : Nat, count : Nat, data_len : Nat,
           idx : [0..(l.index_size - 1) -> 0..(l.data_size - 1)],
           blob : [0..(l.data_size - 1) -> Byte]]
  BY DEF WellFormed
<1>3. f \in Nat
  BY <1>2
<1>4. m \in [index_size : Nat, data_size : Nat,
           first : Nat, count : Nat, data_len : Nat,
           idx : [0..(l.index_size - 1) -> 0..(l.data_size - 1)],
           blob : [0..(l.data_size - 1) -> Byte]]
  BY <1>2, <1>3 DEF Rebuilt
<1>5. l.index_size > 1 /\ l.data_size > 1 /\ f < l.index_size
  BY DEF WellFormed
<1> HIDE DEF m
<1>6. WellFormed(m)
  BY <1>1, <1>4, <1>5 DEF WellFormed
<1> QED BY <1>1, <1>6 DEF m

\* x is an offset ring in which c items from slot f on have the distances D.
Table(l, f, c, d, x, D) ==
  /\ f \in 0..(l.index_size - 1) /\ c \in Nat /\ d \in Nat
  /\ x \in [0..(l.index_size - 1) -> 0..(l.data_size - 1)]
  /\ c < l.index_size /\ d < l.data_size
  /\ D[0] = 0 /\ D[c] = d
  /\ \A n \in 0..c : D[n] \in 0..d
  /\ \A m, n \in 0..c : m <= n => D[m] <= D[n]
  /\ \A n \in 0..c : x[(f + n) % l.index_size] = (x[f] + D[n]) % l.data_size

\* A table of distances makes the rebuilt list a proper one.
LEMMA Relayout ==
  ASSUME NEW l, WellFormed(l), NEW f, NEW c, NEW d, NEW x, NEW D,
         Table(l, f, c, d, x, D)
  PROVE  LET g == Rebuilt(l, f, c, d, x)
         IN  /\ WellFormed(g) /\ Layout(g)
             /\ Shape(g, l, c, x[f], D)
<1> USE DEF Table
<1> DEFINE g == Rebuilt(l, f, c, d, x)
<1>1. /\ WellFormed(g)
      /\ g.index_size = l.index_size /\ g.data_size = l.data_size
      /\ g.first = f /\ g.count = c /\ g.data_len = d
      /\ g.idx = x
  BY RebuiltType
<1>2. IndexRef(g, 0) = f
  <2>1. l.index_size \in Nat /\ l.index_size > 0 /\ f + 0 = f /\ f \in Int
        /\ 0 <= f /\ f < l.index_size
    BY HeaderType
  <2> HIDE DEF g
  <2> QED BY <1>1, <2>1, ModSmall DEF IndexRef
<1> HIDE DEF g
<1>3. \A n \in 0..g.count : StartOf(g, n) = (StartOf(g, 0) + D[n]) % g.data_size
  BY <1>1, <1>2 DEF StartOf, IndexRef
<1>4. Layout(g) /\ \A n \in 0..g.count : Distance(g, n) = D[n]
  <2>1. /\ g.count < g.index_size /\ g.data_len < g.data_size
        /\ D[0] = 0 /\ D[g.count] = g.data_len
        /\ \A n \in 0..g.count : D[n] \in 0..g.data_len
        /\ \A m, n \in 0..g.count : m <= n => D[m] <= D[n]
    BY <1>1
  <2> HIDE DEF Table
  <2>2. WellFormed(g)
    BY <1>1
  <2> QED BY <1>3, <2>1, <2>2, LayoutIntro
<1>5. StartOf(g, 0) = x[f]
  BY <1>1, <1>2 DEF StartOf
<1>6. Shape(g, l, c, x[f], D)
  BY <1>1, <1>4, <1>5 DEF Shape
<1> QED BY <1>1, <1>4, <1>6 DEF g

\* The first live slot is first.
LEMMA IndexRefZero ==
  ASSUME NEW l, WellFormed(l)
  PROVE  IndexRef(l, 0) = l.first
<1>1. l.index_size \in Nat /\ l.index_size > 0 /\ l.first + 0 = l.first
      /\ l.first \in Int /\ 0 <= l.first /\ l.first < l.index_size
  BY HeaderType
<1> QED BY <1>1, ModSmall DEF IndexRef

\* What the lemmas below need to know of a list before the operation.
LEMMA LayoutFacts ==
  ASSUME NEW l, WellFormed(l), Layout(l)
  PROVE  /\ l.data_size \in Nat /\ l.data_size > 0
         /\ l.index_size \in Nat /\ l.index_size > 0
         /\ l.first \in 0..(l.index_size - 1)
         /\ l.count \in Nat /\ l.count < l.index_size
         /\ l.data_len \in Nat /\ l.data_len < l.data_size
         /\ l.idx \in [0..(l.index_size - 1) -> 0..(l.data_size - 1)]
         /\ StartOf(l, 0) \in 0..(l.data_size - 1)
         /\ \A n \in 0..(l.index_size - 1) : IndexRef(l, n) \in 0..(l.index_size - 1)
<1>1. \A n \in 0..(l.index_size - 1) : n \in Int
  BY HeaderType
<1>2. \A n \in 0..(l.index_size - 1) : IndexRef(l, n) \in 0..(l.index_size - 1)
  BY <1>1, IndexRefType
<1>3. l.idx \in [0..(l.index_size - 1) -> 0..(l.data_size - 1)]
  BY DEF WellFormed
<1>4. StartOf(l, 0) \in 0..(l.data_size - 1)
  BY StartType
<1>5. l.count < l.index_size /\ l.data_len < l.data_size
  BY DEF Layout
<1> QED BY SMTT(30), <1>2, <1>3, <1>4, <1>5, HeaderType

\* An append or insertion that is not refused leaves the ring and the data area
\* short of full, which is what data_full() and is_full() keep free.
LEMMA RoomFacts ==
  ASSUME NEW l, WellFormed(l), Layout(l), NEW len \in Nat, ~ Full(l, len)
  PROVE  /\ l.count + 1 < l.index_size
         /\ l.data_len + len \in Nat
         /\ l.data_len + len < l.data_size
<1>1. /\ l.data_size \in Nat /\ l.index_size \in Nat
      /\ l.count \in Nat /\ l.data_len \in Nat
  BY LayoutFacts
<1>2. ~ (l.count >= l.index_size - 1) /\ ~ (len + l.data_len > l.data_size - 1)
  BY DEF Full, DataFull
<1> QED BY <1>1, <1>2

\* One more distance at the end.
Appended(l, len) ==
  [n \in 0..(l.count + 1) |-> IF n <= l.count THEN Distance(l, n) ELSE l.data_len + len]

\* rpush() appends.
LEMMA RPushLayout ==
  ASSUME NEW l, WellFormed(l), Layout(l), NEW v \in Seq(Byte), ~ Full(l, Len(v))
  PROVE  /\ WellFormed(RPushItem(l, v)) /\ Layout(RPushItem(l, v))
         /\ Shape(RPushItem(l, v), l, l.count + 1, StartOf(l, 0), Appended(l, Len(v)))
<1> DEFINE ds    == l.data_size
           is    == l.index_size
           c     == l.count
           len   == Len(v)
           start == StartOf(l, c)
           end   == DataOffset(l, start, len)
           x     == [l.idx EXCEPT ![IndexRef(l, c + 1)] = end]
           g     == Rebuilt(l, l.first, c + 1, l.data_len + len, x)
           D     == Appended(l, len)
<1>1. /\ ds \in Nat /\ ds > 0 /\ c \in Nat /\ len \in Nat
      /\ c + 1 < is /\ is \in Nat /\ is > 0 /\ l.first \in 0..(is - 1)
      /\ l.data_len \in Nat /\ l.data_len < ds /\ l.data_len + len < ds
  <2>1. len \in Nat
    OBVIOUS
  <2> QED BY <2>1, HeaderType, LayoutElim DEF Full, DataFull
<1>2. start \in 0..(ds - 1)
  <2>1. c \in Int
    BY <1>1
  <2> QED BY <2>1, StartType
<1>3. end \in 0..(ds - 1)
  <2>1. start + len \in Int
    BY <1>1, <1>2
  <2> HIDE DEF start
  <2> QED BY <1>1, <2>1, ModRange DEF DataOffset
<1>4. l.idx \in [0..(is - 1) -> 0..(ds - 1)]
  BY DEF WellFormed
<1>5. \A n \in 0..(c + 1) : IndexRef(l, n) \in 0..(is - 1)
  BY <1>1, IndexRefType
<1>6. x \in [0..(is - 1) -> 0..(ds - 1)]
  <2> HIDE DEF end
  <2> QED BY <1>1, <1>3, <1>4, <1>5
<1>7. \A n \in 0..c : x[IndexRef(l, n)] = StartOf(l, n)
  <2> TAKE n \in 0..c
  <2>1. /\ IndexRef(l, n) # IndexRef(l, c + 1)
        /\ IndexRef(l, n) \in 0..(is - 1)
    <3>1. n \in 0..(is - 1) /\ c + 1 \in 0..(is - 1) /\ n # c + 1
      BY <1>1
    <3> QED BY <1>5, <1>1, <3>1, SlotsDistinct
  <2> QED BY <2>1, <1>4 DEF StartOf
<1>8. x[IndexRef(l, c + 1)] = end
  <2>1. IndexRef(l, c + 1) \in 0..(is - 1)
    BY <1>1, <1>5
  <2> HIDE DEF end
  <2> QED BY <2>1, <1>4
<1>9. /\ \A n \in 0..c : /\ Distance(l, n) \in 0..l.data_len
                         /\ StartOf(l, n) = (StartOf(l, 0) + Distance(l, n)) % ds
      /\ \A m, n \in 0..c : m <= n => Distance(l, m) <= Distance(l, n)
      /\ Distance(l, 0) = 0 /\ Distance(l, c) = l.data_len
      /\ StartOf(l, 0) \in 0..(ds - 1)
  BY LayoutElim, StartType
<1>10. IndexRef(l, 0) = l.first
  <2> HIDE DEF ds, len, start, end, x, g, D
  <2> QED BY IndexRefZero
<1>11. end = (StartOf(l, 0) + (l.data_len + len)) % ds
  <2> DEFINE b == StartOf(l, 0)
             i == l.data_len
  <2>1. start = (b + i) % ds
    <3>1. c \in 0..c
      BY <1>1
    <3> QED BY <3>1, <1>9
  <2>2. /\ ds \in Nat /\ ds > 0 /\ b \in 0..(ds - 1) /\ i \in 0..(ds - 1) /\ len \in Int
        /\ 0 <= i + len /\ i + len < ds
    <3>1. b \in 0..(ds - 1)
      BY <1>9
    <3>2. 0 <= i + len /\ len \in Int /\ i \in 0..(ds - 1)
      <4> HIDE DEF len
      <4> QED BY <1>1
    <3> QED BY <1>1, <3>1, <3>2
  <2>3. (((b + i) % ds) + len) % ds = (b + (i + len)) % ds
    <3> HIDE DEF b, i, ds, len
    <3> QED BY <2>2, ModAdd
  <2> HIDE DEF b, i, len, start
  <2> QED BY <2>1, <2>3 DEF DataOffset, b, i
<1>12. \A n \in 0..(c + 1) : x[(l.first + n) % is] = (x[l.first] + D[n]) % ds
  <2> TAKE n \in 0..(c + 1)
  <2>1. x[l.first] = StartOf(l, 0)
    BY <1>1, <1>7, <1>10
  <2>2. CASE n <= c
    <3>1. n \in 0..c /\ D[n] = Distance(l, n)
      BY <1>1, <2>2 DEF Appended
    <3> HIDE DEF x, D
    <3> QED BY <3>1, <1>7, <1>9, <2>1 DEF IndexRef
  <2>3. CASE ~ (n <= c)
    <3>1. n = c + 1 /\ D[n] = l.data_len + len
      BY <1>1, <2>3 DEF Appended
    <3> HIDE DEF x, D, end
    <3> QED BY <3>1, <1>8, <1>11, <2>1 DEF IndexRef
  <2> QED BY <2>2, <2>3
<1>13. /\ D[0] = 0 /\ D[c + 1] = l.data_len + len
       /\ \A n \in 0..(c + 1) : D[n] \in 0..(l.data_len + len)
       /\ \A m, n \in 0..(c + 1) : m <= n => D[m] <= D[n]
  <2>1. \A n \in 0..(c + 1) : D[n] = IF n <= c THEN Distance(l, n)
                                     ELSE l.data_len + len
    BY DEF Appended
  <2>2. c + 1 \in 0..(c + 1) /\ 0 \in 0..(c + 1) /\ ~ (c + 1 <= c) /\ 0 <= c
    BY <1>1
  <2>3. \A n \in 0..(c + 1) : n <= c => n \in 0..c
    BY <1>1
  <2> HIDE DEF D, len, c
  <2>4. D[0] = 0 /\ D[c + 1] = l.data_len + len
    BY <1>9, <2>1, <2>2
  <2>5. ASSUME NEW n \in 0..(c + 1)
        PROVE  \/ n <= c /\ D[n] = Distance(l, n) /\ D[n] \in 0..l.data_len
               \/ ~ (n <= c) /\ D[n] = l.data_len + len
    BY <1>9, <2>1, <2>3
  <2>6. ASSUME NEW n \in 0..(c + 1) PROVE D[n] \in 0..(l.data_len + len)
    BY <1>1, <2>5
  <2>7. ASSUME NEW m \in 0..(c + 1), NEW n \in 0..(c + 1), m <= n
        PROVE  D[m] <= D[n]
    <3>1. CASE n <= c
      <4>1. m <= c
        BY <1>1, <2>7, <3>1
      <4> QED BY <1>9, <2>1, <2>3, <2>7, <3>1, <4>1
    <3>2. CASE ~ (n <= c)
      BY <1>1, <2>5, <3>2
    <3> QED BY <3>1, <3>2
  <2> QED BY <2>4, <2>6, <2>7
<1>14. WellFormed(g) /\ Layout(g) /\ Shape(g, l, c + 1, StartOf(l, 0), D)
  <2>1. c + 1 \in Nat /\ l.data_len + len \in Nat
    BY <1>1
  <2>2. Table(l, l.first, c + 1, l.data_len + len, x, D)
    <3> HIDE DEF D, x, len, c
    <3> QED BY <1>1, <1>6, <1>12, <1>13, <2>1 DEF Table
  <2>3. x[l.first] = StartOf(l, 0)
    BY <1>1, <1>7, <1>10
  <2> HIDE DEF D, x
  <2> QED BY <2>2, <2>3, Relayout
<1>15. RPushItem(l, v) = CopyInto(g, v, start)
  <2>1. g = [l EXCEPT !.count = @ + 1, !.idx[IndexRef(l, l.count + 1)] = end,
                      !.data_len = @ + Len(v)]
    BY DEF Rebuilt, WellFormed
  <2> HIDE DEF g
  <2> QED BY <2>1 DEF RPushItem
<1>16. start \in Int
  BY <1>1, <1>2
<1> HIDE DEF g, start, D
<1>17. /\ WellFormed(RPushItem(l, v)) /\ Layout(RPushItem(l, v))
       /\ Shape(RPushItem(l, v), l, c + 1, StartOf(l, 0), D)
  BY <1>14, <1>15, <1>16, CopyIntoIndex, SameIndexLayout, SameIndexShape
<1> QED BY <1>17 DEF D

\* The offset of a later item, seen from an earlier one.
LEMMA StartFrom ==
  ASSUME NEW l, WellFormed(l), Layout(l), NEW k \in 0..l.count, NEW n \in 0..l.count
  PROVE  StartOf(l, n)
           = (StartOf(l, k) + (Distance(l, n) - Distance(l, k))) % l.data_size
<1> DEFINE ds == l.data_size
           b  == StartOf(l, 0)
           i  == Distance(l, k)
           j  == Distance(l, n)
<1>1. /\ ds \in Nat /\ ds > 0 /\ b \in 0..(ds - 1) /\ l.data_len < ds
      /\ l.data_len \in Nat
  BY LayoutFacts
<1>2. /\ i \in 0..l.data_len /\ j \in 0..l.data_len
      /\ StartOf(l, k) = (b + i) % ds /\ StartOf(l, n) = (b + j) % ds
  BY LayoutElim
<1> HIDE DEF ds, b, i, j
<1>3. /\ i \in (1 - ds)..(ds - 1) /\ j - i \in Int
      /\ 0 <= i + (j - i) /\ i + (j - i) < ds /\ i + (j - i) = j
  BY <1>1, <1>2
<1>4. (((b + i) % ds) + (j - i)) % ds = (b + (i + (j - i))) % ds
  BY <1>1, <1>3, ModAdd
<1>5. StartOf(l, n) = (StartOf(l, k) + (j - i)) % ds
  BY <1>2, <1>3, <1>4
<1> QED BY <1>5 DEF ds, i, j

\* The distances from item k to c items on.
Sliced(l, k, c) == [n \in 0..c |-> Distance(l, k + n) - Distance(l, k)]

\* Cutting items off either end.
LEMMA SliceLayout ==
  ASSUME NEW l, WellFormed(l), Layout(l), NEW k \in 0..l.count,
         NEW c \in 0..(l.count - k)
  PROVE  LET g == Rebuilt(l, IndexRef(l, k), c,
                          Distance(l, k + c) - Distance(l, k), l.idx)
         IN  /\ WellFormed(g) /\ Layout(g)
             /\ Shape(g, l, c, StartOf(l, k), Sliced(l, k, c))
<1> DEFINE f == IndexRef(l, k)
           d == Distance(l, k + c) - Distance(l, k)
           D == Sliced(l, k, c)
<1>1. /\ k \in Nat /\ c \in Nat /\ k + c \in 0..l.count /\ c < l.index_size
      /\ l.data_len \in Nat /\ l.data_len < l.data_size
      /\ l.count \in Nat /\ l.count < l.index_size
      /\ l.index_size \in Nat /\ l.index_size > 0 /\ l.first \in 0..(l.index_size - 1)
  BY LayoutFacts
<1>2. ASSUME NEW n \in 0..c
      PROVE  /\ k + n \in 0..l.count
             /\ l.idx[(f + n) % l.index_size] = StartOf(l, k + n)
  <2>1. k + n \in 0..l.count
    BY <1>1
  <2>2. (f + n) % l.index_size = IndexRef(l, k + n)
    <3> DEFINE is == l.index_size
               b  == l.first
    <3>1. /\ is \in Nat /\ is > 0 /\ b \in 0..(is - 1) /\ k \in (1 - is)..(is - 1)
          /\ n \in Int /\ 0 <= k + n /\ k + n < is
      BY <1>1, <1>2, <2>1
    <3>2. (((b + k) % is) + n) % is = (b + (k + n)) % is
      <4> HIDE DEF is, b
      <4> QED BY <3>1, ModAdd
    <3> QED BY <3>2 DEF IndexRef
  <2> QED BY <2>1, <2>2 DEF StartOf
<1>3. \A n \in 0..c : /\ D[n] = Distance(l, k + n) - Distance(l, k)
                      /\ l.idx[(f + n) % l.index_size]
                           = (StartOf(l, k) + D[n]) % l.data_size
  <2> TAKE n \in 0..c
  <2>1. D[n] = Distance(l, k + n) - Distance(l, k)
    BY DEF Sliced
  <2>2. StartOf(l, k + n)
          = (StartOf(l, k) + (Distance(l, k + n) - Distance(l, k))) % l.data_size
    BY <1>2, StartFrom
  <2> HIDE DEF D
  <2> QED BY <1>2, <2>1, <2>2
<1>4. /\ Distance(l, k) \in 0..l.data_len
      /\ \A n \in 0..c : /\ Distance(l, k + n) \in 0..l.data_len
                         /\ Distance(l, k) <= Distance(l, k + n)
                         /\ Distance(l, k + n) <= Distance(l, k + c)
      /\ \A m, n \in 0..c : m <= n => Distance(l, k + m) <= Distance(l, k + n)
  <2>1. \A n \in 0..c : k + n \in 0..l.count /\ k <= k + n /\ k + n <= k + c
    BY <1>1
  <2>2. \A m, n \in 0..c : m <= n => k + m <= k + n
    BY <1>1
  <2> QED BY <1>1, <2>1, <2>2, LayoutElim
<1>5. Table(l, f, c, d, l.idx, D)
  <2>1. /\ f \in 0..(l.index_size - 1)
        /\ l.idx \in [0..(l.index_size - 1) -> 0..(l.data_size - 1)]
    <3>1. k \in 0..(l.index_size - 1)
      BY <1>1
    <3> QED BY <3>1, LayoutFacts
  <2>2. d \in Nat /\ d < l.data_size
    <3>1. c \in 0..c
      BY <1>1
    <3>2. /\ Distance(l, k + c) \in 0..l.data_len
          /\ Distance(l, k) <= Distance(l, k + c)
      BY <3>1, <1>4
    <3>3. Distance(l, k) \in 0..l.data_len
      BY <1>4
    <3>4. /\ Distance(l, k) \in Int /\ Distance(l, k + c) \in Int
          /\ 0 <= Distance(l, k) /\ Distance(l, k + c) <= l.data_len
      BY <3>2, <3>3, <1>1
    <3>5. d = Distance(l, k + c) - Distance(l, k)
      OBVIOUS
    <3>6. l.data_size \in Nat
      BY LayoutFacts
    <3> HIDE DEF d
    <3> QED BY <3>2, <3>4, <3>5, <3>6, <1>1
  <2>3. D[0] = 0 /\ D[c] = d
    <3>1. 0 \in 0..c /\ c \in 0..c /\ k + 0 = k
      BY <1>1
    <3> HIDE DEF D
    <3> QED BY <3>1, <1>3, <1>4
  <2>4. ASSUME NEW n \in 0..c PROVE D[n] \in 0..d
    <3>1. D[n] = Distance(l, k + n) - Distance(l, k)
      BY <1>3
    <3>2. /\ Distance(l, k) \in 0..l.data_len
          /\ Distance(l, k + n) \in 0..l.data_len
          /\ Distance(l, k + c) \in 0..l.data_len
          /\ Distance(l, k) <= Distance(l, k + n)
          /\ Distance(l, k + n) <= Distance(l, k + c)
      <4>1. c \in 0..c
        BY <1>1
      <4> QED BY <4>1, <1>4
    <3> HIDE DEF D
    <3> QED BY <3>1, <3>2, <1>1
  <2>5. ASSUME NEW m \in 0..c, NEW n \in 0..c, m <= n PROVE D[m] <= D[n]
    <3>1. /\ D[n] = Distance(l, k + n) - Distance(l, k)
          /\ D[m] = Distance(l, k + m) - Distance(l, k)
      BY <1>3
    <3>2. Distance(l, k + m) <= Distance(l, k + n)
      BY <1>4, <2>5
    <3>3. /\ Distance(l, k) \in 0..l.data_len
          /\ Distance(l, k + m) \in 0..l.data_len
          /\ Distance(l, k + n) \in 0..l.data_len
      BY <1>4
    <3> HIDE DEF D
    <3> QED BY <3>1, <3>2, <3>3, <1>1
  <2>6. l.idx[f] = StartOf(l, k)
    BY DEF StartOf
  <2>7. \A n \in 0..c : l.idx[(f + n) % l.index_size] = (l.idx[f] + D[n]) % l.data_size
    <3> HIDE DEF D, f
    <3> QED BY <1>3, <2>6
  <2> HIDE DEF D, f, d
  <2> QED BY <1>1, <2>1, <2>2, <2>3, <2>4, <2>5, <2>7 DEF Table
<1>6. l.idx[f] = StartOf(l, k)
  BY DEF StartOf
<1> HIDE DEF D, f, d
<1>7. /\ WellFormed(Rebuilt(l, f, c, d, l.idx)) /\ Layout(Rebuilt(l, f, c, d, l.idx))
      /\ Shape(Rebuilt(l, f, c, d, l.idx), l, c, StartOf(l, k), D)
  BY <1>5, <1>6, Relayout
<1> QED BY <1>7 DEF f, d, D

\* rpop() cuts one item off the tail.
LEMMA RPopLayout ==
  ASSUME NEW l, WellFormed(l), Layout(l), l.count # 0
  PROVE  /\ WellFormed(RPopItem(l)) /\ Layout(RPopItem(l))
         /\ Shape(RPopItem(l), l, l.count - 1, StartOf(l, 0), Sliced(l, 0, l.count - 1))
<1> DEFINE c == l.count - 1
           d == Distance(l, 0 + c) - Distance(l, 0)
<1>0. l.count \in Nat /\ l.count # 0
  BY LayoutFacts
<1>1. /\ c \in 0..(l.count - 0) /\ 0 \in 0..l.count
      /\ c \in 0..(l.count - 1) /\ c + 1 = l.count /\ 0 + c = c
  BY <1>0
<1>2. l.data_len - GetSize(l, c) = d
  <2>1. GetSize(l, c) = Distance(l, c + 1) - Distance(l, c)
    BY <1>1, SizeDistance
  <2>2. Distance(l, l.count) = l.data_len /\ Distance(l, 0) = 0
        /\ Distance(l, c) \in 0..l.data_len /\ l.data_len \in Nat
    <3>1. c \in 0..l.count
      BY <1>1
    <3> QED BY <3>1, LayoutElim, LayoutFacts
  <2> HIDE DEF c
  <2> QED BY <1>1, <2>1, <2>2
<1>3. RPopItem(l) = Rebuilt(l, IndexRef(l, 0), c, d, l.idx)
  <2>1. RPopItem(l) = [l EXCEPT !.count = c, !.data_len = d]
    <3>1. RPopItem(l) = [l EXCEPT !.count = l.count - 1,
                                  !.data_len = l.data_len - GetSize(l, c)]
      BY DEF RPopItem
    <3> HIDE DEF d
    <3> QED BY <3>1, <1>2
  <2>2. IndexRef(l, 0) = l.first
    BY IndexRefZero
  <2> HIDE DEF c, d
  <2> QED BY <2>1, <2>2 DEF Rebuilt, WellFormed
<1> QED BY <1>1, <1>3, SliceLayout

\* lpop() cuts one item off the head.
LEMMA LPopLayout ==
  ASSUME NEW l, WellFormed(l), Layout(l), l.count # 0
  PROVE  /\ WellFormed(LPopItem(l)) /\ Layout(LPopItem(l))
         /\ Shape(LPopItem(l), l, l.count - 1, StartOf(l, 1), Sliced(l, 1, l.count - 1))
<1> DEFINE c == l.count - 1
           d == Distance(l, 1 + c) - Distance(l, 1)
<1>1. /\ l.count \in Nat /\ c \in 0..(l.count - 1) /\ 1 \in 0..l.count
      /\ 0 \in 0..(l.count - 1) /\ 1 + c = l.count /\ 0 + 1 = 1
  BY LayoutFacts
<1>2. l.data_len - GetSize(l, 0) = d
  <2>1. GetSize(l, 0) = Distance(l, 0 + 1) - Distance(l, 0)
    BY <1>1, SizeDistance
  <2>2. Distance(l, l.count) = l.data_len /\ Distance(l, 0) = 0
        /\ Distance(l, 1) \in 0..l.data_len /\ l.data_len \in Nat
    BY <1>1, LayoutElim, LayoutFacts
  <2> HIDE DEF c
  <2> QED BY <1>1, <2>1, <2>2
<1>3. LPopItem(l) = Rebuilt(l, IndexRef(l, 1), c, d, l.idx)
  <2>1. LPopItem(l) = [l EXCEPT !.first = IndexRef(l, 1), !.count = c, !.data_len = d]
    <3>1. LPopItem(l) = [l EXCEPT !.first = IndexRef(l, 1), !.count = l.count - 1,
                                  !.data_len = l.data_len - GetSize(l, 0)]
      BY DEF LPopItem
    <3> HIDE DEF d
    <3> QED BY <3>1, <1>2
  <2> HIDE DEF c, d
  <2> QED BY <2>1 DEF Rebuilt, WellFormed
<1> QED BY <1>1, <1>3, SliceLayout

\* trim_size() computes what the slice has left, whatever data_len was.
LEMMA TrimLayout ==
  ASSUME NEW l, WellFormed(l), Layout(l), NEW k \in 0..l.count,
         NEW c \in 0..(l.count - k), NEW d \in Nat
  PROVE  LET g == TrimSize(Rebuilt(l, IndexRef(l, k), c, d, l.idx))
         IN  /\ WellFormed(g) /\ Layout(g)
             /\ Shape(g, l, c, StartOf(l, k), Sliced(l, k, c))
<1> DEFINE f == IndexRef(l, k)
           e == Distance(l, k + c) - Distance(l, k)
           r == Rebuilt(l, f, c, d, l.idx)
           g == Rebuilt(l, f, c, e, l.idx)
<1>1. WellFormed(g) /\ Layout(g) /\ Shape(g, l, c, StartOf(l, k), Sliced(l, k, c))
  BY SliceLayout
<1>2. /\ k \in Int /\ c \in Nat /\ f \in 0..(l.index_size - 1)
      /\ l.idx \in [0..(l.index_size - 1) -> 0..(l.data_size - 1)]
  <2>1. l.count \in Nat /\ l.idx \in [0..(l.index_size - 1) -> 0..(l.data_size - 1)]
    BY LayoutFacts
  <2>2. k \in Int /\ c \in Nat
    BY <2>1
  <2>3. IndexRef(l, k) \in 0..(l.index_size - 1)
    BY <2>2, IndexRefType
  <2> QED BY <2>1, <2>2, <2>3
<1>3. /\ r.index_size = l.index_size /\ r.data_size = l.data_size
      /\ r.first = f /\ r.count = c /\ r.data_len = d /\ r.idx = l.idx
      /\ WellFormed(r)
  <2> HIDE DEF f
  <2> QED BY <1>2, RebuiltType
<1>4. e \in Nat
  <2>1. k + c \in 0..l.count /\ k <= k + c
    BY LayoutFacts
  <2>2. /\ Distance(l, k) \in 0..l.data_len /\ Distance(l, k + c) \in 0..l.data_len
        /\ Distance(l, k) <= Distance(l, k + c)
    BY <2>1, LayoutElim
  <2> QED BY <2>2, LayoutFacts
<1>5. /\ g.index_size = l.index_size /\ g.data_size = l.data_size
      /\ g.first = f /\ g.count = c /\ g.data_len = e /\ g.idx = l.idx
  <2> HIDE DEF f, e
  <2> QED BY <1>2, <1>4, RebuiltType
<1> HIDE DEF r, g
<1>6. Span(g, StartOf(g, 0), EndOf(g, g.count)) = e
  <2>1. /\ 0 \in 0..g.count /\ g.count \in 0..g.count /\ g.count \in Nat
        /\ (0 < g.count \/ (g.count = 0 /\ 0 = 0))
    BY <1>2, <1>5
  <2>2. Span(g, StartOf(g, 0), EndOf(g, g.count))
          = Distance(g, g.count) - Distance(g, 0)
    BY <1>1, <2>1, SpanDistance
  <2>3. Distance(g, g.count) = g.data_len /\ Distance(g, 0) = 0
    BY <1>1, LayoutElim
  <2> HIDE DEF e
  <2> QED BY <2>2, <2>3, <1>4, <1>5
<1>7. Span(r, StartOf(r, 0), EndOf(r, r.count))
        = Span(g, StartOf(g, 0), EndOf(g, g.count))
  BY <1>3, <1>5 DEF Span, StartOf, EndOf, IndexRef
<1>8. TrimSize(r) = [r EXCEPT !.data_len = e]
  BY <1>6, <1>7 DEF TrimSize
<1>9. TrimSize(r) = g
  <2> HIDE DEF e, f
  <2> QED BY <1>8 DEF r, g, Rebuilt, WellFormed
<1> QED BY <1>1, <1>9 DEF r

\* ltrim() cuts items off the head.
LEMMA LTrimLayout ==
  ASSUME NEW l, WellFormed(l), Layout(l), NEW n \in 0..l.count
  PROVE  /\ WellFormed(LTrimItems(l, n)) /\ Layout(LTrimItems(l, n))
         /\ Shape(LTrimItems(l, n), l, l.count - n, StartOf(l, n), Sliced(l, n, l.count - n))
<1>1. l.count - n \in 0..(l.count - n) /\ l.data_len \in Nat
  BY LayoutFacts
<1>2. LTrimItems(l, n)
        = TrimSize(Rebuilt(l, IndexRef(l, n), l.count - n, l.data_len, l.idx))
  <2>1. [l EXCEPT !.count = @ - n, !.first = IndexRef(l, n)]
          = Rebuilt(l, IndexRef(l, n), l.count - n, l.data_len, l.idx)
    BY DEF Rebuilt, WellFormed
  <2> QED BY <2>1 DEF LTrimItems
<1> QED BY <1>1, <1>2, TrimLayout

\* rtrim() cuts items off the tail.
LEMMA RTrimLayout ==
  ASSUME NEW l, WellFormed(l), Layout(l), NEW n \in 0..l.count
  PROVE  /\ WellFormed(RTrimItems(l, n)) /\ Layout(RTrimItems(l, n))
         /\ Shape(RTrimItems(l, n), l, l.count - n, StartOf(l, 0), Sliced(l, 0, l.count - n))
<1>1. /\ l.count - n \in 0..(l.count - 0) /\ 0 \in 0..l.count
      /\ l.data_len \in Nat
  BY LayoutFacts
<1>2. RTrimItems(l, n)
        = TrimSize(Rebuilt(l, IndexRef(l, 0), l.count - n, l.data_len, l.idx))
  <2>1. IndexRef(l, 0) = l.first
    BY IndexRefZero
  <2>2. [l EXCEPT !.count = @ - n]
          = Rebuilt(l, IndexRef(l, 0), l.count - n, l.data_len, l.idx)
    BY <2>1 DEF Rebuilt, WellFormed
  <2> QED BY <2>2 DEF RTrimItems
<1> QED BY <1>1, <1>2, TrimLayout

\* Before the ring's first slot comes its last one.
LEMMA ModBefore ==
  ASSUME NEW d \in Nat, d > 0, NEW b \in 0..(d - 1)
  PROVE  (b - 1) % d = (b + (d - 1)) % d
  BY SMT

\* All distances grow by the size of an item before them.
Prepended(l, len) ==
  [n \in 0..(l.count + 1) |-> IF n = 0 THEN 0 ELSE Distance(l, n - 1) + len]

\* lpush() prepends, from a first offset that is that much further back.
LEMMA LPushLayout ==
  ASSUME NEW l, WellFormed(l), Layout(l), NEW v \in Seq(Byte), ~ Full(l, Len(v))
  PROVE  /\ WellFormed(LPushItem(l, v)) /\ Layout(LPushItem(l, v))
         /\ Shape(LPushItem(l, v), l, l.count + 1, DataOffset(l, StartOf(l, 0), -Len(v)),
                  Prepended(l, Len(v)))
<1> DEFINE ds    == l.data_size
           is    == l.index_size
           c     == l.count
           len   == Len(v)
           b     == StartOf(l, 0)
           start == DataOffset(l, b, -len)
           f     == (l.first - 1) % is
           x     == [l.idx EXCEPT ![f] = start]
           t     == l.data_len + len
           g     == Rebuilt(l, f, c + 1, t, x)
           D     == Prepended(l, len)
<1>1. /\ ds \in Nat /\ ds > 0 /\ c \in Nat /\ len \in Nat
      /\ c + 1 < is /\ is \in Nat /\ is > 0 /\ l.first \in 0..(is - 1)
      /\ l.data_len \in Nat /\ l.data_len < ds /\ t \in Nat /\ t < ds
      /\ b \in 0..(ds - 1) /\ l.idx \in [0..(is - 1) -> 0..(ds - 1)]
  <2>1. len \in Nat
    OBVIOUS
  <2>2. /\ c + 1 < is /\ t \in Nat /\ t < ds
    BY <2>1, RoomFacts
  <2>3. /\ ds \in Nat /\ ds > 0 /\ c \in Nat /\ is \in Nat /\ is > 0
        /\ l.first \in 0..(is - 1) /\ l.data_len \in Nat /\ l.data_len < ds
        /\ b \in 0..(ds - 1) /\ l.idx \in [0..(is - 1) -> 0..(ds - 1)]
    BY LayoutFacts
  <2> HIDE DEF ds, is, c, len, t, b, start, f, x, g, D
  <2> QED BY <2>1, <2>2, <2>3
<1>2. f \in 0..(is - 1)
  <2>1. l.first - 1 \in Int
    BY <1>1
  <2> QED BY <2>1, <1>1, ModRange
<1>3. start \in 0..(ds - 1)
  <2>1. b + (-len) \in Int
    BY <1>1
  <2> HIDE DEF b
  <2> QED BY <1>1, <2>1, ModRange DEF DataOffset
<1>4. x \in [0..(is - 1) -> 0..(ds - 1)]
  <2> HIDE DEF start, f
  <2> QED BY <1>1, <1>2, <1>3
<1>5. ASSUME NEW n \in 0..(c + 1), n # 0
      PROVE  (f + n) % is = IndexRef(l, n - 1)
  <2> DEFINE a == l.first
             i == -1
  <2>1. /\ is \in Nat /\ is > 0 /\ a \in 0..(is - 1) /\ i \in (1 - is)..(is - 1)
        /\ n \in Int /\ 0 <= i + n /\ i + n < is /\ i + n = n - 1 /\ a + i = a - 1
    <3>1. n \in Nat /\ n # 0 /\ n < is
      BY <1>1, <1>5
    <3> HIDE DEF is, c, f, x, start, t, g, D, b, ds, len
    <3> QED BY <1>1, <3>1
  <2> HIDE DEF i, a
  <2>2. (((a + i) % is) + n) % is = (a + (i + n)) % is
    <3> HIDE DEF is
    <3> QED BY <2>1, ModAdd
  <2>3. (((a - 1) % is) + n) % is = (a + (n - 1)) % is
    BY <2>1, <2>2
  <2> QED BY <2>3 DEF a, IndexRef
<1>6. \A n \in 0..c : IndexRef(l, n) # f /\ IndexRef(l, n) \in 0..(is - 1)
  <2> TAKE n \in 0..c
  <2>1. f = IndexRef(l, is - 1)
    <3>1. (l.first - 1) % is = (l.first + (is - 1)) % is
      <4> HIDE DEF is
      <4> QED BY <1>1, ModBefore
    <3> QED BY <3>1 DEF IndexRef
  <2>2. n \in 0..(is - 1) /\ is - 1 \in 0..(is - 1) /\ n # is - 1
    <3> HIDE DEF ds, len, b, start, f, x, t, g, D
    <3> QED BY <1>1
  <2>3. IndexRef(l, n) # IndexRef(l, is - 1)
    BY <2>2, SlotsDistinct
  <2> HIDE DEF f
  <2> QED BY <2>1, <2>2, <2>3, LayoutFacts
<1>7. \A n \in 0..c : x[IndexRef(l, n)] = StartOf(l, n)
  BY <1>1, <1>6 DEF StartOf
<1>8. x[f] = start
  <2> HIDE DEF start, f
  <2> QED BY <1>1, <1>2
<1>9. /\ \A n \in 0..c : /\ Distance(l, n) \in 0..l.data_len
                         /\ StartOf(l, n) = (b + Distance(l, n)) % ds
      /\ \A m, n \in 0..c : m <= n => Distance(l, m) <= Distance(l, n)
      /\ Distance(l, 0) = 0 /\ Distance(l, c) = l.data_len
  BY LayoutElim
<1>10. \A n \in 0..(c + 1) : D[n] = IF n = 0 THEN 0 ELSE Distance(l, n - 1) + len
  BY DEF Prepended
<1>11. \A n \in 0..(c + 1) : n # 0 =>
         /\ n - 1 \in 0..c
         /\ D[n] = Distance(l, n - 1) + len
         /\ D[n] \in 0..t
  <2> TAKE n \in 0..(c + 1)
  <2> HAVE n # 0
  <2>1. n - 1 \in 0..c
    BY <1>1
  <2>2. D[n] = Distance(l, n - 1) + len
    BY <1>10
  <2>3. Distance(l, n - 1) \in 0..l.data_len
    BY <2>1, <1>9
  <2> DEFINE y == Distance(l, n - 1)
             z == l.data_len
  <2>4. y \in 0..z /\ z \in Nat /\ len \in Nat
    BY <2>3, <1>1
  <2> HIDE DEF y, z, D, len
  <2>5. y + len \in 0..(z + len)
    BY <2>4
  <2> HIDE DEF ds, is, c, b, start, f, x, g
  <2> QED BY <2>1, <2>2, <2>5 DEF y, z
<1>12. \A n \in 0..(c + 1) : x[(f + n) % is] = (start + D[n]) % ds
  <2> TAKE n \in 0..(c + 1)
  <2>1. CASE n = 0
    <3>1. (f + 0) % is = f /\ (start + 0) % ds = start
      <4>1. /\ f \in Int /\ 0 <= f /\ f < is /\ f + 0 = f
            /\ start \in Int /\ 0 <= start /\ start < ds /\ start + 0 = start
        <5> HIDE DEF f, start
        <5> QED BY SMTT(30), <1>1, <1>2, <1>3
      <4> HIDE DEF f, start
      <4> QED BY <4>1, <1>1, ModSmall
    <3>2. D[n] = 0
      BY <2>1, <1>10
    <3> HIDE DEF x, D, f, start
    <3> QED BY <2>1, <3>1, <3>2, <1>8
  <2>2. CASE n # 0
    <3> DEFINE dn  == Distance(l, n - 1)
               neg == -len
               k   == dn + len
    <3>1. n - 1 \in 0..c /\ D[n] = k /\ D[n] \in 0..t
      BY <2>2, <1>11
    <3>2. x[(f + n) % is] = (b + dn) % ds
      <4>1. (f + n) % is = IndexRef(l, n - 1)
        BY <2>2, <1>5
      <4>2. x[IndexRef(l, n - 1)] = StartOf(l, n - 1)
        BY <3>1, <1>7
      <4>3. StartOf(l, n - 1) = (b + Distance(l, n - 1)) % ds
        BY <3>1, <1>9
      <4> HIDE DEF x, f, b, ds, is
      <4> QED BY <4>1, <4>2, <4>3
    <3>3. dn \in 0..l.data_len
      BY <3>1, <1>9
    <3>4. /\ neg \in (1 - ds)..(ds - 1) /\ k \in Int /\ neg + k = dn
          /\ 0 <= neg + k /\ neg + k < ds
      <4>1. l.data_len \in Nat /\ len \in Nat /\ l.data_len + len < ds /\ ds \in Nat
        BY <1>1
      <4> HIDE DEF dn, len, ds, b, f, x, start, g, D
      <4> QED BY <4>1, <3>3
    <3>5. (((b + neg) % ds) + k) % ds = (b + (neg + k)) % ds
      <4> HIDE DEF b, neg, k, ds
      <4> QED BY <1>1, <3>4, ModAdd
    <3>6. start = (b + neg) % ds
      BY DEF DataOffset
    <3> HIDE DEF x, D, f, start, k, dn, neg, b
    <3> QED BY <3>1, <3>2, <3>4, <3>5, <3>6
  <2> QED BY <2>1, <2>2
<1>13. D[0] = 0 /\ D[c + 1] = t
  <2>1. 0 \in 0..(c + 1) /\ c + 1 \in 0..(c + 1) /\ c + 1 # 0 /\ (c + 1) - 1 = c
    <3>1. c \in Nat
      BY <1>1
    <3> HIDE DEF c
    <3> QED BY <3>1
  <2> HIDE DEF D, len
  <2> QED BY <2>1, <1>10, <1>9 DEF t
<1>14. ASSUME NEW m \in 0..(c + 1), NEW n \in 0..(c + 1), m <= n PROVE D[m] <= D[n]
  <2>1. CASE m = 0
    <3>1. D[m] = 0 /\ (n # 0 => D[n] \in 0..t) /\ (n = 0 => D[n] = 0)
      BY <2>1, <1>10, <1>11
    <3> HIDE DEF D, t
    <3> QED BY <3>1, <1>1
  <2>2. CASE m # 0
    <3>1. n # 0 /\ m - 1 <= n - 1
      BY <1>1, <1>14, <2>2
    <3>2. /\ m - 1 \in 0..c /\ n - 1 \in 0..c
          /\ D[m] = Distance(l, m - 1) + len /\ D[n] = Distance(l, n - 1) + len
      BY <3>1, <2>2, <1>11
    <3>3. /\ Distance(l, m - 1) <= Distance(l, n - 1)
          /\ Distance(l, m - 1) \in 0..l.data_len /\ Distance(l, n - 1) \in 0..l.data_len
      BY <3>1, <3>2, <1>9
    <3> HIDE DEF D, len
    <3> QED BY <3>2, <3>3, <1>1
  <2> QED BY <2>1, <2>2
<1>15. \A n \in 0..(c + 1) : D[n] \in 0..t
  <2> TAKE n \in 0..(c + 1)
  <2>1. n = 0 => D[n] = 0
    BY <1>10
  <2> HIDE DEF D, t
  <2> QED BY <2>1, <1>11, <1>1
<1>16. Table(l, f, c + 1, t, x, D)
  <2>1. c + 1 \in Nat
    BY <1>1
  <2> HIDE DEF D, x, f, t, start, c
  <2> QED BY <2>1, <1>1, <1>2, <1>4, <1>8, <1>12, <1>13, <1>14, <1>15 DEF Table
<1>17. WellFormed(g) /\ Layout(g) /\ Shape(g, l, c + 1, start, D)
  <2> HIDE DEF D, x, f, t, c, start
  <2> QED BY <1>8, <1>16, Relayout
<1>18. LPushItem(l, v) = CopyInto(g, v, start)
  <2>1. g = [l EXCEPT !.first = f, !.count = @ + 1, !.idx[f] = start,
                      !.data_len = @ + Len(v)]
    <3> HIDE DEF f, start
    <3> QED BY DEF Rebuilt, WellFormed
  <2> HIDE DEF g
  <2> QED BY <2>1 DEF LPushItem
<1>19. start \in Int
  <2> HIDE DEF start
  <2> QED BY <1>1, <1>3
<1> HIDE DEF g, start, D
<1>20. /\ WellFormed(LPushItem(l, v)) /\ Layout(LPushItem(l, v))
       /\ Shape(LPushItem(l, v), l, c + 1, start, D)
  BY <1>17, <1>18, <1>19, CopyIntoIndex, SameIndexLayout, SameIndexShape
<1> QED BY <1>20 DEF D, start

\* The order of two steps around the ring does not matter.
LEMMA ModSwap ==
  ASSUME NEW d \in Nat, d > 0, NEW b \in 0..(d - 1), NEW i \in (1 - d)..(d - 1),
         NEW k \in (1 - d)..(d - 1)
  PROVE  (((b + i) % d) + k) % d = (((b + k) % d) + i) % d
  BY SMT

\* An offset shifted by k has its distance shifted by k.
LEMMA StartShift ==
  ASSUME NEW l, WellFormed(l), Layout(l), NEW m \in 0..l.count, NEW k \in Int,
         0 <= Distance(l, m) + k, Distance(l, m) + k < l.data_size
  PROVE  (StartOf(l, m) + k) % l.data_size
           = (StartOf(l, 0) + (Distance(l, m) + k)) % l.data_size
<1> DEFINE ds == l.data_size
           b  == StartOf(l, 0)
           i  == Distance(l, m)
<1>1. /\ ds \in Nat /\ ds > 0 /\ b \in 0..(ds - 1) /\ l.data_len < ds
      /\ l.data_len \in Nat
  BY LayoutFacts
<1>2. i \in 0..l.data_len /\ StartOf(l, m) = (b + i) % ds
  BY LayoutElim
<1>3. 0 <= i + k /\ i + k < ds
  OBVIOUS
<1> HIDE DEF ds, b, i
<1>4. i \in (1 - ds)..(ds - 1)
  BY <1>1, <1>2
<1>5. (((b + i) % ds) + k) % ds = (b + (i + k)) % ds
  BY <1>1, <1>3, <1>4, ModAdd
<1>6. (StartOf(l, m) + k) % ds = (b + (i + k)) % ds
  BY <1>2, <1>5
<1> QED BY <1>6 DEF ds, b, i

\* The distances when item n grows by amt.
Stretched(l, n, amt) ==
  [j \in 0..l.count |-> IF j <= n THEN Distance(l, j) ELSE Distance(l, j) + amt]

\* They are in order and end at the new data_len.
LEMMA StretchedDistances ==
  ASSUME NEW l, WellFormed(l), Layout(l), NEW n \in 0..(l.count - 1),
         NEW amt \in Int, -amt <= GetSize(l, n), amt + l.data_len < l.data_size
  PROVE  LET D == Stretched(l, n, amt)
         IN  /\ D[0] = 0 /\ D[l.count] = l.data_len + amt
             /\ \A j \in 0..l.count : D[j] \in 0..(l.data_len + amt)
             /\ \A i, j \in 0..l.count : i <= j => D[i] <= D[j]
<1> DEFINE D  == Stretched(l, n, amt)
           c  == l.count
           dn == Distance(l, n)
           dm == Distance(l, n + 1)
<1>1. /\ c \in Nat /\ l.data_len \in Nat /\ n \in Nat /\ n < c /\ n + 1 \in 0..c
      /\ n \in 0..c /\ 0 \in 0..c /\ c \in 0..c /\ 0 <= n /\ ~ (c <= n)
  BY LayoutFacts
<1>2. \A j \in 0..c : D[j] = IF j <= n THEN Distance(l, j) ELSE Distance(l, j) + amt
  BY DEF Stretched
<1>3. /\ \A j \in 0..c : Distance(l, j) \in 0..l.data_len
      /\ \A i, j \in 0..c : i <= j => Distance(l, i) <= Distance(l, j)
      /\ Distance(l, 0) = 0 /\ Distance(l, c) = l.data_len
  BY LayoutElim
<1>4. dn \in 0..l.data_len /\ dm \in 0..l.data_len /\ dm + amt >= dn
  <2>1. GetSize(l, n) = Distance(l, n + 1) - Distance(l, n)
    BY SizeDistance
  <2>2. dn \in 0..l.data_len /\ dm \in 0..l.data_len /\ -amt <= dm - dn
    BY <2>1, <1>1, <1>3
  <2> HIDE DEF dn, dm
  <2> QED BY <2>2, <1>1
<1> HIDE DEF D, c
<1>5. ASSUME NEW j \in 0..c
      PROVE  /\ j <= n => D[j] = Distance(l, j) /\ Distance(l, j) <= dn
             /\ ~ (j <= n) => /\ D[j] = Distance(l, j) + amt
                              /\ dm <= Distance(l, j)
             /\ Distance(l, j) \in 0..l.data_len
  <2>1. ~ (j <= n) => n + 1 <= j
    BY <1>1
  <2> QED BY <2>1, <1>1, <1>2, <1>3
<1> HIDE DEF dn, dm
<1>6. D[0] = 0 /\ D[c] = l.data_len + amt
  BY <1>1, <1>2, <1>3
<1>7. ASSUME NEW j \in 0..c PROVE D[j] \in 0..(l.data_len + amt)
  <2>1. CASE j <= n
    BY <2>1, <1>1, <1>4, <1>5
  <2>2. CASE ~ (j <= n)
    BY <2>2, <1>1, <1>4, <1>5
  <2> QED BY <2>1, <2>2
<1>8. ASSUME NEW i \in 0..c, NEW j \in 0..c, i <= j PROVE D[i] <= D[j]
  <2>1. Distance(l, i) <= Distance(l, j)
    BY <1>3, <1>8
  <2>2. CASE j <= n
    <3>1. i <= n
      BY <1>1, <1>8, <2>2
    <3> QED BY <2>1, <2>2, <3>1, <1>5
  <2>3. CASE ~ (j <= n) /\ i <= n
    BY <2>3, <1>1, <1>4, <1>5
  <2>4. CASE ~ (j <= n) /\ ~ (i <= n)
    BY <2>1, <2>4, <1>1, <1>5
  <2> QED BY <2>2, <2>3, <2>4
<1> QED BY <1>6, <1>7, <1>8 DEF D, c

\* adjust_tail() makes the offsets those of the stretched distances.
LEMMA AdjustTailTable ==
  ASSUME NEW l, WellFormed(l), Layout(l), NEW n \in 0..(l.count - 1),
         NEW amt \in Int, -amt <= GetSize(l, n), amt + l.data_len < l.data_size
  PROVE  /\ Table(l, l.first, l.count, l.data_len + amt,
                  AdjustTail(l, n, amt).idx, Stretched(l, n, amt))
         /\ AdjustTail(l, n, amt).idx[l.first] = StartOf(l, 0)
         /\ \A j \in 0..l.count : AdjustTail(l, n, amt).idx[IndexRef(l, j)]
              = IF j <= n THEN StartOf(l, j) ELSE DataOffset(l, StartOf(l, j), amt)
<1> DEFINE ds == l.data_size
           is == l.index_size
           c  == l.count
           x  == AdjustTail(l, n, amt).idx
           t  == l.data_len + amt
           b  == StartOf(l, 0)
           D  == Stretched(l, n, amt)
<1>1. /\ ds \in Nat /\ ds > 0 /\ c \in Nat /\ is \in Nat /\ is > 0 /\ c < is
      /\ l.data_len \in Nat /\ l.data_len < ds /\ b \in 0..(ds - 1)
      /\ l.first \in 0..(is - 1) /\ l.idx \in [0..(is - 1) -> 0..(ds - 1)]
      /\ n \in Nat /\ n < c
  BY LayoutFacts
<1>2. x = [i \in 0..(is - 1) |->
             LET k == (i - l.first) % is
             IN  IF n + 1 <= k /\ k <= c
                 THEN DataOffset(l, l.idx[i], amt) ELSE l.idx[i]]
  BY <1>1 DEF AdjustTail, WellFormed
<1>3. x \in [0..(is - 1) -> 0..(ds - 1)]
  <2>1. ASSUME NEW i \in 0..(is - 1) PROVE DataOffset(l, l.idx[i], amt) \in 0..(ds - 1)
    <3>0. l.idx[i] \in 0..(ds - 1)
      BY <1>1, <2>1
    <3>1. l.idx[i] + amt \in Int
      BY <1>1, <3>0
    <3> QED BY <3>1, <1>1, ModRange DEF DataOffset
  <2>2. ASSUME NEW i \in 0..(is - 1) PROVE l.idx[i] \in 0..(ds - 1)
    BY <1>1, <2>2
  <2> HIDE DEF x
  <2> QED BY <1>2, <2>1, <2>2
<1> HIDE DEF x
<1>4. ASSUME NEW j \in 0..c
      PROVE  x[IndexRef(l, j)] = IF j <= n THEN StartOf(l, j)
                                 ELSE DataOffset(l, StartOf(l, j), amt)
  <2>1. j \in 0..(is - 1)
    BY <1>1
  <2>2. IndexRef(l, j) \in 0..(is - 1) /\ (IndexRef(l, j) - l.first) % is = j
    BY <2>1, LayoutFacts, SlotNumber
  <2>3. x[IndexRef(l, j)] = IF n + 1 <= j /\ j <= c
                            THEN DataOffset(l, l.idx[IndexRef(l, j)], amt)
                            ELSE l.idx[IndexRef(l, j)]
    BY <1>2, <2>2
  <2>4. (n + 1 <= j /\ j <= c) <=> ~ (j <= n)
    BY <1>1
  <2> QED BY <2>3, <2>4 DEF StartOf
<1>5. /\ D[0] = 0 /\ D[c] = t
      /\ \A j \in 0..c : D[j] \in 0..t
      /\ \A i, j \in 0..c : i <= j => D[i] <= D[j]
  BY StretchedDistances
<1>6. x[l.first] = b
  <2>1. 0 \in 0..c /\ 0 <= n
    BY <1>1
  <2> QED BY <2>1, <1>4, IndexRefZero
<1>7. t \in Nat /\ t < ds
  <2>1. 0 \in 0..c /\ t < ds
    BY <1>1
  <2>2. 0 \in 0..t
    BY <2>1, <1>5
  <2> QED BY <2>1, <2>2, <1>1
<1>8. ASSUME NEW j \in 0..c PROVE x[(l.first + j) % is] = (x[l.first] + D[j]) % ds
  <2>0. x[(l.first + j) % is] = x[IndexRef(l, j)]
    BY DEF IndexRef
  <2>1. CASE j <= n
    <3>1. D[j] = Distance(l, j) /\ StartOf(l, j) = (b + Distance(l, j)) % ds
      BY <2>1, LayoutElim DEF Stretched
    <3> HIDE DEF D, b
    <3> QED BY <2>0, <2>1, <3>1, <1>4, <1>6
  <2>2. CASE ~ (j <= n)
    <3>1. D[j] = Distance(l, j) + amt
      BY <2>2 DEF Stretched
    <3>2. 0 <= Distance(l, j) + amt /\ Distance(l, j) + amt < ds
      <4>1. D[j] \in 0..t
        BY <1>5
      <4> HIDE DEF D, t
      <4> QED BY <4>1, <3>1, <1>7, <1>1
    <3>3. (StartOf(l, j) + amt) % ds = (b + (Distance(l, j) + amt)) % ds
      BY <3>2, StartShift
    <3> HIDE DEF D, b
    <3> QED BY <2>0, <2>2, <3>1, <3>3, <1>4, <1>6 DEF DataOffset
  <2> QED BY <2>1, <2>2
<1>9. Table(l, l.first, c, t, x, D)
  <2> HIDE DEF D, t, b
  <2> QED BY <1>1, <1>3, <1>5, <1>7, <1>8 DEF Table
<1> QED BY <1>4, <1>6, <1>9 DEF x

\* adjust_head() does too, from a first offset that is amt further back.
LEMMA AdjustHeadTable ==
  ASSUME NEW l, WellFormed(l), Layout(l), NEW n \in 0..(l.count - 1),
         NEW amt \in Int, -amt <= GetSize(l, n), amt + l.data_len < l.data_size
  PROVE  /\ Table(l, l.first, l.count, l.data_len + amt,
                  AdjustHead(l, n, amt).idx, Stretched(l, n, amt))
         /\ AdjustHead(l, n, amt).idx[l.first] = DataOffset(l, StartOf(l, 0), -amt)
<1> DEFINE ds  == l.data_size
           is  == l.index_size
           c   == l.count
           x   == AdjustHead(l, n, amt).idx
           t   == l.data_len + amt
           b   == StartOf(l, 0)
           neg == -amt
           D   == Stretched(l, n, amt)
<1>1. /\ ds \in Nat /\ ds > 0 /\ c \in Nat /\ is \in Nat /\ is > 0 /\ c < is
      /\ l.data_len \in Nat /\ l.data_len < ds /\ b \in 0..(ds - 1)
      /\ l.first \in 0..(is - 1) /\ l.idx \in [0..(is - 1) -> 0..(ds - 1)]
      /\ n \in Nat /\ n < c
  BY LayoutFacts
<1>2. neg \in (1 - ds)..(ds - 1) /\ neg \in Int
  <2>1. GetSize(l, n) \in 0..l.data_len
    BY SizeDistance
  <2>2. -amt <= GetSize(l, n) /\ amt + l.data_len < ds
    OBVIOUS
  <2> HIDE DEF ds
  <2> QED BY SMTT(30), <2>1, <2>2, <1>1
<1>3. x = [i \in 0..(is - 1) |->
             IF (i - l.first) % is <= n THEN DataOffset(l, l.idx[i], neg)
             ELSE l.idx[i]]
  BY <1>1 DEF AdjustHead, WellFormed
<1>4. x \in [0..(is - 1) -> 0..(ds - 1)]
  <2>1. ASSUME NEW i \in 0..(is - 1) PROVE DataOffset(l, l.idx[i], neg) \in 0..(ds - 1)
    <3>1. l.idx[i] \in 0..(ds - 1)
      BY <1>1, <2>1
    <3>2. l.idx[i] + neg \in Int
      <4> HIDE DEF neg
      <4> QED BY <1>1, <1>2, <3>1
    <3> QED BY <3>2, <1>1, ModRange DEF DataOffset
  <2>2. ASSUME NEW i \in 0..(is - 1) PROVE l.idx[i] \in 0..(ds - 1)
    BY <1>1, <2>2
  <2> HIDE DEF x
  <2> QED BY <1>3, <2>1, <2>2
<1> HIDE DEF x
<1>5. ASSUME NEW j \in 0..c
      PROVE  x[IndexRef(l, j)] = IF j <= n THEN DataOffset(l, StartOf(l, j), neg)
                                 ELSE StartOf(l, j)
  <2>1. j \in 0..(is - 1)
    BY <1>1
  <2>2. IndexRef(l, j) \in 0..(is - 1) /\ (IndexRef(l, j) - l.first) % is = j
    BY <2>1, LayoutFacts, SlotNumber
  <2> QED BY <1>3, <2>2 DEF StartOf
<1>6. /\ D[0] = 0 /\ D[c] = t
      /\ \A j \in 0..c : D[j] \in 0..t
      /\ \A i, j \in 0..c : i <= j => D[i] <= D[j]
  BY StretchedDistances
<1>7. x[l.first] = (b + neg) % ds
  <2>1. 0 \in 0..c /\ 0 <= n
    BY <1>1
  <2> QED BY <2>1, <1>5, IndexRefZero DEF DataOffset
<1>8. t \in Nat /\ t < ds
  <2>1. 0 \in 0..c /\ t < ds
    BY <1>1
  <2>2. 0 \in 0..t
    BY <2>1, <1>6
  <2> QED BY <2>1, <2>2, <1>1
<1>9. ASSUME NEW j \in 0..c PROVE x[(l.first + j) % is] = (x[l.first] + D[j]) % ds
  <2> DEFINE dj == Distance(l, j)
             k  == dj + amt
  <2>0. x[(l.first + j) % is] = x[IndexRef(l, j)]
    BY DEF IndexRef
  <2>1. dj \in 0..l.data_len /\ StartOf(l, j) = (b + dj) % ds
    BY LayoutElim
  <2>2. CASE j <= n
    <3>1. D[j] = dj
      BY <2>2 DEF Stretched
    <3>2. dj \in (1 - ds)..(ds - 1)
      <4>1. ds \in Nat /\ l.data_len \in Nat /\ l.data_len < ds /\ dj \in 0..l.data_len
        BY <1>1, <2>1
      <4> HIDE DEF dj, ds
      <4> QED BY <4>1
    <3>3. (((b + dj) % ds) + neg) % ds = (((b + neg) % ds) + dj) % ds
      <4> HIDE DEF b, dj, neg, ds
      <4> QED BY <1>1, <1>2, <3>2, ModSwap
    <3> HIDE DEF D, b, dj, neg
    <3> QED BY <2>0, <2>1, <2>2, <3>1, <3>3, <1>5, <1>7 DEF DataOffset
  <2>3. CASE ~ (j <= n)
    <3>1. D[j] = k
      BY <2>3 DEF Stretched
    <3>2. k \in Int /\ 0 <= neg + k /\ neg + k < ds /\ neg + k = dj
      <4> HIDE DEF dj
      <4> QED BY SMTT(40), <1>1, <2>1
    <3>3. (((b + neg) % ds) + k) % ds = (b + (neg + k)) % ds
      <4> HIDE DEF b, k, neg, ds
      <4> QED BY <1>1, <1>2, <3>2, ModAdd
    <3> HIDE DEF D, b, dj, k, neg
    <3> QED BY <2>0, <2>1, <2>3, <3>1, <3>2, <3>3, <1>5, <1>7
  <2> QED BY <2>2, <2>3
<1>10. Table(l, l.first, c, t, x, D)
  <2> HIDE DEF D, t, b
  <2> QED BY <1>1, <1>4, <1>6, <1>8, <1>9 DEF Table
<1> QED BY <1>7, <1>10 DEF x, DataOffset

\* The bytes of m are those of l moved around: what is rebuilt from it has
\* the offsets that are rebuilt from l.
LEMMA MovedLayout ==
  ASSUME NEW l, NEW m, WellFormed(m), SameIndex(l, m),
         NEW f, NEW c, NEW d, NEW x, NEW D, Table(l, f, c, d, x, D)
  PROVE  LET g == Rebuilt(m, f, c, d, x)
         IN  WellFormed(g) /\ Layout(g) /\ Shape(g, l, c, x[f], D)
<1> DEFINE g == Rebuilt(m, f, c, d, x)
<1>1. Table(m, f, c, d, x, D)
  BY DEF Table, SameIndex
<1>2. WellFormed(g) /\ Layout(g) /\ Shape(g, m, c, x[f], D)
  BY <1>1, Relayout
<1> HIDE DEF g
<1>3. Shape(g, l, c, x[f], D)
  BY <1>2 DEF Shape, SameIndex
<1> QED BY <1>2, <1>3 DEF g

\* Where the items begin when item n grows by amt at its shorter side.
SetStart(l, n, amt) ==
  IF amt # 0 /\ n < l.count \div 2 THEN DataOffset(l, StartOf(l, 0), -amt)
  ELSE StartOf(l, 0)

\* lset(): the item grows or shrinks in place, the shorter side moves.
LEMMA LSetLayout ==
  ASSUME NEW l, WellFormed(l), Layout(l), NEW n \in 0..(l.count - 1),
         NEW v \in Seq(Byte), NEW amt, amt = Len(v) - GetSize(l, n),
         ~ (amt > 0 /\ DataFull(l, amt))
  PROVE  /\ amt \in Int /\ -amt <= GetSize(l, n) /\ amt + l.data_len < l.data_size
         /\ WellFormed(LSetItem(l, n, v)) /\ Layout(LSetItem(l, n, v))
         /\ Shape(LSetItem(l, n, v), l, l.count, SetStart(l, n, amt), Stretched(l, n, amt))
<1> DEFINE D     == Stretched(l, n, amt)
           s     == SetStart(l, n, amt)
           moved == IF amt = 0 THEN l
                    ELSE IF n < l.count \div 2
                    THEN AdjustHead(MoveHead(l, n, amt), n, amt)
                    ELSE AdjustTail(MoveTail(l, n, amt), n, amt)
           sized == [moved EXCEPT !.data_len = @ + amt]
<1>1. /\ l.count \in Nat /\ l.data_size \in Nat /\ l.data_len \in Nat
      /\ l.data_len < l.data_size /\ n \in Int /\ Len(v) \in Nat
      /\ GetSize(l, n) \in Nat
  <2>1. l.count \in Nat /\ l.data_size \in Nat /\ l.data_len \in Nat
        /\ l.data_len < l.data_size
    BY LayoutFacts
  <2>2. GetSize(l, n) \in 0..l.data_len
    BY SizeDistance
  <2> QED BY <2>1, <2>2
<1>2. amt \in Int /\ -amt <= GetSize(l, n) /\ amt + l.data_len < l.data_size
  BY <1>1 DEF DataFull
<1>3. WellFormed(sized) /\ Layout(sized) /\ Shape(sized, l, l.count, s, D)
  <2>1. CASE amt = 0
    <3>1. sized = l
      BY <2>1, <1>1 DEF WellFormed
    <3>2. \A j \in 0..l.count : D[j] = Distance(l, j)
      <4> TAKE j \in 0..l.count
      <4>1. Distance(l, j) \in 0..l.data_len
        BY LayoutElim
      <4>2. D[j] = IF j <= n THEN Distance(l, j) ELSE Distance(l, j) + 0
        BY <2>1 DEF Stretched
      <4> HIDE DEF D
      <4> QED BY <1>1, <4>1, <4>2
    <3>3. s = StartOf(l, 0)
      BY <2>1 DEF SetStart
    <3> HIDE DEF D, s, sized
    <3>4. Shape(l, l, l.count, s, D)
      BY <3>2, <3>3 DEF Shape
    <3> QED BY <3>1, <3>4
  <2>2. CASE amt # 0 /\ n < l.count \div 2
    <3> DEFINE m == MoveHead(l, n, amt)
               x == AdjustHead(l, n, amt).idx
               t == l.data_len + amt
    <3>1. WellFormed(m) /\ SameIndex(l, m)
      BY <1>2, <2>2, MoveHeadIndex
    <3>2. Table(l, l.first, l.count, t, x, D) /\ x[l.first] = s
      BY <1>2, <2>2, AdjustHeadTable DEF SetStart
    <3>3. sized = Rebuilt(m, l.first, l.count, t, x)
      <4>1. sized = [AdjustHead(m, n, amt) EXCEPT !.data_len = @ + amt]
        BY <2>2
      <4> HIDE DEF m, sized
      <4> QED BY <3>1, <4>1 DEF AdjustHead, Rebuilt, SameIndex, WellFormed, DataOffset
    <3> HIDE DEF m, x, t, sized, D, s
    <3> QED BY <3>1, <3>2, <3>3, MovedLayout
  <2>3. CASE amt # 0 /\ ~ (n < l.count \div 2)
    <3> DEFINE m == MoveTail(l, n, amt)
               x == AdjustTail(l, n, amt).idx
               t == l.data_len + amt
    <3>1. WellFormed(m) /\ SameIndex(l, m)
      BY <1>2, MoveTailIndex
    <3>2. Table(l, l.first, l.count, t, x, D) /\ x[l.first] = s
      BY <1>2, <2>3, AdjustTailTable DEF SetStart
    <3>3. sized = Rebuilt(m, l.first, l.count, t, x)
      <4>1. sized = [AdjustTail(m, n, amt) EXCEPT !.data_len = @ + amt]
        BY <2>3
      <4> HIDE DEF m, sized
      <4> QED BY <3>1, <4>1 DEF AdjustTail, Rebuilt, SameIndex, WellFormed, DataOffset
    <3> HIDE DEF m, x, t, sized, D, s
    <3> QED BY <3>1, <3>2, <3>3, MovedLayout
  <2> QED BY <2>1, <2>2, <2>3
<1>4. LSetItem(l, n, v) = CopyInto(sized, v, StartOf(sized, n))
  BY DEF LSetItem
<1> HIDE DEF sized, D, s
<1>5. StartOf(sized, n) \in Int
  <2>1. StartOf(sized, n) \in 0..(sized.data_size - 1)
    BY <1>1, <1>3, StartType
  <2> QED BY <2>1, <1>3, HeaderType
<1>6. /\ WellFormed(LSetItem(l, n, v)) /\ Layout(LSetItem(l, n, v))
      /\ Shape(LSetItem(l, n, v), l, l.count, s, D)
  BY <1>3, <1>4, <1>5, CopyIntoIndex, SameIndexLayout, SameIndexShape
<1> QED BY <1>2, <1>6 DEF D, s

\* There and back again.
LEMMA ModReturn ==
  ASSUME NEW d \in Nat, d > 0, NEW b \in 0..(d - 1), NEW k \in 0..(d - 1)
  PROVE  (((b + k) % d) + (-k)) % d = b
  BY SMT

\* The distances with an item of len bytes after item n.
Spread(l, n, len) ==
  [j \in 0..(l.count + 1) |-> IF j <= n + 1 THEN Distance(l, j)
                              ELSE Distance(l, j - 1) + len]

\* insert(): the offsets after the item are stretched, then move one slot up.
LEMMA InsertLayout ==
  ASSUME NEW l, WellFormed(l), Layout(l), NEW n \in 0..(l.count - 1),
         NEW v \in Seq(Byte), ~ Full(l, Len(v))
  PROVE  LET g == InsertItem(l, n, v)
         IN  /\ WellFormed(g) /\ Layout(g)
             /\ Shape(g, l, l.count + 1, StartOf(l, 0), Spread(l, n, Len(v)))
             /\ g.blob = CopyInto(MoveTail(l, n, Len(v)), v, StartOf(l, n + 1)).blob
<1> DEFINE ds    == l.data_size
           is    == l.index_size
           c     == l.count
           len   == Len(v)
           b     == StartOf(l, 0)
           t     == l.data_len + len
           m     == MoveTail(l, n, len)
           y     == AdjustTail(l, n, len).idx
           z     == [i \in 0..(is - 1) |->
                       LET k == (i - l.first) % is
                       IN  IF n + 2 <= k /\ k <= c + 1 THEN y[IndexRef(l, k - 1)]
                           ELSE y[i]]
           start == DataOffset(l, z[IndexRef(l, n + 2)], -len)
           x     == [z EXCEPT ![IndexRef(l, n + 1)] = start]
           g     == Rebuilt(m, l.first, c + 1, t, x)
           D     == Spread(l, n, len)
<1>1. /\ ds \in Nat /\ ds > 0 /\ c \in Nat /\ len \in Nat
      /\ c + 1 < is /\ is \in Nat /\ is > 0 /\ l.first \in 0..(is - 1)
      /\ l.data_len \in Nat /\ l.data_len < ds /\ t \in Nat /\ t < ds
      /\ b \in 0..(ds - 1) /\ n \in Nat /\ n < c
  <2>1. len \in Nat
    OBVIOUS
  <2>2. /\ c + 1 < is /\ t \in Nat /\ t < ds
    BY <2>1, RoomFacts
  <2>3. /\ ds \in Nat /\ ds > 0 /\ c \in Nat /\ is \in Nat /\ is > 0
        /\ l.first \in 0..(is - 1) /\ l.data_len \in Nat /\ l.data_len < ds
        /\ b \in 0..(ds - 1) /\ l.idx \in [0..(is - 1) -> 0..(ds - 1)]
    BY LayoutFacts
  <2>4. n \in Nat /\ n < c
    BY <2>3
  <2> HIDE DEF ds, is, c, len, t, b, m, y, z, start, x, g, D
  <2> QED BY <2>1, <2>2, <2>3, <2>4
<1>2. len \in Int /\ -len <= GetSize(l, n) /\ len + l.data_len < ds
  <2>1. GetSize(l, n) \in 0..l.data_len
    BY SizeDistance
  <2> HIDE DEF len
  <2> QED BY <2>1, <1>1
<1>3. WellFormed(m) /\ SameIndex(l, m)
  <2> HIDE DEF len
  <2> QED BY <1>2, MoveTailIndex
<1>4. /\ y \in [0..(is - 1) -> 0..(ds - 1)]
      /\ \A j \in 0..c : y[IndexRef(l, j)] = IF j <= n THEN StartOf(l, j)
                                             ELSE DataOffset(l, StartOf(l, j), len)
  <2> HIDE DEF len
  <2> QED BY <1>2, AdjustTailTable DEF Table
<1> HIDE DEF y
<1>5. ASSUME NEW j \in 0..(c + 1)
      PROVE  /\ j \in 0..(is - 1) /\ IndexRef(l, j) \in 0..(is - 1)
             /\ (IndexRef(l, j) - l.first) % is = j
  <2>1. j \in 0..(is - 1)
    BY <1>1
  <2> QED BY <2>1, LayoutFacts, SlotNumber
<1>6. z \in [0..(is - 1) -> 0..(ds - 1)]
  <2>1. ASSUME NEW i \in 0..(is - 1), NEW k \in Int, n + 2 <= k, k <= c + 1
        PROVE  y[IndexRef(l, k - 1)] \in 0..(ds - 1)
    <3>1. k - 1 \in 0..(c + 1)
      BY <1>1, <2>1
    <3> QED BY <3>1, <1>4, <1>5
  <2>2. ASSUME NEW i \in 0..(is - 1)
        PROVE  LET k == (i - l.first) % is
               IN  (IF n + 2 <= k /\ k <= c + 1 THEN y[IndexRef(l, k - 1)] ELSE y[i])
                     \in 0..(ds - 1)
    <3>1. (i - l.first) % is \in Int
      <4>1. i - l.first \in Int
        BY <1>1
      <4> QED BY SMTT(30), <4>1, <1>1, ModRange
    <3> QED BY <3>1, <2>1, <1>4
  <2> QED BY <2>2
<1>7. ASSUME NEW j \in 0..(c + 1)
      PROVE  z[IndexRef(l, j)] = IF n + 2 <= j THEN y[IndexRef(l, j - 1)]
                                 ELSE y[IndexRef(l, j)]
  <2>1. z[IndexRef(l, j)] = IF n + 2 <= j /\ j <= c + 1 THEN y[IndexRef(l, j - 1)]
                            ELSE y[IndexRef(l, j)]
    BY <1>5
  <2>2. j <= c + 1
    BY <1>1
  <2> HIDE DEF z
  <2> QED BY <2>1, <2>2
<1> HIDE DEF z
<1>8. start = StartOf(l, n + 1)
  <2> DEFINE s == StartOf(l, n + 1)
  <2>1. n + 2 \in 0..(c + 1) /\ n + 2 <= n + 2 /\ (n + 2) - 1 = n + 1
        /\ n + 1 \in 0..c /\ ~ (n + 1 <= n) /\ n + 1 \in Int
    BY <1>1
  <2>2. z[IndexRef(l, n + 2)] = (s + len) % ds
    BY <2>1, <1>4, <1>7 DEF DataOffset
  <2>3. s \in 0..(ds - 1)
    BY <2>1, StartType
  <2>4. len \in 0..(ds - 1)
    <3> HIDE DEF len
    <3> QED BY <1>1
  <2>5. (((s + len) % ds) + (-len)) % ds = s
    <3> HIDE DEF s, len, ds
    <3> QED BY <1>1, <2>3, <2>4, ModReturn
  <2> HIDE DEF s, len
  <2>6. start = s
    BY <2>2, <2>5 DEF DataOffset
  <2> QED BY <2>6 DEF s
<1>9. x \in [0..(is - 1) -> 0..(ds - 1)]
  <2>1. start \in 0..(ds - 1)
    <3>1. n + 1 \in Int
      BY <1>1
    <3> HIDE DEF start
    <3> QED BY <3>1, <1>8, StartType
  <2>2. n + 1 \in 0..(c + 1)
    BY <1>1
  <2> HIDE DEF start
  <2> QED BY <2>1, <2>2, <1>5, <1>6
<1>10. x[IndexRef(l, n + 1)] = StartOf(l, n + 1)
  <2>1. n + 1 \in 0..(c + 1)
    BY <1>1
  <2> HIDE DEF start
  <2> QED BY <2>1, <1>5, <1>6, <1>8
<1>11. ASSUME NEW j \in 0..(c + 1), j # n + 1
       PROVE  x[IndexRef(l, j)] = IF j <= n THEN StartOf(l, j)
                                  ELSE DataOffset(l, StartOf(l, j - 1), len)
  <2>1. n + 1 \in 0..(is - 1) /\ IndexRef(l, n + 1) # IndexRef(l, j)
    <3>1. n + 1 \in 0..(is - 1)
      BY <1>1
    <3> QED BY <3>1, <1>5, <1>11, SlotsDistinct
  <2>2. x[IndexRef(l, j)] = z[IndexRef(l, j)]
    <3> HIDE DEF start
    <3> QED BY <2>1, <1>5, <1>6
  <2>3. CASE j <= n
    <3>1. j \in 0..c /\ ~ (n + 2 <= j)
      BY <1>1, <2>3
    <3> HIDE DEF x
    <3> QED BY <2>2, <2>3, <3>1, <1>4, <1>7
  <2>4. CASE ~ (j <= n)
    <3>1. j - 1 \in 0..c /\ n + 2 <= j /\ ~ (j - 1 <= n)
      BY <1>1, <1>11, <2>4
    <3> HIDE DEF x
    <3> QED BY <2>2, <2>4, <3>1, <1>4, <1>7
  <2> QED BY <2>3, <2>4
<1> HIDE DEF x
<1>12. /\ \A j \in 0..c : /\ Distance(l, j) \in 0..l.data_len
                          /\ StartOf(l, j) = (b + Distance(l, j)) % ds
       /\ \A i, j \in 0..c : i <= j => Distance(l, i) <= Distance(l, j)
       /\ Distance(l, 0) = 0 /\ Distance(l, c) = l.data_len
  BY LayoutElim
<1>13. \A j \in 0..(c + 1) : D[j] = IF j <= n + 1 THEN Distance(l, j)
                                    ELSE Distance(l, j - 1) + len
  BY DEF Spread
<1> HIDE DEF D
<1>14. ASSUME NEW j \in 0..(c + 1)
       PROVE  /\ j <= n + 1 => /\ j \in 0..c /\ D[j] = Distance(l, j)
                               /\ Distance(l, j) \in 0..l.data_len
              /\ ~ (j <= n + 1) => /\ j - 1 \in 0..c
                                   /\ D[j] = Distance(l, j - 1) + len
                                   /\ Distance(l, j - 1) \in 0..l.data_len
  <2>1. j <= n + 1 => j \in 0..c
    BY <1>1
  <2>2. ~ (j <= n + 1) => j - 1 \in 0..c
    BY <1>1
  <2> QED BY <2>1, <2>2, <1>12, <1>13
<1>15. D[0] = 0 /\ D[c + 1] = t
  <2>1. 0 \in 0..(c + 1) /\ c + 1 \in 0..(c + 1) /\ 0 <= n + 1
        /\ ~ (c + 1 <= n + 1) /\ (c + 1) - 1 = c
    <3> HIDE DEF ds, is, len, b, m, g, start, t
    <3> QED BY <1>1
  <2> HIDE DEF len
  <2> QED BY <2>1, <1>12, <1>13 DEF t
<1>16. ASSUME NEW j \in 0..(c + 1) PROVE D[j] \in 0..t
  <2> HIDE DEF len
  <2>1. CASE j <= n + 1
    BY SMTT(30), <2>1, <1>14, <1>1 DEF t
  <2>2. CASE ~ (j <= n + 1)
    <3> DEFINE dj == Distance(l, j - 1)
    <3>1. D[j] = dj + len /\ dj \in 0..l.data_len
      BY <2>2, <1>14
    <3>2. t = l.data_len + len /\ len \in Nat /\ l.data_len \in Nat
      BY <1>1
    <3> HIDE DEF dj, t
    <3> QED BY <3>1, <3>2
  <2> QED BY <2>1, <2>2
<1>17. ASSUME NEW i \in 0..(c + 1), NEW j \in 0..(c + 1), i <= j PROVE D[i] <= D[j]
  <2>1. CASE j <= n + 1
    <3>1. i <= n + 1
      BY <1>1, <1>17, <2>1
    <3> QED BY <2>1, <3>1, <1>12, <1>14, <1>17
  <2>2. CASE ~ (j <= n + 1) /\ i <= n + 1
    <3>1. i <= j - 1
      BY <1>1, <1>17, <2>2
    <3>2. Distance(l, i) <= Distance(l, j - 1)
      BY <2>2, <3>1, <1>12, <1>14
    <3> HIDE DEF len
    <3> HIDE DEF c, ds, is, b, m, g, start, t
    <3> QED BY <2>2, <3>2, <1>1, <1>14
  <2>3. CASE ~ (j <= n + 1) /\ ~ (i <= n + 1)
    <3>1. i - 1 <= j - 1
      BY <1>1, <1>17
    <3>2. Distance(l, i - 1) <= Distance(l, j - 1)
      BY <2>3, <3>1, <1>12, <1>14
    <3> HIDE DEF len
    <3> QED BY <2>3, <3>2, <1>1, <1>14
  <2> QED BY <2>1, <2>2, <2>3
<1>18. x[l.first] = b
  <2>1. 0 \in 0..(c + 1) /\ 0 # n + 1 /\ 0 <= n
    BY <1>1
  <2> QED BY <2>1, <1>11, IndexRefZero
<1>19. ASSUME NEW j \in 0..(c + 1) PROVE x[(l.first + j) % is] = (x[l.first] + D[j]) % ds
  <2>0. x[(l.first + j) % is] = x[IndexRef(l, j)]
    BY DEF IndexRef
  <2>1. CASE j <= n + 1
    <3>1. j = n + 1 \/ j <= n
      BY <1>1, <2>1
    <3>2. x[IndexRef(l, j)] = StartOf(l, j)
      BY <3>1, <1>1, <1>10, <1>11
    <3> HIDE DEF b
    <3> QED BY <2>0, <2>1, <3>2, <1>12, <1>14, <1>18
  <2>2. CASE ~ (j <= n + 1)
    <3>1. j # n + 1 /\ ~ (j <= n)
      BY <1>1, <2>2
    <3>2. x[IndexRef(l, j)] = (StartOf(l, j - 1) + len) % ds
      BY <3>1, <1>11 DEF DataOffset
    <3>3. 0 <= Distance(l, j - 1) + len /\ Distance(l, j - 1) + len < ds /\ j - 1 \in 0..c
      <4> DEFINE dj == Distance(l, j - 1)
      <4>1. dj \in 0..l.data_len /\ j - 1 \in 0..c
        BY <2>2, <1>14
      <4>2. l.data_len + len < ds /\ len \in Nat /\ l.data_len \in Nat /\ ds \in Nat
        BY <1>1
      <4>3. 0 <= dj + len /\ dj + len < ds
        <5> HIDE DEF dj, len, ds
        <5> QED BY <4>1, <4>2
      <4> QED BY <4>1, <4>3
    <3>4. (StartOf(l, j - 1) + len) % ds = (b + (Distance(l, j - 1) + len)) % ds
      <4> HIDE DEF len
      <4> QED BY <3>3, <1>2, StartShift DEF b, ds
    <3> HIDE DEF b, len
    <3> QED BY <2>0, <2>2, <3>2, <3>4, <1>14, <1>18
  <2> QED BY <2>1, <2>2
<1>20. Table(l, l.first, c + 1, t, x, D)
  <2>1. c + 1 \in Nat
    BY <1>1
  <2> HIDE DEF t, c, len, b
  <2> QED BY <2>1, <1>1, <1>9, <1>15, <1>16, <1>17, <1>19 DEF Table
<1>21. /\ WellFormed(g) /\ Layout(g) /\ Shape(g, l, c + 1, b, D)
       /\ g.blob = m.blob /\ g.data_size = m.data_size
  <2>1. WellFormed(g) /\ Layout(g) /\ Shape(g, l, c + 1, b, D)
    <3> HIDE DEF m, t, c, len, b
    <3> QED BY <1>3, <1>18, <1>20, MovedLayout
  <2>2. g.blob = m.blob /\ g.data_size = m.data_size
    <3> HIDE DEF m, t, c
    <3> QED BY <1>3 DEF Rebuilt, WellFormed
  <2> QED BY <2>1, <2>2
<1>22. InsertItem(l, n, v) = CopyInto(g, v, start)
  <2> DEFINE a == AdjustTail(m, n, len)
             s == [a EXCEPT !.count = l.count + 1, !.idx = z]
             p == [s EXCEPT !.idx[IndexRef(l, n + 1)] = start,
                            !.data_len = @ + len]
  <2>1. a.idx = y /\ DOMAIN l.idx = 0..(is - 1)
    <3>1. AdjustTail(m, n, len).idx = AdjustTail(l, n, len).idx
      <4> HIDE DEF m, len
      <4> QED BY <1>3 DEF AdjustTail, SameIndex, WellFormed, DataOffset
    <3> QED BY <3>1 DEF y, WellFormed
  <2>2. z = [i \in DOMAIN l.idx |->
               LET k == (i - l.first) % l.index_size
               IN  IF n + 2 <= k /\ k <= l.count + 1 THEN a.idx[IndexRef(l, k - 1)]
                   ELSE a.idx[i]]
    <3> HIDE DEF a
    <3> QED BY <2>1 DEF z
  <2>3. a \in [index_size : {l.index_size}, data_size : {l.data_size},
               first : {l.first}, count : {l.count}, data_len : {l.data_len},
               idx : {y}, blob : {m.blob}]
    <3>1. a = [m EXCEPT !.idx = y]
      <4>1. a = [m EXCEPT !.idx = a.idx]
        <5> HIDE DEF m, len
        <5> QED BY <1>3 DEF AdjustTail, WellFormed
      <4> HIDE DEF a
      <4> QED BY <4>1, <2>1
    <3> HIDE DEF m, a
    <3> QED BY <3>1, <1>3 DEF SameIndex, WellFormed
  <2>4. p = g
    <3> HIDE DEF a, m, start, len
    <3>1. p = [a EXCEPT !.count = l.count + 1, !.idx = x, !.data_len = t]
      <4>1. s.idx = z /\ s.data_len = l.data_len
        BY <2>3
      <4>2. p = [s EXCEPT !.idx = x, !.data_len = t]
        <5>1. p = [s EXCEPT !.idx = [s.idx EXCEPT ![IndexRef(l, n + 1)] = start],
                            !.data_len = s.data_len + len]
          <6> HIDE DEF s
          <6> QED OBVIOUS
        <5> HIDE DEF s
        <5> QED BY <4>1, <5>1 DEF x
      <4> HIDE DEF x, t, z
      <4> QED BY <4>2, <2>3
    <3>2. g = [m EXCEPT !.first = l.first, !.count = l.count + 1,
                        !.data_len = t, !.idx = x]
      BY DEF Rebuilt
    <3>3. m \in [index_size : {l.index_size}, data_size : {l.data_size},
                 first : {l.first}, count : {l.count}, data_len : {l.data_len},
                 idx : {l.idx}, blob : {m.blob}]
      BY <1>3 DEF SameIndex, WellFormed
    <3>4. p = [index_size |-> l.index_size, data_size |-> l.data_size,
               first |-> l.first, count |-> l.count + 1, data_len |-> t,
               idx |-> x, blob |-> m.blob]
      <4> HIDE DEF p, a, x, t, y
      <4> QED BY <3>1, <2>3
    <3>5. g = [index_size |-> l.index_size, data_size |-> l.data_size,
               first |-> l.first, count |-> l.count + 1, data_len |-> t,
               idx |-> x, blob |-> m.blob]
      <4> HIDE DEF g, x, t
      <4> QED BY <3>2, <3>3
    <3> HIDE DEF p, g
    <3> QED BY <3>4, <3>5
  <2>5. InsertItem(l, n, v) = CopyInto(p, v, start)
    <3>1. s.idx = z
      <4> HIDE DEF a
      <4> QED BY <2>3
    <3> HIDE DEF z
    <3> QED BY <2>2, <3>1 DEF InsertItem
  <2> QED BY <2>4, <2>5
<1>23. start \in Int
  <2>1. n + 1 \in Int
    BY <1>1
  <2>2. StartOf(l, n + 1) \in 0..(ds - 1)
    BY <2>1, StartType
  <2> HIDE DEF start
  <2> QED BY <2>2, <1>1, <1>8
<1> HIDE DEF g, start, D, b, m, len
<1>24. /\ WellFormed(InsertItem(l, n, v)) /\ Layout(InsertItem(l, n, v))
       /\ Shape(InsertItem(l, n, v), l, c + 1, b, D)
  BY <1>21, <1>22, <1>23, CopyIntoIndex, SameIndexLayout, SameIndexShape
<1>25. InsertItem(l, n, v).blob = CopyInto(m, v, start).blob
  <2>1. CopyInto(g, v, start).blob = CopyInto(m, v, start).blob
    BY <1>3, <1>21 DEF CopyInto, WellFormed
  <2> QED BY <2>1, <1>22
<1> QED BY <1>8, <1>24, <1>25 DEF D, b, m, len

\* The distances without item n.
Closed(l, n) ==
  [j \in 0..(l.count - 1) |-> IF j <= n THEN Distance(l, j)
                              ELSE Distance(l, j + 1) + (-GetSize(l, n))]

\* Removing an inner item: the offsets after it move one slot down.
LEMMA LRemInner ==
  ASSUME NEW l, WellFormed(l), Layout(l), NEW n \in 1..(l.count - 2)
  PROVE  LET g == LRemItem(l, n)
             m == MoveTail(l, n, -GetSize(l, n))
         IN  /\ WellFormed(g) /\ Layout(g)
             /\ Shape(g, l, l.count - 1, StartOf(l, 0), Closed(l, n))
             /\ g.blob = IF GetSize(l, n) > 0 THEN m.blob ELSE l.blob
<1> DEFINE ds   == l.data_size
           is   == l.index_size
           c    == l.count - 1
           size == GetSize(l, n)
           neg  == -size
           b    == StartOf(l, 0)
           t    == l.data_len - size
           m    == IF size > 0 THEN MoveTail(l, n, neg) ELSE l
           x    == [i \in 0..(is - 1) |->
                      LET k == (i - l.first) % is
                      IN  IF n + 1 <= k /\ k < l.count
                          THEN DataOffset(l, l.idx[IndexRef(l, k + 1)], neg)
                          ELSE l.idx[i]]
           g    == Rebuilt(m, l.first, c, t, x)
           D    == Closed(l, n)
<1>1. /\ ds \in Nat /\ ds > 0 /\ l.count \in Nat /\ is \in Nat /\ is > 0 /\ l.count < is
      /\ l.data_len \in Nat /\ l.data_len < ds /\ b \in 0..(ds - 1)
      /\ l.first \in 0..(is - 1) /\ l.idx \in [0..(is - 1) -> 0..(ds - 1)]
  BY LayoutFacts
<1>2. /\ n \in Nat /\ n \in 0..(l.count - 1) /\ 1 <= n /\ n + 1 <= c /\ c \in Nat
      /\ c + 1 = l.count /\ n \in 0..l.count /\ n + 1 \in 0..l.count /\ c < is
  <2> HIDE DEF m, x, g, D, neg, b, t, ds, size, is
  <2> QED BY SMTT(40), <1>1
<1>3. /\ size = Distance(l, n + 1) - Distance(l, n) /\ size \in 0..l.data_len
      /\ t \in Nat /\ t < ds /\ neg \in Int /\ -neg = size
  <2>1. size = Distance(l, n + 1) - Distance(l, n) /\ size \in 0..l.data_len
    BY <1>2, SizeDistance
  <2> HIDE DEF size
  <2> HIDE DEF m, x, g, D, c, b, is
  <2> QED BY SMTT(40), <2>1, <1>1
<1>4. WellFormed(m) /\ SameIndex(l, m)
  <2>1. -neg <= GetSize(l, n) /\ neg + l.data_len < l.data_size
    <3>1. size \in Int /\ 0 <= size /\ size = GetSize(l, n)
      BY <1>1, <1>3
    <3> HIDE DEF size
    <3> QED BY <1>1, <3>1
  <2> HIDE DEF neg, size
  <2> QED BY <1>2, <1>3, <2>1, MoveTailIndex DEF SameIndex
<1> HIDE DEF size
<1>5. ASSUME NEW j \in 0..c
      PROVE  /\ j \in 0..(is - 1) /\ IndexRef(l, j) \in 0..(is - 1)
             /\ (IndexRef(l, j) - l.first) % is = j
  <2>1. j \in 0..(is - 1)
    BY <1>1
  <2> QED BY <2>1, LayoutFacts, SlotNumber
<1>6. x \in [0..(is - 1) -> 0..(ds - 1)]
  <2>1. ASSUME NEW k \in Int, n + 1 <= k, k < l.count
        PROVE  DataOffset(l, l.idx[IndexRef(l, k + 1)], neg) \in 0..(ds - 1)
    <3>1. k + 1 \in 0..(is - 1)
      <4> HIDE DEF ds, m, x, g, D, neg, b, t
      <4> QED BY SMTT(40), <1>1, <1>2, <2>1
    <3>2. l.idx[IndexRef(l, k + 1)] \in 0..(ds - 1)
      BY <3>1, LayoutFacts
    <3>3. l.idx[IndexRef(l, k + 1)] + neg \in Int
      <4> DEFINE y == l.idx[IndexRef(l, k + 1)]
      <4>1. y \in 0..(ds - 1) /\ ds \in Nat /\ neg \in Int
        BY <3>2, <1>1, <1>3
      <4> HIDE DEF y, ds, neg
      <4>2. y + neg \in Int
        BY <4>1
      <4> QED BY <4>2 DEF y
    <3> QED BY <3>3, <1>1, ModRange DEF DataOffset
  <2>2. ASSUME NEW i \in 0..(is - 1) PROVE (i - l.first) % is \in Int
    <3>1. i - l.first \in Int
      BY <1>1
    <3> QED BY <3>1, <1>1, ModRange
  <2> HIDE DEF neg
  <2> QED BY <2>1, <2>2, <1>1
<1>7. ASSUME NEW j \in 0..c
      PROVE  x[IndexRef(l, j)] = IF j <= n THEN StartOf(l, j)
                                 ELSE DataOffset(l, StartOf(l, j + 1), neg)
  <2>1. x[IndexRef(l, j)] = IF n + 1 <= j /\ j < l.count
                            THEN DataOffset(l, l.idx[IndexRef(l, j + 1)], neg)
                            ELSE l.idx[IndexRef(l, j)]
    <3> HIDE DEF neg
    <3> QED BY <1>5
  <2>2. (n + 1 <= j /\ j < l.count) <=> ~ (j <= n)
    BY SMTT(30), <1>1, <1>2
  <2> HIDE DEF x, neg
  <2> QED BY <2>1, <2>2 DEF StartOf
<1> HIDE DEF x
<1>8. /\ \A j \in 0..l.count : /\ Distance(l, j) \in 0..l.data_len
                               /\ StartOf(l, j) = (b + Distance(l, j)) % ds
      /\ \A i, j \in 0..l.count : i <= j => Distance(l, i) <= Distance(l, j)
      /\ Distance(l, 0) = 0 /\ Distance(l, l.count) = l.data_len
  BY LayoutElim
<1>9. \A j \in 0..c : D[j] = IF j <= n THEN Distance(l, j)
                             ELSE Distance(l, j + 1) + neg
  BY DEF Closed, size
<1> HIDE DEF D
<1> DEFINE dn == Distance(l, n)
<1>10. dn \in 0..l.data_len /\ Distance(l, n + 1) = dn + size
  <2>1. dn \in 0..l.data_len /\ Distance(l, n + 1) \in 0..l.data_len
    BY <1>2, <1>8
  <2>2. size = Distance(l, n + 1) - dn
    BY <1>3
  <2> HIDE DEF dn
  <2> QED BY <2>1, <2>2, <1>1
<1>11. ASSUME NEW j \in 0..c
       PROVE  /\ j <= n => /\ D[j] = Distance(l, j) /\ Distance(l, j) <= dn
                           /\ Distance(l, j) \in 0..l.data_len
              /\ ~ (j <= n) => /\ j + 1 \in 0..l.count
                               /\ D[j] = Distance(l, j + 1) + neg
                               /\ Distance(l, j + 1) \in 0..l.data_len
                               /\ dn + size <= Distance(l, j + 1)
  <2>1. j \in 0..l.count /\ j + 1 \in 0..l.count /\ (~ (j <= n) => n + 1 <= j + 1)
    <3>1. c \in Nat /\ n \in Nat /\ c + 1 = l.count
      BY <1>2
    <3> HIDE DEF c
    <3> QED BY <3>1
  <2>2. ~ (j <= n) => Distance(l, n + 1) <= Distance(l, j + 1)
    BY <2>1, <1>2, <1>8
  <2>3. j <= n => Distance(l, j) <= dn
    BY <2>1, <1>2, <1>8
  <2> HIDE DEF neg, dn
  <2> QED BY <2>1, <2>2, <2>3, <1>8, <1>9, <1>10
<1> HIDE DEF dn
<1>12. ASSUME NEW j \in 0..c
       PROVE  /\ j <= n => D[j] \in 0..dn
              /\ ~ (j <= n) => /\ D[j] = Distance(l, j + 1) - size
                               /\ D[j] \in dn..t
  <2> DEFINE dj == Distance(l, j + 1)
  <2>1. ASSUME ~ (j <= n) PROVE D[j] = dj - size /\ D[j] \in dn..t
    <3>1. D[j] = dj + neg /\ dj \in 0..l.data_len /\ dn + size <= dj
      BY <2>1, <1>11
    <3>2. D[j] = dj - size
      <4> HIDE DEF dj
      <4> QED BY <3>1, <1>1, <1>3 DEF neg
    <3>3. dj \in Int /\ dj <= l.data_len /\ dn \in Int /\ size \in Int /\ l.data_len \in Int
      <4> HIDE DEF dj, neg
      <4> QED BY <3>1, <1>1, <1>3, <1>10
    <3>4. D[j] \in dn..t
      <4> HIDE DEF dj, neg
      <4>1. dn + size <= dj
        BY <3>1
      <4>2. dn <= dj - size /\ dj - size <= l.data_len - size /\ dj - size \in Int
        BY <3>3, <4>1
      <4> QED BY <3>2, <3>3, <4>2 DEF t
    <3> QED BY <3>2, <3>4
  <2>2. ASSUME j <= n PROVE D[j] \in 0..dn
    <3>1. D[j] \in 0..l.data_len /\ D[j] <= dn
      BY <2>2, <1>11
    <3> QED BY <3>1, <1>1, <1>10
  <2> QED BY <2>1, <2>2
<1>13. dn <= t
  <2>1. c \in 0..c /\ ~ (c <= n)
    BY SMTT(30), <1>1, <1>2
  <2>2. D[c] \in dn..t
    BY <2>1, <1>12
  <2>3. dn \in Int /\ t \in Int
    <3> HIDE DEF t
    <3> QED BY <1>1, <1>3, <1>10
  <2> HIDE DEF t
  <2> QED BY <2>2, <2>3
<1>14. D[0] = 0 /\ D[c] = t
  <2>1. 0 \in 0..c /\ c \in 0..c /\ 0 <= n /\ ~ (c <= n)
    BY <1>1, <1>2
  <2>2. D[c] = Distance(l, l.count) - size
    BY <2>1, <1>2, <1>12
  <2> HIDE DEF c
  <2> QED BY <2>1, <2>2, <1>8, <1>11 DEF t
<1>15. ASSUME NEW j \in 0..c PROVE D[j] \in 0..t
  <2> HIDE DEF t
  <2>1. t \in Nat /\ dn \in Nat /\ dn <= t
    BY <1>1, <1>3, <1>10, <1>13
  <2> QED BY <2>1, <1>12
<1>16. ASSUME NEW i \in 0..c, NEW j \in 0..c, i <= j PROVE D[i] <= D[j]
  <2>1. CASE j <= n
    <3>1. i <= n /\ i \in 0..l.count /\ j \in 0..l.count
      <4>1. c \in Nat /\ n \in Nat /\ c + 1 = l.count
        BY <1>2
      <4> HIDE DEF c
      <4> QED BY <4>1, <1>16, <2>1
    <3> QED BY <2>1, <3>1, <1>8, <1>11, <1>16
  <2>2. CASE ~ (j <= n) /\ i <= n
    <3>1. D[i] \in 0..dn /\ D[j] \in dn..t
      BY <2>2, <1>12
    <3>2. t \in Int /\ dn \in Int
      <4> HIDE DEF t
      <4> QED BY <1>1, <1>3, <1>10
    <3> HIDE DEF t
    <3> QED BY <3>1, <3>2
  <2>3. CASE ~ (j <= n) /\ ~ (i <= n)
    <3>1. i + 1 <= j + 1
      BY <1>1, <1>16
    <3>2. Distance(l, i + 1) <= Distance(l, j + 1)
      BY <2>3, <3>1, <1>8, <1>11
    <3>3. /\ D[i] = Distance(l, i + 1) - size /\ D[j] = Distance(l, j + 1) - size
          /\ Distance(l, i + 1) \in 0..l.data_len /\ Distance(l, j + 1) \in 0..l.data_len
      BY <2>3, <1>11, <1>12
    <3> QED BY <3>2, <3>3, <1>1, <1>3
  <2> QED BY <2>1, <2>2, <2>3
<1>17. x[l.first] = b
  <2>1. 0 \in 0..c /\ 0 <= n
    BY <1>2
  <2> QED BY <2>1, <1>7, IndexRefZero
<1>18. ASSUME NEW j \in 0..c PROVE x[(l.first + j) % is] = (x[l.first] + D[j]) % ds
  <2>0. x[(l.first + j) % is] = x[IndexRef(l, j)]
    BY DEF IndexRef
  <2>1. CASE j <= n
    <3>1. j \in 0..l.count
      BY <1>1, <1>2
    <3> HIDE DEF b
    <3> QED BY <2>0, <2>1, <3>1, <1>7, <1>8, <1>11, <1>17
  <2>2. CASE ~ (j <= n)
    <3>1. /\ j + 1 \in 0..l.count /\ D[j] = Distance(l, j + 1) + neg
          /\ D[j] \in 0..t
      BY <2>2, <1>11, <1>15
    <3>2. 0 <= D[j] /\ D[j] < ds
      <4> HIDE DEF neg, t
      <4> QED BY <3>1, <1>1, <1>3
    <3>3. 0 <= Distance(l, j + 1) + neg /\ Distance(l, j + 1) + neg < ds
      <4> HIDE DEF neg
      <4> QED BY <3>1, <3>2
    <3>4. (StartOf(l, j + 1) + neg) % ds = (b + (Distance(l, j + 1) + neg)) % ds
      <4> HIDE DEF neg
      <4> QED BY <3>1, <3>3, <1>3, StartShift DEF b, ds
    <3> HIDE DEF b, neg
    <3> QED BY <2>0, <2>2, <3>1, <3>4, <1>7, <1>17 DEF DataOffset
  <2> QED BY <2>1, <2>2
<1>19. Table(l, l.first, c, t, x, D)
  <2> HIDE DEF t, c, b
  <2> QED BY <1>1, <1>2, <1>3, <1>6, <1>14, <1>15, <1>16, <1>18 DEF Table
<1>20. WellFormed(g) /\ Layout(g) /\ Shape(g, l, c, b, D) /\ g.blob = m.blob
  <2>1. WellFormed(g) /\ Layout(g) /\ Shape(g, l, c, b, D)
    <3> HIDE DEF m, t, c, b
    <3> QED BY <1>4, <1>17, <1>19, MovedLayout
  <2>2. g.blob = m.blob
    <3> HIDE DEF m, t, c
    <3> QED BY <1>4 DEF Rebuilt, WellFormed
  <2> QED BY <2>1, <2>2
<1>21. LRemItem(l, n) = g
  <2>1. n + 1 # l.count /\ n # 0
    BY <1>1, <1>2
  <2>2. LRemItem(l, n) = [m EXCEPT !.idx = x, !.count = @ - 1, !.data_len = @ - size]
    <3>1. DOMAIN l.idx = 0..(is - 1)
      BY <1>1
    <3> QED BY <2>1, <3>1 DEF LRemItem, size, x
  <2> HIDE DEF m
  <2> QED BY <2>2, <1>4 DEF Rebuilt, SameIndex, WellFormed
<1>22. m.blob = IF size > 0 THEN MoveTail(l, n, neg).blob ELSE l.blob
  OBVIOUS
<1> HIDE DEF g, m, b, D
<1> QED BY <1>20, <1>21, <1>22 DEF size, b, D

\* lrem(): either end is cut off, an inner item is closed over.
LEMMA LRemLayout ==
  ASSUME NEW l, WellFormed(l), Layout(l), NEW n \in 0..(l.count - 1)
  PROVE  WellFormed(LRemItem(l, n)) /\ Layout(LRemItem(l, n))
<1>1. l.count \in Nat /\ l.count # 0 /\ n \in Nat /\ n < l.count
  BY LayoutFacts
<1>2. CASE n + 1 = l.count
  <2>1. LRemItem(l, n) = RPopItem(l)
    <3>1. l.count - 1 = n
      BY <1>1, <1>2
    <3> QED BY <3>1, <1>2 DEF LRemItem, RPopItem
  <2> QED BY <2>1, <1>1, RPopLayout
<1>3. CASE n + 1 # l.count /\ n = 0
  <2>1. LRemItem(l, n) = LPopItem(l)
    BY <1>3 DEF LRemItem, LPopItem
  <2> QED BY <2>1, <1>1, LPopLayout
<1>4. CASE n + 1 # l.count /\ n # 0
  <2>1. n \in 1..(l.count - 2)
    BY <1>1, <1>4
  <2> QED BY <2>1, LRemInner
<1> QED BY <1>2, <1>3, <1>4

\* init() leaves an empty list.
LEMMA EmptyLayout ==
  ASSUME NEW is \in Nat \ {0, 1}, NEW ds \in Nat \ {0, 1}, NEW fill \in Byte
  PROVE  LET e == EmptyList(is, ds, fill)
         IN  /\ WellFormed(e) /\ Layout(e)
             /\ e.index_size = is /\ e.data_size = ds
<1> DEFINE e == EmptyList(is, ds, fill)
<1>1. /\ e.index_size = is /\ e.data_size = ds /\ e.first = 0 /\ e.count = 0
      /\ e.data_len = 0 /\ e.idx = [i \in 0..(is - 1) |-> 0]
      /\ e.blob = [p \in 0..(ds - 1) |-> fill]
  BY DEF EmptyList
<1>2. /\ e.idx \in [0..(is - 1) -> 0..(ds - 1)]
      /\ e.blob \in [0..(ds - 1) -> Byte]
  <2>1. 0 \in 0..(ds - 1)
    OBVIOUS
  <2> QED BY <1>1, <2>1
<1>3. WellFormed(e)
  <2>1. e \in [index_size : Nat, data_size : Nat,
            first : Nat, count : Nat, data_len : Nat,
            idx : [0..(is - 1) -> 0..(ds - 1)], blob : [0..(ds - 1) -> Byte]]
    BY <1>2 DEF EmptyList
  <2>2. is > 1 /\ ds > 1 /\ 0 < is
    OBVIOUS
  <2> HIDE DEF e
  <2> QED BY <2>1, <2>2, <1>1 DEF WellFormed
<1> HIDE DEF e
<1>4. Layout(e)
  <2>1. Distance(e, 0) = 0
    <3>1. StartOf(e, 0) \in 0..(ds - 1)
      BY <1>1, <1>3, StartType
    <3>2. StartOf(e, 0) - StartOf(e, 0) = 0 /\ ds > 0 /\ ds \in Nat /\ 0 < ds
      BY <3>1
    <3> QED BY <3>2, <1>1, ModSmall DEF Distance
  <2>2. \A n \in 0..e.count : n = 0
    BY <1>1
  <2> QED BY <1>1, <2>1, <2>2 DEF Layout
<1> QED BY <1>1, <1>3, <1>4 DEF e

\* The offset copy() computes for an item is its distance from the first.
LEMMA OffsetDistance ==
  ASSUME NEW l, WellFormed(l), Layout(l), NEW n \in 0..l.count
  PROVE  Offset(l, n) = Distance(l, n)
<1>1. l.count \in Nat /\ l.data_len \in Nat
  BY LayoutFacts
<1>2. 0 \in 0..l.count /\ (n = 0 \/ 0 < n)
  BY <1>1
<1>3. Distance(l, 0) = 0 /\ Distance(l, n) \in 0..l.data_len
  BY LayoutElim
<1>4. CASE n = 0
  BY <1>3, <1>4 DEF Offset
<1>5. CASE n # 0
  <2>1. Span(l, StartOf(l, 0), EndOf(l, n)) = Distance(l, n) - Distance(l, 0)
    BY <1>2, <1>5, SpanDistance
  <2> QED BY <1>1, <1>3, <1>5, <2>1 DEF Offset
<1> QED BY <1>4, <1>5

\* copy(): the offsets are the distances.
LEMMA CopyLayout ==
  ASSUME NEW l, WellFormed(l), Layout(l), NEW is \in Nat \ {0, 1},
         NEW ds \in Nat \ {0, 1}, NEW fill \in Byte, l.count < is, l.data_len < ds
  PROVE  LET g == CopyList(l, is, ds, fill)
         IN  /\ WellFormed(g) /\ Layout(g) /\ g.index_size = is
             /\ Shape(g, EmptyList(is, ds, fill), l.count, 0,
                      [n \in 0..l.count |-> Distance(l, n)])
<1> DEFINE e    == EmptyList(is, ds, fill)
           size == Span(l, StartOf(l, 0), EndOf(l, l.count))
           B    == [p \in 0..(ds - 1) |->
                      IF l.count > 0 /\ p < size
                      THEN l.blob[DataOffset(l, StartOf(l, 0), p)] ELSE fill]
           x    == [i \in 0..(is - 1) |->
                      IF l.count > 0 /\ i <= l.count THEN Offset(l, i) ELSE 0]
           a    == [e EXCEPT !.blob = B]
           g    == Rebuilt(a, 0, l.count, l.data_len, x)
           D    == [n \in 0..l.count |-> Distance(l, n)]
<1>1. /\ l.count \in Nat /\ l.data_len \in Nat /\ is \in Nat /\ is > 1
      /\ ds \in Nat /\ ds > 1
      /\ StartOf(l, 0) \in Int /\ l.data_size \in Nat /\ l.data_size > 0
  <2>1. StartOf(l, 0) \in Int
    BY LayoutFacts
  <2> QED BY <2>1, LayoutFacts
<1>2. WellFormed(e) /\ e.index_size = is /\ e.data_size = ds
  BY EmptyLayout
<1> HIDE DEF e
<1>3. B \in [0..(e.data_size - 1) -> Byte]
  <2>1. ASSUME NEW p \in 0..(ds - 1)
        PROVE  l.blob[DataOffset(l, StartOf(l, 0), p)] \in Byte
    <3>1. StartOf(l, 0) + p \in Int
      BY <1>1, <2>1
    <3>2. DataOffset(l, StartOf(l, 0), p) \in 0..(l.data_size - 1)
      BY <3>1, <1>1, ModRange DEF DataOffset
    <3> QED BY <3>2 DEF WellFormed
  <2> HIDE DEF size
  <2> QED BY <2>1, <1>2
<1>4. WellFormed(a) /\ SameIndex(e, a)
  <2> HIDE DEF B
  <2> QED BY <1>2, <1>3, BlobUpdate
<1>5. \A n \in 0..l.count : /\ Distance(l, n) \in 0..l.data_len
                            /\ Offset(l, n) = Distance(l, n)
  BY LayoutElim, OffsetDistance
<1>6. Distance(l, 0) = 0 /\ Distance(l, l.count) = l.data_len
      /\ \A i, j \in 0..l.count : i <= j => Distance(l, i) <= Distance(l, j)
  BY LayoutElim
<1>7. \A n \in 0..(is - 1) :
        /\ n \in 0..l.count => x[n] = Distance(l, n)
        /\ n \notin 0..l.count => x[n] = 0
  <2> TAKE n \in 0..(is - 1)
  <2>1. x[n] = IF l.count > 0 /\ n <= l.count THEN Offset(l, n) ELSE 0
    OBVIOUS
  <2>2. CASE n \in 0..l.count
    <3>1. ~ (l.count > 0) => n = 0
      BY <1>1, <2>2
    <3>2. n <= l.count
      BY <1>1, <2>2
    <3> HIDE DEF x
    <3> QED BY <2>1, <2>2, <3>1, <3>2, <1>5, <1>6
  <2>3. CASE n \notin 0..l.count
    <3>1. ~ (n <= l.count)
      BY <1>1, <2>3
    <3> HIDE DEF x
    <3> QED BY <2>1, <2>3, <3>1
  <2> QED BY <2>2, <2>3
<1>8. x \in [0..(is - 1) -> 0..(ds - 1)]
  <2>1. ASSUME NEW n \in 0..(is - 1) PROVE x[n] \in 0..(ds - 1)
    <3>1. \/ x[n] = Distance(l, n) /\ Distance(l, n) \in 0..l.data_len
          \/ x[n] = 0
      <4> HIDE DEF x
      <4> QED BY <1>5, <1>7
    <3> HIDE DEF x
    <3> QED BY <3>1, <1>1
  <2>2. x = [n \in 0..(is - 1) |-> x[n]]
    OBVIOUS
  <2> HIDE DEF x
  <2> QED BY <2>1, <2>2
<1> HIDE DEF x
<1>9. ASSUME NEW n \in 0..l.count PROVE x[(0 + n) % is] = (x[0] + D[n]) % ds
  <2>1. n \in 0..(is - 1) /\ n \in Int /\ 0 <= n /\ n < is /\ 0 + n = n /\ is > 0
        /\ 0 \in 0..(is - 1) /\ 0 \in 0..l.count
    BY <1>1
  <2>2. x[n] = Distance(l, n) /\ x[0] = 0 /\ D[n] = Distance(l, n)
    BY <2>1, <1>6, <1>7
  <2>3. (0 + n) % is = n
    BY <2>1, <1>1, ModSmall
  <2>4. D[n] \in Int /\ 0 <= D[n] /\ D[n] < ds /\ 0 + D[n] = D[n] /\ ds > 0
    <3>1. D[n] \in 0..l.data_len
      BY <2>2, <1>5
    <3> HIDE DEF D
    <3> QED BY <3>1, <1>1
  <2>5. (0 + D[n]) % ds = D[n]
    <3> HIDE DEF D
    <3> QED BY <2>4, <1>1, ModSmall
  <2> HIDE DEF D
  <2> QED BY <2>2, <2>3, <2>5
<1>10. /\ D[0] = 0 /\ D[l.count] = l.data_len
       /\ \A n \in 0..l.count : D[n] \in 0..l.data_len
       /\ \A i, j \in 0..l.count : i <= j => D[i] <= D[j]
  <2>1. 0 \in 0..l.count /\ l.count \in 0..l.count
    BY <1>1
  <2> QED BY <2>1, <1>5, <1>6
<1>11. Table(a, 0, l.count, l.data_len, x, D)
  <2>1. a.index_size = is /\ a.data_size = ds /\ 0 \in 0..(is - 1)
    BY <1>1, <1>2, <1>4 DEF SameIndex
  <2> HIDE DEF a, D
  <2> QED BY <2>1, <1>1, <1>8, <1>9, <1>10 DEF Table
<1>12. WellFormed(g) /\ Layout(g) /\ Shape(g, e, l.count, 0, D) /\ g.index_size = is
  <2>1. 0 \in 0..(is - 1) /\ 0 \in 0..l.count
    BY <1>1
  <2>2. x[0] = 0
    BY <2>1, <1>6, <1>7
  <2>3. WellFormed(g) /\ Layout(g) /\ Shape(g, a, l.count, x[0], D)
    <3> HIDE DEF a, D
    <3> QED BY <1>4, <1>11, Relayout
  <2>4. Shape(g, e, l.count, x[0], D)
    <3> HIDE DEF a, D, g
    <3> QED BY <2>3, <1>4 DEF Shape, SameIndex
  <2>5. g.index_size = is
    <3> HIDE DEF a, D, g
    <3> QED BY <2>4, <1>2 DEF Shape
  <2> HIDE DEF g
  <2> QED BY <2>2, <2>3, <2>4, <2>5
<1>13. CopyList(l, is, ds, fill) = g
  <2>1. CopyList(l, is, ds, fill)
          = [e EXCEPT !.count = l.count, !.data_len = l.data_len, !.blob = B, !.idx = x]
    BY DEF CopyList, e, x
  <2>2. e.first = 0
    BY DEF e, EmptyList
  <2> HIDE DEF B
  <2> QED BY <2>1, <2>2, <1>2 DEF Rebuilt, WellFormed
<1> HIDE DEF g
<1> QED BY <1>12, <1>13 DEF e

\* Min() finds the least of the positions that match.
LEMMA LeastElement ==
  ASSUME NEW S \in SUBSET Nat, S # {}
  PROVE  Min(S) \in S /\ \A y \in S : Min(S) <= y
<1> DEFINE R == OpToRel(<, Nat)
<1>1. \A x, y \in Nat : y < x => <<y, x>> \in R
  BY DEF OpToRel
<1>2. IsWellFoundedOn(R, Nat)
  BY NatLessThanWellFounded
<1> HIDE DEF R
<1>3. PICK x \in S : \A y \in S : ~ (<<y, x>> \in R)
  BY <1>2, WFMin
<1>4. \A y \in S : x <= y
  <2> TAKE y \in S
  <2>1. x \in Nat /\ y \in Nat /\ ~ (y < x)
    BY <1>1, <1>3
  <2> QED BY <2>1
<1> QED BY <1>3, <1>4 DEF Min

-----------------------------------------------------------------------------
(* Induction over the numbers, as a fact about sets of them. *)

\* What holds of a number whenever it holds of the smaller ones holds of all.
LEMMA Induction ==
  ASSUME NEW S \in SUBSET Nat,
         \A n \in Nat : (\A m \in 0..(n - 1) : m \in S) => n \in S
  PROVE  S = Nat
<1> DEFINE R == OpToRel(<, Nat)
<1>1. \A x, y \in Nat : y < x => <<y, x>> \in R
  BY DEF OpToRel
<1>2. IsWellFoundedOn(R, Nat)
  BY NatLessThanWellFounded
<1> HIDE DEF R
<1>3. SUFFICES ASSUME Nat \ S # {} PROVE FALSE
  OBVIOUS
<1>4. PICK x \in Nat \ S : \A y \in Nat \ S : ~ (<<y, x>> \in R)
  BY <1>2, <1>3, WFMin
<1>5. \A m \in 0..(x - 1) : m \in S
  <2> TAKE m \in 0..(x - 1)
  <2>1. m \in Nat /\ m < x /\ x \in Nat
    BY <1>4
  <2>2. <<m, x>> \in R
    BY <1>1, <2>1
  <2> QED BY <1>4, <2>1, <2>2
<1> QED BY <1>4, <1>5

-----------------------------------------------------------------------------
(* The bytes: a list seen from offset s is the ring read around from s. *)

\* From one byte of the ring to another.
LEMMA ModGap ==
  ASSUME NEW d \in Nat, d > 0, NEW s \in 0..(d - 1), NEW a \in 0..(d - 1),
         NEW k \in 0..(d - 1)
  PROVE  (((s + k) % d) - ((s + a) % d)) % d = IF a <= k THEN k - a ELSE k - a + d
  BY SMT

\* The kth byte from s on.
At(l, s, k) == l.blob[(s + k) % l.data_size]

\* m has at e on the size bytes that l has at a, and the others of l.
Shifted(l, m, s, a, e, size) ==
  \A k \in 0..(l.data_size - 1) :
    At(m, s, k) = IF e <= k /\ k < e + size THEN At(l, s, (k - e) + a) ELSE At(l, s, k)

\* copy_into() writes the bytes, in order, and no others.
LEMMA WrittenBytes ==
  ASSUME NEW l, WellFormed(l), NEW v \in Seq(Byte), NEW s \in 0..(l.data_size - 1),
         NEW a \in 0..(l.data_size - 1), a + Len(v) <= l.data_size,
         NEW k \in 0..(l.data_size - 1)
  PROVE  At(CopyInto(l, v, (s + a) % l.data_size), s, k)
           = IF a <= k /\ k < a + Len(v) THEN v[(k - a) + 1] ELSE At(l, s, k)
<1> DEFINE d     == l.data_size
           p     == (s + k) % d
           start == (s + a) % d
           g     == CopyInto(l, v, start)
<1>1. d \in Nat /\ d > 0 /\ Len(v) \in Nat /\ DOMAIN l.blob = 0..(d - 1)
  BY DEF WellFormed
<1>2. p \in 0..(d - 1)
  <2>1. s + k \in Int
    BY <1>1
  <2> QED BY <2>1, <1>1, ModRange
<1>3. (p - start) % d = IF a <= k THEN k - a ELSE k - a + d
  <2> HIDE DEF d
  <2> QED BY <1>1, ModGap DEF d
<1>4. g.data_size = d /\ g.blob[p] = IF (p - start) % d < Len(v)
                                     THEN v[((p - start) % d) + 1] ELSE l.blob[p]
  <2> HIDE DEF p, start
  <2> QED BY <1>1, <1>2 DEF CopyInto, WellFormed
<1>5. At(g, s, k) = g.blob[p] /\ At(l, s, k) = l.blob[p]
  BY <1>4 DEF At
<1> HIDE DEF g, p, start
<1>6. CASE a <= k
  <2>1. k - a < Len(v) <=> k < a + Len(v)
    BY <1>1
  <2> QED BY <1>3, <1>4, <1>5, <1>6, <2>1 DEF g, start
<1>7. CASE ~ (a <= k)
  <2>1. ~ (k - a + d < Len(v))
    BY <1>1
  <2> QED BY <1>3, <1>4, <1>5, <1>7, <2>1 DEF g, start
<1> QED BY <1>6, <1>7

\* copy_move(): whatever order it copies the two parts in, what arrives at dest
\* is what was at source.
LEMMA MovedBytes ==
  ASSUME NEW l, WellFormed(l), NEW source \in Nat, NEW size \in Nat,
         source + size <= l.data_size, NEW dest \in 0..l.data_size,
         NEW p \in 0..(l.data_size - 1)
  PROVE  CopyMove(l, source, size, dest).blob[p]
           = LET j == (p - dest) % l.data_size
             IN  IF j < size THEN l.blob[source + j] ELSE l.blob[p]
<1> DEFINE d == l.data_size
           g == CopyMove(l, source, size, dest)
           j == (p - dest) % d
<1>1. d \in Nat /\ d > 0 /\ DOMAIN l.blob = 0..(d - 1) /\ dest \in Nat /\ p \in Nat
  BY DEF WellFormed
<1>2. j = IF dest <= p THEN p - dest ELSE p - dest + d
  <2>1. CASE dest <= p
    <3>1. p - dest \in Int /\ 0 <= p - dest /\ p - dest < d
      BY <1>1, <2>1
    <3> HIDE DEF d
    <3> QED BY <1>1, <2>1, <3>1, ModSmall
  <2>2. CASE ~ (dest <= p)
    <3>1. d \in Nat /\ d > 0 /\ dest \in 0..d /\ p \in 0..(d - 1) /\ p < dest
      BY <1>1, <2>2
    <3> HIDE DEF d
    <3>2. (p - dest) % d = p - dest + d
      BY <3>1, SMT
    <3> QED BY <2>2, <3>2
  <2> QED BY <2>1, <2>2
<1>3. CASE dest + size <= d
  <2>1. g.blob[p] = IF dest <= p /\ p < dest + size THEN l.blob[source + (p - dest)]
                    ELSE l.blob[p]
    BY <1>1, <1>3 DEF CopyMove, MemMove, WellFormed
  <2>2. j < size <=> (dest <= p /\ p < dest + size)
    <3> HIDE DEF j
    <3> QED BY <1>1, <1>2, <1>3
  <2>3. dest <= p => j = p - dest
    BY <1>2
  <2> HIDE DEF g, j
  <2> QED BY <2>1, <2>2, <2>3 DEF g, j
<1>4. CASE ~ (dest + size <= d)
  <2> DEFINE len   == d - dest
             upper == MemMove(l.blob, dest, l.blob, source, len)
  <2>1. len \in Nat /\ dest >= source /\ len < size /\ size - len \in Nat
    BY <1>1, <1>4
  <2>2. g.blob = MemMove(upper, 0, l.blob, source + len, size - len)
    <3> HIDE DEF upper
    <3> QED BY <2>1, <1>4 DEF CopyMove, WellFormed, upper
  <2>3. upper[p] = IF dest <= p /\ p < dest + len THEN l.blob[source + (p - dest)]
                   ELSE l.blob[p]
    <3> HIDE DEF len
    <3> QED BY <1>1 DEF MemMove
  <2>4. DOMAIN upper = 0..(d - 1)
    BY <1>1 DEF MemMove
  <2>5. g.blob[p] = IF 0 <= p /\ p < 0 + (size - len)
                    THEN l.blob[(source + len) + (p - 0)] ELSE upper[p]
    <3> HIDE DEF g, upper, len
    <3> QED BY <1>1, <2>2, <2>4 DEF MemMove
  <2> HIDE DEF g, upper
  <2>6. CASE dest <= p
    <3>1. j = p - dest /\ j < size /\ p < dest + len /\ ~ (p < 0 + (size - len))
      <4> HIDE DEF j
      <4> QED BY <1>1, <1>2, <2>1, <2>6
    <3> QED BY <2>3, <2>5, <2>6, <3>1 DEF g
  <2>7. CASE ~ (dest <= p)
    <3>1. j = p - dest + d /\ j = p + len
      BY <1>1, <1>2, <2>7
    <3>2. j < size <=> p < 0 + (size - len)
      <4> HIDE DEF j, len
      <4> QED BY <1>1, <2>1, <3>1
    <3>3. source + j = (source + len) + (p - 0)
      <4> HIDE DEF j, len
      <4> QED BY <1>1, <2>1, <3>1
    <3> HIDE DEF j, len
    <3> QED BY <1>1, <2>3, <2>5, <2>7, <3>2, <3>3 DEF g, j
  <2> QED BY <2>6, <2>7
<1> QED BY <1>3, <1>4

\* copy_move() in terms of the ring read from s: size bytes from a to e.
LEMMA MoveShifts ==
  ASSUME NEW l, WellFormed(l), NEW s \in 0..(l.data_size - 1), NEW a \in Nat,
         NEW e \in Nat, NEW size \in Nat, a + size <= l.data_size, e + size <= l.data_size,
         NEW source \in Nat, source + size <= l.data_size, NEW dest \in 0..l.data_size,
         size > 0 => /\ source = (s + a) % l.data_size
                     /\ dest % l.data_size = (s + e) % l.data_size
  PROVE  LET m == CopyMove(l, source, size, dest)
         IN  WellFormed(m) /\ SameIndex(l, m) /\ Shifted(l, m, s, a, e, size)
<1> DEFINE d == l.data_size
           m == CopyMove(l, source, size, dest)
<1>1. d \in Nat /\ d > 0
  BY HeaderType
<1>2. WellFormed(m) /\ SameIndex(l, m)
  BY CopyMoveIndex
<1>3. ASSUME NEW k \in 0..(d - 1)
      PROVE  At(m, s, k) = IF e <= k /\ k < e + size THEN At(l, s, (k - e) + a)
                           ELSE At(l, s, k)
  <2> DEFINE p == (s + k) % d
             j == (p - dest) % d
  <2>1. p \in 0..(d - 1)
    <3>1. s + k \in Int
      BY <1>1
    <3> QED BY <3>1, <1>1, ModRange
  <2>2. m.blob[p] = IF j < size THEN l.blob[source + j] ELSE l.blob[p]
    <3> HIDE DEF p, d
    <3> QED BY <2>1, MovedBytes DEF d
  <2>3. At(m, s, k) = m.blob[p] /\ At(l, s, k) = l.blob[p]
    BY <1>2 DEF At, SameIndex
  <2>4. j \in 0..(d - 1)
    <3>1. p - dest \in Int
      <4> HIDE DEF p
      <4> QED BY <1>1, <2>1
    <3> HIDE DEF p
    <3> QED BY <3>1, <1>1, ModRange
  <2>5. CASE size = 0
    <3>1. ~ (j < size) /\ ~ (e <= k /\ k < e + size)
      <4> HIDE DEF j
      <4> QED BY <1>1, <2>4, <2>5
    <3> QED BY <2>2, <2>3, <3>1
  <2>6. CASE size > 0
    <3>1. a \in 0..(d - 1) /\ e \in 0..(d - 1)
      BY <1>1, <2>6
    <3>2. j = (((s + k) % d) - ((s + e) % d)) % d
      <4>1. j = (p - (dest % d)) % d
        <5> HIDE DEF p, d
        <5> QED BY <1>1, <2>1, SMT DEF d
      <4> QED BY <4>1, <2>6
    <3>3. j = IF e <= k THEN k - e ELSE k - e + d
      <4> HIDE DEF d, j
      <4> QED BY ZenonT(30), <1>1, <3>1, <3>2, ModGap DEF d
    <3>4. j < size <=> (e <= k /\ k < e + size)
      <4> HIDE DEF j
      <4> QED BY <1>1, <3>1, <3>3
    <3>5. ASSUME e <= k, k < e + size PROVE l.blob[source + j] = At(l, s, (k - e) + a)
      <4> DEFINE i == k - e
      <4>1. j = i /\ i \in Nat /\ i < size /\ source + i \in Int /\ 0 <= source + i
            /\ source + i < d /\ a + i < d /\ 0 <= a + i
        <5> HIDE DEF j
        <5> QED BY <1>1, <3>1, <3>3, <3>5
      <4> HIDE DEF i, j
      <4>2. (source + i) % d = source + i
        BY <1>1, <4>1, ModSmall
      <4>3. (((s + a) % d) + i) % d = (s + (a + i)) % d
        <5>1. a \in (1 - d)..(d - 1)
          BY <1>1, <3>1
        <5> QED BY <1>1, <4>1, <5>1, ModAdd
      <4>4. a + i = i + a
        BY <4>1
      <4>5. source = (s + a) % d
        BY <2>6
      <4>6. source + i = (s + (i + a)) % d
        BY <4>2, <4>3, <4>4, <4>5
      <4> QED BY <4>1, <4>6 DEF At, i
    <3> HIDE DEF j
    <3> QED BY <2>2, <2>3, <3>4, <3>5
  <2> QED BY <2>5, <2>6
<1> HIDE DEF m
<1>4. Shifted(l, m, s, a, e, size)
  BY <1>3 DEF Shifted
<1> QED BY <1>2, <1>4 DEF m

\* The second part first, towards the tail.
LEMMA ShiftedUp ==
  ASSUME NEW l, NEW m, NEW n, l.data_size \in Nat, m.data_size = l.data_size,
         NEW s, NEW a \in Nat, NEW e \in Nat, NEW x \in Nat, NEW y \in Nat, e >= a,
         e + (x + y) <= l.data_size,
         Shifted(l, m, s, a + x, e + x, y), Shifted(m, n, s, a, e, x)
  PROVE  Shifted(l, n, s, a, e, x + y)
<1> DEFINE d == l.data_size
<1>1. ASSUME NEW k \in 0..(d - 1)
      PROVE  At(n, s, k) = IF e <= k /\ k < e + (x + y) THEN At(l, s, (k - e) + a)
                           ELSE At(l, s, k)
  <2>1. At(n, s, k) = IF e <= k /\ k < e + x THEN At(m, s, (k - e) + a) ELSE At(m, s, k)
    BY DEF Shifted
  <2>2. At(m, s, k) = IF e + x <= k /\ k < (e + x) + y
                      THEN At(l, s, (k - (e + x)) + (a + x)) ELSE At(l, s, k)
    BY DEF Shifted
  <2>3. CASE e <= k /\ k < e + x
    <3> DEFINE i == (k - e) + a
    <3>1. i \in 0..(d - 1) /\ ~ (e + x <= i) /\ k < e + (x + y)
      BY <2>3
    <3>2. At(m, s, i) = At(l, s, i)
      <4> HIDE DEF i
      <4> QED BY <3>1 DEF Shifted
    <3> QED BY <2>1, <2>3, <3>1, <3>2
  <2>4. CASE ~ (e <= k /\ k < e + x)
    <3>1. (e + x <= k /\ k < (e + x) + y) <=> (e <= k /\ k < e + (x + y))
      BY <2>4
    <3>2. (k - (e + x)) + (a + x) = (k - e) + a
      OBVIOUS
    <3> QED BY <2>1, <2>2, <2>4, <3>1, <3>2
  <2> QED BY <2>3, <2>4
<1> QED BY <1>1 DEF Shifted

\* The first part first, towards the head.
LEMMA ShiftedDown ==
  ASSUME NEW l, NEW m, NEW n, l.data_size \in Nat, m.data_size = l.data_size,
         NEW s, NEW a \in Nat, NEW e \in Nat, NEW x \in Nat, NEW y \in Nat, e <= a,
         a + (x + y) <= l.data_size,
         Shifted(l, m, s, a, e, x), Shifted(m, n, s, a + x, e + x, y)
  PROVE  Shifted(l, n, s, a, e, x + y)
<1> DEFINE d == l.data_size
<1>1. ASSUME NEW k \in 0..(d - 1)
      PROVE  At(n, s, k) = IF e <= k /\ k < e + (x + y) THEN At(l, s, (k - e) + a)
                           ELSE At(l, s, k)
  <2>1. At(n, s, k) = IF e + x <= k /\ k < (e + x) + y
                      THEN At(m, s, (k - (e + x)) + (a + x)) ELSE At(m, s, k)
    BY DEF Shifted
  <2>2. At(m, s, k) = IF e <= k /\ k < e + x THEN At(l, s, (k - e) + a) ELSE At(l, s, k)
    BY DEF Shifted
  <2>3. CASE e + x <= k /\ k < (e + x) + y
    <3> DEFINE i == (k - e) + a
    <3>1. i \in 0..(d - 1) /\ ~ (i < e + x) /\ k < e + (x + y) /\ e <= k
      BY <2>3
    <3>2. At(m, s, i) = At(l, s, i)
      <4> HIDE DEF i
      <4> QED BY <3>1 DEF Shifted
    <3>3. (k - (e + x)) + (a + x) = i
      OBVIOUS
    <3> HIDE DEF i
    <3> QED BY <2>1, <2>3, <3>1, <3>2, <3>3 DEF i
  <2>4. CASE ~ (e + x <= k /\ k < (e + x) + y)
    <3>1. (e <= k /\ k < e + x) <=> (e <= k /\ k < e + (x + y))
      BY <2>4
    <3> QED BY <2>1, <2>2, <2>4, <3>1
  <2> QED BY <2>3, <2>4
<1> QED BY <1>1 DEF Shifted

\* What move_tail() and move_head() do with the bytes from start to end.
Run(l, start, end, amt) ==
  LET new_start == DataOffset(l, start, amt)
      len       == l.data_size - start
  IN  IF start <= end THEN CopyMove(l, start, end - start, new_start)
      ELSE IF amt > 0 THEN CopyMove(CopyMove(l, 0, end, amt), start, len, new_start)
      ELSE CopyMove(CopyMove(l, start, len, new_start), 0, end, new_start + len)

\* The step between two offsets.
LEMMA ModSteps ==
  ASSUME NEW d \in Nat, d > 0, NEW s \in 0..(d - 1), NEW a \in 0..(d - 1),
         NEW e \in 0..(d - 1)
  PROVE  (((s + a) % d) + (e - a)) % d = (s + e) % d
  BY SMT

\* Bytes that go around the end and move back do not reach beyond it.
LEMMA ModBefore2 ==
  ASSUME NEW d \in Nat, d > 0, NEW s \in 0..(d - 1), NEW a \in 0..(d - 1),
         NEW e \in 0..a, NEW end \in Nat, (a + (d - ((s + a) % d))) + end <= d
  PROVE  (s + e) % d <= (s + a) % d
  BY SMT

\* They arrive as they were, whichever part is moved first.
LEMMA RunShifts ==
  ASSUME NEW l, WellFormed(l), NEW s \in 0..(l.data_size - 1),
         NEW a \in 0..(l.data_size - 1), NEW e \in 0..(l.data_size - 1), NEW size \in Nat,
         a + size <= l.data_size, e + size <= l.data_size,
         NEW start, start = (s + a) % l.data_size,
         NEW end \in 0..l.data_size, Span(l, start, end) = size,
         NEW amt, amt = e - a
  PROVE  LET m == Run(l, start, end, amt)
         IN  WellFormed(m) /\ SameIndex(l, m) /\ Shifted(l, m, s, a, e, size)
<1> DEFINE d         == l.data_size
           new_start == DataOffset(l, start, amt)
           len       == d - start
<1>1. d \in Nat /\ d > 0 /\ start \in 0..(d - 1) /\ amt \in Int
  <2>1. d \in Nat /\ d > 0
    BY HeaderType
  <2>2. s + a \in Int
    BY <2>1
  <2> QED BY <2>1, <2>2, ModRange
<1>2. new_start = (s + e) % d /\ new_start \in 0..(d - 1)
  <2>1. new_start = (((s + a) % d) + (e - a)) % d
    BY DEF DataOffset
  <2>2. s + e \in Int
    BY <1>1
  <2>3. (s + e) % d \in 0..(d - 1)
    BY <1>1, <2>2, ModRange
  <2> HIDE DEF new_start
  <2> QED BY SMTT(30), <1>1, <2>1, <2>3, ModSteps
<1>3. new_start % d = (s + e) % d
  <2>1. new_start \in Int /\ 0 <= new_start /\ new_start < d
    <3> HIDE DEF new_start
    <3> QED BY <1>1, <1>2
  <2> HIDE DEF new_start
  <2> QED BY <1>1, <1>2, <2>1, ModSmall
<1> HIDE DEF new_start
<1>4. CASE start <= end
  <2>1. Run(l, start, end, amt) = CopyMove(l, start, size, new_start)
    BY <1>4 DEF Run, Span, new_start
  <2>2. start + size <= d /\ start \in Nat /\ a \in Nat /\ e \in Nat /\ new_start \in 0..d
    <3>1. size = end - start
      BY <1>4 DEF Span
    <3> QED BY <1>1, <1>2, <3>1
  <2> QED BY <1>3, <2>1, <2>2, MoveShifts
<1>5. CASE ~ (start <= end) /\ amt > 0
  <2> DEFINE m1 == CopyMove(l, 0, end, amt)
             m2 == CopyMove(m1, start, len, new_start)
  <2>1. size = len + end /\ len \in Nat /\ len > 0
    BY <1>1, <1>5 DEF Span
  <2>2. Run(l, start, end, amt) = m2
    BY <1>5 DEF Run, new_start
  <2>3. end > 0 => /\ 0 = (s + (a + len)) % d
                   /\ amt % d = (s + (e + len)) % d
    <3>1. SUFFICES ASSUME end > 0 PROVE 0 = (s + (a + len)) % d /\ amt % d = (s + (e + len)) % d
      OBVIOUS
    <3>2. a + len \in 0..(d - 1) /\ e + len \in 0..(d - 1) /\ start + len = d
          /\ 0 + ((e + len) - (a + len)) = amt
      BY <1>1, <2>1, <3>1
    <3> HIDE DEF len
    <3>3. (((s + a) % d) + ((a + len) - a)) % d = (s + (a + len)) % d
      <4>1. \A y \in 0..(d - 1) : (((s + a) % d) + (y - a)) % d = (s + y) % d
        BY <1>1, ModSteps
      <4> QED BY ONLY <3>2, <4>1
    <3>4. start + ((a + len) - a) = d /\ d % d = 0
      <4>1. start + ((a + len) - a) = d
        BY <1>1, <2>1, <3>2
      <4>2. d % d = 0
        BY <1>1, SMT
      <4> QED BY <4>1, <4>2
    <3>5. 0 = (s + (a + len)) % d
      BY <3>3, <3>4
    <3>6. (((s + (a + len)) % d) + ((e + len) - (a + len))) % d = (s + (e + len)) % d
      <4>1. \A x, y \in 0..(d - 1) : (((s + x) % d) + (y - x)) % d = (s + y) % d
        BY <1>1, ModSteps
      <4> QED BY ONLY <3>2, <4>1
    <3> QED BY <3>2, <3>5, <3>6
  <2>4. WellFormed(m1) /\ SameIndex(l, m1) /\ Shifted(l, m1, s, a + len, e + len, end)
    <3>1. /\ a + len \in Nat /\ e + len \in Nat /\ end \in Nat /\ 0 \in Nat
          /\ (a + len) + end <= d /\ (e + len) + end <= d /\ 0 + end <= d /\ amt \in 0..d
      BY <1>1, <1>5, <2>1
    <3> HIDE DEF len
    <3> QED BY <2>3, <3>1, MoveShifts
  <2> HIDE DEF m1
  <2>5. WellFormed(m2) /\ SameIndex(m1, m2) /\ Shifted(m1, m2, s, a, e, len)
    <3>1. /\ m1.data_size = d /\ a + len <= d /\ e + len <= d /\ start \in Nat
          /\ start + len <= d /\ new_start \in 0..d /\ a \in Nat /\ e \in Nat
      BY <1>1, <1>2, <2>1, <2>4 DEF SameIndex
    <3> HIDE DEF len
    <3> QED BY <1>3, <2>1, <2>4, <3>1, MoveShifts
  <2>6. SameIndex(l, m2)
    BY <2>4, <2>5, SameIndexTrans
  <2>7. Shifted(l, m2, s, a, e, len + end)
    <3>1. m1.data_size = d /\ e >= a /\ e + (len + end) <= d /\ end \in Nat
          /\ a \in Nat /\ e \in Nat
      BY <1>1, <1>5, <2>1, <2>4 DEF SameIndex
    <3> HIDE DEF len, m2
    <3> QED BY <1>1, <2>1, <2>4, <2>5, <3>1, ShiftedUp
  <2> HIDE DEF m2
  <2> QED BY <2>1, <2>2, <2>5, <2>6, <2>7
<1>6. CASE ~ (start <= end) /\ ~ (amt > 0)
  <2> DEFINE m1 == CopyMove(l, start, len, new_start)
             m2 == CopyMove(m1, 0, end, new_start + len)
  <2>1. size = len + end /\ len \in Nat /\ len > 0
    BY <1>1, <1>6 DEF Span
  <2>2. Run(l, start, end, amt) = m2
    BY <1>6 DEF Run, new_start
  <2>3. new_start + len \in 0..d
    <3>1. e \in 0..a /\ end \in Nat /\ (a + (d - ((s + a) % d))) + end <= d
      BY <1>1, <1>6, <2>1
    <3>2. new_start <= start
      BY <1>1, <1>2, <3>1, ModBefore2
    <3> QED BY <1>1, <1>2, <2>1, <3>2
  <2>4. end > 0 => /\ 0 = (s + (a + len)) % d
                   /\ (new_start + len) % d = (s + (e + len)) % d
    <3>1. SUFFICES ASSUME end > 0
                   PROVE  /\ 0 = (s + (a + len)) % d
                          /\ (new_start + len) % d = (s + (e + len)) % d
      OBVIOUS
    <3>2. a + len \in 0..(d - 1) /\ e + len \in 0..(d - 1) /\ (e + len) - e = len
          /\ (a + len) - a = len /\ start + len = d
      BY <1>1, <2>1, <3>1
    <3> HIDE DEF len
    <3>3. (((s + a) % d) + ((a + len) - a)) % d = (s + (a + len)) % d
      <4>1. \A y \in 0..(d - 1) : (((s + a) % d) + (y - a)) % d = (s + y) % d
        BY <1>1, ModSteps
      <4> QED BY ONLY <3>2, <4>1
    <3>4. (((s + e) % d) + ((e + len) - e)) % d = (s + (e + len)) % d
      <4>1. \A y \in 0..(d - 1) : (((s + e) % d) + (y - e)) % d = (s + y) % d
        BY <1>1, ModSteps
      <4> QED BY ONLY <3>2, <4>1
    <3>5. d % d = 0
      BY <1>1, SMT
    <3> QED BY <1>2, <3>2, <3>3, <3>4, <3>5
  <2>5. WellFormed(m1) /\ SameIndex(l, m1) /\ Shifted(l, m1, s, a, e, len)
    <3>1. /\ a + len <= d /\ e + len <= d /\ start \in Nat
          /\ start + len <= d /\ new_start \in 0..d /\ a \in Nat /\ e \in Nat
      BY <1>1, <1>2, <2>1
    <3> HIDE DEF len
    <3> QED BY <1>3, <2>1, <3>1, MoveShifts
  <2> HIDE DEF m1
  <2>6. WellFormed(m2) /\ SameIndex(m1, m2) /\ Shifted(m1, m2, s, a + len, e + len, end)
    <3>1. /\ a + len \in Nat /\ e + len \in Nat /\ end \in Nat /\ 0 \in Nat
          /\ (a + len) + end <= d /\ (e + len) + end <= d /\ 0 + end <= d
          /\ m1.data_size = d
      BY <1>1, <1>6, <2>1, <2>5 DEF SameIndex
    <3> HIDE DEF len
    <3> QED BY <2>3, <2>4, <2>5, <3>1, MoveShifts
  <2>7. SameIndex(l, m2)
    BY <2>5, <2>6, SameIndexTrans
  <2>8. Shifted(l, m2, s, a, e, len + end)
    <3>1. m1.data_size = d /\ e <= a /\ a + (len + end) <= d /\ end \in Nat
          /\ a \in Nat /\ e \in Nat
      BY <1>1, <1>6, <2>1, <2>5 DEF SameIndex
    <3> HIDE DEF len, m2
    <3> QED BY <1>1, <2>1, <2>5, <2>6, <3>1, ShiftedDown
  <2> HIDE DEF m2
  <2> QED BY <2>1, <2>2, <2>6, <2>7, <2>8
<1> QED BY <1>4, <1>5, <1>6

\* Nothing is moved.
LEMMA NoShift ==
  ASSUME NEW l, NEW s, NEW a, NEW e \in Int, l.data_size \in Nat
  PROVE  Shifted(l, l, s, a, e, 0)
  BY DEF Shifted

\* move_tail(): what follows item n is moved by amt.
LEMMA TailShifts ==
  ASSUME NEW l, WellFormed(l), Layout(l), NEW n \in 0..(l.count - 1),
         NEW amt \in Int, -amt <= GetSize(l, n), amt + l.data_len < l.data_size
  PROVE  LET m == MoveTail(l, n, amt)
             a == Distance(l, n + 1)
         IN  /\ WellFormed(m) /\ SameIndex(l, m)
             /\ Shifted(l, m, StartOf(l, 0), a, a + amt, l.data_len - a)
<1> DEFINE d    == l.data_size
           m    == MoveTail(l, n, amt)
           s    == StartOf(l, 0)
           a    == Distance(l, n + 1)
           size == l.data_len - a
<1>1. /\ d \in Nat /\ d > 0 /\ l.count \in Nat /\ l.data_len \in Nat
      /\ l.data_len < d /\ s \in 0..(d - 1) /\ n \in Nat /\ n + 1 \in 0..l.count
      /\ l.count \in 0..l.count
  BY LayoutFacts
<1>2. /\ a \in 0..l.data_len /\ StartOf(l, n + 1) = (s + a) % d
      /\ Distance(l, l.count) = l.data_len
  BY <1>1, LayoutElim
<1>3. a + amt >= 0 /\ a + amt \in Int
  <2>1. GetSize(l, n) = Distance(l, n + 1) - Distance(l, n)
    BY SizeDistance
  <2>2. n \in 0..l.count
    BY <1>1
  <2>3. Distance(l, n) \in 0..l.data_len
    BY <2>2, LayoutElim
  <2>4. -amt <= a - Distance(l, n)
    BY <2>1
  <2> HIDE DEF a
  <2> QED BY <1>1, <1>2, <2>3, <2>4
<1>4. WellFormed(m) /\ SameIndex(l, m)
  BY MoveTailIndex
<1>5. CASE n = l.count - 1
  <2>1. m = l
    BY <1>5 DEF MoveTail
  <2>2. size = 0
    <3>1. n + 1 = l.count
      BY <1>1, <1>5
    <3> QED BY <3>1, <1>1, <1>2
  <2> HIDE DEF m, size, s, a
  <2> QED BY <1>1, <1>3, <1>4, <2>1, <2>2, NoShift DEF m, size, s, a
<1>6. CASE n # l.count - 1
  <2> DEFINE end == EndOf(l, l.count)
  <2>1. m = Run(l, StartOf(l, n + 1), end, amt)
    BY <1>6 DEF MoveTail, Run
  <2>2. end \in 0..d
    BY <1>1, EndType
  <2>3. Span(l, StartOf(l, n + 1), end) = size
    <3>1. n + 1 < l.count
      BY <1>1, <1>6
    <3> QED BY <1>1, <1>2, <3>1, SpanDistance
  <2>4. /\ a \in 0..(d - 1) /\ a + amt \in 0..(d - 1) /\ size \in Nat
        /\ a + size <= d /\ (a + amt) + size <= d /\ amt = (a + amt) - a
    <3> HIDE DEF a
    <3> QED BY <1>1, <1>2, <1>3
  <2> HIDE DEF m, size, s, a, end, d
  <2>5. Shifted(l, Run(l, StartOf(l, n + 1), end, amt), s, a, a + amt, size)
    BY <1>1, <1>2, <2>2, <2>3, <2>4, RunShifts DEF d
  <2> QED BY <1>4, <2>1, <2>5 DEF m, size, s, a
<1> QED BY <1>5, <1>6

\* What m has from s on is what l holds, but for item n, which grows by amt.
Around(l, m, s, n, amt) ==
  \A k \in 0..(l.data_len - 1) :
    /\ k < Distance(l, n) => At(m, s, k) = At(l, StartOf(l, 0), k)
    /\ k >= Distance(l, n + 1) => At(m, s, k + amt) = At(l, StartOf(l, 0), k)

\* That is what move_tail() leaves.
LEMMA TailAround ==
  ASSUME NEW l, WellFormed(l), Layout(l), NEW n \in 0..(l.count - 1),
         NEW amt \in Int, -amt <= GetSize(l, n), amt + l.data_len < l.data_size
  PROVE  Around(l, MoveTail(l, n, amt), StartOf(l, 0), n, amt)
<1> DEFINE d == l.data_size
           m == MoveTail(l, n, amt)
           s == StartOf(l, 0)
           a == Distance(l, n + 1)
           b == Distance(l, n)
           t == l.data_len
<1>1. /\ d \in Nat /\ t \in Nat /\ t < d /\ n \in 0..l.count /\ n + 1 \in 0..l.count
      /\ l.count \in Nat
  BY LayoutFacts
<1>2. a \in 0..t /\ b \in 0..t
  BY <1>1, LayoutElim
<1>3. b <= a + amt
  <2>1. GetSize(l, n) = a - b
    BY SizeDistance
  <2>2. -amt <= a - b
    BY <2>1
  <2> HIDE DEF a, b
  <2> QED BY <1>2, <2>2
<1>4. Shifted(l, m, s, a, a + amt, t - a)
  BY TailShifts
<1>5. amt + t < d
  OBVIOUS
<1> HIDE DEF a, b, t, d, m, s
<1>6. ASSUME NEW k \in 0..(t - 1)
      PROVE  /\ k < b => At(m, s, k) = At(l, s, k)
             /\ k >= a => At(m, s, k + amt) = At(l, s, k)
  <2>1. ASSUME k < b PROVE At(m, s, k) = At(l, s, k)
    <3>1. k \in 0..(d - 1) /\ ~ (a + amt <= k)
      BY <1>1, <1>2, <1>3, <2>1
    <3> QED BY <1>4, <3>1 DEF Shifted, d
  <2>2. ASSUME k >= a PROVE At(m, s, k + amt) = At(l, s, k)
    <3> DEFINE i == k + amt
    <3>1. i \in 0..(d - 1) /\ a + amt <= i /\ i < (a + amt) + (t - a)
          /\ (i - (a + amt)) + a = k
      BY <1>1, <1>2, <1>3, <1>5, <2>2
    <3> HIDE DEF i
    <3>2. At(m, s, i) = At(l, s, k)
      BY <1>4, <3>1 DEF Shifted, d
    <3> QED BY <3>2 DEF i
  <2> QED BY <2>1, <2>2
<1> QED BY <1>6 DEF Around, a, b, t, m, s

\* The same bytes, read from elsewhere.
LEMMA Rebase ==
  ASSUME NEW m, NEW d \in Nat, d > 0, m.data_size = d, NEW s \in 0..(d - 1),
         NEW i \in (1 - d)..(d - 1), NEW k \in Int, 0 <= i + k, i + k < d
  PROVE  At(m, (s + i) % d, k) = At(m, s, i + k)
<1>1. (((s + i) % d) + k) % d = (s + (i + k)) % d
  BY ModAdd
<1> QED BY <1>1 DEF At

\* move_head(): what precedes item n is moved by -amt.
LEMMA HeadAround ==
  ASSUME NEW l, WellFormed(l), Layout(l), NEW n \in 0..(l.count - 1),
         NEW amt \in Int, amt # 0, -amt <= GetSize(l, n),
         amt + l.data_len < l.data_size
  PROVE  Around(l, MoveHead(l, n, amt), DataOffset(l, StartOf(l, 0), -amt), n, amt)
<1> DEFINE d   == l.data_size
           m   == MoveHead(l, n, amt)
           s   == StartOf(l, 0)
           a   == Distance(l, n + 1)
           b   == Distance(l, n)
           t   == l.data_len
           neg == -amt
           r   == (s + neg) % d
<1>1. /\ d \in Nat /\ d > 0 /\ t \in Nat /\ t < d /\ n \in 0..l.count
      /\ n + 1 \in 0..l.count /\ s \in 0..(d - 1) /\ l.count \in Nat /\ 0 \in 0..l.count
      /\ n \in Nat
  BY LayoutFacts
<1>2. a \in 0..t /\ b \in 0..t /\ Distance(l, 0) = 0
  BY <1>1, LayoutElim
<1>3. b <= a + amt /\ amt + t < d /\ neg \in Int /\ neg + amt = 0
  <2>1. GetSize(l, n) = a - b
    BY SizeDistance
  <2>2. -amt <= a - b
    BY <2>1
  <2> HIDE DEF a, b
  <2> QED BY <1>2, <2>2
<1>4. WellFormed(m) /\ m.data_size = d
  <2>1. WellFormed(m) /\ SameIndex(l, m)
    BY MoveHeadIndex
  <2> HIDE DEF m
  <2> QED BY <2>1 DEF SameIndex
<1>5. r \in 0..(d - 1) /\ neg \in (1 - d)..(d - 1)
  <2>1. s + neg \in Int
    <3> HIDE DEF neg
    <3> QED BY <1>1, <1>3
  <2>2. neg \in (1 - d)..(d - 1)
    <3> HIDE DEF a, b, t, d, m, s
    <3> QED BY <1>1, <1>2, <1>3
  <2> HIDE DEF neg
  <2> QED BY <1>1, <2>1, <2>2, ModRange
<1>6. /\ amt >= 0 => Shifted(l, m, r, amt, 0, b)
      /\ amt < 0 => Shifted(l, m, s, 0, neg, b)
  <2>1. CASE n = 0
    <3>1. m = l /\ b = 0
      BY <1>2, <2>1 DEF MoveHead
    <3> HIDE DEF b, m, neg, r, s
    <3> QED BY <1>1, <1>3, <3>1, NoShift
  <2>2. CASE n # 0
    <3> DEFINE end == EndOf(l, n)
    <3>1. m = Run(l, s, end, neg)
      BY <2>2 DEF MoveHead, Run
    <3>2. end \in 0..d
      BY <1>1, EndType
    <3>3. Span(l, s, end) = b
      <4>1. 0 < n
        BY <1>1, <2>2
      <4>2. Span(l, s, end) = b - 0
        BY <1>1, <1>2, <4>1, SpanDistance
      <4> HIDE DEF b
      <4> QED BY <1>2, <4>2
    <3>4. ASSUME amt >= 0 PROVE Shifted(l, m, r, amt, 0, b)
      <4>1. /\ amt \in 0..(d - 1) /\ 0 \in 0..(d - 1) /\ b \in Nat /\ amt + b <= d
            /\ 0 + b <= d /\ neg = 0 - amt
        <5> HIDE DEF a, b, t, d, m, s
        <5> QED BY <1>1, <1>2, <1>3, <3>4
      <4>2. s = (r + amt) % d
        <5>1. (((s + neg) % d) + amt) % d = (s + (neg + amt)) % d
          <6>1. 0 <= neg + amt /\ neg + amt < d
            BY <1>1, <1>3
          <6> HIDE DEF neg, d, s
          <6> QED BY <1>1, <1>3, <1>5, <6>1, ModAdd
        <5>2. (s + 0) % d = s
          <6>1. s + 0 = s /\ s \in Int /\ 0 <= s /\ s < d
            BY <1>1
          <6> HIDE DEF s
          <6> QED BY <6>1, <1>1, ModSmall
        <5> HIDE DEF neg, s, d
        <5> QED BY <5>1, <5>2, <1>3
      <4> HIDE DEF r, s, d, b, end, m, neg
      <4>3. Shifted(l, Run(l, s, end, neg), r, amt, 0, b)
        BY <1>5, <3>2, <3>3, <4>1, <4>2, RunShifts DEF d
      <4> QED BY <3>1, <4>3
    <3>5. ASSUME amt < 0 PROVE Shifted(l, m, s, 0, neg, b)
      <4>1. /\ neg \in 0..(d - 1) /\ 0 \in 0..(d - 1) /\ b \in Nat /\ 0 + b <= d
            /\ neg + b <= d /\ neg = neg - 0
        <5> HIDE DEF a, b, t, d, m, s
        <5> QED BY <1>1, <1>2, <1>3, <3>5
      <4>2. s = (s + 0) % d
        <5>1. s + 0 = s /\ s \in Int /\ 0 <= s /\ s < d
          BY <1>1
        <5> HIDE DEF s
        <5> QED BY <5>1, <1>1, ModSmall
      <4> HIDE DEF r, s, d, b, end, m, neg
      <4>3. Shifted(l, Run(l, s, end, neg), s, 0, neg, b)
        BY <1>1, <3>2, <3>3, <4>1, <4>2, RunShifts DEF d
      <4> QED BY <3>1, <4>3
    <3> QED BY <3>4, <3>5
  <2> QED BY <2>1, <2>2
<1>7. r = DataOffset(l, s, -amt)
  BY DEF DataOffset
<1> HIDE DEF a, b, t, d, m, s, r
<1>8. ASSUME NEW k \in 0..(t - 1)
      PROVE  /\ k < b => At(m, r, k) = At(l, s, k)
             /\ k >= a => At(m, r, k + amt) = At(l, s, k)
  <2>1. \A x : x.data_size = d =>
          \A i \in Int : 0 <= neg + i /\ neg + i < d => At(x, r, i) = At(x, s, neg + i)
    <3> TAKE x
    <3> HAVE x.data_size = d
    <3> TAKE i \in Int
    <3> HAVE 0 <= neg + i /\ neg + i < d
    <3> HIDE DEF neg
    <3> QED BY ZenonT(30), <1>1, <1>5, Rebase DEF r
  <2>2. l.data_size = d /\ m.data_size = d
    BY <1>4 DEF d
  <2>3. k + amt \in Int /\ neg + (k + amt) = k /\ 0 <= k /\ k < d
    BY <1>1, <1>3
  <2>4. CASE amt >= 0
    <3>1. ASSUME k < b PROVE At(m, r, k) = At(l, s, k)
      <4>1. k \in 0..(d - 1) /\ 0 <= k /\ k < 0 + b /\ (k - 0) + amt = k + amt
        BY <1>1, <1>2, <3>1
      <4>2. At(m, r, k) = At(l, r, k + amt)
        BY <1>6, <2>2, <2>4, <4>1 DEF Shifted
      <4> HIDE DEF neg
      <4> QED BY <2>1, <2>2, <2>3, <4>2
    <3>2. ASSUME k >= a PROVE At(m, r, k + amt) = At(l, s, k)
      <4> DEFINE i == k + amt
      <4>1. i \in 0..(d - 1) /\ ~ (i < 0 + b)
        BY <1>1, <1>2, <1>3, <2>4, <3>2
      <4>2. At(m, r, i) = At(l, r, i)
        <5> HIDE DEF i
        <5> QED BY <1>6, <2>2, <2>4, <4>1 DEF Shifted
      <4> HIDE DEF neg
      <4> QED BY <2>1, <2>2, <2>3, <4>2
    <3> QED BY <3>1, <3>2
  <2>5. CASE amt < 0
    <3>1. ASSUME k < b PROVE At(m, r, k) = At(l, s, k)
      <4> DEFINE i == neg + k
      <4>1. i \in 0..(d - 1) /\ neg <= i /\ i < neg + b /\ (i - neg) + 0 = k
        BY <1>1, <1>2, <1>3, <2>5, <3>1
      <4>2. At(m, s, i) = At(l, s, k)
        <5> HIDE DEF i, neg
        <5> QED BY <1>6, <2>2, <2>5, <4>1 DEF Shifted
      <4>3. k \in Int /\ 0 <= i /\ i < d
        <5> HIDE DEF i, neg
        <5> QED BY <1>1, <4>1
      <4> HIDE DEF neg
      <4> QED BY <2>1, <2>2, <4>2, <4>3
    <3>2. ASSUME k >= a PROVE At(m, r, k + amt) = At(l, s, k)
      <4>1. k \in 0..(d - 1) /\ ~ (k < neg + b)
        BY <1>1, <1>2, <1>3, <2>5, <3>2
      <4>2. At(m, s, k) = At(l, s, k)
        <5> HIDE DEF neg
        <5> QED BY <1>6, <2>2, <2>5, <4>1 DEF Shifted
      <4> HIDE DEF neg
      <4> QED BY <2>1, <2>2, <2>3, <4>2
    <3> QED BY <3>1, <3>2
  <2>6. amt >= 0 \/ amt < 0
    OBVIOUS
  <2> QED BY <2>4, <2>5, <2>6
<1> QED BY <1>7, <1>8 DEF Around, a, b, t, m, s

-----------------------------------------------------------------------------
(* The items of a list, as sequences of bytes read from its first offset. *)

\* The bytes of an item lie between its distances.
LEMMA ItemBytes ==
  ASSUME NEW l, WellFormed(l), Layout(l), NEW n \in 0..(l.count - 1)
  PROVE  /\ GetSize(l, n) \in Nat
         /\ Item(l, n) \in Seq(Byte) /\ Len(Item(l, n)) = GetSize(l, n)
         /\ \A k \in 1..GetSize(l, n) :
              Item(l, n)[k] = At(l, StartOf(l, 0), Distance(l, n) + (k - 1))
<1> DEFINE d    == l.data_size
           size == GetSize(l, n)
           s    == StartOf(l, 0)
           b    == Distance(l, n)
<1>1. /\ d \in Nat /\ d > 0 /\ l.data_len \in Nat /\ l.data_len < d
      /\ s \in 0..(d - 1) /\ l.count \in Nat /\ n \in 0..l.count /\ n + 1 \in 0..l.count
  BY LayoutFacts
<1>2. /\ size = Distance(l, n + 1) - b /\ size \in 0..l.data_len
      /\ b \in 0..l.data_len /\ Distance(l, n + 1) \in 0..l.data_len
      /\ StartOf(l, n) = (s + b) % d
  BY <1>1, SizeDistance, LayoutElim
<1>3. size \in Nat /\ b + size <= l.data_len
  <2> HIDE DEF b, size
  <2> QED BY <1>1, <1>2
<1>4. l.blob \in [0..(d - 1) -> Byte]
  BY DEF WellFormed
<1> HIDE DEF size, b, s, d
<1>5. ASSUME NEW k \in 1..size
      PROVE  /\ DataOffset(l, StartOf(l, n), k - 1) \in 0..(d - 1)
             /\ l.blob[DataOffset(l, StartOf(l, n), k - 1)] = At(l, s, b + (k - 1))
  <2> DEFINE j == k - 1
  <2>1. /\ b \in (1 - d)..(d - 1) /\ j \in Int /\ 0 <= b + j /\ b + j < d
        /\ s + (b + j) \in Int
    BY <1>1, <1>2, <1>3, <1>5
  <2> HIDE DEF j
  <2>2. (((s + b) % d) + j) % d = (s + (b + j)) % d
    BY <1>1, <2>1, ModAdd
  <2>3. (s + (b + j)) % d \in 0..(d - 1)
    BY <1>1, <2>1, ModRange
  <2> QED BY <1>2, <2>2, <2>3 DEF DataOffset, At, d, j
<1>6. Item(l, n) = [k \in 1..size |-> l.blob[DataOffset(l, StartOf(l, n), k - 1)]]
  BY DEF Item, ReadBytes, size
<1>7. Item(l, n) \in [1..size -> Byte]
  BY <1>4, <1>5, <1>6
<1>8. Item(l, n) \in Seq(Byte) /\ Len(Item(l, n)) = size
  <2>1. Item(l, n) \in Seq(Byte)
    BY <1>3, <1>7
  <2>2. DOMAIN Item(l, n) = 1..size
    BY <1>7
  <2> QED BY <1>3, <2>1, <2>2
<1>9. \A k \in 1..size : Item(l, n)[k] = At(l, s, b + (k - 1))
  BY <1>5, <1>6
<1> QED BY <1>3, <1>8, <1>9 DEF size, s, b

\* An item is what its bytes are.
LEMMA NewItem ==
  ASSUME NEW g, WellFormed(g), Layout(g), NEW j \in 0..(g.count - 1), NEW v \in Seq(Byte),
         NEW b, b = Distance(g, j), Distance(g, j + 1) = b + Len(v),
         \A k \in 0..(Len(v) - 1) : At(g, StartOf(g, 0), b + k) = v[k + 1]
  PROVE  Item(g, j) = v
<1>1. b \in Nat /\ Len(v) \in Nat
  <2>1. g.data_len \in Nat /\ j \in 0..g.count
    BY LayoutFacts
  <2>2. Distance(g, j) \in 0..g.data_len
    BY <2>1, LayoutElim
  <2> QED BY <2>1, <2>2
<1>2. GetSize(g, j) = Len(v)
  <2>1. GetSize(g, j) = Distance(g, j + 1) - Distance(g, j)
    BY SizeDistance
  <2> QED BY <1>1, <2>1
<1>3. Item(g, j) \in Seq(Byte) /\ Len(Item(g, j)) = Len(v)
  BY <1>2, ItemBytes
<1>4. ASSUME NEW k \in 1..Len(v) PROVE Item(g, j)[k] = v[k]
  <2>1. k - 1 \in 0..(Len(v) - 1) /\ (k - 1) + 1 = k
    BY <1>1
  <2>2. At(g, StartOf(g, 0), b + (k - 1)) = v[k]
    BY <2>1
  <2>3. Item(g, j)[k] = At(g, StartOf(g, 0), Distance(g, j) + (k - 1))
    BY <1>2, ItemBytes
  <2> QED BY <2>2, <2>3
<1> QED BY <1>3, <1>4, SMT

\* An item whose bytes lie elsewhere is the same item.
LEMMA SameItem ==
  ASSUME NEW l, WellFormed(l), Layout(l), NEW g, WellFormed(g), Layout(g),
         NEW i \in 0..(l.count - 1), NEW j \in 0..(g.count - 1), NEW by \in Int,
         Distance(g, j) = Distance(l, i) + by, Distance(g, j + 1) = Distance(l, i + 1) + by,
         \A k \in Distance(l, i)..(Distance(l, i + 1) - 1) :
            At(g, StartOf(g, 0), k + by) = At(l, StartOf(l, 0), k)
  PROVE  Item(g, j) = Item(l, i)
<1> DEFINE v == Item(l, i)
           a == Distance(l, i)
           e == Distance(l, i + 1)
           b == Distance(g, j)
<1>1. a \in Nat /\ e \in Nat /\ a <= e /\ e - a = GetSize(l, i)
  <2>1. l.data_len \in Nat /\ i \in 0..l.count /\ i + 1 \in 0..l.count /\ i <= i + 1
    BY LayoutFacts
  <2>2. a \in 0..l.data_len /\ e \in 0..l.data_len /\ a <= e
    BY <2>1, LayoutElim
  <2>3. e - a = GetSize(l, i)
    BY SizeDistance
  <2> HIDE DEF a, e
  <2> QED BY <2>1, <2>2, <2>3
<1>2. v \in Seq(Byte) /\ Len(v) = e - a
  <2>1. v \in Seq(Byte) /\ Len(v) = GetSize(l, i)
    BY ItemBytes
  <2> QED BY <1>1, <2>1
<1>3. ASSUME NEW k \in 0..(Len(v) - 1)
      PROVE  At(g, StartOf(g, 0), b + k) = v[k + 1]
  <2>1. a + k \in a..(e - 1) /\ (a + k) + by = b + k /\ k + 1 \in 1..GetSize(l, i)
        /\ (k + 1) - 1 = k
    <3>1. b = a + by
      OBVIOUS
    <3> HIDE DEF v, a, e, b
    <3> QED BY <1>1, <1>2, <1>3, <3>1
  <2>2. At(g, StartOf(g, 0), (a + k) + by) = At(l, StartOf(l, 0), a + k)
    <3>1. a + k \in a..(e - 1)
      BY <2>1
    <3> QED BY <3>1
  <2>3. v[k + 1] = At(l, StartOf(l, 0), a + k)
    <3>1. v[k + 1] = At(l, StartOf(l, 0), a + ((k + 1) - 1))
      <4> HIDE DEF v
      <4> QED BY <2>1, ItemBytes DEF v
    <3> HIDE DEF v, a
    <3> QED BY <2>1, <3>1
  <2> HIDE DEF a, b, v
  <2> QED BY <2>1, <2>2, <2>3
<1>4. Distance(g, j + 1) = b + Len(v)
  <2>1. Distance(g, j + 1) = e + by /\ b = a + by
    OBVIOUS
  <2> HIDE DEF a, e, b, v
  <2> QED BY <1>1, <1>2, <2>1
<1> HIDE DEF v, b
<1> QED BY <1>2, <1>3, <1>4, NewItem DEF b, v

\* What the list holds.
Items(l) == [n \in 1..l.count |-> Item(l, n - 1)]

LEMMA ItemsType ==
  ASSUME NEW l, WellFormed(l), Layout(l)
  PROVE  /\ Items(l) \in Seq(Seq(Byte)) /\ Len(Items(l)) = l.count /\ l.count \in Nat
         /\ \A n \in 1..l.count : Items(l)[n] = Item(l, n - 1) /\ Items(l)[n] \in Seq(Byte)
<1>1. l.count \in Nat
  BY LayoutFacts
<1>2. \A n \in 1..l.count : Item(l, n - 1) \in Seq(Byte)
  <2> TAKE n \in 1..l.count
  <2>1. n - 1 \in 0..(l.count - 1)
    BY <1>1
  <2> QED BY <2>1, ItemBytes
<1>3. Items(l) \in [1..l.count -> Seq(Byte)]
  BY <1>2 DEF Items
<1>4. Items(l) \in Seq(Seq(Byte)) /\ DOMAIN Items(l) = 1..l.count
  BY <1>1, <1>3
<1>5. Len(Items(l)) = l.count
  BY <1>1, <1>4
<1> QED BY <1>1, <1>2, <1>4, <1>5 DEF Items

LEMMA SameSequence ==
  ASSUME NEW S, NEW q \in Seq(S), NEW r \in Seq(S), Len(q) = Len(r),
         \A n \in 1..Len(q) : q[n] = r[n]
  PROVE  q = r
<1>1. q = [n \in 1..Len(q) |-> q[n]] /\ r = [n \in 1..Len(r) |-> r[n]]
  OBVIOUS
<1> QED BY <1>1

\* A list is told by what its items are.
LEMMA ItemsAre ==
  ASSUME NEW l, WellFormed(l), Layout(l), NEW q \in Seq(Seq(Byte)), Len(q) = l.count,
         \A n \in 0..(l.count - 1) : Item(l, n) = q[n + 1]
  PROVE  Items(l) = q
<1>1. Items(l) \in Seq(Seq(Byte)) /\ Len(Items(l)) = l.count /\ l.count \in Nat
  BY ItemsType
<1>2. ASSUME NEW n \in 1..l.count PROVE Items(l)[n] = q[n]
  <2>1. n - 1 \in 0..(l.count - 1) /\ (n - 1) + 1 = n
    BY <1>1
  <2>2. Item(l, n - 1) = q[n]
    BY <2>1
  <2> QED BY <2>2, ItemsType
<1>3. Len(Items(l)) = Len(q) /\ \A n \in 1..Len(Items(l)) : Items(l)[n] = q[n]
  BY <1>1, <1>2
<1> DEFINE r == Items(l)
           S == Seq(Byte)
<1>4. r \in Seq(S) /\ q \in Seq(S) /\ Len(r) = Len(q) /\ \A n \in 1..Len(r) : r[n] = q[n]
  BY <1>1, <1>3
<1> HIDE DEF r, S
<1>5. r = q
  BY <1>4, SameSequence
<1> QED BY <1>5 DEF r

\* Where the bytes of item i are among the others.
LEMMA Within ==
  ASSUME NEW l, WellFormed(l), Layout(l), NEW i \in 0..(l.count - 1),
         NEW k \in Distance(l, i)..(Distance(l, i + 1) - 1)
  PROVE  /\ k \in 0..(l.data_len - 1) /\ k \in 0..(l.data_size - 1)
         /\ \A n \in 0..l.count : (i < n => k < Distance(l, n)) /\ (n <= i => Distance(l, n) <= k)
<1>1. /\ l.data_len \in Nat /\ l.data_size \in Nat /\ l.data_len < l.data_size
      /\ l.count \in Nat /\ i \in 0..l.count /\ i + 1 \in 0..l.count
  BY LayoutFacts
<1>2. /\ \A n \in 0..l.count : Distance(l, n) \in 0..l.data_len
      /\ \A m, n \in 0..l.count : m <= n => Distance(l, m) <= Distance(l, n)
  BY LayoutElim
<1>3. Distance(l, i) \in 0..l.data_len /\ Distance(l, i + 1) \in 0..l.data_len
  BY <1>1, <1>2
<1>4. k \in 0..(l.data_len - 1) /\ k \in 0..(l.data_size - 1)
  BY <1>1, <1>3
<1>5. ASSUME NEW n \in 0..l.count
      PROVE  (i < n => k < Distance(l, n)) /\ (n <= i => Distance(l, n) <= k)
  <2>1. Distance(l, n) \in 0..l.data_len
    BY <1>2
  <2>2. i < n => Distance(l, i + 1) <= Distance(l, n)
    <3>1. i < n => i + 1 <= n
      BY <1>1
    <3> QED BY <3>1, <1>1, <1>2
  <2>3. n <= i => Distance(l, n) <= Distance(l, i)
    BY <1>1, <1>2
  <2> QED BY <1>1, <1>3, <2>1, <2>2, <2>3
<1> QED BY <1>4, <1>5

\* The bytes are looked up in blob[] alone.
LEMMA SameBytes ==
  ASSUME NEW l, NEW m, m.blob = l.blob, m.data_size = l.data_size, NEW s, NEW k
  PROVE  At(m, s, k) = At(l, s, k)
  BY DEF At

\* Cut off at either end, the list holds what is left of it.
LEMMA SliceItems ==
  ASSUME NEW l, WellFormed(l), Layout(l), NEW g, WellFormed(g), Layout(g),
         NEW h \in 0..l.count, NEW c \in 0..(l.count - h),
         Shape(g, l, c, StartOf(l, h), Sliced(l, h, c)), g.blob = l.blob
  PROVE  Items(g) = SubSeq(Items(l), h + 1, h + c)
<1> DEFINE d == l.data_size
           s == StartOf(l, 0)
           b == Distance(l, h)
           q == SubSeq(Items(l), h + 1, h + c)
<1>1. /\ d \in Nat /\ d > 0 /\ s \in 0..(d - 1) /\ l.count \in Nat /\ h \in Nat /\ c \in Nat
      /\ h + c \in 0..l.count /\ l.data_len \in Nat /\ l.data_len < d
  BY LayoutFacts
<1>2. b \in 0..l.data_len /\ StartOf(l, h) = (s + b) % d
  BY LayoutElim
<1>3. g.count = c /\ g.data_size = d /\ StartOf(g, 0) = (s + b) % d
  BY <1>2 DEF Shape
<1>4. \A n \in 0..c : Distance(g, n) = Distance(l, h + n) - b
  BY DEF Shape, Sliced
<1>5. /\ Items(l) \in Seq(Seq(Byte)) /\ Len(Items(l)) = l.count
      /\ \A n \in 1..l.count : Items(l)[n] = Item(l, n - 1)
  BY ItemsType
<1>6. q \in Seq(Seq(Byte)) /\ Len(q) = c /\ \A n \in 1..c : q[n] = Items(l)[h + n]
  <2> DEFINE r == Items(l)
             S == Seq(Byte)
  <2>1. r \in Seq(S) /\ Len(r) = l.count
    BY <1>5
  <2> HIDE DEF r, S
  <2>2. SubSeq(r, h + 1, h + c) \in Seq(S) /\ Len(SubSeq(r, h + 1, h + c)) = c
        /\ \A n \in 1..c : SubSeq(r, h + 1, h + c)[n] = r[h + n]
    BY <1>1, <2>1
  <2> QED BY <2>2 DEF r, S
<1> HIDE DEF q, b, s, d
<1>7. ASSUME NEW j \in 0..(c - 1) PROVE Item(g, j) = q[j + 1]
  <2>1. /\ h + j \in 0..(l.count - 1) /\ j \in 0..c /\ j + 1 \in 0..c /\ j + 1 \in 1..c
        /\ (h + j) + 1 = h + (j + 1) /\ h <= h + j /\ h + (j + 1) \in 1..l.count
        /\ (h + (j + 1)) - 1 = h + j /\ h + (j + 1) \in 0..l.count /\ h + j \in 0..l.count
    BY <1>1
  <2>2. Distance(g, j) = Distance(l, h + j) + (-b)
        /\ Distance(g, j + 1) = Distance(l, (h + j) + 1) + (-b)
    <3>1. Distance(l, h + j) \in Int /\ Distance(l, h + (j + 1)) \in Int
      <4>1. Distance(l, h + j) \in 0..l.data_len /\ Distance(l, h + (j + 1)) \in 0..l.data_len
        BY <2>1, LayoutElim
      <4> QED BY <4>1
    <3>2. Distance(g, j) = Distance(l, h + j) - b
          /\ Distance(g, j + 1) = Distance(l, h + (j + 1)) - b
      BY <1>4, <2>1
    <3> QED BY <1>1, <1>2, <2>1, <3>1, <3>2
  <2>3. ASSUME NEW k \in Distance(l, h + j)..(Distance(l, (h + j) + 1) - 1)
        PROVE  At(g, StartOf(g, 0), k + (-b)) = At(l, s, k)
    <3>1. k \in 0..(l.data_len - 1) /\ b <= k
      BY <2>1, <1>2, Within DEF b
    <3>2. b \in (1 - d)..(d - 1) /\ k + (-b) \in Int /\ 0 <= b + (k + (-b))
          /\ b + (k + (-b)) < d /\ b + (k + (-b)) = k
      BY <1>1, <1>2, <3>1
    <3>3. At(l, (s + b) % d, k + (-b)) = At(l, s, b + (k + (-b)))
      BY <1>1, <3>2, Rebase DEF d
    <3>4. At(g, (s + b) % d, k + (-b)) = At(l, (s + b) % d, k + (-b))
      BY <1>3, SameBytes DEF d
    <3> QED BY <1>3, <3>2, <3>3, <3>4
  <2>4. Item(g, j) = Item(l, h + j)
    <3>1. -b \in Int /\ j \in 0..(g.count - 1)
      BY <1>1, <1>2, <1>3
    <3>2. \A k \in Distance(l, h + j)..(Distance(l, (h + j) + 1) - 1) :
             At(g, StartOf(g, 0), k + (-b)) = At(l, StartOf(l, 0), k)
      BY <2>3 DEF s
    <3> DEFINE i == h + j
               by == -b
    <3>3. i \in 0..(l.count - 1) /\ by \in Int
          /\ Distance(g, j) = Distance(l, i) + by /\ Distance(g, j + 1) = Distance(l, i + 1) + by
          /\ \A k \in Distance(l, i)..(Distance(l, i + 1) - 1) :
                At(g, StartOf(g, 0), k + by) = At(l, StartOf(l, 0), k)
      BY <2>1, <2>2, <3>1, <3>2
    <3> HIDE DEF i, by
    <3>4. Item(g, j) = Item(l, i)
      BY <3>1, <3>3, SameItem
    <3> QED BY <3>4 DEF i
  <2>5. q[j + 1] = Items(l)[h + (j + 1)] /\ Items(l)[h + (j + 1)] = Item(l, (h + (j + 1)) - 1)
    BY <1>5, <1>6, <2>1
  <2> QED BY <2>1, <2>4, <2>5
<1>8. q \in Seq(Seq(Byte)) /\ Len(q) = g.count
      /\ \A n \in 0..(g.count - 1) : Item(g, n) = q[n + 1]
  BY <1>3, <1>6, <1>7
<1>9. Items(g) = q
  BY <1>8, ItemsAre
<1> QED BY <1>9 DEF q

\* g has v at a, and around it what m has there.
Overlaid(g, m, s, a, v) ==
  /\ \A k \in 0..(Len(v) - 1) : At(g, s, a + k) = v[k + 1]
  /\ \A k \in 0..(m.data_size - 1) :
        k < a \/ a + Len(v) <= k => At(g, s, k) = At(m, s, k)

\* That is what copy_into() leaves.
LEMMA Overwritten ==
  ASSUME NEW m, WellFormed(m), NEW v \in Seq(Byte), NEW s \in 0..(m.data_size - 1),
         NEW a \in 0..(m.data_size - 1), a + Len(v) <= m.data_size,
         NEW g, g.blob = CopyInto(m, v, (s + a) % m.data_size).blob,
         g.data_size = m.data_size
  PROVE  Overlaid(g, m, s, a, v)
<1> DEFINE n == CopyInto(m, v, (s + a) % m.data_size)
<1>1. m.data_size \in Nat /\ Len(v) \in Nat /\ a \in Nat
  BY HeaderType
<1>2. \A k : At(g, s, k) = At(n, s, k)
  BY DEF CopyInto, At
<1>3. \A k \in 0..(m.data_size - 1) :
         At(n, s, k) = IF a <= k /\ k < a + Len(v) THEN v[(k - a) + 1] ELSE At(m, s, k)
  BY WrittenBytes
<1> HIDE DEF n
<1>4. ASSUME NEW k \in 0..(Len(v) - 1) PROVE At(g, s, a + k) = v[k + 1]
  <2>1. a + k \in 0..(m.data_size - 1) /\ a <= a + k /\ a + k < a + Len(v) /\ (a + k) - a = k
    BY <1>1
  <2> QED BY <1>2, <1>3, <2>1
<1>5. ASSUME NEW k \in 0..(m.data_size - 1), k < a \/ a + Len(v) <= k
      PROVE  At(g, s, k) = At(m, s, k)
  <2>1. ~ (a <= k /\ k < a + Len(v))
    BY <1>1, <1>5
  <2> QED BY <1>2, <1>3, <2>1
<1> QED BY <1>4, <1>5 DEF Overlaid

\* rpush() adds v behind the others.
LEMMA RPushItems ==
  ASSUME NEW l, WellFormed(l), Layout(l), NEW v \in Seq(Byte), ~ Full(l, Len(v))
  PROVE  Items(RPushItem(l, v)) = Append(Items(l), v)
<1> DEFINE g == RPushItem(l, v)
           d == l.data_size
           s == StartOf(l, 0)
           q == Append(Items(l), v)
<1>1. /\ d \in Nat /\ d > 0 /\ s \in 0..(d - 1) /\ l.count \in Nat /\ l.count \in 0..l.count
      /\ l.data_len \in Nat /\ l.data_len \in 0..(d - 1) /\ Len(v) \in Nat
      /\ l.data_len + Len(v) < d
  BY LayoutFacts, RoomFacts
<1>2. /\ WellFormed(g) /\ Layout(g)
      /\ Shape(g, l, l.count + 1, s, Appended(l, Len(v)))
  BY RPushLayout
<1>3. StartOf(l, l.count) = (s + l.data_len) % d
  BY <1>1, LayoutElim
<1>4. g.blob = CopyInto(l, v, (s + l.data_len) % d).blob
  BY <1>3 DEF RPushItem, CopyInto, WellFormed
<1>5. g.count = l.count + 1 /\ g.data_size = d /\ StartOf(g, 0) = s
  BY <1>2 DEF Shape
<1>6. /\ \A n \in 0..l.count : Distance(g, n) = Distance(l, n)
      /\ Distance(g, l.count + 1) = l.data_len + Len(v)
  <2>1. \A n \in 0..l.count : n \in 0..(l.count + 1) /\ n <= l.count
    BY <1>1
  <2>2. l.count + 1 \in 0..(l.count + 1) /\ ~ (l.count + 1 <= l.count)
    BY <1>1
  <2> QED BY <1>2, <2>1, <2>2 DEF Shape, Appended
<1>7. /\ \A k \in 0..(Len(v) - 1) : At(g, s, l.data_len + k) = v[k + 1]
      /\ \A k \in 0..(d - 1) : k < l.data_len => At(g, s, k) = At(l, s, k)
  <2> DEFINE a == l.data_len
  <2>1. a + Len(v) <= d /\ a \in 0..(d - 1) /\ g.blob = CopyInto(l, v, (s + a) % d).blob
    BY <1>1, <1>4
  <2> HIDE DEF g, s, a
  <2>2. Overlaid(g, l, s, a, v)
    BY <1>1, <1>5, <2>1, Overwritten
  <2> QED BY <2>2 DEF a, Overlaid
<1>8. /\ Items(l) \in Seq(Seq(Byte)) /\ Len(Items(l)) = l.count
      /\ \A n \in 1..l.count : Items(l)[n] = Item(l, n - 1)
  BY ItemsType
<1>9. q \in Seq(Seq(Byte)) /\ Len(q) = l.count + 1 /\ q[l.count + 1] = v
      /\ \A n \in 1..l.count : q[n] = Items(l)[n]
  <2> DEFINE r == Items(l)
             S == Seq(Byte)
  <2>1. r \in Seq(S) /\ Len(r) = l.count /\ v \in S
    BY <1>8
  <2> HIDE DEF r, S
  <2>2. Append(r, v) \in Seq(S) /\ Len(Append(r, v)) = l.count + 1
        /\ Append(r, v)[l.count + 1] = v /\ \A n \in 1..l.count : Append(r, v)[n] = r[n]
    BY <1>1, <2>1
  <2> QED BY <2>2 DEF r, S
<1> HIDE DEF g, q, s, d
<1>10. ASSUME NEW j \in 0..(l.count - 1) PROVE Item(g, j) = q[j + 1]
  <2>1. j \in 0..(g.count - 1) /\ j \in 0..l.count /\ j + 1 \in 0..l.count /\ j + 1 \in 1..l.count
        /\ (j + 1) - 1 = j /\ j < l.count
    BY <1>1, <1>5
  <2>2. Distance(g, j) = Distance(l, j) + 0 /\ Distance(g, j + 1) = Distance(l, j + 1) + 0
    <3>1. Distance(l, j) \in 0..l.data_len /\ Distance(l, j + 1) \in 0..l.data_len
      BY <2>1, LayoutElim
    <3> QED BY <1>6, <2>1, <3>1
  <2>3. ASSUME NEW k \in Distance(l, j)..(Distance(l, j + 1) - 1)
        PROVE  At(g, StartOf(g, 0), k + 0) = At(l, StartOf(l, 0), k)
    <3>1. k \in 0..(l.data_len - 1) /\ k \in 0..(l.data_size - 1)
      BY Within
    <3>2. k + 0 = k /\ k < l.data_len
      BY <3>1, <1>1
    <3> QED BY <1>5, <1>7, <3>1, <3>2 DEF s, d
  <2>4. Item(g, j) = Item(l, j)
    BY <1>2, <2>1, <2>2, <2>3, SameItem
  <2> QED BY <1>8, <1>9, <2>1, <2>4
<1>11. Item(g, l.count) = v
  <2>1. l.count \in 0..(g.count - 1) /\ Distance(g, l.count) = l.data_len
    BY <1>1, <1>5, <1>6, LayoutElim
  <2> QED BY <1>2, <1>5, <1>6, <1>7, <2>1, NewItem
<1>12. ASSUME NEW n \in 0..(g.count - 1) PROVE Item(g, n) = q[n + 1]
  <2>1. n \in 0..(l.count - 1) \/ n = l.count
    BY <1>1, <1>5
  <2> QED BY <1>9, <1>10, <1>11, <2>1
<1>13. Items(g) = q
  BY <1>2, <1>5, <1>9, <1>12, ItemsAre
<1> QED BY <1>13 DEF g, q

\* lpush() puts v before the others.
LEMMA LPushItems ==
  ASSUME NEW l, WellFormed(l), Layout(l), NEW v \in Seq(Byte), ~ Full(l, Len(v))
  PROVE  Items(LPushItem(l, v)) = << v >> \o Items(l)
<1> DEFINE g == LPushItem(l, v)
           d == l.data_size
           b == StartOf(l, 0)
           t == Len(v)
           s == (b + (-t)) % d
           q == << v >> \o Items(l)
<1>1. /\ d \in Nat /\ d > 0 /\ b \in 0..(d - 1) /\ l.count \in Nat
      /\ l.data_len \in Nat /\ l.data_len \in 0..(d - 1) /\ t \in Nat /\ t < d
      /\ l.data_len + t < d
  <2>1. /\ d \in Nat /\ d > 0 /\ b \in 0..(d - 1) /\ l.count \in Nat
        /\ l.data_len \in Nat /\ t \in Nat /\ l.data_len + t < d
    BY LayoutFacts, RoomFacts
  <2> HIDE DEF d, t, b
  <2> QED BY <2>1
<1>2. /\ WellFormed(g) /\ Layout(g)
      /\ Shape(g, l, l.count + 1, s, Prepended(l, t))
  BY LPushLayout DEF DataOffset
<1>3. s \in 0..(d - 1) /\ (s + 0) % d = s
  <2> HIDE DEF d, b, t
  <2>1. b + (-t) \in Int
    BY <1>1
  <2>2. s \in 0..(d - 1)
    BY <1>1, <2>1, ModRange
  <2> HIDE DEF s
  <2> QED BY <1>1, <2>2, ModSmall
<1>4. g.blob = CopyInto(l, v, (s + 0) % d).blob
  <2>1. g.blob = CopyInto(l, v, s).blob
    BY DEF LPushItem, CopyInto, WellFormed, DataOffset
  <2> HIDE DEF g, s
  <2> QED BY <1>3, <2>1
<1>5. g.count = l.count + 1 /\ g.data_size = d /\ StartOf(g, 0) = s
  BY <1>2 DEF Shape
<1>6. /\ Distance(g, 0) = 0
      /\ \A n \in 1..(l.count + 1) : Distance(g, n) = Distance(l, n - 1) + t
  <2>1. 0 \in 0..(l.count + 1) /\ \A n \in 1..(l.count + 1) : n \in 0..(l.count + 1) /\ n # 0
    BY <1>1
  <2> HIDE DEF t
  <2> QED BY <1>2, <2>1 DEF Shape, Prepended
<1>7. /\ \A k \in 0..(t - 1) : At(g, s, 0 + k) = v[k + 1]
      /\ \A k \in 0..(d - 1) : 0 + t <= k => At(g, s, k) = At(l, s, k)
  <2> HIDE DEF g, s
  <2>1. 0 + Len(v) <= d /\ 0 \in 0..(d - 1)
    BY <1>1
  <2>2. Overlaid(g, l, s, 0, v)
    BY <1>1, <1>3, <1>4, <1>5, <2>1, Overwritten
  <2> QED BY <2>2 DEF Overlaid
<1>8. /\ Items(l) \in Seq(Seq(Byte)) /\ Len(Items(l)) = l.count
      /\ \A n \in 1..l.count : Items(l)[n] = Item(l, n - 1)
  BY ItemsType
<1>9. q \in Seq(Seq(Byte)) /\ Len(q) = l.count + 1 /\ q[1] = v
      /\ \A n \in 1..l.count : q[n + 1] = Items(l)[n]
  <2> DEFINE r == Items(l)
             S == Seq(Byte)
  <2>1. r \in Seq(S) /\ Len(r) = l.count /\ v \in S
    BY <1>8
  <2> HIDE DEF r, S
  <2>2. << v >> \o r \in Seq(S) /\ Len(<< v >> \o r) = l.count + 1
        /\ (<< v >> \o r)[1] = v
    BY <1>1, <2>1
  <2>3. \A n \in 1..l.count : (<< v >> \o r)[n + 1] = r[n]
    BY <1>1, <2>1
  <2> QED BY <2>2, <2>3 DEF r, S
<1> HIDE DEF g, q, d, t, s, b
<1>10. ASSUME NEW j \in 1..l.count PROVE Item(g, j) = q[j + 1]
  <2> DEFINE i == j - 1
  <2>1. /\ j \in 0..(g.count - 1) /\ i \in 0..(l.count - 1) /\ i \in 0..l.count
        /\ i + 1 \in 0..l.count /\ i + 1 = j /\ j \in 1..(l.count + 1)
        /\ j + 1 \in 1..(l.count + 1) /\ (j + 1) - 1 = i + 1
    BY <1>1, <1>5
  <2>2. Distance(g, j) = Distance(l, i) + t /\ Distance(g, j + 1) = Distance(l, i + 1) + t
    BY <1>6, <2>1
  <2>a. Items(l)[j] = Item(l, i) /\ q[j + 1] = Items(l)[j]
    BY <1>8, <1>9
  <2> HIDE DEF i
  <2>3. ASSUME NEW k \in Distance(l, i)..(Distance(l, i + 1) - 1)
        PROVE  At(g, StartOf(g, 0), k + t) = At(l, StartOf(l, 0), k)
    <3>1. k \in 0..(l.data_len - 1)
      BY <2>1, Within
    <3>2. k + t \in 0..(d - 1) /\ 0 + t <= k + t /\ k + t \in Int /\ -t \in (1 - d)..(d - 1)
          /\ (-t) + (k + t) = k /\ 0 <= (-t) + (k + t) /\ (-t) + (k + t) < d
      BY <3>1, <1>1
    <3>3. At(g, s, k + t) = At(l, s, k + t)
      BY <1>7, <3>2
    <3>4. At(l, (b + (-t)) % d, k + t) = At(l, b, (-t) + (k + t))
      BY <1>1, <3>2, Rebase DEF d
    <3> QED BY <1>5, <3>2, <3>3, <3>4 DEF s, b
  <2>4. Item(g, j) = Item(l, i)
    BY <1>1, <1>2, <2>1, <2>2, <2>3, SameItem
  <2> QED BY <2>4, <2>a
<1>11. Item(g, 0) = v
  <2>1. 0 \in 0..(g.count - 1) /\ 0 + 1 \in 1..(l.count + 1) /\ (0 + 1) - 1 = 0
    BY <1>1, <1>5
  <2>2. Distance(g, 0 + 1) = 0 + Len(v)
    <3>1. Distance(l, 0) = 0
      BY LayoutElim
    <3> QED BY <1>6, <2>1, <3>1 DEF t
  <2> QED BY <1>2, <1>5, <1>6, <1>7, <2>1, <2>2, NewItem DEF t
<1>12. ASSUME NEW n \in 0..(g.count - 1) PROVE Item(g, n) = q[n + 1]
  <2>1. n \in 1..l.count \/ n = 0
    BY <1>1, <1>5
  <2> QED BY <1>9, <1>10, <1>11, <2>1
<1>13. Items(g) = q
  BY <1>2, <1>5, <1>9, <1>12, ItemsAre
<1> QED BY <1>13 DEF g, q

\* What InsertAt() and RemoveAt() return.
LEMMA InsertAtElements ==
  ASSUME NEW S, NEW r \in Seq(S), NEW i \in 1..(Len(r) + 1), NEW v \in S
  PROVE  LET q == InsertAt(r, i, v)
         IN  /\ q \in Seq(S) /\ Len(q) = Len(r) + 1 /\ q[i] = v
             /\ \A n \in 1..Len(r) : (n < i => q[n] = r[n]) /\ (i <= n => q[n + 1] = r[n])
<1> DEFINE a == SubSeq(r, 1, i - 1)
           b == SubSeq(r, i, Len(r))
           c == a \o << v >>
           q == c \o b
<1>1. Len(r) \in Nat /\ i \in Nat
  OBVIOUS
<1>2. a \in Seq(S) /\ Len(a) = i - 1 /\ \A n \in 1..(i - 1) : a[n] = r[n]
  BY <1>1
<1>3. b \in Seq(S) /\ Len(b) = Len(r) - i + 1
      /\ \A n \in 1..(Len(r) - i + 1) : b[n] = r[(i + n) - 1]
  BY <1>1
<1> HIDE DEF a, b
<1>4. c \in Seq(S) /\ Len(c) = i /\ c[i] = v /\ \A n \in 1..(i - 1) : c[n] = r[n]
  BY <1>1, <1>2
<1> HIDE DEF c
<1>5. q \in Seq(S) /\ Len(q) = Len(r) + 1 /\ q[i] = v
      /\ \A n \in 1..(i - 1) : q[n] = r[n]
  BY <1>1, <1>3, <1>4
<1>6. ASSUME NEW n \in 1..Len(r), i <= n PROVE q[n + 1] = r[n]
  <2>1. (n + 1) - i \in 1..(Len(r) - i + 1) /\ n + 1 > i /\ n + 1 \in 1..(i + (Len(r) - i + 1))
    BY <1>1, <1>6
  <2>2. q[n + 1] = b[(n + 1) - i]
    BY <1>1, <1>3, <1>4, <2>1
  <2>3. (i + ((n + 1) - i)) - 1 = n
    BY <1>1
  <2> HIDE DEF q
  <2> QED BY <1>3, <2>1, <2>2, <2>3
<1>7. InsertAt(r, i, v) = q
  BY DEF InsertAt, a, b, c
<1> HIDE DEF q
<1>8. \A n \in 1..Len(r) : (n < i => q[n] = r[n]) /\ (i <= n => q[n + 1] = r[n])
  BY <1>1, <1>5, <1>6
<1> QED BY <1>5, <1>7, <1>8

LEMMA RemoveAtElements ==
  ASSUME NEW S, NEW r \in Seq(S), NEW i \in 1..Len(r)
  PROVE  LET q == RemoveAt(r, i)
         IN  /\ q \in Seq(S) /\ Len(q) = Len(r) - 1
             /\ \A n \in 1..(Len(r) - 1) : q[n] = IF n < i THEN r[n] ELSE r[n + 1]
<1> DEFINE a == SubSeq(r, 1, i - 1)
           b == SubSeq(r, i + 1, Len(r))
           q == a \o b
<1>1. Len(r) \in Nat /\ i \in Nat
  OBVIOUS
<1>2. a \in Seq(S) /\ Len(a) = i - 1 /\ \A n \in 1..(i - 1) : a[n] = r[n]
  BY <1>1
<1>3. b \in Seq(S) /\ Len(b) = Len(r) - i
      /\ \A n \in 1..(Len(r) - i) : b[n] = r[((i + 1) + n) - 1]
  BY <1>1
<1> HIDE DEF a, b
<1>4. q \in Seq(S) /\ Len(q) = Len(r) - 1
  BY <1>1, <1>2, <1>3
<1>5. ASSUME NEW n \in 1..(Len(r) - 1)
      PROVE  q[n] = IF n < i THEN r[n] ELSE r[n + 1]
  <2>1. CASE n < i
    <3>1. n \in 1..(i - 1) /\ n \in 1..Len(a)
      BY <1>1, <1>2, <2>1
    <3>2. q[n] = a[n]
      BY <1>2, <1>3, <3>1
    <3> QED BY <1>2, <2>1, <3>1, <3>2
  <2>2. CASE ~ (n < i)
    <3>1. n - (i - 1) \in 1..(Len(r) - i) /\ ((i + 1) + (n - (i - 1))) - 1 = n + 1
      BY <1>1, <2>2
    <3>2. q[n] = b[n - (i - 1)]
      BY <1>1, <1>2, <1>3, <2>2
    <3> HIDE DEF q
    <3> QED BY <1>3, <2>2, <3>1, <3>2
  <2> QED BY <2>1, <2>2
<1>6. RemoveAt(r, i) = q
  BY DEF RemoveAt, a, b
<1> HIDE DEF q
<1> QED BY <1>4, <1>5, <1>6

\* lset() puts v in the place of item n.
LEMMA LSetItems ==
  ASSUME NEW l, WellFormed(l), Layout(l), NEW n \in 0..(l.count - 1), NEW v \in Seq(Byte),
         LET amt == Len(v) - GetSize(l, n) IN ~ (amt > 0 /\ DataFull(l, amt))
  PROVE  Items(LSetItem(l, n, v)) = [Items(l) EXCEPT ![n + 1] = v]
<1> DEFINE amt   == Len(v) - GetSize(l, n)
           g     == LSetItem(l, n, v)
           d     == l.data_size
           s     == SetStart(l, n, amt)
           a     == Distance(l, n)
           e     == Distance(l, n + 1)
           inner == IF amt = 0 THEN l
                    ELSE IF n < l.count \div 2 THEN MoveHead(l, n, amt)
                    ELSE MoveTail(l, n, amt)
           q     == [Items(l) EXCEPT ![n + 1] = v]
<1>1. /\ d \in Nat /\ d > 0 /\ l.count \in Nat /\ n \in Nat /\ n \in 0..l.count
      /\ n + 1 \in 0..l.count /\ l.data_len \in Nat /\ l.data_len < d /\ Len(v) \in Nat
  BY LayoutFacts
<1>2. /\ amt \in Int /\ -amt <= GetSize(l, n) /\ amt + l.data_len < d
      /\ WellFormed(g) /\ Layout(g)
      /\ Shape(g, l, l.count, s, Stretched(l, n, amt))
  <2> HIDE DEF amt
  <2> QED BY LSetLayout DEF amt
<1>3. a \in 0..l.data_len /\ e \in 0..l.data_len /\ a <= e /\ e - a = GetSize(l, n)
      /\ GetSize(l, n) \in Nat
  <2>1. n <= n + 1 /\ GetSize(l, n) \in 0..l.data_len
    BY <1>1, SizeDistance
  <2> QED BY <1>1, <2>1, LayoutElim, SizeDistance
<1>4. /\ WellFormed(inner) /\ inner.data_size = d
      /\ Around(l, inner, s, n, amt)
  <2> HIDE DEF amt
  <2>1. CASE amt = 0
    <3>1. s = StartOf(l, 0) /\ inner = l
      BY <2>1 DEF SetStart
    <3>2. \A k \in 0..(l.data_len - 1) : k + 0 = k
      BY <1>1
    <3> QED BY <2>1, <3>1, <3>2 DEF Around
  <2>2. CASE amt # 0 /\ n < l.count \div 2
    <3>1. s = DataOffset(l, StartOf(l, 0), -amt) /\ inner = MoveHead(l, n, amt)
      BY <2>2 DEF SetStart
    <3>2. Around(l, MoveHead(l, n, amt), DataOffset(l, StartOf(l, 0), -amt), n, amt)
      BY <1>2, <2>2, HeadAround
    <3>3. WellFormed(MoveHead(l, n, amt)) /\ SameIndex(l, MoveHead(l, n, amt))
      BY <1>1, <1>2, <2>2, MoveHeadIndex
    <3> QED BY <3>1, <3>2, <3>3 DEF SameIndex
  <2>3. CASE amt # 0 /\ ~ (n < l.count \div 2)
    <3>1. s = StartOf(l, 0) /\ inner = MoveTail(l, n, amt)
      BY <2>3 DEF SetStart
    <3>2. Around(l, MoveTail(l, n, amt), StartOf(l, 0), n, amt)
      BY <1>2, TailAround
    <3>3. WellFormed(MoveTail(l, n, amt)) /\ SameIndex(l, MoveTail(l, n, amt))
      BY <1>1, <1>2, MoveTailIndex
    <3> QED BY <3>1, <3>2, <3>3 DEF SameIndex
  <2> QED BY <2>1, <2>2, <2>3
<1>5. g.count = l.count /\ g.data_size = d /\ StartOf(g, 0) = s
  BY <1>2 DEF Shape
<1>6. \A j \in 0..l.count :
        Distance(g, j) = IF j <= n THEN Distance(l, j) ELSE Distance(l, j) + amt
  <2> HIDE DEF amt
  <2> QED BY <1>2 DEF Shape, Stretched
<1>7. s \in 0..(d - 1) /\ StartOf(g, n) = (s + a) % d
  <2>1. s \in 0..(d - 1)
    <3>1. StartOf(g, 0) \in 0..(g.data_size - 1)
      BY <1>2, LayoutFacts
    <3> QED BY <1>5, <3>1
  <2>2. Distance(g, n) = a
    BY <1>1, <1>6
  <2> QED BY <1>1, <1>2, <1>5, <2>1, <2>2, LayoutElim
<1>8. g.blob = CopyInto(inner, v, StartOf(g, n)).blob
  <2> DEFINE moved == IF amt = 0 THEN l
                      ELSE IF n < l.count \div 2
                      THEN AdjustHead(MoveHead(l, n, amt), n, amt)
                      ELSE AdjustTail(MoveTail(l, n, amt), n, amt)
             sized == [moved EXCEPT !.data_len = @ + amt]
  <2>1. g = CopyInto(sized, v, StartOf(sized, n))
    BY DEF LSetItem
  <2>2. sized.blob = inner.blob /\ sized.data_size = inner.data_size
    <3> HIDE DEF amt
    <3>1. moved.blob = inner.blob /\ moved.data_size = inner.data_size
      BY DEF AdjustHead, AdjustTail
    <3> HIDE DEF moved, inner
    <3> QED BY <3>1
  <2> HIDE DEF sized, inner, amt, g
  <2>3. StartOf(g, n) = StartOf(sized, n)
    BY <2>1 DEF CopyInto, StartOf, IndexRef
  <2>4. CopyInto(sized, v, StartOf(sized, n)).blob = CopyInto(inner, v, StartOf(sized, n)).blob
    BY <2>2 DEF CopyInto
  <2> QED BY <2>1, <2>3, <2>4
<1>9. Overlaid(g, inner, s, a, v)
  <2>1. a \in 0..(d - 1) /\ a + Len(v) <= d
    <3> HIDE DEF a, e
    <3> QED BY SMTT(30), <1>1, <1>2, <1>3
  <2> HIDE DEF a, s, g, inner
  <2> QED BY <1>4, <1>5, <1>7, <1>8, <2>1, Overwritten
<1>10. /\ Items(l) \in Seq(Seq(Byte)) /\ Len(Items(l)) = l.count
       /\ \A j \in 1..l.count : Items(l)[j] = Item(l, j - 1)
  BY ItemsType
<1>11. q \in Seq(Seq(Byte)) /\ Len(q) = l.count /\ q[n + 1] = v
       /\ \A j \in 1..l.count : j # n + 1 => q[j] = Items(l)[j]
  <2> DEFINE r == Items(l)
             S == Seq(Byte)
  <2>1. r \in Seq(S) /\ Len(r) = l.count /\ v \in S /\ n + 1 \in 1..l.count
    BY <1>1, <1>10
  <2> HIDE DEF r, S
  <2>2. /\ [r EXCEPT ![n + 1] = v] \in Seq(S) /\ Len([r EXCEPT ![n + 1] = v]) = l.count
        /\ [r EXCEPT ![n + 1] = v][n + 1] = v
        /\ \A j \in 1..l.count : j # n + 1 => [r EXCEPT ![n + 1] = v][j] = r[j]
    BY <1>1, <2>1
  <2> QED BY <2>2 DEF r, S
<1> HIDE DEF g, q, d, s, a, e, amt, inner
<1>12. ASSUME NEW j \in 0..(l.count - 1), j # n
       PROVE  Item(g, j) = q[j + 1]
  <2>1. /\ j \in 0..(g.count - 1) /\ j \in 0..l.count /\ j + 1 \in 0..l.count
        /\ j + 1 \in 1..l.count /\ (j + 1) - 1 = j /\ j + 1 # n + 1
    BY <1>1, <1>5, <1>12
  <2>2. Distance(l, j) \in Int /\ Distance(l, j + 1) \in Int
    <3>1. Distance(l, j) \in 0..l.data_len /\ Distance(l, j + 1) \in 0..l.data_len
      BY <2>1, LayoutElim
    <3> QED BY <3>1
  <2>3. CASE j < n
    <3>1. Distance(g, j) = Distance(l, j) + 0 /\ Distance(g, j + 1) = Distance(l, j + 1) + 0
      <4>1. j <= n /\ j + 1 <= n
        BY <1>1, <2>3
      <4> QED BY <1>6, <2>1, <2>2, <4>1
    <3>2. ASSUME NEW k \in Distance(l, j)..(Distance(l, j + 1) - 1)
          PROVE  At(g, StartOf(g, 0), k + 0) = At(l, StartOf(l, 0), k)
      <4>1. k \in 0..(l.data_len - 1) /\ k \in 0..(l.data_size - 1) /\ k < a
        BY <1>1, <2>3, Within DEF a
      <4>2. k + 0 = k
        BY <4>1, <1>1
      <4>3. At(g, s, k) = At(inner, s, k)
        BY <1>4, <1>9, <4>1 DEF Overlaid, d
      <4>4. At(inner, s, k) = At(l, StartOf(l, 0), k)
        BY <1>4, <4>1 DEF Around, a
      <4> QED BY <1>5, <4>2, <4>3, <4>4
    <3>3. Item(g, j) = Item(l, j)
      BY <1>2, <2>1, <3>1, <3>2, SameItem
    <3> QED BY <1>10, <1>11, <2>1, <3>3
  <2>4. CASE n < j
    <3>1. Distance(g, j) = Distance(l, j) + amt /\ Distance(g, j + 1) = Distance(l, j + 1) + amt
      <4>1. ~ (j <= n) /\ ~ (j + 1 <= n)
        BY <1>1, <2>4
      <4> QED BY <1>6, <2>1, <4>1
    <3>2. ASSUME NEW k \in Distance(l, j)..(Distance(l, j + 1) - 1)
          PROVE  At(g, StartOf(g, 0), k + amt) = At(l, StartOf(l, 0), k)
      <4>1. k \in 0..(l.data_len - 1) /\ e <= k
        <5>1. n + 1 <= j
          BY <1>1, <2>4
        <5> QED BY <1>1, <5>1, Within DEF e
      <4>2. k + amt \in 0..(d - 1) /\ a + Len(v) <= k + amt
        <5>1. amt = Len(v) - GetSize(l, n)
          BY DEF amt
        <5>a. a \in Nat /\ e \in Nat /\ e - a = GetSize(l, n) /\ GetSize(l, n) \in Nat
          BY <1>1, <1>3
        <5>b. a + Len(v) = e + amt
          BY <1>1, <5>a, <5>1
        <5>c. k \in Nat /\ k < l.data_len /\ e <= k
          BY <1>1, <4>1, <5>a
        <5>d. amt \in Int /\ amt + l.data_len < d
          BY <1>2
        <5>2. /\ a \in Nat /\ e \in Nat /\ k \in Nat /\ k < l.data_len /\ e <= k
              /\ amt \in Int /\ amt + l.data_len < d /\ a + Len(v) = e + amt
          BY <5>a, <5>b, <5>c, <5>d
        <5>3. k + amt \in Int /\ a + Len(v) <= k + amt /\ 0 <= a + Len(v) /\ k + amt < d
          BY <1>1, <5>2
        <5> QED BY <1>1, <5>2, <5>3
      <4>3. At(g, s, k + amt) = At(inner, s, k + amt)
        BY <1>4, <1>9, <4>2 DEF Overlaid
      <4>4. At(inner, s, k + amt) = At(l, StartOf(l, 0), k)
        <5>1. k >= Distance(l, n + 1)
          BY <1>3, <4>1 DEF e
        <5> QED BY <1>4, <4>1, <5>1 DEF Around
      <4> QED BY <1>5, <4>3, <4>4
    <3>3. Item(g, j) = Item(l, j)
      BY <1>2, <2>1, <3>1, <3>2, SameItem
    <3> QED BY <1>10, <1>11, <2>1, <3>3
  <2>5. j < n \/ n < j
    BY <1>1, <1>12
  <2> QED BY <2>3, <2>4, <2>5
<1>13. Item(g, n) = v
  <2>1. n \in 0..(g.count - 1) /\ Distance(g, n) = a
    BY <1>1, <1>5, <1>6 DEF a
  <2>2. Distance(g, n + 1) = a + Len(v)
    <3>1. Distance(g, n + 1) = e + amt
      <4>1. ~ (n + 1 <= n)
        BY <1>1
      <4> QED BY <1>1, <1>6, <4>1 DEF e
    <3>2. amt = Len(v) - GetSize(l, n)
      BY DEF amt
    <3> QED BY <1>1, <1>3, <3>1, <3>2
  <2>3. \A k \in 0..(Len(v) - 1) : At(g, StartOf(g, 0), a + k) = v[k + 1]
    BY <1>5, <1>9 DEF Overlaid
  <2> QED BY <1>2, <2>1, <2>2, <2>3, NewItem
<1>14. ASSUME NEW j \in 0..(g.count - 1) PROVE Item(g, j) = q[j + 1]
  BY <1>5, <1>11, <1>12, <1>13
<1>15. Items(g) = q
  BY <1>2, <1>5, <1>11, <1>14, ItemsAre
<1> QED BY <1>15 DEF g, q

\* insert() puts v behind item n.
LEMMA InsertItems ==
  ASSUME NEW l, WellFormed(l), Layout(l), NEW n \in 0..(l.count - 1), NEW v \in Seq(Byte),
         ~ Full(l, Len(v))
  PROVE  Items(InsertItem(l, n, v)) = InsertAt(Items(l), n + 2, v)
<1> DEFINE g == InsertItem(l, n, v)
           m == MoveTail(l, n, Len(v))
           d == l.data_size
           s == StartOf(l, 0)
           t == Len(v)
           e == Distance(l, n + 1)
           q == InsertAt(Items(l), n + 2, v)
<1>1. /\ d \in Nat /\ d > 0 /\ l.count \in Nat /\ n \in Nat /\ n + 1 \in 0..l.count
      /\ l.data_len \in Nat /\ l.data_len < d /\ t \in Nat /\ l.data_len + t < d
      /\ s \in 0..(d - 1)
  BY LayoutFacts, RoomFacts
<1>2. /\ WellFormed(g) /\ Layout(g)
      /\ Shape(g, l, l.count + 1, s, Spread(l, n, t))
      /\ g.blob = CopyInto(m, v, StartOf(l, n + 1)).blob
  BY InsertLayout
<1>3. e \in 0..l.data_len /\ StartOf(l, n + 1) = (s + e) % d
  BY <1>1, LayoutElim
<1>4. /\ WellFormed(m) /\ m.data_size = d
      /\ Shifted(l, m, s, e, e + t, l.data_len - e)
  <2>1. t \in Int /\ -t <= GetSize(l, n) /\ t + l.data_len < d
    <3>1. GetSize(l, n) \in 0..l.data_len
      BY SizeDistance
    <3> HIDE DEF t, d
    <3> QED BY <1>1, <3>1
  <2>2. /\ WellFormed(m) /\ SameIndex(l, m)
        /\ Shifted(l, m, s, e, e + t, l.data_len - e)
    BY <2>1, TailShifts
  <2> QED BY <2>2 DEF SameIndex
<1>5. g.count = l.count + 1 /\ g.data_size = d /\ StartOf(g, 0) = s
  BY <1>2 DEF Shape
<1>6. \A j \in 0..(l.count + 1) :
        Distance(g, j) = IF j <= n + 1 THEN Distance(l, j) ELSE Distance(l, j - 1) + t
  <2> HIDE DEF t
  <2> QED BY <1>2 DEF Shape, Spread
<1>7. Overlaid(g, m, s, e, v)
  <2>1. e \in 0..(d - 1) /\ e + Len(v) <= d
    <3> HIDE DEF e
    <3> QED BY <1>1, <1>3
  <2> HIDE DEF e, s, g, m
  <2> QED BY <1>1, <1>2, <1>3, <1>4, <1>5, <2>1, Overwritten
<1>8. /\ Items(l) \in Seq(Seq(Byte)) /\ Len(Items(l)) = l.count
      /\ \A j \in 1..l.count : Items(l)[j] = Item(l, j - 1)
  BY ItemsType
<1>9. /\ q \in Seq(Seq(Byte)) /\ Len(q) = l.count + 1 /\ q[n + 2] = v
      /\ \A j \in 1..l.count : /\ j < n + 2 => q[j] = Items(l)[j]
                               /\ n + 2 <= j => q[j + 1] = Items(l)[j]
  <2> DEFINE r == Items(l)
             S == Seq(Byte)
             i == n + 2
  <2>1. r \in Seq(S) /\ Len(r) = l.count /\ v \in S /\ i \in 1..(Len(r) + 1)
    BY <1>1, <1>8
  <2> HIDE DEF r, S, i
  <2>2. InsertAt(r, i, v) \in Seq(S) /\ Len(InsertAt(r, i, v)) = Len(r) + 1
        /\ InsertAt(r, i, v)[i] = v
    BY <2>1, InsertAtElements
  <2>3. \A j \in 1..Len(r) : /\ j < i => InsertAt(r, i, v)[j] = r[j]
                             /\ i <= j => InsertAt(r, i, v)[j + 1] = r[j]
    BY SMTT(30), <2>1, InsertAtElements
  <2> QED BY <2>1, <2>2, <2>3 DEF r, S, i
<1> HIDE DEF g, q, d, s, e, t, m
<1>10. ASSUME NEW j \in 0..n PROVE Item(g, j) = q[j + 1]
  <2>1. /\ j \in 0..(g.count - 1) /\ j \in 0..(l.count - 1) /\ j \in 0..l.count
        /\ j + 1 \in 0..l.count /\ j + 1 \in 1..l.count /\ (j + 1) - 1 = j /\ j < n + 1
        /\ j + 1 < n + 2 /\ j <= n + 1 /\ j + 1 <= n + 1
        /\ j \in 0..(l.count + 1) /\ j + 1 \in 0..(l.count + 1)
    BY SMTT(30), <1>1, <1>5
  <2>2. Distance(g, j) = Distance(l, j) + 0 /\ Distance(g, j + 1) = Distance(l, j + 1) + 0
    <3>1. Distance(l, j) \in 0..l.data_len /\ Distance(l, j + 1) \in 0..l.data_len
      BY <2>1, LayoutElim
    <3> QED BY <1>6, <2>1, <3>1
  <2>3. ASSUME NEW k \in Distance(l, j)..(Distance(l, j + 1) - 1)
        PROVE  At(g, StartOf(g, 0), k + 0) = At(l, StartOf(l, 0), k)
    <3>1. k \in 0..(l.data_len - 1) /\ k \in 0..(l.data_size - 1) /\ k < e
      BY <1>1, <2>1, Within DEF e
    <3>2. k + 0 = k /\ ~ (e + t <= k)
      BY <3>1, <1>1, <1>3
    <3>3. At(g, s, k) = At(m, s, k)
      BY <1>4, <1>7, <3>1 DEF Overlaid, d
    <3>4. At(m, s, k) = At(l, s, k)
      BY <1>4, <3>1, <3>2 DEF Shifted
    <3> QED BY <1>5, <3>2, <3>3, <3>4 DEF s
  <2>4. Item(g, j) = Item(l, j)
    BY <1>2, <2>1, <2>2, <2>3, SameItem
  <2> QED BY <1>8, <1>9, <2>1, <2>4
<1>11. ASSUME NEW j \in (n + 2)..l.count PROVE Item(g, j) = q[j + 1]
  <2> DEFINE i == j - 1
  <2>1. /\ j \in 0..(g.count - 1) /\ i \in 0..(l.count - 1) /\ i \in 0..l.count
        /\ i + 1 \in 0..l.count /\ i + 1 = j /\ j \in 1..l.count /\ n + 2 <= j
        /\ n + 1 <= i /\ ~ (j <= n + 1) /\ ~ (j + 1 <= n + 1) /\ (j + 1) - 1 = i + 1
        /\ j \in 0..(l.count + 1) /\ j + 1 \in 0..(l.count + 1)
    BY SMTT(30), <1>1, <1>5
  <2>2. Distance(g, j) = Distance(l, i) + t /\ Distance(g, j + 1) = Distance(l, i + 1) + t
    BY <1>6, <2>1
  <2>a. Items(l)[j] = Item(l, i) /\ q[j + 1] = Items(l)[j]
    BY <1>8, <1>9, <2>1
  <2> HIDE DEF i
  <2>3. ASSUME NEW k \in Distance(l, i)..(Distance(l, i + 1) - 1)
        PROVE  At(g, StartOf(g, 0), k + t) = At(l, StartOf(l, 0), k)
    <3>1. k \in 0..(l.data_len - 1) /\ e <= k
      BY <1>1, <2>1, Within DEF e
    <3>2. /\ k + t \in 0..(d - 1) /\ e + t <= k + t
          /\ k + t < (e + t) + (l.data_len - e) /\ ((k + t) - (e + t)) + e = k
      BY SMTT(30), <3>1, <1>1, <1>3
    <3>3. At(g, s, k + t) = At(m, s, k + t)
      BY <1>4, <1>7, <3>2 DEF Overlaid, t
    <3>4. At(m, s, k + t) = At(l, s, k)
      <4>1. At(m, s, k + t) = At(l, s, ((k + t) - (e + t)) + e)
        BY <1>4, <3>2 DEF Shifted, d
      <4> QED BY <3>2, <4>1
    <3> QED BY <1>5, <3>3, <3>4 DEF s
  <2>4. Item(g, j) = Item(l, i)
    BY <1>1, <1>2, <2>1, <2>2, <2>3, SameItem
  <2> QED BY <2>4, <2>a
<1>12. Item(g, n + 1) = v
  <2>1. /\ n + 1 \in 0..(g.count - 1) /\ n + 1 \in 0..(l.count + 1) /\ n + 1 <= n + 1
        /\ (n + 1) + 1 \in 0..(l.count + 1) /\ ~ ((n + 1) + 1 <= n + 1)
        /\ ((n + 1) + 1) - 1 = n + 1
    BY <1>1, <1>5
  <2>2. Distance(g, n + 1) = e /\ Distance(g, (n + 1) + 1) = e + Len(v)
    BY <1>6, <2>1 DEF e, t
  <2>3. \A k \in 0..(Len(v) - 1) : At(g, StartOf(g, 0), e + k) = v[k + 1]
    BY <1>5, <1>7 DEF Overlaid
  <2> QED BY <1>2, <2>1, <2>2, <2>3, NewItem
<1>13. ASSUME NEW j \in 0..(g.count - 1) PROVE Item(g, j) = q[j + 1]
  <2>1. j \in 0..n \/ j = n + 1 \/ j \in (n + 2)..l.count
    BY <1>1, <1>5
  <2>2. (n + 1) + 1 = n + 2
    BY <1>1
  <2> QED BY <1>9, <1>10, <1>11, <1>12, <2>1, <2>2
<1>14. Items(g) = q
  BY <1>2, <1>5, <1>9, <1>13, ItemsAre
<1> QED BY <1>14 DEF g, q

\* lrem() takes an inner item out.
LEMMA LRemInnerItems ==
  ASSUME NEW l, WellFormed(l), Layout(l), NEW n \in 1..(l.count - 2)
  PROVE  Items(LRemItem(l, n)) = RemoveAt(Items(l), n + 1)
<1> DEFINE g     == LRemItem(l, n)
           size  == GetSize(l, n)
           inner == IF size > 0 THEN MoveTail(l, n, -size) ELSE l
           d     == l.data_size
           s     == StartOf(l, 0)
           q     == RemoveAt(Items(l), n + 1)
<1>1. /\ d \in Nat /\ d > 0 /\ l.count \in Nat /\ n \in Nat /\ n \in 0..(l.count - 1)
      /\ n \in 0..l.count /\ n + 1 \in 0..l.count
      /\ l.data_len \in Nat /\ l.data_len < d /\ s \in 0..(d - 1)
  BY LayoutFacts
<1>2. /\ WellFormed(g) /\ Layout(g)
      /\ Shape(g, l, l.count - 1, s, Closed(l, n))
      /\ g.blob = inner.blob
  BY LRemInner
<1>3. size \in 0..l.data_len
  BY <1>1, SizeDistance
<1>4. inner.data_size = d /\ Around(l, inner, s, n, -size)
  <2> HIDE DEF size
  <2>1. CASE size > 0
    <3>1. -size \in Int /\ -(-size) <= GetSize(l, n) /\ -size + l.data_len < d
      BY <1>1, <1>3, <2>1 DEF size
    <3>2. Around(l, MoveTail(l, n, -size), s, n, -size)
      BY <1>1, <3>1, TailAround
    <3>3. SameIndex(l, MoveTail(l, n, -size))
      BY <1>1, <3>1, MoveTailIndex
    <3> QED BY <2>1, <3>2, <3>3 DEF SameIndex
  <2>2. CASE ~ (size > 0)
    <3>1. inner = l /\ -size = 0
      BY <1>1, <1>3, <2>2
    <3>2. \A k \in 0..(l.data_len - 1) : k + (-size) = k
      BY <1>1, <3>1
    <3> QED BY <3>1, <3>2 DEF Around
  <2> QED BY <2>1, <2>2
<1>5. g.count = l.count - 1 /\ g.data_size = d /\ StartOf(g, 0) = s
  BY <1>2 DEF Shape
<1>6. \A j \in 0..(l.count - 1) :
        Distance(g, j) = IF j <= n THEN Distance(l, j) ELSE Distance(l, j + 1) + (-size)
  <2> QED BY <1>2 DEF Shape, Closed
<1>7. \A k : At(g, s, k) = At(inner, s, k)
  BY <1>2, <1>4, <1>5 DEF At
<1>8. /\ Items(l) \in Seq(Seq(Byte)) /\ Len(Items(l)) = l.count
      /\ \A j \in 1..l.count : Items(l)[j] = Item(l, j - 1)
  BY ItemsType
<1>9. /\ q \in Seq(Seq(Byte)) /\ Len(q) = l.count - 1
      /\ \A j \in 1..(l.count - 1) :
            q[j] = IF j < n + 1 THEN Items(l)[j] ELSE Items(l)[j + 1]
  <2> DEFINE r == Items(l)
             S == Seq(Byte)
             i == n + 1
  <2>1. r \in Seq(S) /\ Len(r) = l.count /\ i \in 1..Len(r)
    BY <1>1, <1>8
  <2> HIDE DEF r, S, i
  <2>2. RemoveAt(r, i) \in Seq(S) /\ Len(RemoveAt(r, i)) = Len(r) - 1
    BY <2>1, RemoveAtElements
  <2>3. \A j \in 1..(Len(r) - 1) :
           RemoveAt(r, i)[j] = IF j < i THEN r[j] ELSE r[j + 1]
    BY <2>1, RemoveAtElements
  <2> QED BY <2>1, <2>2, <2>3 DEF r, S, i
<1>10. Distance(g, n) = Distance(l, n) /\ Distance(l, n) = Distance(l, n + 1) + (-size)
  <2>1. Distance(l, n) \in 0..l.data_len /\ Distance(l, n + 1) \in 0..l.data_len
    BY <1>1, LayoutElim
  <2>2. size = Distance(l, n + 1) - Distance(l, n)
    BY <1>1, SizeDistance
  <2>3. n <= n /\ n \in 0..(l.count - 1)
    BY <1>1
  <2> HIDE DEF size
  <2> QED BY <1>1, <1>6, <2>1, <2>2, <2>3
<1> HIDE DEF g, q, d, s, size, inner
<1>11. ASSUME NEW j \in 0..(n - 1) PROVE Item(g, j) = q[j + 1]
  <2>1. /\ j \in 0..(g.count - 1) /\ j \in 0..(l.count - 1) /\ j + 1 \in 0..(l.count - 1)
        /\ j \in 0..l.count /\ j + 1 \in 0..l.count /\ j + 1 \in 1..(l.count - 1)
        /\ j + 1 \in 1..l.count
        /\ (j + 1) - 1 = j /\ j < n /\ j <= n /\ j + 1 <= n /\ j + 1 < n + 1
    BY <1>1, <1>5
  <2>2. Distance(g, j) = Distance(l, j) + 0 /\ Distance(g, j + 1) = Distance(l, j + 1) + 0
    <3>1. Distance(l, j) \in 0..l.data_len /\ Distance(l, j + 1) \in 0..l.data_len
      BY <2>1, LayoutElim
    <3> QED BY <1>6, <2>1, <3>1
  <2>3. ASSUME NEW k \in Distance(l, j)..(Distance(l, j + 1) - 1)
        PROVE  At(g, StartOf(g, 0), k + 0) = At(l, StartOf(l, 0), k)
    <3>1. k \in 0..(l.data_len - 1) /\ k < Distance(l, n)
      BY <1>1, <2>1, Within
    <3>2. k + 0 = k
      BY <3>1, <1>1
    <3>3. At(inner, s, k) = At(l, s, k)
      BY <1>4, <3>1 DEF Around, s
    <3> QED BY <1>5, <1>7, <3>2, <3>3 DEF s
  <2>4. Item(g, j) = Item(l, j)
    BY <1>2, <2>1, <2>2, <2>3, SameItem
  <2> QED BY <1>8, <1>9, <2>1, <2>4
<1>12. ASSUME NEW j \in n..(l.count - 2) PROVE Item(g, j) = q[j + 1]
  <2> DEFINE i  == j + 1
             by == -size
  <2>1. /\ j \in 0..(g.count - 1) /\ i \in 0..(l.count - 1) /\ i \in 0..l.count
        /\ i + 1 \in 0..l.count /\ i = j + 1 /\ i + 1 \in 1..l.count /\ n + 1 <= i
        /\ i \in 1..(l.count - 1) /\ ~ (i < n + 1) /\ ~ (i <= n) /\ (i + 1) - 1 = i
        /\ by \in Int
        /\ j \in 0..(l.count - 1)
    BY <1>1, <1>3, <1>5
  <2>2. Distance(g, j) = Distance(l, i) + by /\ Distance(g, j + 1) = Distance(l, i + 1) + by
    <3>1. j = n \/ ~ (j <= n)
      BY <1>1
    <3>2. Distance(g, j) = Distance(l, j + 1) + (-size)
      BY <1>6, <1>10, <2>1, <3>1
    <3>3. Distance(g, i) = Distance(l, i + 1) + (-size)
      <4> HIDE DEF i
      <4> QED BY <1>6, <2>1
    <3> QED BY <3>2, <3>3
  <2>a. Items(l)[i + 1] = Item(l, i) /\ q[j + 1] = Items(l)[i + 1]
    <3> HIDE DEF i
    <3>1. q[i] = Items(l)[i + 1]
      BY <1>9, <2>1
    <3>2. Items(l)[i + 1] = Item(l, i)
      BY <1>8, <2>1
    <3> QED BY <2>1, <3>1, <3>2
  <2>b. by = -size
    OBVIOUS
  <2> HIDE DEF i, by
  <2>3. ASSUME NEW k \in Distance(l, i)..(Distance(l, i + 1) - 1)
        PROVE  At(g, StartOf(g, 0), k + by) = At(l, StartOf(l, 0), k)
    <3>1. k \in 0..(l.data_len - 1) /\ Distance(l, n + 1) <= k
      BY <1>1, <2>1, Within
    <3>2. k >= Distance(l, n + 1)
      <4>1. Distance(l, n + 1) \in 0..l.data_len
        BY <1>1, LayoutElim
      <4> QED BY <1>1, <3>1, <4>1
    <3>3. At(inner, s, k + (-size)) = At(l, s, k)
      BY <1>4, <3>1, <3>2 DEF Around, s
    <3>4. At(inner, s, k + by) = At(l, s, k)
      BY <2>b, <3>3
    <3> QED BY <1>5, <1>7, <3>4 DEF s
  <2>4. Item(g, j) = Item(l, i)
    BY <1>1, <1>2, <2>1, <2>2, <2>3, SameItem
  <2> QED BY <2>4, <2>a
<1>13. ASSUME NEW j \in 0..(g.count - 1) PROVE Item(g, j) = q[j + 1]
  <2>1. j \in 0..(n - 1) \/ j \in n..(l.count - 2)
    BY <1>1, <1>5
  <2> QED BY <1>11, <1>12, <2>1
<1>14. Items(g) = q
  BY <1>2, <1>5, <1>9, <1>13, ItemsAre
<1> QED BY <1>14 DEF g, q

\* copy() takes over what the list holds.
LEMMA CopyItems ==
  ASSUME NEW l, WellFormed(l), Layout(l), NEW is \in Nat \ {0, 1},
         NEW ds \in Nat \ {0, 1}, NEW fill \in Byte, l.count < is, l.data_len < ds
  PROVE  Items(CopyList(l, is, ds, fill)) = Items(l)
<1> DEFINE g == CopyList(l, is, ds, fill)
           s == StartOf(l, 0)
<1>1. /\ l.count \in Nat /\ l.data_len \in Nat /\ ds \in Nat /\ ds > 0
      /\ l.data_size \in Nat
  BY LayoutFacts
<1>2. /\ WellFormed(g) /\ Layout(g)
      /\ Shape(g, EmptyList(is, ds, fill), l.count, 0, [n \in 0..l.count |-> Distance(l, n)])
  BY CopyLayout
<1>3. g.count = l.count /\ g.data_size = ds /\ StartOf(g, 0) = 0
  BY <1>2 DEF Shape, EmptyList
<1>4. \A n \in 0..l.count : Distance(g, n) = Distance(l, n)
  BY <1>2 DEF Shape
<1>5. ASSUME NEW k \in 0..(l.data_len - 1), l.count > 0 PROVE At(g, 0, k) = At(l, s, k)
  <2>1. Span(l, s, EndOf(l, l.count)) = l.data_len
    <3>1. 0 \in 0..l.count /\ l.count \in 0..l.count /\ 0 < l.count
      BY <1>1, <1>5
    <3>2. Span(l, s, EndOf(l, l.count)) = Distance(l, l.count) - Distance(l, 0)
      BY <3>1, SpanDistance
    <3>3. Distance(l, 0) = 0 /\ Distance(l, l.count) = l.data_len
      BY LayoutElim
    <3> QED BY <1>1, <3>2, <3>3
  <2>2. k \in 0..(ds - 1) /\ k < l.data_len /\ (0 + k) % ds = k
    <3>1. k \in Int /\ 0 <= k /\ k < ds /\ k < l.data_len /\ 0 + k = k
      BY <1>1
    <3>2. k % ds = k
      BY <1>1, <3>1, ModSmall
    <3> QED BY <1>1, <3>1, <3>2
  <2>3. g.blob = [p \in 0..(ds - 1) |->
                    IF l.count > 0 /\ p < Span(l, s, EndOf(l, l.count))
                    THEN l.blob[DataOffset(l, s, p)] ELSE fill]
    BY DEF CopyList, EmptyList
  <2>4. g.blob[k] = l.blob[DataOffset(l, s, k)]
    <3> HIDE DEF g, s
    <3> QED BY <1>5, <2>1, <2>2, <2>3
  <2> HIDE DEF g, s
  <2> QED BY <1>3, <2>2, <2>4 DEF At, DataOffset
<1>6. /\ Items(l) \in Seq(Seq(Byte)) /\ Len(Items(l)) = l.count
      /\ \A j \in 1..l.count : Items(l)[j] = Item(l, j - 1)
  BY ItemsType
<1> HIDE DEF g
<1>7. ASSUME NEW j \in 0..(g.count - 1) PROVE Item(g, j) = Items(l)[j + 1]
  <2>1. /\ j \in 0..(l.count - 1) /\ j \in 0..l.count /\ j + 1 \in 0..l.count
        /\ j + 1 \in 1..l.count /\ (j + 1) - 1 = j /\ l.count > 0
    BY <1>1, <1>3
  <2>2. Distance(g, j) = Distance(l, j) + 0 /\ Distance(g, j + 1) = Distance(l, j + 1) + 0
    <3>1. Distance(l, j) \in 0..l.data_len /\ Distance(l, j + 1) \in 0..l.data_len
      BY <2>1, LayoutElim
    <3> QED BY <1>4, <2>1, <3>1
  <2>3. ASSUME NEW k \in Distance(l, j)..(Distance(l, j + 1) - 1)
        PROVE  At(g, StartOf(g, 0), k + 0) = At(l, StartOf(l, 0), k)
    <3>1. k \in 0..(l.data_len - 1)
      BY <2>1, Within
    <3>2. k + 0 = k
      BY <3>1, <1>1
    <3> QED BY <1>3, <1>5, <2>1, <3>1, <3>2
  <2>4. Item(g, j) = Item(l, j)
    BY <1>2, <2>1, <2>2, <2>3, SameItem
  <2> QED BY <1>6, <2>1, <2>4
<1>8. Items(g) = Items(l)
  BY <1>2, <1>3, <1>6, <1>7, ItemsAre
<1> QED BY <1>8 DEF g

-----------------------------------------------------------------------------
(* lverify() adds the sizes up. *)

\* The sum of the first sizes is the distance they lead to, also when another
\* number is counted (m has the items of l).
LEMMA SumIsDistance ==
  ASSUME NEW l, WellFormed(l), Layout(l),
         NEW m, m.count = l.count, \A n : GetSize(m, n) = GetSize(l, n)
  PROVE  SumOfSizes(m) = l.data_len
<1> DEFINE Round(f) == [n \in 0..m.count |-> IF n = 0 THEN 0 ELSE f[n - 1] + GetSize(m, n - 1)]
           total == CHOOSE f : f = Round(f)
           D == [n \in 0..m.count |-> Distance(l, n)]
<1>1. l.count \in Nat /\ l.data_len \in Nat /\ 0 \in 0..l.count /\ l.count \in 0..l.count
  BY HeaderType
<1>2. /\ Distance(l, 0) = 0 /\ Distance(l, l.count) = l.data_len
      /\ \A n \in 0..l.count : Distance(l, n) \in 0..l.data_len
  BY LayoutElim
<1>3. ASSUME NEW n \in 0..l.count, n # 0
      PROVE  /\ n - 1 \in 0..l.count
             /\ Distance(l, n) = Distance(l, n - 1) + GetSize(l, n - 1)
  <2>1. n - 1 \in 0..(l.count - 1) /\ n - 1 \in 0..l.count /\ (n - 1) + 1 = n
    BY <1>1, <1>3
  <2>2. GetSize(l, n - 1) = Distance(l, (n - 1) + 1) - Distance(l, n - 1)
    BY <2>1, SizeDistance
  <2>3. GetSize(l, n - 1) = Distance(l, n) - Distance(l, n - 1)
    BY <2>1, <2>2
  <2>4. Distance(l, n) \in Nat /\ Distance(l, n - 1) \in Nat
    BY <1>1, <1>2, <2>1
  <2> QED BY <2>1, <2>3, <2>4
<1>4. D = Round(D)
  <2>1. ASSUME NEW n \in 0..l.count
        PROVE  D[n] = IF n = 0 THEN 0 ELSE D[n - 1] + GetSize(m, n - 1)
    BY <1>2, <1>3
  <2> QED BY <2>1
<1>5. total = Round(total)
  <2> HIDE DEF D
  <2>1. \E f : f = Round(f)
    BY <1>4
  <2> HIDE DEF Round
  <2> QED BY <2>1
<1>6. SumOfSizes(m) = total[m.count]
  BY DEF SumOfSizes
<1> HIDE DEF total, D
<1>7. total[0] = 0 /\ \A n \in 0..l.count : n # 0 => total[n] = total[n - 1] + GetSize(l, n - 1)
  BY <1>1, <1>5
<1>8. \A n \in 0..l.count : total[n] = Distance(l, n)
  <2> DEFINE S == {n \in Nat : n <= l.count => total[n] = Distance(l, n)}
  <2>1. ASSUME NEW n \in Nat, \A k \in 0..(n - 1) : k \in S
        PROVE  n \in S
    <3>1. CASE n = 0
      BY <1>2, <1>7, <3>1
    <3>2. CASE n # 0 /\ n <= l.count
      <4>1. n \in 0..l.count /\ n - 1 \in 0..(n - 1) /\ n - 1 <= l.count
        BY <1>1, <3>2
      <4>2. total[n - 1] = Distance(l, n - 1)
        BY <2>1, <4>1
      <4> QED BY <1>3, <1>7, <3>2, <4>1, <4>2
    <3>3. CASE ~ (n <= l.count)
      BY <3>3
    <3> QED BY <3>1, <3>2, <3>3
  <2>2. S = Nat
    <3>1. S \in SUBSET Nat
      OBVIOUS
    <3> HIDE DEF S
    <3> QED BY <2>1, <3>1, Induction
  <2> QED BY <1>1, <2>2
<1> QED BY <1>1, <1>2, <1>6, <1>8

\* A list in order passes lverify().
LEMMA LayoutVerified ==
  ASSUME NEW l, WellFormed(l), Layout(l)
  PROVE  LVerified(l)
<1>1. /\ l.count \in Nat /\ l.data_size \in Nat /\ l.data_len \in Nat
      /\ l.count < l.index_size /\ l.data_len < l.data_size
  BY HeaderType DEF Layout
<1>2. ASSUME NEW n \in 0..(l.count - 1)
      PROVE  /\ StartOf(l, n) < l.data_size
             /\ EndOf(l, n + 1) <= l.data_size
             /\ GetSize(l, n) < l.data_size
  <2>1. n \in Int /\ n + 1 \in Int
    BY <1>1
  <2>2. /\ StartOf(l, n) \in 0..(l.data_size - 1)
        /\ EndOf(l, n + 1) \in 0..l.data_size
        /\ GetSize(l, n) \in 0..l.data_len
    BY <2>1, StartType, EndType, SizeDistance
  <2> QED BY <1>1, <2>2
<1>3. SumOfSizes(l) = l.data_len
  <2>1. l.count = l.count /\ \A n : GetSize(l, n) = GetSize(l, n)
    OBVIOUS
  <2> QED BY <2>1, SumIsDistance
<1> QED BY <1>1, <1>2, <1>3 DEF LVerified

=============================================================================
