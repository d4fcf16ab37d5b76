------------------------------ MODULE ListAlloc ------------------------------
(***************************************************************************)
(* How raimd sizes the allocation of a flat list (ListData::alloc_size(),  *)
(* resize_size(), used_size() and mem_size() of include/raimd/md_list.h).  *)
(*                                                                         *)
(* The width of the header fields and of idx[] (1, 2 or 4 bytes) is not    *)
(* stored: it is inferred again, at every call, from the allocation's size *)
(* alone.  So the size must never fall where it would be read as another   *)
(* width, and every offset and count must fit that width.                  *)
(*                                                                         *)
(* The state follows one list: what it stores and its allocation, as its   *)
(* callers drive it - write until LIST_FULL, then resize_size(), copy into *)
(* the new allocation and write again.                                     *)
(*                                                                         *)
(* Slip_X is operator X with a slip in it, to stand in for X and show that *)
(* the properties notice; nothing uses it.                                 *)
(***************************************************************************)
EXTENDS Integers

CONSTANTS MaxCount,   \* bound on the items of the list followed
          MaxData,    \* bound on its bytes
          ItemSizes,  \* the sizes of the items written
          Requests    \* the numbers of items callers ask room for

ASSUME AllocAssumption ==
  /\ MaxCount \in Nat
  /\ MaxData \in Nat
  /\ ItemSizes \subseteq Nat
  /\ Requests \subseteq Nat

VARIABLES count,      \* items stored
          data_len,   \* bytes stored
          alloc,      \* the current allocation, see AllocSize
          pending     \* size of an item refused with LIST_FULL, or NoItem

allocvars == <<count, data_len, alloc, pending>>

NoItem == -1

-----------------------------------------------------------------------------
(* pow2size(): the power of two at or above sz, twice the one at or above its
   half. *)
Pow2Size(sz) == LET above[n \in Nat] == IF n <= 1 THEN n ELSE 2 * above[(n + 1) \div 2]
                IN  above[sz]

\* sizeof( ListStorage8 ), ListStorage16, ListStorage32.
HeaderSize(width) == CASE width = 1 -> 8 [] width = 2 -> 16 [] width = 4 -> 32

\* The width alloc_size() picks: the one that can address the offsets.
\* ( idx_size | ( dat_size - 1 ) ) <= 2^w - 1 iff both are.
AddressWidth(idx_size, dat_size) ==
  IF idx_size <= 255 /\ dat_size - 1 <= 255 THEN 1
  ELSE IF idx_size <= 65535 /\ dat_size - 1 <= 65535 THEN 2 ELSE 4

\* The width every later call infers: is_uint8(), is_uint16() of the size.
InferredWidth(size) == IF size < 512 THEN 1 ELSE IF size < 131072 THEN 2 ELSE 4

ListSize(idx_size, dat_size) ==
  LET width == AddressWidth(idx_size, dat_size)
  IN  HeaderSize(width) + width * idx_size + dat_size

Slip_AllocSize(idx, dat) == \* rounded up, without looking at the width
  LET idx_size == IF idx < 2 THEN 4 ELSE Pow2Size(idx + 1)
      dat_size == IF dat < 4 THEN 8 ELSE Pow2Size(dat + 3)
  IN  [idx_size |-> idx_size, dat_size |-> dat_size,
       size |-> ListSize(idx_size, dat_size)]

\* alloc_size(): round up, then grow data and index in turn until the width
\* inferred from the size is the width in use.
AllocSize(idx, dat) ==
  LET grow[i \in Nat] ==
        IF i = 0
        THEN <<IF idx < 2 THEN 4 ELSE Pow2Size(idx + 1),
               IF dat < 4 THEN 8 ELSE Pow2Size(dat + 3)>>
        ELSE IF i % 2 = 1
        THEN <<grow[i - 1][1], Pow2Size(grow[i - 1][2] + 3)>>
        ELSE <<Pow2Size(grow[i - 1][1] + 1), grow[i - 1][2]>>
      Fits(s) == InferredWidth(ListSize(s[1], s[2])) = AddressWidth(s[1], s[2])
      tries == 0..20
      i == CHOOSE k \in tries : Fits(grow[k]) /\ \A j \in 0..(k - 1) : ~ Fits(grow[j])
  IN  [idx_size |-> grow[i][1], dat_size |-> grow[i][2],
       size |-> ListSize(grow[i][1], grow[i][2])]

SlipB_ResizeSize(cnt, len, idx, dat) == \* no half more
  AllocSize(idx + cnt, dat + len)

\* resize_size(): room for what is stored and what was refused, and half more.
ResizeSize(cnt, len, idx, dat) ==
  AllocSize((idx + cnt) + (idx + cnt) \div 2 + 2, (dat + len) + (dat + len) \div 2 + 2)

\* mem_size(): the size of a list read back from the masks in its header.
MemSize(a) == LET width == InferredWidth(a.size)
              IN  HeaderSize(width) + a.idx_size * width + a.dat_size

-----------------------------------------------------------------------------
AllocFull(size) == \/ count >= alloc.idx_size - 1
                   \/ size + data_len > alloc.dat_size - 1

AllocInit ==
  /\ count = 0 /\ data_len = 0 /\ pending = NoItem
  /\ \E idx \in Requests, dat \in ItemSizes : alloc = AllocSize(idx, dat)

\* A push: stored, or refused with LIST_FULL.
Push(size) ==
  /\ pending = NoItem
  /\ count < MaxCount /\ data_len + size <= MaxData       \* model bound
  /\ IF AllocFull(size)
     THEN /\ pending' = size
          /\ UNCHANGED <<count, data_len>>
     ELSE /\ count' = count + 1
          /\ data_len' = data_len + size
          /\ UNCHANGED pending
  /\ UNCHANGED alloc

\* The caller allocates resize_size( 1, size ), copies and pushes again.
Resize ==
  /\ pending # NoItem
  /\ alloc' = ResizeSize(count, data_len, 1, pending)
  /\ count' = count + 1
  /\ data_len' = data_len + pending
  /\ pending' = NoItem

\* The caller shrinks to used_size().
Shrink ==
  /\ pending = NoItem
  /\ alloc' = AllocSize(count, data_len)
  /\ UNCHANGED <<count, data_len, pending>>

AllocNext == (\E size \in ItemSizes : Push(size)) \/ Resize \/ Shrink

AllocSpec == AllocInit /\ [][AllocNext]_allocvars

-----------------------------------------------------------------------------
AllocTypeOK == /\ count \in 0..MaxCount
               /\ data_len \in 0..MaxData
               /\ alloc \in [idx_size : Nat, dat_size : Nat, size : Nat]
               /\ pending \in ItemSizes \cup {NoItem}

\* The allocation always holds what was written: the retry after a LIST_FULL
\* never overruns the index or the data ring, nor does shrinking.
Fits == count < alloc.idx_size /\ data_len < alloc.dat_size

\* Every call infers the width that the list was laid out with ("there is a
\* point at the edges where is_uintXX() doesn't work", alloc_size()), and
\* count and every offset of idx[] fit that width.
WidthAgrees ==
  LET width == InferredWidth(alloc.size)
  IN  /\ width = AddressWidth(alloc.idx_size, alloc.dat_size)
      /\ width = 1 => alloc.idx_size <= 256 /\ alloc.dat_size <= 256
      /\ width = 2 => alloc.idx_size <= 65536 /\ alloc.dat_size <= 65536
      /\ MemSize(alloc) = alloc.size

\* What is stored fits, in offsets of the width that is inferred.
AllocFits == Fits /\ WidthAgrees

\* One resize is enough: the list that was grown after a LIST_FULL has taken
\* the item refused and has room left for another item, however small the
\* size asked for was rounded up.
GrowsEnough ==
  [][pending # NoItem => /\ count' < alloc'.idx_size - 1
                         /\ data_len' < alloc'.dat_size - 1]_allocvars
=============================================================================
