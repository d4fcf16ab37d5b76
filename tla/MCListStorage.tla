---------------------------- MODULE MCListStorage ----------------------------
(***************************************************************************)
(* Small instances of ListStorage.                                         *)
(*                                                                         *)
(* ring: the smallest allocation alloc_size() can return (4 index slots, 8 *)
(* data bytes) and one of 16 bytes, with byte strings of no to three bytes:*)
(* lists fill up by count and by bytes and every offset is reached.  The   *)
(* half of lset() that moves the head needs more items; hashes, which use  *)
(* the same operators, have them (MCCollections).                          *)
(*                                                                         *)
(* Slots and bytes that hold nothing keep what was stored there before;    *)
(* LiveView tells states apart by what they store and where, not by that.  *)
(***************************************************************************)
EXTENDS ListStorage

MCByte   == 0..2
RingValues == {<<>>, <<1>>, <<1, 2>>, <<2, 1, 1>>}
RingSizes  == {<<4, 8>>, <<4, 16>>}

LiveView ==
  <<list.index_size, list.data_size, list.first, list.count, list.data_len,
    [n \in 0..list.count |-> StartOf(list, n)], Contents>>
=============================================================================
