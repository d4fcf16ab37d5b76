------------------------------- MODULE Buffers ------------------------------
(***************************************************************************)
(* The buffer a message writer appends to, as in the writers of            *)
(* src/rv_msg.cpp, src/tib_msg.cpp, src/tib_sass_msg.cpp, mf_writer.cpp    *)
(* and json_msg.cpp.  A writer of a message inside another is a window on  *)
(* the rest of the buffer of the writer around it; when any of them needs  *)
(* room, the buffer of the outermost grows, may move, and the windows have *)
(* to follow.  The five classes repeat this code; what differs is `hdr`,   *)
(* the bytes they count beyond `off`.                                      *)
(*                                                                         *)
(* Operators take and return s = [w, at, cells, lost]: the open writers,   *)
(* the outermost first, the address and the bytes of the buffer, and       *)
(* whether a byte was written anywhere else.  A byte is a number; a number *)
(* of several bytes sits in the first of its cells with Rest in the others.*)
(***************************************************************************)
EXTENDS Integers, Sequences

CONSTANTS MaxSize,  \* of a buffer, 0x3fffffff in the code
          Extra,    \* by which it grows beyond the room needed, 1024
          Places    \* where memory for a buffer may be

ASSUME BuffersAssumption == MaxSize \in Nat /\ Extra \in Nat /\ Places \subseteq Nat

Rest == -1
Junk == -2
U8(n) == <<n>>
U16(n) == <<n, Rest>>
U32(n) == <<n, Rest, Rest, Rest>>
NUL == 0
Fill(n, c) == [k \in 1..n |-> c]
Cut(c, at, n) == SubSeq(c, at, at + n - 1)
Rev(d) == [k \in DOMAIN d |-> d[Len(d) + 1 - k]]

\* A writer on `len` bytes at `buf`.
Window(buf, len, hdr, off) == [buf |-> buf, len |-> len, hdr |-> hdr, off |-> off, err |-> FALSE]

\* The outermost writer on fresh memory.
Started(at, len, hdr, off) ==
  [w |-> <<Window(at, len, hdr, off)>>, at |-> at, cells |-> Fill(len, Junk), lost |-> FALSE]

Inner(s) == s.w[Len(s.w)]
Used(x) == x.off + x.hdr
Need(s, n) == Len(s.cells) + (Used(Inner(s)) + n - Inner(s).len)

Put(s, a, c) ==
  [s EXCEPT !.cells = [k \in DOMAIN @ |-> LET i == s.at + k - a
                                         IN IF i \in DOMAIN c THEN c[i] ELSE @[k]],
            !.lost = @ \/ a < s.at \/ a + Len(c) > s.at + Len(s.cells)]

\* error(): remembered by the writer and those around it.
Failed(s) == [s EXCEPT !.w = [k \in DOMAIN @ |-> [@[k] EXCEPT !.err = TRUE]]]

\* resize(): not once there was an error, not beyond the most.
MayGrow(s, n) == ~Inner(s).err /\ n <= MaxSize /\ Need(s, n) <= MaxSize
NewLen(s, n) ==
  LET len == IF Need(s, n) < 2 * Len(s.cells) THEN 2 * Len(s.cells) ELSE Need(s, n) + Extra
  IN IF len > MaxSize THEN MaxSize ELSE len

Slip_Rebased(s, to, len) ==      \* windows keep their length
  [k \in DOMAIN s.w |-> [s.w[k] EXCEPT !.buf = @ - s.at + to]]
Rebased(s, to, len) ==
  [k \in DOMAIN s.w |->
     IF k = 1 \/ (s.at <= s.w[k].buf /\ s.w[k].buf < s.at + Len(s.cells))
     THEN [s.w[k] EXCEPT !.buf = @ - s.at + to, !.len = len - (s.w[k].buf - s.at)]
     ELSE s.w[k]]

Grown(s, to, len) ==
  [s EXCEPT !.w = Rebased(s, to, len), !.at = to,
            !.cells = [k \in 1..len |-> IF k <= Len(@) THEN @[k] ELSE Junk]]

\* has_space(): there is, or the buffer can be made larger.
Fits(s, n) == Used(Inner(s)) + n <= Inner(s).len
CanHave(s, n) == Fits(s, n) \/ MayGrow(s, n)
WithSpace(s, n, to) == IF Fits(s, n) THEN s ELSE Grown(s, to, NewLen(s, n))

\* The field is written where the writer is, its end is the new place.
Appended(s, gap, c) ==
  [Put(s, Inner(s).buf + gap + Inner(s).off, c) EXCEPT !.w[Len(s.w)].off = @ + Len(c)]
=============================================================================
