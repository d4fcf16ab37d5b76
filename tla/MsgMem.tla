-------------------------------- MODULE MsgMem --------------------------------
(***************************************************************************)
(* MDMsgMem of include/raimd/md_msg.h and src/md_msg.cpp: the memory that  *)
(* every reader and writer of messages takes its objects from.  Words are  *)
(* handed out from the front of a block; the first block is part of the    *)
(* object, more are malloc()ed when it is used up, each with a mark behind *)
(* its last word that is looked at when it is freed.  Nothing is given     *)
(* back alone: reuse() and release() give back everything, reset() all     *)
(* that came after a point.  extend() makes the last memory handed out     *)
(* longer where it is, and anything else by a copy.                        *)
(*                                                                         *)
(* A word holds the name of the owner that wrote it.  Owners write all of  *)
(* what they are given, and after extend() the words that are new to them. *)
(* Slip_X is X with a plausible slip, for the mutants.                     *)
(***************************************************************************)
EXTENDS Naturals, Sequences

CONSTANTS Owners,
          Sizes,        \* of the requests, in bytes
          Word,         \* sizeof( void * )
          Count,        \* MD_MSG_MEM_CNT
          MaxBlocks,    \* bounds the chain of blocks
          Edge,         \* the mark behind a block
          Unset         \* a word never written

ASSUME MemAssumption ==
  /\ Sizes \subseteq Nat
  /\ Word \in Nat \ {0} /\ Count \in Nat \ {0}
  /\ Edge \notin Owners /\ Unset \notin Owners \cup {Edge}

VARIABLES blks,         \* the chain, blk_ptr last: size and words of each
          mem_off,
          held,         \* what owners were given: block, offset and bytes
          mark          \* a point to reset() to, with what is held there

vars == <<blks, mem_off, held, mark>>

NoMark == [b |-> 0, off |-> 0]
Inline == [size |-> Count, mem |-> [i \in 0..(Count - 1) |-> Unset]]

Words(n) == (n + Word - 1) \div Word     \* align_size()

\* The block that alloc_slow() adds for n words.
BlockOf(size, edge) ==
  [size |-> size, mem |-> [i \in 0..size |-> IF i = edge THEN Edge ELSE Unset]]
NewBlock(n) ==
  IF n + 1 > Count THEN BlockOf(n, n) ELSE BlockOf(Count, Count)

\* alloc_slow() and alloc() of n words, from a chain `bs': the chain, where the
\* words are, and the next offset.
AllocSlow(bs, n) ==
  [blks |-> Append(bs, NewBlock(n)), b |-> Len(bs) + 1, at |-> 0, off |-> n]

Placed(n) ==
  IF n + mem_off <= Count
  THEN [blks |-> blks, b |-> Len(blks), at |-> mem_off, off |-> mem_off + n]
  ELSE AllocSlow(blks, n)

\* The word at an offset of r.
At(r, i) ==
  IF r.at + i \in DOMAIN blks[r.b].mem THEN blks[r.b].mem[r.at + i] ELSE Unset

\* o writes the words from i to j of a block, the first k of them copied from
\* the memory r.
Write(bs, b, i, j, o, r, k) ==
  [bs EXCEPT ![b].mem = [c \in DOMAIN @ |->
     IF c \notin i..(j - 1) THEN @[c]
     ELSE IF c - i < k THEN At(r, c - i) ELSE o]]

\* o is given n bytes there, where k words of r are copied; `keep' are the
\* others that hold memory still.
Give(p, o, n, r, k, keep) ==
  /\ Len(p.blks) <= MaxBlocks
  /\ blks' = Write(p.blks, p.b, p.at, p.at + Words(n), o, r, k)
  /\ mem_off' = p.off
  /\ held' = [q \in keep \cup {o} |->
                IF q = o THEN [b |-> p.b, at |-> p.at, len |-> n] ELSE held[q]]

\* The words that are r's.
Cells(r) == r.at..(r.at + Words(r.len) - 1)

\* The chain without its last blocks.  (A block whose mark was overwritten is
\* not freed.)
Cut(bs, b) == SubSeq(bs, 1, b)

-----------------------------------------------------------------------------
(* The calls. *)

Init ==
  /\ blks = <<Inline>>
  /\ mem_off = 0
  /\ held = <<>>
  /\ mark = NoMark

\* alloc(), make(), str_make(), stralloc(), memalloc().
Make(o, n) ==
  /\ o \notin DOMAIN held
  /\ Give(Placed(Words(n)), o, n, NoMark, 0, DOMAIN held)
  /\ UNCHANGED mark

\* The memory r is the last that was handed out.
Slip_IsLast(r) == r.b = Len(blks) /\ mem_off >= Words(r.len)
IsLast(r) ==
  /\ mem_off >= Words(r.len)
  /\ r.b = Len(blks) /\ r.at = mem_off - Words(r.len)

InPlace(r, n) == IsLast(r) /\ r.at + Words(n) <= Count

Slip_Copied(old, new) == Words(new)
Copied(old, new) == IF old < new THEN Words(old) ELSE Words(new)

\* extend(), of memory whose owner tells the size that it was given.
Extend(o, n) ==
  /\ o \in DOMAIN held
  /\ LET r == held[o]
     IN  IF InPlace(r, n)
         THEN /\ blks' = Write(blks, r.b, r.at + Words(r.len), r.at + Words(n), o, r, 0)
              /\ mem_off' = mem_off - Words(r.len) + Words(n)
              /\ held' = [held EXCEPT ![o].len = n]
         ELSE Give(Placed(Words(n)), o, n, r,
                   Copied(r.len, n), DOMAIN held)
  /\ UNCHANGED mark

\* reuse(), release(): all but the first block are freed.
Reuse ==
  /\ blks' = Cut(blks, 1)
  /\ mem_off' = 0
  /\ held' = <<>>
  /\ mark' = NoMark

\* reuse_make(): the memory starts again with this request, in the block there
\* is if it is the first or the second.
ReuseMake(o, n) ==
  /\ Give(IF Len(blks) <= 2 /\ Words(n) <= blks[Len(blks)].size
          THEN [blks |-> blks, b |-> Len(blks), at |-> 0, off |-> Words(n)]
          ELSE AllocSlow(Cut(blks, 1), Words(n)),
          o, n, NoMark, 0, {})
  /\ mark' = NoMark

\* The caller notes where the memory ends,
Note ==
  /\ mark' = [b |-> Len(blks), off |-> mem_off]
  /\ UNCHANGED <<blks, mem_off, held>>

Before(r, m) == r.b < m.b \/ (r.b = m.b /\ r.at + Words(r.len) <= m.off)

\* reset() to there: what was handed out later is gone.
Reset ==
  /\ mark # NoMark
  /\ blks' = Cut(blks, mark.b)
  /\ mem_off' = mark.off
  /\ held' = [o \in {p \in DOMAIN held : Before(held[p], mark)} |-> held[o]]
  /\ UNCHANGED mark

Next ==
  \/ \E o \in Owners, n \in Sizes : Make(o, n) \/ Extend(o, n) \/ ReuseMake(o, n)
  \/ Reuse \/ Note \/ Reset

Spec == Init /\ [][Next]_vars

-----------------------------------------------------------------------------
(* Properties. *)

\* alloc(), extend() and reuse_make() hand out words within one block, none of
\* them twice, and none that will be handed out next.
RegionsApart ==
  \A o \in DOMAIN held :
    LET r == held[o]
    IN  /\ r.b \in 1..Len(blks)
        /\ r.at + Words(r.len) <= blks[r.b].size
        /\ r.b = Len(blks) /\ Words(r.len) > 0 => r.at + Words(r.len) <= mem_off
        /\ \A p \in DOMAIN held \ {o} :
             held[p].b = r.b => Cells(held[p]) \cap Cells(r) = {}

\* The mark behind every malloc()ed block stands when release() and reset() look
\* at it: none is lost as "MDMsgMem error" (md_msg.cpp:451).
EdgesStand == \A b \in 2..Len(blks) : blks[b].mem[blks[b].size] = Edge

MemorySound == RegionsApart /\ EdgesStand

\* Whoever holds memory finds in it what was written there.
Read(r) == [i \in 1..Words(r.len) |-> At(r, i - 1)]
Memory == INSTANCE MemSpec WITH kept <- [o \in DOMAIN held |-> Read(held[o])]
ImplementsMem == Memory!Spec
=============================================================================
