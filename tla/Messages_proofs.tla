--------------------------- MODULE Messages_proofs ---------------------------
(***************************************************************************)
(* Proofs about MsgMem and Dict, which MCMessages checks together.         *)
(*                                                                         *)
(* MsgMem, for words and blocks of any size, any requests and any number   *)
(* of owners and blocks: no word is handed out twice, the marks behind the *)
(* blocks stand, and memory keeps what its owner wrote, as MemSpec says.   *)
(* RegionsApart alone is not inductive.  That the memory extend() makes    *)
(* longer is followed by none needs what is held in the last block to end  *)
(* before mem_off; that reset() may hand out again what follows the mark   *)
(* needs the mark to be in the chain; and that extend() copies what the    *)
(* owner wrote needs every word held to be its owner's (Owned).            *)
(*                                                                         *)
(* Dict, for any fids, names, kinds, enumerations and hashes, and builds   *)
(* of any length: an enumeration or a form reaches no field but its own.   *)
(* OwnField says so of steps from where the index is current; that the     *)
(* index finds the field then needs what it says of every place, and that  *)
(* needs every index, current or not, to be right from its own first fid   *)
(* (IndexOf).                                                              *)
(***************************************************************************)
EXTENDS MsgMem, Dict, SequenceTheorems, FiniteSetTheorems, WellFoundedInduction,
        TLAPS

-----------------------------------------------------------------------------
(* MsgMem: the inductive invariant. *)

Cell == Owners \cup {Edge, Unset}
Block == [size : Nat, mem : UNION {[0..n -> Cell] : n \in Nat}]
Region == [b : Nat, at : Nat, len : Nat]

\* A block has its words, and behind them its mark if it was malloc()ed.
Sound(bs, b) ==
  /\ bs[b].size >= Count
  /\ \A i \in 0..(bs[b].size - 1) : i \in DOMAIN bs[b].mem
  /\ b > 1 => bs[b].size \in DOMAIN bs[b].mem /\ bs[b].mem[bs[b].size] = Edge

Chain(bs) ==
  /\ bs \in Seq(Block)
  /\ Len(bs) > 0
  /\ \A b \in 1..Len(bs) : Sound(bs, b)

\* Memory r is in its block, and if that is the last before the offset.
Inside(bs, off, r) ==
  /\ r \in Region
  /\ r.b \in 1..Len(bs)
  /\ r.at + Words(r.len) <= bs[r.b].size
  /\ r.b = Len(bs) /\ Words(r.len) > 0 => r.at + Words(r.len) <= off

\* All words of r are what o wrote.
Owned(bs, o, r) ==
  \A c \in Nat : c >= r.at /\ c < r.at + Words(r.len) => bs[r.b].mem[c] = o

Apart(r, q) ==
  \/ r.b # q.b \/ Words(r.len) = 0 \/ Words(q.len) = 0
  \/ r.at + Words(r.len) <= q.at \/ q.at + Words(q.len) <= r.at

\* What owners hold, in a chain bs that is used up to off.
Holds(bs, off, h) ==
  /\ DOMAIN h \subseteq Owners
  /\ \A o \in DOMAIN h : Inside(bs, off, h[o]) /\ Owned(bs, o, h[o])
  /\ \A o, p \in DOMAIN h : o # p => Apart(h[o], h[p])

MarkInv ==
  /\ mark \in [b : Nat, off : Nat]
  /\ mark # NoMark => mark.b \in 1..Len(blks) /\ mark.off <= blks[mark.b].size

IInv ==
  /\ Chain(blks)
  /\ mem_off \in Nat /\ mem_off <= blks[Len(blks)].size
  /\ MarkInv
  /\ Holds(blks, mem_off, held)

-----------------------------------------------------------------------------
(* Sizes in words. *)

LEMMA WordsNat ==
  ASSUME NEW n \in Nat
  PROVE  Words(n) \in Nat
<1>1. Word \in Nat \ {0}
  BY MemAssumption
<1> QED
  BY <1>1, SMT DEF Words

LEMMA WordsGrow ==
  ASSUME NEW m \in Nat, NEW n \in Nat, m <= n
  PROVE  Words(m) <= Words(n)
<1>1. Word \in Nat \ {0}
  BY MemAssumption
<1> QED
  BY <1>1, SMT DEF Words

-----------------------------------------------------------------------------
(* Blocks and what is written in them. *)

\* A write whose copied words are o's own makes all of i to j o's.
Filling(bs, b, i, j, o) ==
  [bs EXCEPT ![b].mem = [c \in DOMAIN @ |-> IF c \in i..(j - 1) THEN o ELSE @[c]]]

LEMMA WriteFills ==
  ASSUME NEW bs, NEW b, NEW i \in Nat, NEW j \in Nat, NEW o, NEW r, NEW k \in Nat,
         \A c \in Nat : c < k => At(r, c) = o
  PROVE  Write(bs, b, i, j, o, r, k) = Filling(bs, b, i, j, o)
<1> DEFINE old == bs[b].mem
<1>1. [c \in DOMAIN old |-> IF c \notin i..(j - 1) THEN old[c]
                            ELSE IF c - i < k THEN At(r, c - i) ELSE o]
      = [c \in DOMAIN old |-> IF c \in i..(j - 1) THEN o ELSE old[c]]
  <2>1. ASSUME NEW c \in DOMAIN old
        PROVE  (IF c \notin i..(j - 1) THEN old[c]
                ELSE IF c - i < k THEN At(r, c - i) ELSE o)
               = IF c \in i..(j - 1) THEN o ELSE old[c]
    <3>1. CASE c \in i..(j - 1)
      <4>1. c - i \in Nat
        BY <3>1
      <4> QED
        BY <3>1, <4>1
    <3>2. CASE c \notin i..(j - 1)
      BY <3>2
    <3> QED
      BY <3>1, <3>2
  <2> QED
    BY <2>1
<1> QED
  BY <1>1 DEF Write, Filling

\* fs is bs but for those words.
Differ(fs, bs, b, i, j, o) ==
  /\ Len(fs) = Len(bs)
  /\ \A x \in 1..Len(bs) : fs[x].size = bs[x].size
  /\ \A x \in 1..Len(bs) : x # b => fs[x] = bs[x]
  /\ DOMAIN fs[b].mem = DOMAIN bs[b].mem
  /\ \A c \in DOMAIN bs[b].mem :
       fs[b].mem[c] = IF c \in i..(j - 1) THEN o ELSE bs[b].mem[c]

LEMMA FillingParts ==
  ASSUME NEW bs, Chain(bs), NEW b \in 1..Len(bs),
         NEW i \in Nat, NEW j \in Nat, j <= bs[b].size, NEW o \in Owners
  PROVE  Differ(Filling(bs, b, i, j, o), bs, b, i, j, o)
<1> DEFINE fs == Filling(bs, b, i, j, o)
           m == [c \in DOMAIN bs[b].mem |-> IF c \in i..(j - 1) THEN o ELSE bs[b].mem[c]]
<1>1. bs \in Seq(Block) /\ Len(bs) \in Nat /\ DOMAIN bs = 1..Len(bs)
  BY DEF Chain
<1>2. bs[b] \in Block
  BY <1>1
<1>3. fs = [bs EXCEPT ![b] = [bs[b] EXCEPT !.mem = m]]
  BY DEF Filling
<1> HIDE DEF m
<1>4. fs[b] = [bs[b] EXCEPT !.mem = m]
  BY <1>1, <1>3
<1>5. fs[b].size = bs[b].size /\ fs[b].mem = m
  BY <1>2, <1>4 DEF Block
<1>6. \A x \in 1..Len(bs) : x # b => fs[x] = bs[x]
  BY <1>1, <1>3
<1>7. Len(fs) = Len(bs)
  BY <1>1, <1>3
<1>8. DOMAIN m = DOMAIN bs[b].mem
      /\ \A c \in DOMAIN bs[b].mem : m[c] = IF c \in i..(j - 1) THEN o ELSE bs[b].mem[c]
  BY DEF m
<1> HIDE DEF fs
<1> QED
  BY <1>5, <1>6, <1>7, <1>8 DEF fs, Differ

LEMMA FillingChain ==
  ASSUME NEW bs, Chain(bs), NEW b \in 1..Len(bs),
         NEW i \in Nat, NEW j \in Nat, j <= bs[b].size, NEW o \in Owners
  PROVE  Chain(Filling(bs, b, i, j, o))
<1> DEFINE fs == Filling(bs, b, i, j, o)
<1>1. bs \in Seq(Block) /\ Len(bs) \in Nat \ {0} /\ \A x \in 1..Len(bs) : Sound(bs, x)
  BY DEF Chain
<1>2. /\ Len(fs) = Len(bs)
      /\ \A x \in 1..Len(bs) : fs[x].size = bs[x].size
      /\ \A x \in 1..Len(bs) : x # b => fs[x] = bs[x]
      /\ DOMAIN fs[b].mem = DOMAIN bs[b].mem
      /\ \A c \in DOMAIN bs[b].mem :
           fs[b].mem[c] = IF c \in i..(j - 1) THEN o ELSE bs[b].mem[c]
  <2>1. Differ(fs, bs, b, i, j, o)
    BY FillingParts
  <2> HIDE DEF fs
  <2> QED BY <2>1 DEF Differ
<1>3. fs \in Seq(Block)
  <2> DEFINE m == [c \in DOMAIN bs[b].mem |-> IF c \in i..(j - 1) THEN o ELSE bs[b].mem[c]]
  <2>1. bs[b] \in Block
    BY <1>1
  <2>2. PICK n \in Nat : bs[b].mem \in [0..n -> Cell]
    BY <2>1 DEF Block
  <2>3. m \in [0..n -> Cell]
    BY <2>2 DEF Cell
  <2> HIDE DEF m
  <2>4. [bs[b] EXCEPT !.mem = m] \in Block
    BY <2>1, <2>3 DEF Block
  <2>5. fs = [bs EXCEPT ![b] = [bs[b] EXCEPT !.mem = m]]
    BY DEF Filling, m
  <2> QED
    BY <1>1, <2>4, <2>5, ExceptSeq
<1> HIDE DEF fs
<1>4. ASSUME NEW x \in 1..Len(fs) PROVE Sound(fs, x)
  <2>1. Sound(bs, x)
    BY <1>1, <1>2
  <2>2. CASE x # b
    BY <1>2, <2>1, <2>2 DEF Sound
  <2>3. CASE x = b
    <3>0. bs[b] \in Block
      BY <1>1
    <3>1. bs[b].size \in Nat
      BY <3>0 DEF Block
    <3>2. bs[b].size \notin i..(j - 1)
      BY <3>1
    <3>3. x > 1 => fs[b].mem[bs[b].size] = bs[b].mem[bs[b].size]
      BY <1>2, <2>1, <2>3, <3>2 DEF Sound
    <3> QED
      BY <1>2, <2>1, <2>3, <3>3 DEF Sound
  <2> QED
    BY <2>2, <2>3
<1> QED
  BY <1>1, <1>2, <1>3, <1>4 DEF Chain, fs
-----------------------------------------------------------------------------
(* Where memory is taken from. *)

\* p is room for n bytes, of which those in keep hold nothing.
Fit(p, n, keep) ==
  /\ Chain(p.blks)
  /\ p.b = Len(p.blks)
  /\ p.at \in Nat
  /\ p.off = p.at + Words(n)
  /\ p.off <= p.blks[p.b].size
  /\ \A q \in keep : Inside(p.blks, p.at, held[q]) /\ Owned(p.blks, q, held[q])

LEMMA NewBlockSound ==
  ASSUME NEW n \in Nat
  PROVE  /\ NewBlock(n) \in Block
         /\ NewBlock(n).size >= Count /\ NewBlock(n).size >= n
         /\ DOMAIN NewBlock(n).mem = 0..NewBlock(n).size
         /\ NewBlock(n).mem[NewBlock(n).size] = Edge
<1>1. Count \in Nat
  BY MemAssumption
<1>2. ASSUME NEW size \in Nat
      PROVE  /\ BlockOf(size, size) \in Block
             /\ BlockOf(size, size).size = size
             /\ DOMAIN BlockOf(size, size).mem = 0..size
             /\ BlockOf(size, size).mem[size] = Edge
  <2> DEFINE m == [i \in 0..size |-> IF i = size THEN Edge ELSE Unset]
  <2>1. m \in [0..size -> Cell]
    BY DEF Cell
  <2>2. DOMAIN m = 0..size /\ m[size] = Edge
    OBVIOUS
  <2>3. BlockOf(size, size) = [size |-> size, mem |-> m]
    BY DEF BlockOf
  <2> HIDE DEF m
  <2> QED
    BY <2>1, <2>2, <2>3 DEF Block
<1>3. CASE n + 1 > Count
  BY <1>1, <1>2, <1>3 DEF NewBlock
<1>4. CASE ~ (n + 1 > Count)
  BY <1>1, <1>2, <1>4 DEF NewBlock
<1> QED
  BY <1>3, <1>4

LEMMA AllocSlowChain ==
  ASSUME NEW bs, Chain(bs), NEW n \in Nat
  PROVE  LET p == AllocSlow(bs, n)
         IN  /\ Chain(p.blks)
             /\ Len(p.blks) = Len(bs) + 1
             /\ p.b = Len(bs) + 1 /\ p.at = 0 /\ p.off = n
             /\ n <= p.blks[p.b].size
             /\ \A b \in 1..Len(bs) : p.blks[b] = bs[b]
<1> DEFINE nb == NewBlock(n)
           cs == Append(bs, nb)
<1>1. bs \in Seq(Block) /\ Len(bs) \in Nat \ {0} /\ \A x \in 1..Len(bs) : Sound(bs, x)
  BY DEF Chain
<1>2. /\ nb \in Block
      /\ nb.size >= Count /\ nb.size >= n
      /\ DOMAIN nb.mem = 0..nb.size
      /\ nb.mem[nb.size] = Edge
  BY NewBlockSound
<1> HIDE DEF nb
<1>3. /\ cs \in Seq(Block)
      /\ Len(cs) = Len(bs) + 1
      /\ \A x \in 1..Len(bs) : cs[x] = bs[x]
      /\ cs[Len(bs) + 1] = nb
  BY <1>1, <1>2, AppendProperties
<1>4. nb.size \in Nat
  BY <1>2 DEF Block
<1> HIDE DEF cs
<1>5. ASSUME NEW x \in 1..Len(cs) PROVE Sound(cs, x)
  <2>1. CASE x \in 1..Len(bs)
    BY <1>1, <1>3, <2>1 DEF Sound
  <2>2. CASE x = Len(bs) + 1
    BY <1>2, <1>3, <1>4, <2>2 DEF Sound
  <2> QED
    BY <1>1, <1>3, <2>1, <2>2
<1>6. Chain(cs)
  BY <1>1, <1>3, <1>5 DEF Chain
<1>7. AllocSlow(bs, n) = [blks |-> cs, b |-> Len(bs) + 1, at |-> 0, off |-> n]
  BY DEF AllocSlow, cs, nb
<1> QED
  BY <1>2, <1>3, <1>4, <1>6, <1>7

\* What is held in blocks of the chain is held with one more block.
LEMMA SlowFits ==
  ASSUME IInv, NEW n \in Nat
  PROVE  Fit(AllocSlow(blks, Words(n)), n, DOMAIN held)
<1> DEFINE p == AllocSlow(blks, Words(n))
<1>1. Chain(blks) /\ Words(n) \in Nat /\ Len(blks) \in Nat
  BY SMTT(30), WordsNat DEF IInv, Chain
<1>2. /\ Chain(p.blks)
      /\ Len(p.blks) = Len(blks) + 1
      /\ p.b = Len(blks) + 1 /\ p.at = 0 /\ p.off = Words(n)
      /\ Words(n) <= p.blks[p.b].size
      /\ \A b \in 1..Len(blks) : p.blks[b] = blks[b]
  BY <1>1, AllocSlowChain
<1> HIDE DEF p
<1>3. ASSUME NEW q \in DOMAIN held
      PROVE  Inside(p.blks, p.at, held[q]) /\ Owned(p.blks, q, held[q])
  <2>1. Inside(blks, mem_off, held[q]) /\ Owned(blks, q, held[q])
    BY DEF IInv, Holds
  <2>2. held[q].b \in 1..Len(blks) /\ p.blks[held[q].b] = blks[held[q].b]
    BY <1>2, <2>1 DEF Inside
  <2> QED
    BY <1>1, <1>2, <2>1, <2>2 DEF Inside, Owned
<1> QED
  BY <1>1, <1>2, <1>3 DEF Fit, p

LEMMA PlacedFits ==
  ASSUME IInv, NEW n \in Nat
  PROVE  /\ Fit(Placed(Words(n)), n, DOMAIN held)
         /\ Len(Placed(Words(n)).blks) >= Len(blks)
         /\ \A b \in 1..Len(blks) : Placed(Words(n)).blks[b] = blks[b]
<1> DEFINE p == Placed(Words(n))
<1>1. Chain(blks) /\ Words(n) \in Nat /\ Len(blks) \in Nat \ {0} /\ Count \in Nat /\ mem_off \in Nat
  BY SMTT(30), WordsNat, MemAssumption DEF IInv, Chain
<1>2. CASE Words(n) + mem_off <= Count
  <2>1. p = [blks |-> blks, b |-> Len(blks), at |-> mem_off, off |-> mem_off + Words(n)]
    BY <1>2 DEF Placed
  <2>2. Count <= blks[Len(blks)].size /\ blks[Len(blks)] \in Block
    BY <1>1 DEF Chain, Sound
  <2>3. blks[Len(blks)].size \in Nat
    BY <2>2 DEF Block
  <2>4. mem_off + Words(n) <= blks[Len(blks)].size
    BY <1>1, <1>2, <2>2, <2>3
  <2>5. \A q \in DOMAIN held : Inside(blks, mem_off, held[q]) /\ Owned(blks, q, held[q])
    BY DEF IInv, Holds
  <2> QED
    BY <1>1, <2>1, <2>4, <2>5 DEF Fit
<1>3. CASE ~ (Words(n) + mem_off <= Count)
  <2>1. p = AllocSlow(blks, Words(n))
    BY <1>3 DEF Placed
  <2> QED
    BY <1>1, <2>1, SlowFits, AllocSlowChain
<1> QED
  BY <1>2, <1>3

\* The first blocks of a chain are a chain.
LEMMA CutChain ==
  ASSUME NEW bs, Chain(bs), NEW b \in 1..Len(bs)
  PROVE  /\ Chain(Cut(bs, b))
         /\ Len(Cut(bs, b)) = b
         /\ \A x \in 1..b : Cut(bs, b)[x] = bs[x]
<1>1. bs \in Seq(Block) /\ Len(bs) \in Nat \ {0} /\ \A x \in 1..Len(bs) : Sound(bs, x)
  BY DEF Chain
<1>2. /\ Cut(bs, b) \in Seq(Block)
      /\ Len(Cut(bs, b)) = b
      /\ \A x \in 1..b : Cut(bs, b)[x] = bs[x]
  BY <1>1, SubSeqProperties DEF Cut
<1> QED
  BY <1>1, <1>2 DEF Chain, Sound

\* The request of a reuse_make() is the first in the block it is put in.
LEMMA ReusedFits ==
  ASSUME IInv, NEW n \in Nat
  PROVE  Fit(IF Len(blks) <= 2 /\ Words(n) <= blks[Len(blks)].size
             THEN [blks |-> blks, b |-> Len(blks), at |-> 0, off |-> Words(n)]
             ELSE AllocSlow(Cut(blks, 1), Words(n)), n, {})
<1>1. Chain(blks) /\ Words(n) \in Nat /\ Len(blks) \in Nat \ {0}
  BY SMTT(30), WordsNat DEF IInv, Chain
<1>2. CASE Len(blks) <= 2 /\ Words(n) <= blks[Len(blks)].size
  BY <1>1, <1>2 DEF Fit
<1>3. CASE ~ (Len(blks) <= 2 /\ Words(n) <= blks[Len(blks)].size)
  <2> DEFINE cs == Cut(blks, 1)
             p == AllocSlow(cs, Words(n))
  <2>0. 1 \in 1..Len(blks)
    BY <1>1
  <2>1. Chain(cs) /\ Len(cs) = 1
    BY <1>1, <2>0, CutChain
  <2> HIDE DEF cs
  <2>2. /\ Chain(p.blks)
        /\ Len(p.blks) = 2
        /\ p.b = 2 /\ p.at = 0 /\ p.off = Words(n)
        /\ Words(n) <= p.blks[p.b].size
    <3>1. /\ Chain(p.blks)
          /\ Len(p.blks) = Len(cs) + 1
          /\ p.b = Len(cs) + 1 /\ p.at = 0 /\ p.off = Words(n)
          /\ Words(n) <= p.blks[p.b].size
      BY <1>1, <2>1, AllocSlowChain
    <3> HIDE DEF p
    <3> QED
      BY <2>1, <3>1
  <2> HIDE DEF p
  <2>3. Fit(p, n, {})
    BY <1>1, <2>2 DEF Fit
  <2> QED
    BY <1>3, <2>3 DEF p, cs
<1> QED
  BY <1>2, <1>3
-----------------------------------------------------------------------------
(* What calls do to what is held. *)

\* o's region of p, and those in keep.
Given(p, o, n, keep) ==
  [q \in keep \cup {o} |->
     IF q = o THEN [b |-> p.b, at |-> p.at, len |-> n] ELSE held[q]]

LEMMA GivenHolds ==
  ASSUME IInv, NEW o \in Owners, NEW n \in Nat, NEW keep \in SUBSET DOMAIN held,
         NEW p, Fit(p, n, keep)
  PROVE  LET fs == Filling(p.blks, p.b, p.at, p.at + Words(n), o)
         IN  /\ Chain(fs)
             /\ Len(fs) = Len(p.blks)
             /\ \A b \in 1..Len(fs) : fs[b].size = p.blks[b].size
             /\ p.off \in Nat /\ p.off <= fs[Len(fs)].size
             /\ Holds(fs, p.off, Given(p, o, n, keep))
<1> DEFINE bs == p.blks
           fs == Filling(bs, p.b, p.at, p.at + Words(n), o)
           h == Given(p, o, n, keep)
<1>1. /\ Words(n) \in Nat /\ Chain(bs) /\ p.at \in Nat
      /\ p.b = Len(bs) /\ Len(bs) \in Nat \ {0} /\ p.b \in 1..Len(bs)
      /\ p.off = p.at + Words(n) /\ p.off \in Nat /\ p.off <= bs[p.b].size
  <2>1. Words(n) \in Nat
    BY WordsNat
  <2>2. Chain(bs) /\ bs \in Seq(Block) /\ Len(bs) > 0
    BY DEF Fit, Chain
  <2>3. Len(bs) \in Nat \ {0}
    BY <2>2
  <2> QED
    BY <2>1, <2>2, <2>3 DEF Fit
<1> HIDE DEF bs
<1>2. Chain(fs)
  BY <1>1, FillingChain
<1>3. /\ Len(fs) = Len(bs)
      /\ \A x \in 1..Len(bs) : fs[x].size = bs[x].size
      /\ \A x \in 1..Len(bs) : x # p.b => fs[x] = bs[x]
      /\ DOMAIN fs[p.b].mem = DOMAIN bs[p.b].mem
      /\ \A c \in DOMAIN bs[p.b].mem :
           fs[p.b].mem[c] = IF c \in p.at..(p.at + Words(n) - 1) THEN o ELSE bs[p.b].mem[c]
  <2>1. p.at + Words(n) \in Nat /\ p.at + Words(n) <= bs[p.b].size
    BY <1>1
  <2>2. Differ(fs, bs, p.b, p.at, p.at + Words(n), o)
    BY <1>1, <2>1, FillingParts
  <2> HIDE DEF fs
  <2> QED
    BY <1>1, <2>2 DEF Differ
<1>4. \A c \in 0..(bs[p.b].size - 1) : c \in DOMAIN bs[p.b].mem
  BY <1>1 DEF Chain, Sound
<1>5. bs[p.b] \in Block
  BY <1>1 DEF Chain
<1>6. bs[p.b].size \in Nat
  BY <1>5 DEF Block
<1> HIDE DEF fs
<1>7. Inside(fs, p.off, h[o]) /\ Owned(fs, o, h[o])
  <2>1. h[o] = [b |-> p.b, at |-> p.at, len |-> n]
    BY DEF Given
  <2>2. Inside(fs, p.off, h[o])
    BY <1>1, <1>3, <2>1 DEF Inside, Region
  <2>3. ASSUME NEW c \in Nat, c >= p.at, c < p.at + Words(n)
        PROVE  fs[p.b].mem[c] = o
    <3>1. c \in 0..(bs[p.b].size - 1) /\ c \in p.at..(p.at + Words(n) - 1)
      BY <1>1, <1>6, <2>3
    <3> QED
      BY <1>3, <1>4, <3>1
  <2> QED
    BY <2>1, <2>2, <2>3 DEF Owned
<1>8. ASSUME NEW q \in keep, q # o
      PROVE  /\ h[q] = held[q] /\ Inside(fs, p.off, h[q]) /\ Owned(fs, q, h[q])
             /\ Apart(h[o], h[q]) /\ Apart(h[q], h[o])
  <2> DEFINE r == held[q]
  <2>1. h[q] = r /\ h[o] = [b |-> p.b, at |-> p.at, len |-> n]
    BY <1>8 DEF Given
  <2>2. Inside(bs, p.at, r) /\ Owned(bs, q, r)
    BY DEF Fit, bs
  <2>3. r \in Region /\ r.at \in Nat /\ r.b \in Nat /\ Words(r.len) \in Nat
    BY <2>2, WordsNat DEF Inside, Region
  <2> HIDE DEF r
  <2>4. Inside(fs, p.off, r)
    BY <1>1, <1>3, <2>2, <2>3 DEF Inside
  <2>5. ASSUME NEW c \in Nat, c >= r.at, c < r.at + Words(r.len)
        PROVE  fs[r.b].mem[c] = q
    <3>1. bs[r.b].mem[c] = q
      BY <2>2, <2>5 DEF Owned
    <3>2. CASE r.b # p.b
      BY <1>3, <2>2, <3>1, <3>2 DEF Inside
    <3>3. CASE r.b = p.b
      <4>1. r.at + Words(r.len) <= p.at
        BY <1>1, <2>2, <2>3, <2>5, <3>3 DEF Inside
      <4>2. c \in 0..(bs[p.b].size - 1) /\ c \notin p.at..(p.at + Words(n) - 1)
        BY SMTT(30), <1>1, <1>6, <2>3, <2>5, <4>1
      <4> QED
        BY <1>3, <1>4, <3>1, <3>3, <4>2
    <3> QED
      BY <3>2, <3>3
  <2>6. Apart(h[o], r) /\ Apart(r, h[o])
    BY <1>1, <2>1, <2>2, <2>3 DEF Apart, Inside
  <2> QED
    BY <2>1, <2>4, <2>5, <2>6 DEF Owned, r
<1>9. ASSUME NEW q \in keep, NEW s \in keep, q # s, q # o, s # o
      PROVE  Apart(h[q], h[s])
  BY <1>8, <1>9 DEF IInv, Holds
<1>10. DOMAIN h = keep \cup {o} /\ DOMAIN h \subseteq Owners
  BY DEF Given, IInv, Holds
<1> HIDE DEF h
<1>11. Holds(fs, p.off, h)
  BY <1>7, <1>8, <1>9, <1>10 DEF Holds
<1> QED
  BY <1>1, <1>2, <1>3, <1>11 DEF fs, h, bs

LEMMA GiveHolds ==
  ASSUME IInv, NEW o \in Owners, NEW n \in Nat, NEW keep \in SUBSET DOMAIN held,
         NEW p, Fit(p, n, keep), NEW r, NEW k \in Nat,
         \A c \in Nat : c < k => At(r, c) = o,
         Give(p, o, n, r, k, keep)
  PROVE  /\ Chain(blks)'
         /\ Len(blks') = Len(p.blks)
         /\ \A b \in 1..Len(blks') : blks'[b].size = p.blks[b].size
         /\ mem_off' \in Nat /\ mem_off' <= blks'[Len(blks')].size
         /\ held' = Given(p, o, n, keep)
         /\ Holds(blks, mem_off, held)'
<1>1. Words(n) \in Nat /\ p.at \in Nat
  BY WordsNat DEF Fit
<1>2. p.at + Words(n) \in Nat
  BY <1>1
<1>3. /\ blks' = Write(p.blks, p.b, p.at, p.at + Words(n), o, r, k)
      /\ mem_off' = p.off
      /\ held' = Given(p, o, n, keep)
  BY DEF Give, Given
<1>4. blks' = Filling(p.blks, p.b, p.at, p.at + Words(n), o)
  BY <1>1, <1>2, <1>3, WriteFills
<1>5. /\ Chain(blks')
      /\ Len(blks') = Len(p.blks)
      /\ \A b \in 1..Len(blks') : blks'[b].size = p.blks[b].size
      /\ p.off \in Nat /\ p.off <= blks'[Len(blks')].size
      /\ Holds(blks', p.off, Given(p, o, n, keep))
  BY <1>4, GivenHolds
<1>6. Chain(blks)' /\ Holds(blks, mem_off, held)'
  BY <1>3, <1>5
<1> QED
  BY <1>3, <1>5, <1>6

\* extend() where the memory is: what else is held in the block ends before it.
LEMMA ExtendedHolds ==
  ASSUME IInv, NEW o \in DOMAIN held, NEW n \in Nat, InPlace(held[o], n),
         blks' = Write(blks, held[o].b, held[o].at + Words(held[o].len),
                       held[o].at + Words(n), o, held[o], 0),
         mem_off' = mem_off - Words(held[o].len) + Words(n),
         held' = [held EXCEPT ![o].len = n]
  PROVE  /\ Chain(blks)'
         /\ Len(blks') = Len(blks)
         /\ \A b \in 1..Len(blks') : blks'[b].size = blks[b].size
         /\ mem_off' \in Nat /\ mem_off' <= blks'[Len(blks')].size
         /\ Holds(blks, mem_off, held)'
<1> DEFINE r == held[o]
           i == r.at + Words(r.len)
           j == r.at + Words(n)
           s == [r EXCEPT !.len = n]
<1>1. /\ Chain(blks) /\ Len(blks) \in Nat \ {0}
      /\ DOMAIN held \subseteq Owners /\ o \in Owners
      /\ mem_off \in Nat
  BY DEF IInv, Chain, Holds
<1>2. Inside(blks, mem_off, r) /\ Owned(blks, o, r)
  BY DEF IInv, Holds
<1>3. /\ r \in Region /\ r.at \in Nat /\ r.len \in Nat /\ r.b \in Nat
      /\ r.b = Len(blks) /\ r.b \in 1..Len(blks)
      /\ Words(r.len) \in Nat /\ Words(n) \in Nat
  BY <1>1, <1>2, WordsNat DEF Inside, Region, InPlace, IsLast
<1>4. mem_off >= Words(r.len) /\ r.at = mem_off - Words(r.len) /\ j <= Count
  BY DEF InPlace, IsLast
<1>5. i \in Nat /\ j \in Nat /\ mem_off = i /\ mem_off' = j
  BY <1>1, <1>3, <1>4
<1>6. /\ blks[r.b] \in Block /\ blks[r.b].size \in Nat
      /\ Count <= blks[r.b].size
      /\ \A c \in 0..(blks[r.b].size - 1) : c \in DOMAIN blks[r.b].mem
  <2>1. blks[r.b] \in Block
    BY <1>1, <1>3 DEF Chain
  <2> QED
    BY <1>1, <1>3, <2>1 DEF Chain, Sound, Block
<1>7. j <= blks[r.b].size
  BY <1>4, <1>5, <1>6, MemAssumption
<1>8. blks' = Filling(blks, r.b, i, j, o)
  <2>1. \A c \in Nat : c < 0 => At(r, c) = o
    OBVIOUS
  <2> QED
    BY <1>5, <2>1, WriteFills
<1>9. s = [b |-> r.b, at |-> r.at, len |-> n] /\ s \in Region
  BY <1>3 DEF Region
<1>10. DOMAIN held' = DOMAIN held /\ held'[o] = s /\ \A q \in DOMAIN held : q # o => held'[q] = held[q]
  OBVIOUS
<1> HIDE DEF r, i, j, s
<1>11. Chain(blks') /\ Differ(blks', blks, r.b, i, j, o)
  BY <1>1, <1>3, <1>5, <1>7, <1>8, FillingChain, FillingParts
<1>12. /\ Len(blks') = Len(blks)
       /\ \A b \in 1..Len(blks) : blks'[b].size = blks[b].size
       /\ \A b \in 1..Len(blks) : b # r.b => blks'[b] = blks[b]
       /\ \A c \in DOMAIN blks[r.b].mem :
            blks'[r.b].mem[c] = IF c \in i..(j - 1) THEN o ELSE blks[r.b].mem[c]
  BY <1>11 DEF Differ
<1>13. i = r.at + Words(r.len) /\ j = r.at + Words(n) /\ s.at = r.at /\ s.b = r.b /\ s.len = n
  BY <1>9 DEF i, j
<1>14. Inside(blks', j, s) /\ Owned(blks', o, s)
  <2>1. Inside(blks', j, s)
    BY <1>3, <1>7, <1>9, <1>12, <1>13 DEF Inside
  <2>2. ASSUME NEW c \in Nat, c >= r.at, c < j
        PROVE  blks'[r.b].mem[c] = o
    <3>1. c \in 0..(blks[r.b].size - 1)
      BY <1>5, <1>6, <1>7, <2>2
    <3>2. CASE c >= i
      BY <1>5, <1>6, <1>12, <2>2, <3>1, <3>2
    <3>3. CASE c < i
      <4>1. blks[r.b].mem[c] = o
        BY <1>2, <1>13, <2>2, <3>3 DEF Owned
      <4> QED
        BY <1>6, <1>12, <3>1, <4>1
    <3> QED
      BY <1>5, <3>2, <3>3
  <2> QED
    BY <1>13, <2>1, <2>2 DEF Owned
<1>15. ASSUME NEW q \in DOMAIN held, q # o
       PROVE  /\ Inside(blks', j, held[q]) /\ Owned(blks', q, held[q])
              /\ Apart(s, held[q]) /\ Apart(held[q], s)
  <2> DEFINE t == held[q]
  <2>1. Inside(blks, mem_off, t) /\ Owned(blks, q, t) /\ Apart(t, r)
    BY <1>15 DEF IInv, Holds, r
  <2>2. t \in Region /\ t.at \in Nat /\ t.b \in 1..Len(blks) /\ Words(t.len) \in Nat
    BY <2>1, WordsNat DEF Inside, Region
  <2> HIDE DEF t
  <2>3. t.b = r.b /\ Words(t.len) > 0 => t.at + Words(t.len) <= r.at
    BY SMTT(30), <1>3, <1>5, <1>13, <2>1, <2>2 DEF Inside, Apart
  <2>4. Inside(blks', j, t)
    BY SMTT(30), <1>3, <1>5, <1>12, <1>13, <2>1, <2>2, <2>3 DEF Inside
  <2>5. ASSUME NEW c \in Nat, c >= t.at, c < t.at + Words(t.len)
        PROVE  blks'[t.b].mem[c] = q
    <3>1. blks[t.b].mem[c] = q
      BY <2>1, <2>5 DEF Owned
    <3>2. CASE t.b # r.b
      BY <1>12, <2>2, <3>1, <3>2
    <3>3. CASE t.b = r.b
      <4>1. t.at + Words(t.len) <= blks[r.b].size
        BY <2>1, <3>3 DEF Inside
      <4>2. Words(t.len) > 0
        BY <2>2, <2>5
      <4>3. t.at + Words(t.len) <= r.at
        BY <2>3, <3>3, <4>2
      <4>4. c \in 0..(blks[r.b].size - 1)
        BY <1>6, <2>2, <2>5, <4>1
      <4>5. c < r.at /\ r.at <= i
        BY <1>3, <1>13, <2>2, <2>5, <4>3
      <4>6. c \notin i..(j - 1)
        BY <1>3, <1>5, <4>5
      <4> QED
        BY <1>6, <1>12, <3>1, <3>3, <4>4, <4>6
    <3> QED
      BY <3>2, <3>3
  <2>6. Apart(s, t) /\ Apart(t, s)
    BY <1>3, <1>9, <1>13, <2>2, <2>3 DEF Apart
  <2> QED
    BY <2>4, <2>5, <2>6 DEF Owned, t
<1>16. Holds(blks', j, held')
  <2>1. ASSUME NEW q \in DOMAIN held', NEW p \in DOMAIN held', q # p
        PROVE  Apart(held'[q], held'[p])
    <3>1. CASE q = o
      BY <1>10, <1>15, <2>1, <3>1
    <3>2. CASE p = o
      BY <1>10, <1>15, <2>1, <3>2
    <3>3. CASE q # o /\ p # o
      BY <1>10, <2>1, <3>3 DEF IInv, Holds
    <3> QED
      BY <3>1, <3>2, <3>3
  <2> QED
    BY <1>1, <1>10, <1>14, <1>15, <2>1 DEF Holds
<1>17. blks'[Len(blks')].size = blks[r.b].size
  BY <1>3, <1>12
<1> QED
  BY <1>5, <1>7, <1>11, <1>12, <1>16, <1>17

-----------------------------------------------------------------------------
(* Every step keeps the invariant. *)

LEMMA InitInv == Init => IInv
<1> SUFFICES ASSUME Init PROVE IInv
  OBVIOUS
<1>1. Count \in Nat \ {0}
  BY MemAssumption
<1>2. Inline \in Block
  <2> DEFINE m == [i \in 0..(Count - 1) |-> Unset]
  <2>1. m \in [0..(Count - 1) -> Cell] /\ Count - 1 \in Nat
    BY <1>1 DEF Cell
  <2> HIDE DEF m
  <2> QED
    BY <1>1, <2>1 DEF Block, Inline, m
<1>3. blks \in Seq(Block) /\ Len(blks) = 1 /\ blks[1] = Inline
  BY <1>2 DEF Init
<1>4. Sound(blks, 1)
  BY <1>1, <1>3 DEF Sound, Inline
<1>5. Chain(blks)
  BY <1>3, <1>4 DEF Chain
<1>6. mem_off \in Nat /\ mem_off <= blks[Len(blks)].size
  BY <1>1, <1>3 DEF Init, Inline
<1>7. MarkInv
  BY DEF Init, MarkInv, NoMark
<1>8. Holds(blks, mem_off, held)
  <2>1. held = <<>> /\ DOMAIN held = {}
    BY DEF Init
  <2> QED
    BY <2>1 DEF Holds
<1> QED
  BY <1>5, <1>6, <1>7, <1>8 DEF IInv

\* A mark stays good while blocks are only added.
LEMMA MarkStays ==
  ASSUME IInv, UNCHANGED mark, Len(blks') \in Nat, Len(blks') >= Len(blks),
         \A b \in 1..Len(blks) : blks'[b].size = blks[b].size
  PROVE  MarkInv'
<1>1. Len(blks) \in Nat
  BY DEF IInv, Chain
<1> QED
  BY <1>1 DEF IInv, MarkInv

LEMMA MakeInv ==
  ASSUME IInv, NEW o \in Owners, NEW n \in Sizes, Make(o, n)
  PROVE  IInv'
<1> DEFINE p == Placed(Words(n))
           keep == DOMAIN held
<1>1. n \in Nat /\ keep \in SUBSET DOMAIN held
  BY MemAssumption
<1>2. Fit(p, n, keep) /\ Len(p.blks) >= Len(blks) /\ \A b \in 1..Len(blks) : p.blks[b] = blks[b]
  BY <1>1, PlacedFits
<1>3. Give(p, o, n, NoMark, 0, keep) /\ UNCHANGED mark
  BY DEF Make
<1>4. \A c \in Nat : c < 0 => At(NoMark, c) = o
  OBVIOUS
<1> HIDE DEF p, keep
<1>5. /\ Chain(blks)'
      /\ Len(blks') = Len(p.blks)
      /\ \A b \in 1..Len(blks') : blks'[b].size = p.blks[b].size
      /\ mem_off' \in Nat /\ mem_off' <= blks'[Len(blks')].size
      /\ Holds(blks, mem_off, held)'
  BY <1>1, <1>2, <1>3, <1>4, GiveHolds
<1>6. MarkInv'
  <2>1. Len(blks) \in Nat /\ Len(blks') \in Nat
    BY <1>5 DEF IInv, Chain
  <2> QED
    BY <1>2, <1>3, <1>5, <2>1, MarkStays
<1> QED
  BY <1>5, <1>6 DEF IInv

\* All words that extend() copies are the owner's.
LEMMA CopiedOwned ==
  ASSUME IInv, NEW o \in DOMAIN held, NEW n \in Nat
  PROVE  /\ Copied(held[o].len, n) \in Nat
         /\ \A c \in Nat : c < Copied(held[o].len, n) => At(held[o], c) = o
<1> DEFINE r == held[o]
           k == Copied(r.len, n)
<1>1. Inside(blks, mem_off, r) /\ Owned(blks, o, r) /\ Chain(blks)
  BY DEF IInv, Holds
<1>2. /\ r.len \in Nat /\ r.at \in Nat /\ r.b \in 1..Len(blks)
      /\ Words(r.len) \in Nat /\ Words(n) \in Nat
  BY <1>1, WordsNat DEF Inside, Region
<1>3. blks[r.b] \in Block /\ \A c \in 0..(blks[r.b].size - 1) : c \in DOMAIN blks[r.b].mem
  BY <1>1, <1>2 DEF Chain, Sound
<1>4. blks[r.b].size \in Nat /\ r.at + Words(r.len) <= blks[r.b].size
  BY <1>1, <1>3 DEF Block, Inside
<1> HIDE DEF r
<1>5. k \in Nat /\ k <= Words(r.len)
  <2>1. CASE r.len < n
    BY <1>2, <2>1 DEF Copied
  <2>2. CASE ~ (r.len < n)
    <3>1. Words(n) <= Words(r.len)
      BY <1>2, <2>2, WordsGrow
    <3> QED
      BY <1>2, <2>2, <3>1 DEF Copied
  <2> QED
    BY <2>1, <2>2
<1> HIDE DEF k
<1>6. ASSUME NEW c \in Nat, c < k
      PROVE  At(r, c) = o
  <2>1. c < Words(r.len) /\ r.at + c \in Nat
    BY <1>2, <1>5, <1>6
  <2>2. r.at + c \in 0..(blks[r.b].size - 1)
    BY SMTT(30), <1>2, <1>4, <2>1
  <2>3. blks[r.b].mem[r.at + c] = o
    <3>1. \A i \in Nat : i >= r.at /\ i < r.at + Words(r.len) => blks[r.b].mem[i] = o
      BY <1>1 DEF Owned
    <3>2. r.at + c >= r.at /\ r.at + c < r.at + Words(r.len)
      BY <1>2, <1>6, <2>1
    <3> QED BY <2>1, <3>1, <3>2
  <2> QED
    BY <1>3, <2>2, <2>3 DEF At
<1> QED
  BY <1>5, <1>6 DEF r, k

LEMMA ExtendInv ==
  ASSUME IInv, NEW o \in Owners, NEW n \in Sizes, Extend(o, n)
  PROVE  IInv'
<1>1. n \in Nat /\ o \in DOMAIN held /\ UNCHANGED mark
  BY MemAssumption DEF Extend
<1>2. Len(blks) \in Nat
  BY DEF IInv, Chain
<1>3. CASE InPlace(held[o], n)
  <2>1. /\ Chain(blks)'
        /\ Len(blks') = Len(blks)
        /\ \A b \in 1..Len(blks') : blks'[b].size = blks[b].size
        /\ mem_off' \in Nat /\ mem_off' <= blks'[Len(blks')].size
        /\ Holds(blks, mem_off, held)'
    BY <1>1, <1>3, ExtendedHolds DEF Extend
  <2>2. MarkInv'
    BY <1>1, <1>2, <2>1, MarkStays
  <2> QED
    BY <2>1, <2>2 DEF IInv
<1>4. CASE ~ InPlace(held[o], n)
  <2> DEFINE p == Placed(Words(n))
             keep == DOMAIN held
             k == Copied(held[o].len, n)
  <2>1. keep \in SUBSET DOMAIN held
    OBVIOUS
  <2>2. Fit(p, n, keep) /\ Len(p.blks) >= Len(blks) /\ \A b \in 1..Len(blks) : p.blks[b] = blks[b]
    BY <1>1, PlacedFits
  <2>3. Give(p, o, n, held[o], k, keep)
    BY <1>4 DEF Extend
  <2>4. k \in Nat /\ \A c \in Nat : c < k => At(held[o], c) = o
    BY <1>1, CopiedOwned
  <2> DEFINE r == held[o]
  <2>5. Give(p, o, n, r, k, keep) /\ \A c \in Nat : c < k => At(r, c) = o
    BY <2>3, <2>4
  <2>6. o \in Owners /\ n \in Nat
    BY <1>1
  <2> HIDE DEF p, keep, k, r
  <2>7. /\ Chain(blks)'
        /\ Len(blks') = Len(p.blks)
        /\ \A b \in 1..Len(blks') : blks'[b].size = p.blks[b].size
        /\ mem_off' \in Nat /\ mem_off' <= blks'[Len(blks')].size
        /\ held' = Given(p, o, n, keep)
        /\ Holds(blks, mem_off, held)'
    BY <2>1, <2>2, <2>4, <2>5, <2>6, GiveHolds
  <2>8. MarkInv'
    <3>1. Len(blks') \in Nat
      BY <2>7 DEF Chain
    <3> QED
      BY <1>1, <1>2, <2>2, <2>7, <3>1, MarkStays
  <2> QED
    BY <2>7, <2>8 DEF IInv
<1> QED
  BY <1>3, <1>4

LEMMA ReuseInv ==
  ASSUME IInv, Reuse
  PROVE  IInv'
<1>1. Chain(blks) /\ 1 \in 1..Len(blks)
  BY DEF IInv, Chain
<1>2. Chain(blks)' /\ Len(blks') = 1
  BY <1>1, CutChain DEF Reuse
<1>3. blks'[1] \in Block
  BY <1>2 DEF Chain
<1>4. mem_off' \in Nat /\ mem_off' <= blks'[Len(blks')].size
  BY <1>2, <1>3 DEF Reuse, Block
<1>5. MarkInv'
  BY DEF Reuse, MarkInv, NoMark
<1>6. held' = <<>> /\ DOMAIN held' = {}
  BY DEF Reuse
<1>7. Holds(blks, mem_off, held)'
  BY <1>6 DEF Holds
<1> QED
  BY <1>2, <1>4, <1>5, <1>7 DEF IInv

LEMMA ReuseMakeInv ==
  ASSUME IInv, NEW o \in Owners, NEW n \in Sizes, ReuseMake(o, n)
  PROVE  IInv'
<1> DEFINE p == IF Len(blks) <= 2 /\ Words(n) <= blks[Len(blks)].size
                THEN [blks |-> blks, b |-> Len(blks), at |-> 0, off |-> Words(n)]
                ELSE AllocSlow(Cut(blks, 1), Words(n))
<1>1. n \in Nat /\ {} \in SUBSET DOMAIN held
  BY MemAssumption
<1>2. Fit(p, n, {})
  BY <1>1, ReusedFits
<1>3. Give(p, o, n, NoMark, 0, {}) /\ mark' = NoMark
  BY DEF ReuseMake
<1>4. \A c \in Nat : c < 0 => At(NoMark, c) = o
  OBVIOUS
<1> HIDE DEF p
<1>5. /\ Chain(blks)'
      /\ mem_off' \in Nat /\ mem_off' <= blks'[Len(blks')].size
      /\ Holds(blks, mem_off, held)'
  BY <1>1, <1>2, <1>3, <1>4, GiveHolds
<1>6. MarkInv'
  BY <1>3 DEF MarkInv, NoMark
<1> QED
  BY <1>5, <1>6 DEF IInv

LEMMA NoteInv ==
  ASSUME IInv, Note
  PROVE  IInv'
<1>1. Len(blks) \in Nat \ {0} /\ mem_off \in Nat
  BY DEF IInv, Chain
<1>2. MarkInv'
  BY <1>1 DEF IInv, MarkInv, Note
<1> QED
  BY <1>2 DEF IInv, Note

\* What was there at the mark has not moved, and what is left of the last block
\* ends before it.
LEMMA ResetInv ==
  ASSUME IInv, Reset
  PROVE  IInv'
<1>1. /\ Chain(blks) /\ Len(blks) \in Nat
      /\ mark.b \in 1..Len(blks) /\ mark.off \in Nat /\ mark.off <= blks[mark.b].size
  BY DEF IInv, Chain, MarkInv, Reset
<1>2. Chain(blks)' /\ Len(blks') = mark.b /\ \A b \in 1..mark.b : blks'[b] = blks[b]
  BY <1>1, CutChain DEF Reset
<1>3. mem_off' \in Nat /\ mem_off' <= blks'[Len(blks')].size
  BY <1>1, <1>2 DEF Reset
<1>4. MarkInv'
  BY <1>1, <1>2 DEF Reset, MarkInv, IInv
<1>5. /\ DOMAIN held' \subseteq DOMAIN held
      /\ \A o \in DOMAIN held' : held'[o] = held[o] /\ Before(held[o], mark)
  BY DEF Reset
<1>6. ASSUME NEW o \in DOMAIN held'
      PROVE  Inside(blks', mem_off', held'[o]) /\ Owned(blks', o, held'[o])
  <2> DEFINE r == held[o]
  <2>1. Inside(blks, mem_off, r) /\ Owned(blks, o, r) /\ Before(r, mark) /\ held'[o] = r
    BY <1>5, <1>6 DEF IInv, Holds
  <2> HIDE DEF r
  <2>2. r \in Region /\ r.at \in Nat /\ r.b \in 1..Len(blks) /\ Words(r.len) \in Nat
    BY <2>1, WordsNat DEF Inside, Region
  <2>3. r.b \in 1..mark.b /\ blks'[r.b] = blks[r.b]
    BY <1>1, <1>2, <2>1, <2>2 DEF Before
  <2>4. mem_off' = mark.off
    BY DEF Reset
  <2>5. Inside(blks', mem_off', r)
    BY <1>1, <1>2, <2>1, <2>2, <2>3, <2>4 DEF Inside, Before
  <2> QED
    BY <2>1, <2>3, <2>5 DEF Owned
<1>7. Holds(blks, mem_off, held)'
  BY <1>5, <1>6 DEF Holds, IInv
<1> QED
  BY <1>2, <1>3, <1>4, <1>7 DEF IInv

LEMMA NextInv == IInv /\ [Next]_vars => IInv'
<1> SUFFICES ASSUME IInv, [Next]_vars PROVE IInv'
  OBVIOUS
<1>1. ASSUME NEW o \in Owners, NEW n \in Sizes, Make(o, n) PROVE IInv'
  BY <1>1, MakeInv
<1>2. ASSUME NEW o \in Owners, NEW n \in Sizes, Extend(o, n) PROVE IInv'
  BY <1>2, ExtendInv
<1>3. ASSUME NEW o \in Owners, NEW n \in Sizes, ReuseMake(o, n) PROVE IInv'
  BY <1>3, ReuseMakeInv
<1>4. CASE Reuse
  BY <1>4, ReuseInv
<1>5. CASE Note
  BY <1>5, NoteInv
<1>6. CASE Reset
  BY <1>6, ResetInv
<1>7. CASE UNCHANGED vars
  BY <1>7 DEF vars, IInv, Chain, Sound, MarkInv, Holds, Inside, Owned
<1> QED
  BY <1>1, <1>2, <1>3, <1>4, <1>5, <1>6, <1>7 DEF Next

LEMMA Invariant == Spec => []IInv
  BY InitInv, NextInv, PTL DEF Spec

-----------------------------------------------------------------------------
(* The theorems. *)

LEMMA InvApart == IInv => MemorySound
<1> SUFFICES ASSUME IInv PROVE MemorySound
  OBVIOUS
<1>1. Chain(blks) /\ Holds(blks, mem_off, held)
  BY DEF IInv
<1>2. EdgesStand
  BY <1>1 DEF Chain, Sound, EdgesStand
<1>3. ASSUME NEW o \in DOMAIN held, NEW p \in DOMAIN held \ {o}, held[p].b = held[o].b
      PROVE  Cells(held[p]) \cap Cells(held[o]) = {}
  <2> DEFINE r == held[o]
             q == held[p]
  <2>1. Inside(blks, mem_off, r) /\ Inside(blks, mem_off, q) /\ Apart(r, q) /\ r.b = q.b
    BY <1>1, <1>3 DEF Holds
  <2>2. /\ r.at \in Nat /\ Words(r.len) \in Nat
        /\ q.at \in Nat /\ Words(q.len) \in Nat
    BY <2>1, WordsNat DEF Inside, Region
  <2> HIDE DEF r, q
  <2>3. ASSUME NEW c, c \in Cells(q), c \in Cells(r) PROVE FALSE
    BY <2>1, <2>2, <2>3 DEF Cells, Apart
  <2> QED
    BY <2>3 DEF r, q
<1>4. RegionsApart
  BY <1>1, <1>3 DEF RegionsApart, Holds, Inside
<1> QED
  BY <1>2, <1>4 DEF MemorySound

\* Whatever the size of a word and of a block, and however many blocks, no word
\* is handed out twice and no mark behind a block is overwritten: by alloc(),
\* extend(), reuse_make() or after reset().
THEOREM MemoryApart == Spec => []MemorySound
  BY Invariant, InvApart, PTL

-----------------------------------------------------------------------------
(* MemSpec is implemented: what is read depends on who holds how much only. *)

Kept == [o \in DOMAIN held |-> Read(held[o])]
Expected(h) == [o \in DOMAIN h |-> Memory!Filled(o, Words(h[o].len))]

LEMMA KeptIsExpected == IInv => Kept = Expected(held)
<1> SUFFICES ASSUME IInv PROVE Kept = Expected(held)
  OBVIOUS
<1>1. ASSUME NEW o \in DOMAIN held
      PROVE  Read(held[o]) = Memory!Filled(o, Words(held[o].len))
  <2> DEFINE r == held[o]
  <2>1. Inside(blks, mem_off, r) /\ Owned(blks, o, r) /\ Chain(blks)
    BY DEF IInv, Holds
  <2>2. r.at \in Nat /\ r.b \in 1..Len(blks) /\ Words(r.len) \in Nat
    BY <2>1, WordsNat DEF Inside, Region
  <2>3. blks[r.b] \in Block /\ \A c \in 0..(blks[r.b].size - 1) : c \in DOMAIN blks[r.b].mem
    BY <2>1, <2>2 DEF Chain, Sound
  <2>4. blks[r.b].size \in Nat /\ r.at + Words(r.len) <= blks[r.b].size
    BY <2>1, <2>3 DEF Block, Inside
  <2> HIDE DEF r
  <2>5. ASSUME NEW i \in 1..Words(r.len)
        PROVE  At(r, i - 1) = o
    <3>1. r.at + (i - 1) \in Nat /\ i - 1 \in Nat /\ i - 1 < Words(r.len)
      BY <2>2
    <3>2. r.at + (i - 1) \in 0..(blks[r.b].size - 1)
      BY <2>2, <2>4, <3>1
    <3>3. blks[r.b].mem[r.at + (i - 1)] = o
      BY <2>1, <2>2, <3>1 DEF Owned
    <3> QED
      BY <2>3, <3>2, <3>3 DEF At
  <2>6. Read(r) = [i \in 1..Words(r.len) |-> o]
    BY <2>5 DEF Read
  <2> QED
    BY <2>6 DEF Memory!Filled, r
<1> QED
  BY <1>1 DEF Kept, Expected

LEMMA KeptNext ==
  ASSUME IInv'
  PROVE  Kept' = Expected(held')
<1>1. (Kept = Expected(held))'
  BY KeptIsExpected, PTL
<1>2. (Expected(held))' = Expected(held')
  BY DEF Expected
<1> QED
  BY <1>1, <1>2

LEMMA InitMap == Init => Memory!Init
<1> SUFFICES ASSUME Init PROVE Memory!Init
  OBVIOUS
<1>1. held = <<>> /\ DOMAIN held = {}
  BY DEF Init
<1>2. [o \in DOMAIN held |-> Read(held[o])] = <<>>
  BY <1>1
<1> QED
  BY <1>2 DEF Memory!Init

\* Memory given to o, with what is kept of the others.
KeptWith(keep, o, n) ==
  [q \in keep \cup {o} |-> IF q = o THEN Memory!Filled(o, Words(n)) ELSE Kept[q]]

LEMMA GivenExpected ==
  ASSUME IInv, NEW o, NEW n, NEW keep \in SUBSET DOMAIN held, NEW p
  PROVE  Expected(Given(p, o, n, keep)) = KeptWith(keep, o, n)
<1> DEFINE h == Given(p, o, n, keep)
<1>1. DOMAIN h = keep \cup {o}
  BY DEF Given
<1>2. ASSUME NEW q \in keep \cup {o}
      PROVE  Memory!Filled(q, Words(h[q].len))
             = IF q = o THEN Memory!Filled(o, Words(n)) ELSE Kept[q]
  <2>1. CASE q = o
    <3>1. h[q].len = n
      BY <2>1 DEF Given
    <3> QED
      BY <2>1, <3>1
  <2>2. CASE q # o
    <3>1. h[q] = held[q] /\ q \in DOMAIN held
      BY <2>2 DEF Given
    <3>2. Kept[q] = Memory!Filled(q, Words(held[q].len))
      BY <3>1, KeptIsExpected DEF Expected
    <3> QED
      BY <2>2, <3>1, <3>2
  <2> QED
    BY <2>1, <2>2
<1> HIDE DEF h
<1>3. Expected(h) = [q \in keep \cup {o} |-> Memory!Filled(q, Words(h[q].len))]
  BY <1>1 DEF Expected
<1> QED
  BY <1>2, <1>3 DEF h, KeptWith

LEMMA MakeMap ==
  ASSUME IInv, IInv', NEW o \in Owners, NEW n \in Sizes, Make(o, n)
  PROVE  Memory!Get(o, n)
<1> DEFINE p == Placed(Words(n))
<1>1. held' = Given(p, o, n, DOMAIN held) /\ o \notin DOMAIN held
  BY DEF Make, Give, Given
<1> HIDE DEF p
<1>2. Kept' = [q \in DOMAIN held \cup {o} |->
                 IF q = o THEN Memory!Filled(o, Words(n)) ELSE Kept[q]]
  <2>1. Kept' = Expected(held')
    BY KeptNext
  <2>2. Expected(Given(p, o, n, DOMAIN held)) = KeptWith(DOMAIN held, o, n)
    BY GivenExpected
  <2> QED
    BY <1>1, <2>1, <2>2 DEF KeptWith
<1>3. DOMAIN Kept = DOMAIN held
  BY DEF Kept
<1> QED
  BY <1>1, <1>2, <1>3 DEF Kept, Memory!Get

LEMMA ExtendMap ==
  ASSUME IInv, IInv', NEW o \in Owners, NEW n \in Sizes, Extend(o, n)
  PROVE  Memory!Change(o, n)
<1>1. o \in DOMAIN held /\ DOMAIN Kept = DOMAIN held /\ Kept = Expected(held)
  BY KeptIsExpected DEF Extend, Kept
<1>2. DOMAIN held' = DOMAIN held /\ held'[o].len = n
      /\ \A q \in DOMAIN held : q # o => held'[q] = held[q]
  <2>1. CASE InPlace(held[o], n)
    <3>1. held' = [held EXCEPT ![o].len = n]
      BY <2>1 DEF Extend
    <3>2. held[o] \in Region
      BY <1>1 DEF IInv, Holds, Inside
    <3> QED
      BY <1>1, <3>1, <3>2 DEF Region
  <2>2. CASE ~ InPlace(held[o], n)
    <3> DEFINE p == Placed(Words(n))
    <3>1. held' = [q \in DOMAIN held \cup {o} |->
                     IF q = o THEN [b |-> p.b, at |-> p.at, len |-> n] ELSE held[q]]
      BY <2>2 DEF Extend, Give
    <3> HIDE DEF p
    <3> QED
      BY <1>1, <3>1
  <2> QED
    BY <2>1, <2>2
<1>3. Kept' = [Kept EXCEPT ![o] = Memory!Filled(o, Words(n))]
  <2>1. ASSUME NEW q \in DOMAIN held
        PROVE  Memory!Filled(q, Words(held'[q].len))
               = [Kept EXCEPT ![o] = Memory!Filled(o, Words(n))][q]
    <3>1. CASE q = o
      BY <1>1, <1>2, <3>1
    <3>2. CASE q # o
      <4>1. Kept[q] = Memory!Filled(q, Words(held[q].len))
        BY <1>1 DEF Expected
      <4> QED
        BY <1>1, <1>2, <3>2, <4>1
    <3> QED
      BY <3>1, <3>2
  <2>2. Kept' = [q \in DOMAIN held |-> Memory!Filled(q, Words(held'[q].len))]
    BY <1>2, KeptNext DEF Expected
  <2> QED
    BY <1>1, <2>1, <2>2
<1> QED
  BY <1>1, <1>3 DEF Kept, Memory!Change

LEMMA ReuseMakeMap ==
  ASSUME IInv, IInv', NEW o \in Owners, NEW n \in Sizes, ReuseMake(o, n)
  PROVE  Memory!Only(o, n)
<1> DEFINE p == IF Len(blks) <= 2 /\ Words(n) <= blks[Len(blks)].size
                THEN [blks |-> blks, b |-> Len(blks), at |-> 0, off |-> Words(n)]
                ELSE AllocSlow(Cut(blks, 1), Words(n))
<1>1. held' = Given(p, o, n, {})
  BY DEF ReuseMake, Give, Given
<1> HIDE DEF p
<1>2. Kept' = [q \in {} \cup {o} |-> IF q = o THEN Memory!Filled(o, Words(n)) ELSE Kept[q]]
  <2>1. Kept' = Expected(held')
    BY KeptNext
  <2>2. Expected(Given(p, o, n, {})) = KeptWith({}, o, n)
    BY GivenExpected
  <2> QED
    BY <1>1, <2>1, <2>2 DEF KeptWith
<1>3. Kept' = [q \in {o} |-> Memory!Filled(o, Words(n))]
  BY <1>2
<1> QED
  BY <1>3 DEF Kept, Memory!Only

\* Whoever is left holds what was held.
LEMMA LeftMap ==
  ASSUME IInv, IInv', DOMAIN held' \subseteq DOMAIN held,
         \A o \in DOMAIN held' : held'[o] = held[o]
  PROVE  \E gone \in SUBSET DOMAIN Kept : Memory!GiveBack(gone)
<1> DEFINE gone == DOMAIN held \ DOMAIN held'
<1>1. DOMAIN Kept = DOMAIN held /\ Kept = Expected(held)
  BY KeptIsExpected DEF Kept
<1>2. DOMAIN Kept \ gone = DOMAIN held'
  BY <1>1
<1>3. ASSUME NEW q \in DOMAIN held'
      PROVE  Memory!Filled(q, Words(held'[q].len)) = Kept[q]
  BY <1>1, <1>3 DEF Expected
<1>4. Kept' = [q \in DOMAIN held' |-> Memory!Filled(q, Words(held'[q].len))]
  BY KeptNext DEF Expected
<1> HIDE DEF gone
<1>5. Kept' = [q \in DOMAIN Kept \ gone |-> Kept[q]]
  BY <1>2, <1>3, <1>4
<1>6. Memory!GiveBack(gone)
  BY <1>5 DEF Kept, Memory!GiveBack
<1> QED
  BY <1>1, <1>6 DEF gone

LEMMA NextMap == IInv /\ IInv' /\ [Next]_vars => [Memory!Next]_(Memory!vars)
<1> SUFFICES ASSUME IInv, IInv', [Next]_vars PROVE [Memory!Next]_(Memory!vars)
  OBVIOUS
<1>1. ASSUME NEW o \in Owners, NEW n \in Sizes, Make(o, n) PROVE Memory!Next
  BY <1>1, MakeMap DEF Memory!Next
<1>2. ASSUME NEW o \in Owners, NEW n \in Sizes, Extend(o, n) PROVE Memory!Next
  BY <1>2, ExtendMap DEF Memory!Next
<1>3. ASSUME NEW o \in Owners, NEW n \in Sizes, ReuseMake(o, n) PROVE Memory!Next
  BY <1>3, ReuseMakeMap DEF Memory!Next
<1>4. CASE Reuse \/ Reset
  <2>1. DOMAIN held' \subseteq DOMAIN held /\ \A o \in DOMAIN held' : held'[o] = held[o]
    BY <1>4 DEF Reuse, Reset
  <2>2. \E gone \in SUBSET DOMAIN Kept : Memory!GiveBack(gone)
    BY <2>1, LeftMap
  <2> QED
    BY <2>2 DEF Kept, Memory!Next
<1>5. CASE Note \/ UNCHANGED vars
  <2>1. held' = held
    BY <1>5 DEF Note, vars
  <2>2. Kept' = Kept
    BY <2>1, KeptNext, KeptIsExpected
  <2> QED
    BY <2>2 DEF Kept, Memory!vars
<1> QED
  BY <1>1, <1>2, <1>3, <1>4, <1>5 DEF Next

\* Whoever was given memory finds in it what was written there until it is
\* given back, also when extend() copied it to another block.
THEOREM MemoryImplemented == Spec => ImplementsMem
<1>1. Spec => Memory!Spec
  BY InitMap, NextMap, Invariant, PTL DEF Spec, Memory!Spec
<1> QED
  BY <1>1 DEF ImplementsMem

-----------------------------------------------------------------------------
(* Dict: the inductive invariant. *)

Flags == SUBSET STRING
FieldEntry ==
  [fid : Fids, name : Names, ftype : STRING, fsize : Nat, flags : Flags, map : Nat]
Waiting == [fid : Fids, map : Nat]

\* An index of es says no fid of an entry but its own, from its own first fid.
IndexOf(ix, es) ==
  /\ ix.base \in Nat /\ ix.tab \in Seq(Nat)
  /\ \A k \in 1..Len(ix.tab) : ix.tab[k] # 0 =>
       ix.tab[k] \in 1..Len(es) /\ es[ix.tab[k]].fid = ix.base + k - 1

BuildInv ==
  /\ entries \in Seq(FieldEntry) /\ pending \in Seq(Waiting)
  /\ minFid \in Nat /\ maxFid \in Nat /\ forms \in Nat
  /\ IndexOf(byFid, entries)

-----------------------------------------------------------------------------
(* Dict: the operators. *)

\* The least of numbers is one of them, and the least.
LEMMA LeastIs ==
  ASSUME NEW S \in SUBSET Nat, S # {}
  PROVE  Min(S) \in S /\ \A y \in S : Min(S) <= y
<1> DEFINE R == OpToRel(<, Nat)
<1>1. \A x, y \in Nat : y < x => <<y, x>> \in R
  BY DEF OpToRel
<1>2. IsWellFoundedOn(R, Nat)
  BY NatLessThanWellFounded
<1> HIDE DEF R
<1>3. PICK x \in S : \A y \in S : ~ (<<y, x>> \in R)
  BY <1>2, WFMin
<1>4. \A y \in S : x <= y
  <2> TAKE y \in S
  <2>1. x \in Nat /\ y \in Nat /\ ~ (y < x)
    BY <1>1, <1>3
  <2> QED BY <2>1
<1> QED BY <1>4 DEF Min

\* The largest of numbers that are bounded is one of them.
LEMMA LargestIn ==
  ASSUME NEW n \in Nat, NEW S \in SUBSET (0..n), S # {}
  PROVE  Max(S) \in S
<1> DEFINE T == {n - x : x \in S}
<1>1. T \in SUBSET Nat /\ T # {}
  <2>1. \A x \in S : n - x \in Nat
    <3> TAKE x \in S
    <3>1. x \in 0..n
      OBVIOUS
    <3> QED BY <3>1
  <2> QED BY <2>1
<1>2. Min(T) \in T /\ \A t \in T : Min(T) <= t
  <2> HIDE DEF T
  <2> QED BY <1>1, LeastIs
<1>4. PICK x \in S : Min(T) = n - x
  BY <1>2
<1>5. \A y \in S : x >= y
  <2> TAKE y \in S
  <2>1. n - y \in T
    OBVIOUS
  <2>2. n - x <= n - y
    BY <1>2, <1>4, <2>1
  <2>3. x \in 0..n /\ y \in 0..n
    OBVIOUS
  <2> QED BY <2>2, <2>3
<1> QED BY <1>5 DEF Max

\* The index that get_fid_entry() makes has at each place the last entry with
\* the fid of the place.
LEMMA IndexIs ==
  ASSUME NEW es \in Seq(FieldEntry), NEW lo \in Nat, NEW hi \in Nat
  PROVE  /\ IndexOf(Index(es, lo, hi), es) /\ Index(es, lo, hi).base = lo
         /\ lo <= hi => Len(Index(es, lo, hi).tab) = hi - lo + 1
<1> DEFINE with(k) == {i \in DOMAIN es : es[i].fid = lo + k - 1}
           at(k) == Max({0} \cup with(k))
           n == IF lo <= hi THEN hi - lo + 1 ELSE 0
           t == [k \in 1..n |-> at(k)]
<1>1. Len(es) \in Nat /\ DOMAIN es = 1..Len(es)
  OBVIOUS
<1>2. ASSUME NEW k
      PROVE  at(k) \in {0} \cup with(k)
  <2> DEFINE S == {0} \cup with(k)
  <2>1. S \in SUBSET (0..Len(es)) /\ S # {}
    BY <1>1
  <2> HIDE DEF S
  <2>2. Max(S) \in S
    BY <1>1, <2>1, LargestIn
  <2> QED BY <2>2 DEF S
<1>3. n \in Nat /\ 1..(hi - lo + 1) = 1..n
  OBVIOUS
<1>4. Index(es, lo, hi) = [base |-> lo, tab |-> t]
  BY <1>3 DEF Index
<1>5. \A k \in 1..n : at(k) \in Nat
  <2> TAKE k \in 1..n
  <2>1. with(k) \subseteq Nat
    BY <1>1
  <2> HIDE DEF with, at
  <2> QED BY <1>2, <2>1
<1>6. \A k \in 1..n : at(k) # 0 => at(k) \in 1..Len(es) /\ es[at(k)].fid = lo + k - 1
  <2> TAKE k \in 1..n
  <2>1. at(k) \in {0} \cup with(k)
    BY <1>2
  <2> HIDE DEF at
  <2> QED BY <1>1, <2>1
<1> HIDE DEF at, with, n
<1>7. t \in Seq(Nat) /\ Len(t) = n /\ \A k \in 1..n : t[k] = at(k)
  BY <1>3, <1>5
<1> HIDE DEF t
<1>8. IndexOf([base |-> lo, tab |-> t], es)
  BY <1>6, <1>7 DEF IndexOf
<1> QED BY <1>4, <1>7, <1>8 DEF n

\* What get_fid_entry() leaves is an index, and what it finds an entry: the one
\* of the fid, if the index starts at the least fid.
LEMMA Found ==
  ASSUME BuildInv, NEW f \in Fids
  PROVE  /\ IndexOf(Reindexed(f), entries)
         /\ FidEntry(f) # 0 =>
              /\ FidEntry(f) \in 1..Len(entries)
              /\ Current => entries[FidEntry(f)].fid = f
<1> DEFINE ix == Reindexed(f)
           new == Index(entries, minFid, maxFid)
           k == f - minFid + 1
<1>1. f \in Nat /\ minFid \in Nat /\ maxFid \in Nat /\ IndexOf(byFid, entries)
  BY DictAssumption DEF BuildInv
<1>2. /\ IndexOf(new, entries) /\ new.base = minFid
      /\ minFid <= maxFid => Len(new.tab) = maxFid - minFid + 1
  BY IndexIs DEF BuildInv
<1> HIDE DEF new
<1>3. IndexOf(ix, entries)
  BY <1>1, <1>2 DEF Reindexed, new
<1>4. ASSUME FidEntry(f) # 0
      PROVE  /\ FidEntry(f) \in 1..Len(entries)
             /\ Current => entries[FidEntry(f)].fid = f
  <2>1. minFid <= f /\ f <= maxFid /\ FidEntry(f) = ix.tab[k]
    BY <1>1, <1>4 DEF FidEntry
  <2>2. CASE k > Len(byFid.tab) \/ byFid.tab[k] = 0
    <3>1. ix = new
      BY <1>1, <2>1, <2>2 DEF Reindexed, new
    <3>2. k \in 1..Len(new.tab) /\ new.tab[k] # 0
      BY <1>1, <1>2, <1>4, <2>1, <3>1
    <3>3. new.tab[k] \in 1..Len(entries) /\ entries[new.tab[k]].fid = minFid + k - 1
      BY <1>2, <3>2 DEF IndexOf
    <3>4. minFid + k - 1 = f
      BY <1>1
    <3> QED BY <2>1, <3>1, <3>3, <3>4
  <2>3. CASE ~ (k > Len(byFid.tab) \/ byFid.tab[k] = 0)
    <3>1. ix = byFid
      BY <1>1, <2>1, <2>3 DEF Reindexed
    <3>2. k \in 1..Len(byFid.tab) /\ byFid.tab[k] # 0
      BY <1>1, <2>1, <2>3 DEF IndexOf
    <3>3. byFid.tab[k] \in 1..Len(entries) /\ entries[byFid.tab[k]].fid = byFid.base + k - 1
      BY <1>1, <3>2 DEF IndexOf
    <3>4. Current => byFid.base + k - 1 = f
      <4>1. Current => byFid.base = minFid
        BY <3>2 DEF Current, Indexed
      <4> QED BY <1>1, <4>1
    <3> QED BY <2>1, <3>1, <3>3, <3>4
  <2> QED BY <2>2, <2>3
<1> QED BY <1>3, <1>4

\* An index stays one when entries are added, or changed but for their fids.
LEMMA IndexStays ==
  ASSUME NEW es, NEW fs, Len(es) \in Nat, Len(fs) \in Nat, Len(es) <= Len(fs),
         \A i \in 1..Len(es) : fs[i].fid = es[i].fid,
         NEW ix, IndexOf(ix, es)
  PROVE  IndexOf(ix, fs)
<1>1. 1..Len(es) \subseteq 1..Len(fs)
  OBVIOUS
<1>2. ASSUME NEW k \in 1..Len(ix.tab), ix.tab[k] # 0
      PROVE  ix.tab[k] \in 1..Len(fs) /\ fs[ix.tab[k]].fid = ix.base + k - 1
  <2>1. ix.tab[k] \in 1..Len(es) /\ es[ix.tab[k]].fid = ix.base + k - 1
    BY <1>2 DEF IndexOf
  <2> QED BY <1>1, <2>1
<1> QED BY <1>2 DEF IndexOf

\* One element of a sequence takes another value.
LEMMA Replaced ==
  ASSUME NEW T, NEW s \in Seq(T), NEW i \in 1..Len(s), NEW r \in T
  PROVE  /\ [s EXCEPT ![i] = r] \in Seq(T) /\ Len([s EXCEPT ![i] = r]) = Len(s)
         /\ \A j \in 1..Len(s) : [s EXCEPT ![i] = r][j] = IF j = i THEN r ELSE s[j]
  OBVIOUS

\* An entry that gets another map keeps its fid, the others stay.
LEMMA Remapped ==
  ASSUME NEW es \in Seq(FieldEntry), NEW i \in 1..Len(es), NEW m \in Nat,
         NEW fs, fs = [es EXCEPT ![i].map = m]
  PROVE  /\ fs \in Seq(FieldEntry) /\ Len(fs) = Len(es)
         /\ \A j \in 1..Len(es) : fs[j].fid = es[j].fid
         /\ \A j \in 1..Len(es) : fs[j].map # es[j].map => j = i
<1> DEFINE r == [es[i] EXCEPT !.map = m]
<1>1. es[i] \in FieldEntry
  OBVIOUS
<1>2. r \in FieldEntry /\ r.fid = es[i].fid
  BY <1>1 DEF FieldEntry
<1>3. fs = [es EXCEPT ![i] = r]
  OBVIOUS
<1> HIDE DEF r
<1>4. /\ fs \in Seq(FieldEntry) /\ Len(fs) = Len(es)
      /\ \A j \in 1..Len(es) : fs[j] = IF j = i THEN r ELSE es[j]
  BY <1>2, <1>3, Replaced
<1> QED BY <1>2, <1>4

\* One that gets other flags keeps its map, too.
LEMMA Reflagged ==
  ASSUME NEW es \in Seq(FieldEntry), NEW i \in 1..Len(es), NEW x \in Flags,
         NEW fs, fs = [es EXCEPT ![i].flags = x]
  PROVE  /\ fs \in Seq(FieldEntry) /\ Len(fs) = Len(es)
         /\ \A j \in 1..Len(es) : fs[j].fid = es[j].fid
         /\ \A j \in 1..Len(es) : fs[j].map = es[j].map
<1> DEFINE r == [es[i] EXCEPT !.flags = x]
<1>1. es[i] \in FieldEntry
  OBVIOUS
<1>2. r \in FieldEntry /\ r.fid = es[i].fid /\ r.map = es[i].map
  BY <1>1 DEF FieldEntry
<1>3. fs = [es EXCEPT ![i] = r]
  OBVIOUS
<1> HIDE DEF r
<1>4. /\ fs \in Seq(FieldEntry) /\ Len(fs) = Len(es)
      /\ \A j \in 1..Len(es) : fs[j] = IF j = i THEN r ELSE es[j]
  BY <1>2, <1>3, Replaced
<1> QED BY <1>2, <1>4

\* What is taken out of a sequence is all that is missing.
LEMMA Removed ==
  ASSUME NEW T, NEW s \in Seq(T), NEW w \in 1..Len(s)
  PROVE  /\ RemoveAt(s, w) \in Seq(T)
         /\ \A i \in 1..Len(s) : i # w => s[i] \in ToSet(RemoveAt(s, w))
<1> DEFINE a == SubSeq(s, 1, w - 1)
           b == SubSeq(s, w + 1, Len(s))
           r == RemoveAt(s, w)
<1>1. /\ w \in Nat /\ Len(s) \in Nat /\ w - 1 \in Int /\ w + 1 \in Int
      /\ \A i \in 1..(w - 1) : s[i] \in T
      /\ \A i \in (w + 1)..Len(s) : s[i] \in T
  OBVIOUS
<1>2. /\ a \in Seq(T) /\ Len(a) = w - 1
      /\ \A i \in 1..(w - 1) : a[i] = s[i]
  <2>1. /\ a \in Seq(T) /\ Len(a) = IF 1 <= w - 1 THEN w - 1 - 1 + 1 ELSE 0
        /\ \A i \in 1..(w - 1 - 1 + 1) : a[i] = s[1 + i - 1]
    BY <1>1, SubSeqProperties
  <2> HIDE DEF a
  <2> QED BY <1>1, <2>1
<1>3. /\ b \in Seq(T) /\ Len(b) = Len(s) - w
      /\ \A i \in 1..(Len(s) - w) : b[i] = s[w + i]
  <2>1. /\ b \in Seq(T) /\ Len(b) = IF w + 1 <= Len(s) THEN Len(s) - (w + 1) + 1 ELSE 0
        /\ \A i \in 1..(Len(s) - (w + 1) + 1) : b[i] = s[w + 1 + i - 1]
    BY <1>1, SubSeqProperties
  <2> HIDE DEF b
  <2>2. Len(b) = Len(s) - w /\ Len(s) - (w + 1) + 1 = Len(s) - w
    BY <1>1, <2>1
  <2>3. \A i \in 1..(Len(s) - w) : w + 1 + i - 1 = w + i
    BY <1>1
  <2> QED BY <2>1, <2>2, <2>3
<1>4. r = a \o b
  BY DEF RemoveAt
<1> HIDE DEF a, b, r
<1>5. /\ r \in Seq(T) /\ Len(r) = (w - 1) + (Len(s) - w)
      /\ \A i \in 1..Len(r) : r[i] = IF i <= w - 1 THEN a[i] ELSE b[i - (w - 1)]
  <2>1. /\ r \in Seq(T) /\ Len(r) = Len(a) + Len(b)
        /\ \A i \in 1..(Len(a) + Len(b)) : r[i] = IF i <= Len(a) THEN a[i] ELSE b[i - Len(a)]
    BY <1>2, <1>3, <1>4, ConcatProperties
  <2> QED BY <1>2, <1>3, <2>1
<1>6. ASSUME NEW i \in 1..Len(s), i # w
      PROVE  \E j \in DOMAIN r : r[j] = s[i]
  <2>1. CASE i < w
    <3>1. i \in 1..Len(r) /\ i \in 1..(w - 1)
      BY <1>1, <1>5, <2>1
    <3> QED BY <1>1, <1>2, <1>5, <3>1
  <2>2. CASE i > w
    <3>1. i - 1 \in 1..Len(r) /\ ~ (i - 1 <= w - 1)
          /\ (i - 1) - (w - 1) \in 1..(Len(s) - w) /\ w + ((i - 1) - (w - 1)) = i
      BY <1>1, <1>5, <2>2
    <3>2. r[i - 1] = b[(i - 1) - (w - 1)]
      BY <1>5, <3>1
    <3> QED BY <1>3, <1>5, <3>1, <3>2
  <2> QED BY <1>1, <1>6, <2>1, <2>2
<1> QED BY <1>5, <1>6 DEF ToSet, r

\* What is put into a sequence displaces nothing.
LEMMA Inserted ==
  ASSUME NEW T, NEW s \in Seq(T), NEW w \in 1..(Len(s) + 1), NEW e \in T
  PROVE  /\ InsertAt(s, w, e) \in Seq(T)
         /\ \A i \in 1..Len(s) : s[i] \in ToSet(InsertAt(s, w, e))
<1> DEFINE a == SubSeq(s, 1, w - 1)
           b == SubSeq(s, w, Len(s))
           c == a \o <<e>>
           r == InsertAt(s, w, e)
<1>1. /\ w \in Nat /\ Len(s) \in Nat /\ w - 1 \in Int
      /\ \A i \in 1..(w - 1) : s[i] \in T
      /\ \A i \in w..Len(s) : s[i] \in T
  OBVIOUS
<1>2. /\ a \in Seq(T) /\ Len(a) = w - 1
      /\ \A i \in 1..(w - 1) : a[i] = s[i]
  <2>1. /\ a \in Seq(T) /\ Len(a) = IF 1 <= w - 1 THEN w - 1 - 1 + 1 ELSE 0
        /\ \A i \in 1..(w - 1 - 1 + 1) : a[i] = s[1 + i - 1]
    BY <1>1, SubSeqProperties
  <2> HIDE DEF a
  <2> QED BY <1>1, <2>1
<1>3. /\ b \in Seq(T) /\ Len(b) = Len(s) - w + 1
      /\ \A i \in 1..(Len(s) - w + 1) : b[i] = s[w + i - 1]
  <2>1. /\ b \in Seq(T) /\ Len(b) = IF w <= Len(s) THEN Len(s) - w + 1 ELSE 0
        /\ \A i \in 1..(Len(s) - w + 1) : b[i] = s[w + i - 1]
    BY <1>1, SubSeqProperties
  <2> HIDE DEF b
  <2> QED BY <1>1, <2>1
<1>4. r = c \o b
  BY DEF InsertAt
<1>5. <<e>> \in Seq(T) /\ Len(<<e>>) = 1
  OBVIOUS
<1> HIDE DEF a, b, r
<1>6. /\ c \in Seq(T) /\ Len(c) = w
      /\ \A i \in 1..(w - 1) : c[i] = a[i]
  <2>1. /\ c \in Seq(T) /\ Len(c) = (w - 1) + 1
        /\ \A i \in 1..((w - 1) + 1) : c[i] = IF i <= w - 1 THEN a[i] ELSE << e >>[i - (w - 1)]
    BY <1>2, <1>5, ConcatProperties
  <2> HIDE DEF c
  <2> QED BY <1>1, <2>1
<1> HIDE DEF c
<1>7. /\ r \in Seq(T) /\ Len(r) = w + (Len(s) - w + 1)
      /\ \A i \in 1..Len(r) : r[i] = IF i <= w THEN c[i] ELSE b[i - w]
  BY <1>3, <1>4, <1>6, ConcatProperties
<1>8. ASSUME NEW i \in 1..Len(s)
      PROVE  \E j \in DOMAIN r : r[j] = s[i]
  <2>1. CASE i < w
    <3>1. i \in 1..Len(r) /\ i \in 1..(w - 1) /\ i <= w
      BY <1>1, <1>7, <2>1
    <3>2. r[i] = s[i]
      BY <1>2, <1>6, <1>7, <3>1
    <3> QED BY <1>7, <3>1, <3>2
  <2>2. CASE i >= w
    <3>1. i + 1 \in 1..Len(r) /\ ~ (i + 1 <= w)
          /\ (i + 1) - w \in 1..(Len(s) - w + 1) /\ w + ((i + 1) - w) - 1 = i
      BY <1>1, <1>7, <2>2
    <3>2. r[i + 1] = b[(i + 1) - w]
      BY <1>7, <3>1
    <3>3. r[i + 1] = s[i]
      BY <1>3, <3>1, <3>2
    <3> QED BY <1>7, <3>1, <3>3
  <2> QED BY <1>1, <2>1, <2>2
<1> QED BY <1>7, <1>8 DEF ToSet, r

\* What waits for a fid: add_entry() takes the first.
LEMMA AwaitedIs ==
  ASSUME BuildInv, NEW f \in Fids, Awaited(f) # 0
  PROVE  Awaited(f) \in 1..Len(pending) /\ pending[Awaited(f)].fid = f
<1> DEFINE at == {i \in DOMAIN pending : f >= pending[i].fid}
<1>1. at # {} /\ pending[Min(at)].fid = f /\ Awaited(f) = Min(at)
  BY DEF Awaited
<1>2. at \in SUBSET (1..Len(pending)) /\ Len(pending) \in Nat
  BY DEF BuildInv
<1> HIDE DEF at
<1>3. at \in SUBSET Nat
  BY <1>2
<1>4. Min(at) \in at
  BY <1>1, <1>3, LeastIs
<1> QED BY <1>1, <1>2, <1>4

\* An enumeration that waits displaces none that does.
LEMMA QueuedIs ==
  ASSUME NEW q \in Seq(Waiting), NEW f \in Fids, NEW m \in Nat
  PROVE  /\ Queued(q, f, m) \in Seq(Waiting)
         /\ \A i \in 1..Len(q) : q[i] \in ToSet(Queued(q, f, m))
<1> DEFINE S == {j \in DOMAIN q : q[j].fid < f}
           n == Cardinality(S)
           e == [fid |-> f, map |-> m]
<1>1. CASE \E i \in DOMAIN q : q[i].fid = f
  BY <1>1 DEF Queued, ToSet
<1>2. CASE ~ \E i \in DOMAIN q : q[i].fid = f
  <2>1. IsFiniteSet(1..Len(q)) /\ Cardinality(1..Len(q)) = Len(q) /\ Len(q) \in Nat
    <3>1. Len(q) \in Nat
      OBVIOUS
    <3>2. 1 \in Int /\ Len(q) \in Int
      BY <3>1
    <3>3. /\ IsFiniteSet(1..Len(q))
          /\ Cardinality(1..Len(q)) = IF 1 > Len(q) THEN 0 ELSE Len(q) - 1 + 1
      BY <3>2, FS_Interval
    <3> QED BY <3>1, <3>3
  <2>2. S \in SUBSET (1..Len(q))
    OBVIOUS
  <2> HIDE DEF S
  <2>3. IsFiniteSet(S) /\ Cardinality(S) <= Len(q)
    BY <2>1, <2>2, FS_Subset
  <2>4. n \in Nat
    BY <2>3, FS_CardinalityType
  <2> HIDE DEF n
  <2>5. n + 1 \in 1..(Len(q) + 1)
    BY <2>1, <2>3, <2>4 DEF n
  <2>6. e \in Waiting
    BY DEF Waiting
  <2>7. Queued(q, f, m) = InsertAt(q, n + 1, e)
    BY <1>2 DEF Queued, n, S
  <2> HIDE DEF e
  <2> QED BY <2>5, <2>6, <2>7, Inserted
<1> QED BY <1>1, <1>2

-----------------------------------------------------------------------------
(* Dict: the steps.  Each keeps the invariant and changes its own field only. *)

LEMMA InitBuild == BuildInit => BuildInv
<1> SUFFICES ASSUME BuildInit PROVE BuildInv
  OBVIOUS
<1>1. entries = << >> /\ pending = << >> /\ byFid = [base |-> 0, tab |-> << >>]
      /\ minFid = 0 /\ maxFid = 0 /\ forms = 0
  BY DEF BuildInit
<1>2. IndexOf(byFid, entries)
  BY <1>1 DEF IndexOf
<1> QED BY <1>1, <1>2 DEF BuildInv

LEMMA RedeclareStep ==
  ASSUME BuildInv, NEW f \in Fids, NEW n \in Names, NEW k \in EntryKinds, Redeclare(f, n, k)
  PROVE  BuildInv' /\ OwnStep
<1>1. k.flags \in SUBSET STRING
  BY DictAssumption
<1>2. /\ entries' = [entries EXCEPT ![NameEntry(n)].flags = @ \cup k.flags]
      /\ UNCHANGED <<byFid, minFid, maxFid, pending, forms>>
  BY DEF Redeclare
<1>3. entries \in Seq(FieldEntry) /\ Len(entries) \in Nat /\ DOMAIN entries = 1..Len(entries)
      /\ IndexOf(byFid, entries)
  BY DEF BuildInv
<1>4. /\ entries' \in Seq(FieldEntry) /\ Len(entries') = Len(entries)
      /\ \A j \in 1..Len(entries) :
           entries'[j].fid = entries[j].fid /\ entries'[j].map = entries[j].map
  <2> DEFINE i == NameEntry(n)
             x == entries[i].flags \cup k.flags
             fs == [entries EXCEPT ![i].flags = x]
  <2>1. fs = [entries EXCEPT ![i].flags = x] /\ entries' = fs
    BY <1>2
  <2>2. entries \in Seq(FieldEntry)
    BY <1>3
  <2>3. CASE i \in 1..Len(entries)
    <3>1. entries[i] \in FieldEntry
      BY <1>3, <2>3
    <3>2. x \in Flags
      BY <1>1, <3>1 DEF FieldEntry, Flags
    <3> HIDE DEF i, x, fs
    <3>3. /\ fs \in Seq(FieldEntry) /\ Len(fs) = Len(entries)
          /\ \A j \in 1..Len(entries) : fs[j].fid = entries[j].fid
          /\ \A j \in 1..Len(entries) : fs[j].map = entries[j].map
      BY ONLY <2>1, <2>2, <2>3, <3>2, Reflagged
    <3> QED BY <2>1, <3>3
  <2>4. CASE i \notin 1..Len(entries)
    <3> HIDE DEF i, x
    <3>1. entries = [j \in DOMAIN entries |-> entries[j]]
      BY <1>3
    <3>2. fs = entries
      BY <1>3, <2>4, <3>1
    <3> QED BY <1>3, <2>1, <3>2
  <2> QED BY <2>3, <2>4
<1>5. IndexOf(byFid, entries')
  BY <1>3, <1>4, IndexStays
<1>6. BuildInv'
  BY <1>2, <1>4, <1>5 DEF BuildInv
<1>7. OwnStep
  BY <1>2, <1>3, <1>4 DEF OwnStep, EntryNo, ToSet
<1> QED BY <1>6, <1>7

LEMMA DeclareStep ==
  ASSUME BuildInv, NEW f \in Fids, NEW n \in Names, NEW k \in EntryKinds, Declare(f, n, k)
  PROVE  BuildInv' /\ OwnStep
<1> DEFINE w == IF k.ftype = "enum" THEN Awaited(f) ELSE 0
           m == IF w = 0 THEN 0 ELSE pending[w].map
           e == Declared(f, n, k, m)
<1>1. /\ entries' = Append(entries, e)
      /\ pending' = IF w = 0 THEN pending ELSE RemoveAt(pending, w)
      /\ maxFid' = IF entries = <<>> \/ f > maxFid THEN f ELSE maxFid
      /\ minFid' = IF entries = <<>> \/ f < minFid THEN f ELSE minFid
      /\ UNCHANGED <<byFid, forms>>
  BY DEF Declare
<1>2. entries \in Seq(FieldEntry) /\ Len(entries) \in Nat /\ DOMAIN entries = 1..Len(entries)
      /\ pending \in Seq(Waiting) /\ DOMAIN pending = 1..Len(pending)
      /\ IndexOf(byFid, entries) /\ minFid \in Nat /\ maxFid \in Nat /\ forms \in Nat
  BY DEF BuildInv
<1>3. w # 0 => w \in 1..Len(pending) /\ pending[w].fid = f
  BY AwaitedIs
<1> HIDE DEF w
<1>4. m \in Nat
  <2>1. CASE w = 0
    BY <2>1
  <2>2. CASE w # 0
    <3>1. pending[w] \in Waiting
      BY <1>2, <1>3, <2>2
    <3> QED BY <2>2, <3>1 DEF Waiting
  <2> QED BY <2>1, <2>2
<1> HIDE DEF m
<1>5. e \in FieldEntry /\ e.fid = f /\ e.map = m
  <2>1. k \in [ftype : STRING, fsize : Nat, flags : SUBSET STRING]
    BY DictAssumption
  <2> QED BY <1>4, <2>1 DEF Declared, FieldEntry, Flags
<1> HIDE DEF e
<1>6. /\ entries' \in Seq(FieldEntry) /\ Len(entries') = Len(entries) + 1
      /\ \A i \in 1..Len(entries) : entries'[i] = entries[i]
      /\ entries'[Len(entries) + 1] = e
  BY <1>1, <1>2, <1>5, AppendProperties
<1>7. IndexOf(byFid, entries')
  BY <1>2, <1>6, IndexStays
<1>8. /\ pending' \in Seq(Waiting)
      /\ \A i \in 1..Len(pending) : pending[i] \notin ToSet(pending') => w # 0 /\ i = w
  <2>1. CASE w = 0
    BY <1>1, <1>2, <2>1 DEF ToSet
  <2>2. CASE w # 0
    BY <1>1, <1>2, <1>3, <2>2, Removed
  <2> QED BY <2>1, <2>2
<1>9. BuildInv'
  <2>1. f \in Nat
    BY DictAssumption
  <2>2. minFid' \in Nat /\ maxFid' \in Nat
    BY <1>1, <1>2, <2>1
  <2> QED BY <1>1, <1>2, <1>6, <1>7, <1>8, <2>2 DEF BuildInv
<1>10. OwnStep
  <2>1. ASSUME NEW i \in DOMAIN pending, pending[i] \notin ToSet(pending')
        PROVE  /\ Len(entries') > Len(entries)
               /\ Last(entries').fid = pending[i].fid
               /\ Last(entries').map = pending[i].map
    <3>1. w # 0 /\ i = w
      BY <1>2, <1>8, <2>1
    <3>2. Last(entries') = e
      BY <1>6 DEF Last
    <3>3. m = pending[w].map
      BY <3>1 DEF m
    <3> QED BY <1>2, <1>3, <1>5, <1>6, <3>1, <3>2, <3>3
  <2>2. \A i \in DOMAIN entries : entries'[i].map = EntryNo(i).map
    BY <1>2, <1>6 DEF EntryNo
  <2> QED BY <2>1, <2>2 DEF OwnStep
<1> QED BY <1>9, <1>10

\* Steps that name a map for a fid, of which what waits keeps what it had.
LEMMA MapStep ==
  ASSUME BuildInv, NEW f \in Fids, NEW m \in Nat,
         byFid' = Reindexed(f) /\ UNCHANGED <<minFid, maxFid>>,
         \/ UNCHANGED entries
         \/ FidEntry(f) # 0 /\ entries' = [entries EXCEPT ![FidEntry(f)].map = m],
         pending' \in Seq(Waiting),
         \A i \in 1..Len(pending) : pending[i] \in ToSet(pending'),
         forms' \in Nat,
         (\E p \in MapNums : UpdateEnum(f, p)) \/ AddForm(f)
  PROVE  BuildInv' /\ (Current => OwnStep)
<1> DEFINE i == FidEntry(f)
<1>1. entries \in Seq(FieldEntry) /\ Len(entries) \in Nat /\ DOMAIN entries = 1..Len(entries)
      /\ DOMAIN pending = 1..Len(pending) /\ minFid \in Nat /\ maxFid \in Nat
  BY DEF BuildInv
<1>2. /\ IndexOf(Reindexed(f), entries)
      /\ i # 0 => i \in 1..Len(entries) /\ (Current => entries[i].fid = f)
  BY Found
<1>3. UNCHANGED entries \/ (i # 0 /\ entries' = [entries EXCEPT ![i].map = m])
  OBVIOUS
<1> HIDE DEF i
<1>4. /\ entries' \in Seq(FieldEntry) /\ Len(entries') = Len(entries)
      /\ \A j \in 1..Len(entries) : entries'[j].fid = entries[j].fid
      /\ \A j \in 1..Len(entries) : entries'[j].map # entries[j].map => i # 0 /\ j = i
  <2>1. CASE UNCHANGED entries
    BY <1>1, <2>1
  <2>2. CASE i # 0 /\ entries' = [entries EXCEPT ![i].map = m]
    <3>1. i \in 1..Len(entries)
      BY <1>2, <2>2
    <3>2. m \in Nat
      OBVIOUS
    <3>3. entries \in Seq(FieldEntry)
      BY <1>1
    <3> DEFINE fs == [entries EXCEPT ![i].map = m]
    <3>4. fs = [entries EXCEPT ![i].map = m]
      OBVIOUS
    <3> HIDE DEF fs
    <3>5. /\ fs \in Seq(FieldEntry) /\ Len(fs) = Len(entries)
          /\ \A j \in 1..Len(entries) : fs[j].fid = entries[j].fid
          /\ \A j \in 1..Len(entries) : fs[j].map # entries[j].map => j = i
      BY ONLY <3>1, <3>2, <3>3, <3>4, Remapped
    <3> QED BY <2>2, <3>4, <3>5
  <2> QED BY <1>3, <2>1, <2>2
<1>5. IndexOf(byFid', entries')
  BY <1>1, <1>2, <1>4, IndexStays
<1>6. BuildInv'
  BY <1>1, <1>4, <1>5 DEF BuildInv
<1>7. ASSUME Current
      PROVE  OwnStep
  <2>1. \A j \in DOMAIN entries : entries'[j].map # EntryNo(j).map => EntryNo(j).fid = f
    BY <1>1, <1>2, <1>4, <1>7 DEF EntryNo
  <2> QED BY <1>1, <2>1 DEF OwnStep
<1> QED BY <1>6, <1>7

LEMMA UpdateEnumStep ==
  ASSUME BuildInv, NEW f \in Fids, NEW m \in MapNums, UpdateEnum(f, m)
  PROVE  BuildInv' /\ (Current => OwnStep)
<1>1. m \in Nat
  BY DictAssumption DEF MapNums
<1>2. /\ byFid' = Reindexed(f)
      /\ UNCHANGED <<minFid, maxFid, forms>>
      /\ \/ UNCHANGED entries
         \/ FidEntry(f) # 0 /\ entries' = [entries EXCEPT ![FidEntry(f)].map = m]
      /\ pending' = Queued(pending, f, m) \/ UNCHANGED pending
  BY DEF UpdateEnum
<1>3. pending \in Seq(Waiting) /\ forms \in Nat
  BY DEF BuildInv
<1>4. /\ pending' \in Seq(Waiting)
      /\ \A i \in 1..Len(pending) : pending[i] \in ToSet(pending')
  <2>1. CASE pending' = Queued(pending, f, m)
    BY <1>1, <1>3, <2>1, QueuedIs
  <2>2. CASE UNCHANGED pending
    BY <1>3, <2>2 DEF ToSet
  <2> QED BY <1>2, <2>1, <2>2
<1> QED BY <1>1, <1>2, <1>3, <1>4, MapStep

LEMMA AddFormStep ==
  ASSUME BuildInv, NEW f \in Fids, AddForm(f)
  PROVE  BuildInv' /\ (Current => OwnStep)
<1> DEFINE m == IF forms = 0 THEN 1 ELSE forms
<1>1. pending \in Seq(Waiting) /\ forms \in Nat
  BY DEF BuildInv
<1>2. m \in Nat
  BY <1>1
<1>3. /\ byFid' = Reindexed(f) /\ forms' = m + 1
      /\ UNCHANGED <<minFid, maxFid, pending>>
      /\ \/ UNCHANGED entries
         \/ FidEntry(f) # 0 /\ entries' = [entries EXCEPT ![FidEntry(f)].map = m]
  BY DEF AddForm
<1> HIDE DEF m
<1>4. /\ pending' \in Seq(Waiting) /\ forms' \in Nat
      /\ \A i \in 1..Len(pending) : pending[i] \in ToSet(pending')
  BY <1>1, <1>2, <1>3 DEF ToSet
<1> QED BY <1>2, <1>3, <1>4, MapStep

LEMMA OtherStep ==
  ASSUME BuildInv, (\E m \in MapNums : AddEnumMap(m)) \/ IndexDict \/ UNCHANGED buildvars
  PROVE  BuildInv' /\ OwnStep
<1>1. UNCHANGED <<entries, byFid, minFid, maxFid, pending, forms>>
  BY DEF AddEnumMap, IndexDict, buildvars
<1>2. BuildInv'
  BY <1>1 DEF BuildInv
<1>3. OwnStep
  BY <1>1 DEF OwnStep, EntryNo, ToSet
<1> QED BY <1>2, <1>3

LEMMA BuildStep ==
  BuildInv /\ [BuildNext]_buildvars => BuildInv' /\ (Current => OwnStep)
<1> SUFFICES ASSUME BuildInv, [BuildNext]_buildvars
             PROVE  BuildInv' /\ (Current => OwnStep)
  OBVIOUS
<1>1. ASSUME NEW f \in Fids, NEW n \in Names, NEW k \in EntryKinds,
             Redeclare(f, n, k) \/ Declare(f, n, k)
      PROVE  BuildInv' /\ (Current => OwnStep)
  BY <1>1, RedeclareStep, DeclareStep
<1>2. ASSUME NEW f \in Fids, NEW m \in MapNums, UpdateEnum(f, m)
      PROVE  BuildInv' /\ (Current => OwnStep)
  BY <1>2, UpdateEnumStep
<1>3. ASSUME NEW f \in Fids, AddForm(f)
      PROVE  BuildInv' /\ (Current => OwnStep)
  BY <1>3, AddFormStep
<1>4. CASE (\E m \in MapNums : AddEnumMap(m)) \/ IndexDict \/ UNCHANGED buildvars
  BY <1>4, OtherStep
<1> QED BY <1>1, <1>2, <1>3, <1>4 DEF BuildNext

LEMMA BuildInvariant == BuildSpec => []BuildInv
  BY InitBuild, BuildStep, PTL DEF BuildSpec

\* An enumeration or a form changes no entry but one of the fid it is named for,
\* and an enumeration that waits goes only to an entry of its fid, as long as the
\* index starts at the least fid.
THEOREM FieldsKeptApart == BuildSpec => OwnField
<1>1. BuildInv /\ [BuildNext]_buildvars => [Current => OwnStep]_buildvars
  BY BuildStep
<1> QED BY <1>1, BuildInvariant, PTL DEF BuildSpec, OwnField

\* What get_fid_entry() finds has the fid, as long as the index starts at the
\* least fid: IndexByFid fails only behind a fid that comes below the others.
THEOREM CurrentIndex == BuildSpec => [](Current => IndexByFid)
<1>1. BuildInv => (Current => IndexByFid)
  BY Found DEF IndexByFid, EntryNo
<1> QED BY <1>1, BuildInvariant, PTL
=============================================================================
