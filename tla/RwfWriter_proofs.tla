-------------------------- MODULE RwfWriter_proofs --------------------------
(***************************************************************************)
(* Proofs about RwfWriter, for buffers, limits and prefixes of any size,   *)
(* memory found anywhere, any kinds and fields, and any number of calls:   *)
(* the windows of the open writers nest, and nothing is written outside of *)
(* the memory of the outermost one but by the two calls that ask for less  *)
(* room than they take, or through a window left behind when it moved.     *)
(*                                                                         *)
(* Neither is inductive alone.  A header or a length is in the memory      *)
(* because its window is, because the parent kept room for the length      *)
(* before the window (Child), and because the container was found to have  *)
(* room for its header first.  That a writer not the innermost appends     *)
(* nothing needs a key with attributes to refuse all else (Child), and     *)
(* that what a call adds fits needs the containers in its way to be gone   *)
(* when it is added (Control).                                             *)
(*                                                                         *)
(* A call is one expression on the state.  Each operator it is made of is  *)
(* shown to be a Step: it leaves the state sound, or marked, with the same *)
(* writers; the end of a container is an After, with one writer less.      *)
(***************************************************************************)
EXTENDS RwfWriter, SequenceTheorems, TLAPS

-----------------------------------------------------------------------------
(* Sequences of anything. *)

\* A sequence, of whatever.
IsSeq(c) == Len(c) \in Nat /\ c = [k \in 1..Len(c) |-> c[k]]

\* A function on 1..n is a sequence of length n.
LEMMA FunIsSeq ==
  ASSUME NEW n \in Nat, NEW f, f = [k \in 1..n |-> f[k]]
  PROVE  IsSeq(f) /\ Len(f) = n
<1> DEFINE S == {f[k] : k \in 1..n}
<1>1. f \in [1..n -> S]
  OBVIOUS
<1> HIDE DEF S
<1>2. f \in Seq(S) /\ Len(f) = n
  BY <1>1
<1> QED BY <1>2 DEF IsSeq

\* What is in Seq(S) is a sequence here.
LEMMA SeqIs ==
  ASSUME NEW S, NEW c \in Seq(S)
  PROVE  IsSeq(c)
BY DEF IsSeq

\* The concatenation of sequences is one, as long as both.
LEMMA Concat ==
  ASSUME NEW a, NEW b, IsSeq(a), IsSeq(b)
  PROVE  IsSeq(a \o b) /\ Len(a \o b) = Len(a) + Len(b)
<1> DEFINE S == {a[k] : k \in 1..Len(a)} \cup {b[k] : k \in 1..Len(b)}
<1>1. a \in [1..Len(a) -> S] /\ b \in [1..Len(b) -> S]
  BY DEF IsSeq
<1> HIDE DEF S
<1>2. a \in Seq(S) /\ b \in Seq(S)
  BY <1>1 DEF IsSeq
<1>3. a \o b \in Seq(S) /\ Len(a \o b) = Len(a) + Len(b)
  BY <1>2
<1> QED BY <1>3, SeqIs

\* A sequence with a member replaced.
Replaces(d, c, i, e) == d = [c EXCEPT ![i] = e]

\* A sequence with a member replaced is a sequence of that length, with the
\* others where they were.
LEMMA ReplacedAt ==
  ASSUME NEW c, IsSeq(c), NEW i, NEW e, NEW d, Replaces(d, c, i, e)
  PROVE  /\ IsSeq(d) /\ Len(d) = Len(c)
         /\ \A k \in 1..Len(c) : d[k] = IF k = i THEN e ELSE c[k]
<1>1. DOMAIN c = 1..Len(c) /\ Len(c) \in Nat
  BY DEF IsSeq
<1>2. d = [k \in DOMAIN c |-> IF k = i THEN e ELSE c[k]]
  BY DEF IsSeq, Replaces
<1>3. d = [k \in 1..Len(c) |-> d[k]]
  BY <1>1, <1>2
<1>4. IsSeq(d) /\ Len(d) = Len(c)
  BY <1>1, <1>3, FunIsSeq
<1>5. \A k \in 1..Len(c) : d[k] = IF k = i THEN e ELSE c[k]
  BY <1>1, <1>2
<1> QED BY <1>4, <1>5

\* A number of one, two or four bytes takes as many cells.
LEMMA Numbers ==
  ASSUME NEW x
  PROVE  /\ IsSeq(U8(x)) /\ Len(U8(x)) = 1
         /\ IsSeq(U16(x)) /\ Len(U16(x)) = 2
         /\ IsSeq(U32(x)) /\ Len(U32(x)) = 4
BY DEF U8, U16, U32, IsSeq

\* Cells passed over are as many as asked for.
LEMMA Blanks ==
  ASSUME NEW n \in Nat
  PROVE  IsSeq(Blank(n)) /\ Len(Blank(n)) = n
BY FunIsSeq DEF Blank

\* No cells are a sequence of length zero.
LEMMA Empty == IsSeq(<<>>) /\ Len(<<>>) = 0
BY DEF IsSeq

-----------------------------------------------------------------------------
(* The state of writers and memory. *)

\* The names of the fields of a writer.
WriterFields == {"type", "opt", "buf", "off", "len", "pre", "bits", "slot", "key", "err", "done",
                 "ct", "n", "defn", "sum", "body", "keyoff", "bodyoff", "doc"}

\* The fields of a writer, and what they may be.
IsWriter(x) ==
  /\ x = [f \in WriterFields |-> x[f]]
  /\ x.type \in Types /\ IsOptions(x.type, x.opt)
  /\ x.buf \in Nat /\ x.off \in Nat /\ x.len \in Int /\ x.pre \in Nat
  /\ x.n \in Nat /\ x.defn \in Nat /\ x.sum \in Nat /\ x.body \in Nat
  /\ x.keyoff \in Nat /\ x.bodyoff \in Nat
  /\ x.bits \in {0, 15, 16}

\* What a call has changed so far is a record of three.
IsState(s) == s = [w |-> s.w, block |-> s.block, marks |-> s.marks]

\* Memory is cells at an address.
MemoryOk(b) ==
  /\ b = [at |-> b.at, cells |-> b.cells]
  /\ b.at \in Nat /\ IsSeq(b.cells)

\* The window of x is memory from an address to the end.
InMemory(b, x) ==
  /\ IsWriter(x)
  /\ b.at <= x.buf /\ x.buf + x.len = b.at + Len(b.cells)

\* A container y in x begins where x writes next, after room for its length; a
\* message is in no other, and a key with something in it says so in its flags.
Child(x, y) ==
  /\ y.buf = x.buf + x.off
  /\ LenBytes(y.bits) <= x.off
  /\ y.type # MSG
  /\ x.type = KEY => x.n >= HasAttrib

\* Nothing went wrong: the windows nest, and all end where the memory does.
Ok(s) ==
  /\ MemoryOk(s.block)
  /\ IsSeq(s.w) /\ Len(s.w) >= 1
  /\ s.w[1].buf = s.block.at + s.w[1].pre /\ s.w[1].bits = 0
  /\ \A j \in 1..Len(s.w) : InMemory(s.block, s.w[j])
  /\ \A j \in 2..Len(s.w) : Child(s.w[j - 1], s.w[j])
  /\ s.marks = {}

\* A window was left behind, or a call asked for too little room.
Excused(s) == "left behind" \in s.marks \/ "unasked" \in s.marks

\* Sound, unless excused.
Sane(s) == IsState(s) /\ (~ Excused(s) => Ok(s))

\* y is x with the same window; with nothing that others rely on changed.
Keeps(x, y) ==
  /\ IsWriter(y)
  /\ y.buf = x.buf /\ y.len = x.len /\ y.pre = x.pre
  /\ y.bits = x.bits /\ y.type = x.type

\* y has also the sizes of x.
Same(x, y) == Keeps(x, y) /\ y.off = x.off /\ y.n = x.n

\* What a sound state says of one writer, as numbers.
LEMMA OkElim ==
  ASSUME NEW s, Ok(s), NEW j \in 1..Len(s.w)
  PROVE  /\ Len(s.w) \in Nat /\ IsWriter(s.w[j]) /\ Len(s.block.cells) \in Nat
         /\ s.block.at \in Nat /\ s.block.at <= s.w[j].buf
         /\ s.w[j].buf + s.w[j].len = s.block.at + Len(s.block.cells)
  BY DEF Ok, MemoryOk, InMemory, IsSeq

\* Only the innermost writer changes, and not its window.
LEMMA Rewritten ==
  ASSUME NEW s, Ok(s), NEW v, IsSeq(v), Len(v) = Len(s.w),
         \A j \in 1..(Len(s.w) - 1) : Same(s.w[j], v[j]),
         Keeps(s.w[Len(s.w)], v[Len(s.w)]),
         NEW t, t.w = v, t.block = s.block, t.marks = s.marks
  PROVE  Ok(t)
<1> DEFINE n == Len(s.w)
<1>1. n \in Nat /\ n >= 1
  BY DEF Ok, IsSeq
<1> HIDE DEF n
<1>2. \A j \in 1..n : Keeps(s.w[j], v[j])
  BY <1>1 DEF n, Same
<1>3. v[1].buf = s.block.at + v[1].pre /\ v[1].bits = 0
  BY <1>1, <1>2 DEF Ok, Keeps
<1>4. \A j \in 1..n : InMemory(s.block, v[j])
  <2> TAKE j \in 1..n
  <2>1. Keeps(s.w[j], v[j]) /\ InMemory(s.block, s.w[j])
    BY <1>2 DEF Ok, n
  <2> QED BY <2>1 DEF InMemory, Keeps
<1>5. \A j \in 2..n : Child(v[j - 1], v[j])
  <2> TAKE j \in 2..n
  <2>1. j \in 1..n /\ j - 1 \in 1..(n - 1)
    BY <1>1
  <2>2. Child(s.w[j - 1], s.w[j])
    BY DEF Ok, n
  <2>3. Same(s.w[j - 1], v[j - 1]) /\ Keeps(s.w[j], v[j])
    BY <1>2, <2>1 DEF n
  <2> QED BY <2>2, <2>3 DEF Child, Same, Keeps
<1>6. MemoryOk(s.block) /\ s.marks = {}
  BY DEF Ok
<1> QED BY <1>1, <1>3, <1>4, <1>5, <1>6 DEF Ok, n

\* t is s with another writer in the place of the i-th.
Replaced(s, t, i, y) == Replaces(t.w, s.w, i, y) /\ t.block = s.block /\ t.marks = s.marks

\* Of the writers below the i-th nothing changed.
SameBelow(i, u, v) == \A j \in 1..(i - 1) : u[j] = v[j]

\* A sound state stays sound when its innermost writer is replaced by one with
\* the same window; the writers below stay.
LEMMA TopRewritten ==
  ASSUME NEW s, Ok(s), NEW i \in Nat, i = Len(s.w), NEW y, Keeps(s.w[i], y),
         NEW t, Replaced(s, t, i, y)
  PROVE  Ok(t) /\ Len(t.w) = Len(s.w) /\ t.w[i] = y /\ SameBelow(i, t.w, s.w)
<1> DEFINE v == t.w
<1>1. IsSeq(s.w) /\ i \in Nat /\ i >= 1
  BY DEF Ok, IsSeq
<1>2. IsSeq(v) /\ Len(v) = i /\ \A k \in 1..i : v[k] = IF k = i THEN y ELSE s.w[k]
  <2>1. /\ IsSeq(v) /\ Len(v) = Len(s.w)
        /\ \A k \in 1..Len(s.w) : v[k] = IF k = i THEN y ELSE s.w[k]
    <3>1. Replaces(v, s.w, i, y)
      BY DEF Replaced
    <3> HIDE DEF v
    <3> QED BY <1>1, <3>1, ReplacedAt
  <2> HIDE DEF v
  <2> QED BY <2>1
<1> HIDE DEF v
<1>3. v[i] = y /\ \A j \in 1..(i - 1) : v[j] = s.w[j]
  BY <1>1, <1>2
<1>4. \A j \in 1..(i - 1) : Same(s.w[j], v[j])
  <2> TAKE j \in 1..(i - 1)
  <2>1. j \in 1..Len(s.w)
    BY <1>1
  <2>2. IsWriter(s.w[j])
    BY <2>1, OkElim
  <2> QED BY <1>3, <2>2 DEF Same, Keeps
<1>5. t.w = v /\ t.block = s.block /\ t.marks = s.marks
  BY DEF v, Replaced
<1>6. Ok(t)
  BY <1>2, <1>3, <1>4, <1>5, Rewritten
<1>7. SameBelow(i, t.w, s.w)
  BY <1>3, <1>5 DEF SameBelow
<1> QED BY <1>2, <1>3, <1>5, <1>6, <1>7

-----------------------------------------------------------------------------
(* Memory. *)

\* A write that is in the memory leaves everything where it is.
LEMMA PutOk ==
  ASSUME NEW s, IsState(s), Ok(s), NEW a \in Int, NEW cells, IsSeq(cells),
         InBlock(s, a, Len(cells))
  PROVE  /\ IsState(Put(s, a, cells)) /\ Ok(Put(s, a, cells))
         /\ Put(s, a, cells).w = s.w
<1> DEFINE t == Put(s, a, cells)
           c == [k \in DOMAIN s.block.cells |->
                   LET i == s.block.at + k - a
                   IN IF i \in DOMAIN cells /\ cells[i] # Hole THEN cells[i] ELSE s.block.cells[k]]
           b == [s.block EXCEPT !.cells = c]
<1>1. t = [[s EXCEPT !.block = b] EXCEPT !.marks = s.marks]
  BY DEF Put
<1>2. IsSeq(s.block.cells) /\ DOMAIN s.block.cells = 1..Len(s.block.cells) /\ Len(s.block.cells) \in Nat
  BY DEF Ok, MemoryOk, IsSeq
<1>3. c = [k \in 1..Len(s.block.cells) |-> c[k]]
  BY <1>2
<1> HIDE DEF c
<1>4. IsSeq(c) /\ Len(c) = Len(s.block.cells)
  BY <1>2, <1>3, FunIsSeq
<1>5. b = [at |-> s.block.at, cells |-> c]
  BY DEF Ok, MemoryOk
<1> HIDE DEF b
<1>6. t.w = s.w /\ t.block = b /\ t.marks = s.marks
  BY <1>1 DEF IsState
<1>7. IsState(t)
  BY <1>1 DEF IsState
<1> HIDE DEF t
<1>8. MemoryOk(b)
  BY <1>4, <1>5 DEF Ok, MemoryOk
<1>9. \A j \in 1..Len(s.w) : InMemory(b, s.w[j])
  BY <1>4, <1>5 DEF Ok, InMemory
<1>10. s.w[1].buf = b.at + s.w[1].pre /\ s.w[1].bits = 0
  BY <1>5 DEF Ok
<1>11. Ok(t)
  BY <1>6, <1>8, <1>9, <1>10 DEF Ok
<1> QED BY <1>6, <1>7, <1>11 DEF t

\* Wherever it writes, it does not unmark.
LEMMA PutState ==
  ASSUME NEW s, IsState(s), NEW a, NEW cells
  PROVE  /\ IsState(Put(s, a, cells)) /\ Put(s, a, cells).w = s.w
         /\ s.marks \subseteq Put(s, a, cells).marks
<1> DEFINE b == [s.block EXCEPT !.cells = [k \in DOMAIN @ |->
                        LET i == s.block.at + k - a
                        IN IF i \in DOMAIN cells /\ cells[i] # Hole THEN cells[i] ELSE @[k]]]
           m == IF InBlock(s, a, Len(cells)) THEN s.marks ELSE s.marks \cup {"outside"}
<1>1. Put(s, a, cells) = [[s EXCEPT !.block = b] EXCEPT !.marks = m]
  BY DEF Put
<1> HIDE DEF b
<1>2. s.marks \subseteq m
  OBVIOUS
<1> HIDE DEF m
<1> QED BY <1>1, <1>2 DEF IsState

\* y is x with another window.
Moved(x, y) ==
  /\ y.type = x.type /\ y.opt = x.opt /\ y.off = x.off /\ y.pre = x.pre /\ y.n = x.n
  /\ y.defn = x.defn /\ y.sum = x.sum /\ y.body = x.body /\ y.keyoff = x.keyoff
  /\ y.bodyoff = x.bodyoff /\ y.bits = x.bits /\ y.ct = x.ct /\ y.err = x.err /\ y.done = x.done

(* Arithmetic. *)

\* An address moved with its memory is as far from the start as before.
LEMMA MovedThere ==
  ASSUME NEW to \in Nat, NEW at \in Nat, NEW buf \in Nat, at <= buf, NEW size \in Nat
  PROVE  /\ to + (buf - at) \in Nat
         /\ to + size - (to + (buf - at)) = size - (buf - at)
         /\ to + size - (to + (buf - at)) \in Int
  OBVIOUS

\* Prefix and window of the outermost writer are all of the memory.
LEMMA WholeBlock ==
  ASSUME NEW at \in Nat, NEW buf \in Nat, NEW pre \in Nat, NEW len \in Int, NEW total \in Nat,
         buf = at + pre, buf + len = at + total
  PROVE  pre + len = total
  OBVIOUS

\* Two addresses moved with their memory are as far apart as before.
LEMMA MovedNext ==
  ASSUME NEW to \in Nat, NEW at \in Nat, NEW buf \in Nat, NEW off \in Nat
  PROVE  to + ((buf + off) - at) = (to + (buf - at)) + off
  OBVIOUS

\* New memory is long enough for what was asked.
LEMMA LongEnough ==
  ASSUME NEW off \in Nat, NEW n \in Nat, NEW len \in Int, NEW old \in Nat, NEW size \in Nat,
         NEW buf \in Nat, NEW at \in Nat, buf + len = at + old,
         size >= old + (off + n - len)
  PROVE  off + n <= size - (buf - at)
  OBVIOUS

\* Marks stay: what is sound now was sound before.
LEMMA MarksOk ==
  ASSUME NEW s, Sane(s), NEW t, s.marks \subseteq t.marks, Ok(t)
  PROVE  Ok(s)
BY DEF Sane, Ok, Excused

\* A writer in other memory.
Windowed(x, a, n) == [x EXCEPT !.buf = a, !.len = n]

\* A writer whose window was moved has nothing else changed.
LEMMA MovedWriter ==
  ASSUME NEW x, IsWriter(x), NEW a \in Nat, NEW n \in Int, NEW y, y = Windowed(x, a, n)
  PROVE  IsWriter(y) /\ Moved(x, y) /\ y.buf = a /\ y.len = n
<1>1. y = [f \in WriterFields |-> IF f = "buf" THEN a ELSE IF f = "len" THEN n ELSE x[f]]
  BY DEF IsWriter, WriterFields, Windowed
<1>2. y.buf = a /\ y.len = n
  BY <1>1 DEF WriterFields
<1>3. Moved(x, y)
  BY <1>1 DEF WriterFields, Moved
<1>4. y = [f \in WriterFields |-> y[f]]
  BY <1>1
<1> QED BY <1>2, <1>3, <1>4 DEF IsWriter, Moved

\* When every window is seen to be on the old memory, all of them are on the
\* new, nested as before.
LEMMA RebasedOk ==
  ASSUME NEW s, Ok(s), NEW to \in Nat, NEW size \in Nat,
         \A j \in 2..Len(s.w) : Follows(s, s.w[j]),
         size >= Len(s.block.cells)
  PROVE  LET v == Rebased(s, to, size)
         IN  /\ IsSeq(v) /\ Len(v) = Len(s.w)
             /\ \A j \in 1..Len(s.w) :
                  /\ IsWriter(v[j]) /\ Moved(s.w[j], v[j])
                  /\ v[j].buf = to + (s.w[j].buf - s.block.at)
                  /\ v[j].len = size - (s.w[j].buf - s.block.at)
<1> DEFINE v == Rebased(s, to, size)
           n == Len(s.w)
<1>1. n \in Nat /\ n >= 1 /\ DOMAIN s.w = 1..n
  BY DEF Ok, IsSeq
<1>2. v = [j \in 1..n |-> v[j]]
  BY <1>1 DEF Rebased
<1>3. ASSUME NEW j \in 1..n
      PROVE  /\ IsWriter(v[j]) /\ Moved(s.w[j], v[j])
             /\ v[j].buf = to + (s.w[j].buf - s.block.at)
             /\ v[j].len = size - (s.w[j].buf - s.block.at)
  <2> DEFINE x == s.w[j]
             there == IF j = 1 THEN to + x.pre ELSE to + (x.buf - s.block.at)
  <2>1. IsWriter(x) /\ s.block.at \in Nat /\ s.block.at <= x.buf
    BY OkElim
  <2>2. v[j] = IF j = 1 \/ Follows(s, x)
               THEN [x EXCEPT !.buf = there, !.len = to + size - there]
               ELSE x
    BY <1>1 DEF Rebased
  <2>3. j = 1 \/ Follows(s, x)
    OBVIOUS
  <2>4. v[j] = [x EXCEPT !.buf = there, !.len = to + size - there]
    <3> HIDE DEF there, v
    <3> QED BY <2>2, <2>3
  <2>5. x.buf \in Nat /\ x.pre \in Nat
    BY <2>1 DEF IsWriter
  <2>6. there = to + (x.buf - s.block.at)
    <3>1. j = 1 => x.buf = s.block.at + x.pre
      BY DEF Ok
    <3> HIDE DEF x
    <3> QED BY <2>1, <2>5, <3>1
  <2> HIDE DEF there
  <2>7. there \in Nat /\ to + size - there = size - (x.buf - s.block.at)
        /\ to + size - there \in Int
    BY SMTT(30), <2>1, <2>5, <2>6, MovedThere
  <2> HIDE DEF v, x
  <2> DEFINE y == v[j]
             m == to + size - there
  <2>8. y = Windowed(x, there, m)
    BY <2>4 DEF Windowed
  <2> HIDE DEF y, m
  <2>9. m \in Int
    BY <2>7 DEF m
  <2>10. IsWriter(y) /\ Moved(x, y) /\ y.buf = there /\ y.len = m
    <3>1. there \in Nat
      BY <2>7
    <3>2. \A a \in Nat, k \in Int : \A z :
            z = Windowed(x, a, k) => IsWriter(z) /\ Moved(x, z) /\ z.buf = a /\ z.len = k
      BY <2>1, MovedWriter
    <3> QED BY <2>8, <2>9, <3>1, <3>2
  <2> QED BY <2>6, <2>7, <2>10 DEF x, y, m
<1> HIDE DEF v, n
<1>4. IsSeq(v) /\ Len(v) = n
  BY <1>1, <1>2, FunIsSeq
<1> QED BY <1>3, <1>4 DEF v, n

\* resize(): all windows move with the memory, if none is left behind.
LEMMA GrownOk ==
  ASSUME NEW s, IsState(s), Ok(s), NEW to \in Nat, NEW size \in Nat,
         size >= Len(s.block.cells)
  PROVE  LET t == GrownTo(s, to, size)
         IN  /\ Sane(t) /\ s.marks \subseteq t.marks
             /\ Ok(t) => /\ Len(t.w) = Len(s.w)
                         /\ \A j \in 1..Len(s.w) :
                              /\ Moved(s.w[j], t.w[j])
                              /\ t.w[j].len = size - (s.w[j].buf - s.block.at)
<1> DEFINE t == GrownTo(s, to, size)
           v == Rebased(s, to, size)
           c == [k \in 1..size |-> IF k <= Len(s.block.cells) THEN s.block.cells[k] ELSE Junk]
           b == [at |-> to, cells |-> c]
           all == \A j \in 2..Len(s.w) : Follows(s, s.w[j])
<1>1. t.w = v /\ t.block = b
      /\ t.marks = IF all THEN s.marks ELSE s.marks \cup {"left behind"}
  BY DEF GrownTo
<1>2. IsState(t)
  BY DEF GrownTo, IsState
<1> HIDE DEF t
<1>3. CASE ~ all
  <2>1. Excused(t) /\ s.marks \subseteq t.marks
    BY <1>1, <1>3 DEF Excused
  <2>2. ~ Ok(t)
    BY <2>1 DEF Ok, Excused
  <2> QED BY <1>2, <2>1, <2>2 DEF Sane, t
<1>4. CASE all
  <2>1. /\ IsSeq(v) /\ Len(v) = Len(s.w)
        /\ \A j \in 1..Len(s.w) :
             /\ IsWriter(v[j]) /\ Moved(s.w[j], v[j])
             /\ v[j].buf = to + (s.w[j].buf - s.block.at)
             /\ v[j].len = size - (s.w[j].buf - s.block.at)
    <3> HIDE DEF v
    <3> QED BY <1>4, RebasedOk DEF v
  <2>2. IsSeq(c) /\ Len(c) = size
    <3>1. c = [k \in 1..size |-> c[k]]
      OBVIOUS
    <3> HIDE DEF c
    <3> QED BY <3>1, FunIsSeq
  <2> HIDE DEF v, c, all
  <2>3. MemoryOk(b) /\ b.at = to /\ Len(b.cells) = size
    BY <2>2 DEF MemoryOk
  <2> HIDE DEF b
  <2>4. t.marks = {} /\ s.marks = {}
    BY <1>1, <1>4 DEF Ok
  <2>5. \A j \in 1..Len(s.w) : InMemory(b, v[j])
    <3> TAKE j \in 1..Len(s.w)
    <3>1. IsWriter(s.w[j]) /\ s.block.at \in Nat /\ s.block.at <= s.w[j].buf
      BY OkElim
    <3>2. s.w[j].buf \in Nat
      BY <3>1 DEF IsWriter
    <3> QED BY <2>1, <2>3, <3>1, <3>2 DEF InMemory
  <2>6. \A j \in 2..Len(s.w) : Child(v[j - 1], v[j])
    <3> TAKE j \in 2..Len(s.w)
    <3>1. j \in 1..Len(s.w) /\ j - 1 \in 1..Len(s.w)
      BY DEF Ok, IsSeq
    <3>2. Child(s.w[j - 1], s.w[j])
      BY DEF Ok
    <3>3. Moved(s.w[j], v[j]) /\ Moved(s.w[j - 1], v[j - 1])
      BY <2>1, <3>1
    <3>4. /\ IsWriter(s.w[j]) /\ s.block.at \in Nat /\ IsWriter(s.w[j - 1])
      BY <3>1, OkElim
    <3>5. s.w[j].buf \in Nat /\ s.w[j - 1].buf \in Nat /\ s.w[j - 1].off \in Nat
      BY <3>4 DEF IsWriter
    <3>6. v[j].buf = v[j - 1].buf + v[j - 1].off
      <4>1. s.w[j].buf = s.w[j - 1].buf + s.w[j - 1].off
        BY <3>2 DEF Child
      <4>2. v[j - 1].off = s.w[j - 1].off
        BY <3>3 DEF Moved
      <4>3. v[j].buf = to + (s.w[j].buf - s.block.at)
            /\ v[j - 1].buf = to + (s.w[j - 1].buf - s.block.at)
        BY <2>1, <3>1
      <4>4. to + ((s.w[j - 1].buf + s.w[j - 1].off) - s.block.at)
            = (to + (s.w[j - 1].buf - s.block.at)) + s.w[j - 1].off
        BY SMTT(30), <3>4, <3>5, MovedNext
      <4> QED BY <4>1, <4>2, <4>3, <4>4
    <3> QED BY <3>2, <3>3, <3>6 DEF Child, Moved
  <2>7. v[1].buf = b.at + v[1].pre /\ v[1].bits = 0
    <3>1. 1 \in 1..Len(s.w)
      BY DEF Ok, IsSeq
    <3>2. Moved(s.w[1], v[1]) /\ v[1].buf = to + (s.w[1].buf - s.block.at)
      BY <2>1, <3>1
    <3>3. s.w[1].buf = s.block.at + s.w[1].pre /\ s.w[1].bits = 0
      BY DEF Ok
    <3>4. IsWriter(s.w[1]) /\ s.block.at \in Nat
      BY <3>1, OkElim
    <3>5. s.w[1].pre \in Nat /\ v[1].pre = s.w[1].pre
      BY <3>2, <3>4 DEF IsWriter, Moved
    <3>6. v[1].bits = 0
      BY <3>2, <3>3 DEF Moved
    <3>7. v[1].buf = b.at + v[1].pre
      BY <2>3, <3>2, <3>3, <3>4, <3>5
    <3> QED BY <3>6, <3>7
  <2>8. Len(s.w) >= 1
    BY DEF Ok
  <2>9. Ok(t)
    BY <1>1, <2>1, <2>3, <2>4, <2>5, <2>6, <2>7, <2>8 DEF Ok
  <2> QED BY <1>1, <1>2, <2>1, <2>4, <2>9 DEF Sane, t
<1> QED BY <1>3, <1>4

\* has_space(): room for n, in this memory or in more.
LEMMA SpaceOk ==
  ASSUME NEW s, Sane(s), NEW i, NEW n \in Nat, NEW to \in Nat,
         Ok(s) => i \in 1..Len(s.w), CanHave(s, i, n)
  PROVE  LET t == WithSpace(s, i, n, to)
         IN  /\ Sane(t) /\ s.marks \subseteq t.marks
             /\ Ok(t) => /\ Ok(s) /\ Len(t.w) = Len(s.w)
                         /\ \A j \in 1..Len(s.w) : Moved(s.w[j], t.w[j])
                         /\ t.w[i].off + n <= t.w[i].len
<1> DEFINE t == WithSpace(s, i, n, to)
<1>1. CASE HasSpace(s, i, n)
  <2>1. t = s
    BY <1>1 DEF WithSpace
  <2>2. \A j \in 1..Len(s.w) : Moved(s.w[j], s.w[j])
    BY DEF Moved
  <2>3. s.w[i].off + n <= s.w[i].len
    BY <1>1 DEF HasSpace
  <2> HIDE DEF t
  <2> QED BY <2>1, <2>2, <2>3 DEF t
<1>2. CASE ~ HasSpace(s, i, n)
  <2> DEFINE size == NewLen(s, i, n)
  <2>1. t = GrownTo(s, to, size)
    BY <1>2 DEF WithSpace
  <2>2. CASE Excused(s)
    <3>1. s.marks \subseteq t.marks /\ IsState(t)
      <4> HIDE DEF t, size
      <4> QED BY <2>1 DEF GrownTo, IsState
    <3> HIDE DEF t
    <3>2. ~ Ok(t) /\ Excused(t)
      BY <2>2, <3>1 DEF Ok, Excused
    <3> QED BY <3>1, <3>2 DEF Sane, t
  <2>3. CASE ~ Excused(s)
    <3>1. Ok(s) /\ IsState(s) /\ i \in 1..Len(s.w)
      BY <2>3 DEF Sane
    <3>2. MayGrow(s, i, n)
      BY <1>2 DEF CanHave
    <3>3. /\ IsWriter(s.w[i]) /\ s.block.at \in Nat /\ s.block.at <= s.w[i].buf
          /\ s.w[i].buf + s.w[i].len = s.block.at + Len(s.block.cells)
          /\ Len(s.block.cells) \in Nat
      BY <3>1, OkElim
    <3>4. s.w[i].buf \in Nat /\ s.w[i].len \in Int /\ s.w[i].off \in Nat
      BY <3>3 DEF IsWriter
    <3>5. OldLen(s) = Len(s.block.cells)
      <4>1. 1 \in 1..Len(s.w)
        BY <3>1 DEF Ok, IsSeq
      <4>2. /\ IsWriter(s.w[1]) /\ s.w[1].buf + s.w[1].len = s.block.at + Len(s.block.cells)
        BY <3>1, <4>1, OkElim
      <4>3. s.w[1].buf = s.block.at + s.w[1].pre
        BY <3>1 DEF Ok
      <4>4. s.w[1].buf \in Nat /\ s.w[1].len \in Int /\ s.w[1].pre \in Nat
        BY <4>2 DEF IsWriter
      <4>5. s.w[1].pre + s.w[1].len = Len(s.block.cells)
        <5> DEFINE at == s.block.at
                   total == Len(s.block.cells)
                   buf == s.w[1].buf
                   pre == s.w[1].pre
                   len == s.w[1].len
        <5>1. at \in Nat /\ total \in Nat /\ buf = at + pre /\ buf + len = at + total
              /\ buf \in Nat /\ pre \in Nat /\ len \in Int
          BY <3>3, <4>2, <4>3, <4>4
        <5> HIDE DEF at, total, buf, pre, len
        <5>2. pre + len = total
          BY <5>1, WholeBlock
        <5> QED BY <5>2 DEF total, pre, len
      <4> QED BY <4>5 DEF OldLen
    <3> DEFINE need == Needed(s, i, n)
               old == Len(s.block.cells)
    <3>6. need = old + (s.w[i].off + n - s.w[i].len)
      BY <3>5 DEF Needed
    <3>7. need <= MaxSize /\ need > old /\ need \in Nat
      <4>1. ~ (s.w[i].off + n <= s.w[i].len)
        BY <1>2 DEF HasSpace
      <4>2. need <= MaxSize
        BY <3>2 DEF MayGrow
      <4>3. old \in Nat
        BY <3>3
      <4> HIDE DEF need, old
      <4>4. need > old
        BY <3>4, <3>6, <4>1, <4>3
      <4>5. need \in Nat
        BY <3>4, <3>6, <4>3, <4>4
      <4> QED BY <4>2, <4>4, <4>5
    <3>8. size \in Nat /\ size >= need
      <4>1. size = Min2(MaxSize, IF need < 2 * old THEN 2 * old ELSE need + Extra)
        BY <3>5 DEF NewLen
      <4>2. MaxSize \in Nat /\ Extra \in Nat /\ old \in Nat
        BY <3>3, RwfAssumption
      <4> HIDE DEF size, need, old
      <4> QED BY <3>7, <4>1, <4>2 DEF Min2
    <3>9. size >= Len(s.block.cells)
      <4> HIDE DEF size, need
      <4> QED BY <3>3, <3>7, <3>8
    <3> HIDE DEF size, need
    <3>10. /\ Sane(t) /\ s.marks \subseteq t.marks
           /\ Ok(t) => /\ Len(t.w) = Len(s.w)
                       /\ \A j \in 1..Len(s.w) :
                            /\ Moved(s.w[j], t.w[j])
                            /\ t.w[j].len = size - (s.w[j].buf - s.block.at)
      <4> HIDE DEF t
      <4> QED BY <2>1, <3>1, <3>8, <3>9, GrownOk
    <3>11. Ok(t) => t.w[i].off + n <= t.w[i].len
      <4> SUFFICES ASSUME Ok(t) PROVE t.w[i].off + n <= t.w[i].len
        OBVIOUS
      <4>1. Moved(s.w[i], t.w[i]) /\ t.w[i].len = size - (s.w[i].buf - s.block.at)
        BY <3>1, <3>10
      <4>2. t.w[i].off = s.w[i].off
        BY <4>1 DEF Moved
      <4>3. size >= old + (s.w[i].off + n - s.w[i].len)
        BY <3>6, <3>8
      <4>4. s.w[i].off + n <= size - (s.w[i].buf - s.block.at)
        <5> DEFINE at == s.block.at
        <5>1. old \in Nat /\ at \in Nat /\ s.w[i].buf + s.w[i].len = at + old
          BY <3>3
        <5> HIDE DEF old, at
        <5> QED BY <3>4, <3>8, <4>3, <5>1, LongEnough DEF at
      <4> QED BY <4>1, <4>2, <4>4
    <3> HIDE DEF t
    <3> QED BY <3>1, <3>10, <3>11 DEF t
  <2> QED BY <2>2, <2>3
<1> QED BY <1>1, <1>2

-----------------------------------------------------------------------------
(* Steps of a call. *)

\* t is what s becomes: it is sound, unless excused, and has the writers of s.
Step(s, t) ==
  /\ Sane(t) /\ s.marks \subseteq t.marks
  /\ Ok(t) => /\ Len(t.w) = Len(s.w)
              /\ \A j \in 1..Len(s.w) : t.w[j].type = s.w[j].type /\ t.w[j].opt = s.w[j].opt

\* What is sound after a step was sound before.
LEMMA StepOk ==
  ASSUME NEW s, Sane(s), NEW t, Step(s, t), Ok(t)
  PROVE  Ok(s)
  BY MarksOk DEF Step

\* Doing nothing is a step.
LEMMA StepSelf == ASSUME NEW s, Sane(s) PROVE Step(s, s)
  BY DEF Step

\* Two steps are a step.
LEMMA StepStep ==
  ASSUME NEW s, Sane(s), NEW t, Step(s, t), NEW u, Step(t, u)
  PROVE  Step(s, u)
<1>1. Ok(u) => Ok(t)
  BY StepOk DEF Step
<1> QED BY <1>1 DEF Step

\* What a step says of the writers, if nothing was left behind.
LEMMA SpaceStep ==
  ASSUME NEW s, Sane(s), NEW i, NEW n \in Nat, NEW to \in Nat,
         Ok(s) => i \in 1..Len(s.w), CanHave(s, i, n),
         NEW t, t = WithSpace(s, i, n, to)
  PROVE  /\ Step(s, t)
         /\ Ok(t) => /\ t.w[i].off + n <= t.w[i].len
                     /\ Moved(s.w[i], t.w[i])
<1>1. /\ Sane(t) /\ s.marks \subseteq t.marks
      /\ Ok(t) => /\ Ok(s) /\ Len(t.w) = Len(s.w)
                  /\ \A j \in 1..Len(s.w) : Moved(s.w[j], t.w[j])
                  /\ t.w[i].off + n <= t.w[i].len
  BY SpaceOk
<1>2. ASSUME Ok(t)
      PROVE  \A j \in 1..Len(s.w) : t.w[j].type = s.w[j].type /\ t.w[j].opt = s.w[j].opt
  BY <1>1, <1>2 DEF Moved
<1> QED BY <1>1, <1>2 DEF Step

\* s with the i-th writer replaced.
WithWriter(s, i, y) == [s EXCEPT !.w[i] = y]

\* The innermost writer changes.
LEMMA TopStep ==
  ASSUME NEW s, Sane(s), NEW i \in Nat, NEW y,
         Ok(s) => i = Len(s.w) /\ Keeps(s.w[i], y) /\ y.opt = s.w[i].opt,
         NEW t, t = WithWriter(s, i, y)
  PROVE  /\ Step(s, t)
         /\ Ok(t) => t.w[i] = y /\ SameBelow(i, t.w, s.w)
<1>1. t.w = [s.w EXCEPT ![i] = y] /\ t.block = s.block /\ t.marks = s.marks /\ IsState(t)
  BY DEF WithWriter, Sane, IsState
<1>2. CASE Excused(s)
  <2>1. ~ Ok(t) /\ Excused(t)
    BY <1>1, <1>2 DEF Ok, Excused
  <2> QED BY <1>1, <1>2, <2>1 DEF Step, Sane
<1>3. CASE ~ Excused(s)
  <2>1. Ok(s) /\ i = Len(s.w) /\ Keeps(s.w[i], y)
    BY <1>3 DEF Sane
  <2>2. Ok(t) /\ Len(t.w) = Len(s.w) /\ t.w[i] = y /\ SameBelow(i, t.w, s.w)
    <3>1. Replaced(s, t, i, y)
      BY <1>1 DEF Replaced, Replaces
    <3> QED BY <2>1, <3>1, TopRewritten
  <2>4. \A j \in 1..i : t.w[j].type = s.w[j].type /\ t.w[j].opt = s.w[j].opt
    <3> TAKE j \in 1..i
    <3>1. CASE j = i
      BY <2>1, <2>2, <3>1 DEF Keeps
    <3>2. CASE j # i
      <4>1. j \in 1..(i - 1)
        BY <3>2
      <4> QED BY <2>2, <4>1 DEF SameBelow
    <3> QED BY <3>1, <3>2
  <2>5. Sane(t)
    BY <1>1, <2>2 DEF Sane
  <2>6. Len(t.w) = Len(s.w)
    BY <2>1, <2>2
  <2> QED BY <1>1, <2>1, <2>2, <2>4, <2>5, <2>6 DEF Step
<1> QED BY <1>2, <1>3

\* An item that is refused leaves the windows as they are.
LEMMA RefuseStep ==
  ASSUME NEW s, Sane(s), NEW i, Ok(s) => i \in 1..Len(s.w),
         NEW t, t = Refuse(s, i) \/ t = Error(s, i)
  PROVE  Step(s, t)
<1> DEFINE v == [j \in DOMAIN s.w |-> IF j <= i THEN [s.w[j] EXCEPT !.err = TRUE] ELSE s.w[j]]
           u == Error(s, i)
<1>1. u.w = v /\ u.block = s.block /\ u.marks = s.marks /\ IsState(u)
  <2>1. u = [s EXCEPT !.w = v]
    BY DEF Error
  <2> HIDE DEF u, v
  <2> QED BY <2>1 DEF Sane, IsState
<1>2. /\ t.w = v \/ t.w = [v EXCEPT ![i] = Lost(v[i])]
      /\ t.block = s.block /\ t.marks = s.marks /\ IsState(t)
  <2>1. CASE t = u
    BY <1>1, <2>1
  <2>2. CASE t = [u EXCEPT !.w[i] = Lost(@)]
    <3> HIDE DEF u, v
    <3> QED BY <1>1, <2>2 DEF IsState
  <2> QED BY <2>1, <2>2 DEF Refuse
<1>3. CASE Excused(s)
  <2>1. ~ Ok(t) /\ Excused(t)
    BY <1>2, <1>3 DEF Ok, Excused
  <2> QED BY <1>2, <1>3, <2>1 DEF Step, Sane
<1>4. CASE ~ Excused(s)
  <2>1. Ok(s) /\ i \in 1..Len(s.w)
    BY <1>4 DEF Sane
  <2>2. IsSeq(s.w) /\ Len(s.w) \in Nat /\ Len(s.w) >= 1 /\ DOMAIN s.w = 1..Len(s.w)
    BY <2>1 DEF Ok, IsSeq
  <2>3. v = [j \in 1..Len(s.w) |-> v[j]]
    BY <2>2
  <2>4. IsSeq(v) /\ Len(v) = Len(s.w)
    <3> HIDE DEF v
    <3> QED BY <2>2, <2>3, FunIsSeq
  <2>5. ASSUME NEW j \in 1..Len(s.w)
        PROVE  Same(s.w[j], v[j]) /\ v[j].opt = s.w[j].opt
    <3> DEFINE x == s.w[j]
    <3>1. IsWriter(x)
      BY <2>1, OkElim
    <3>2. v[j] = [x EXCEPT !.err = TRUE] \/ v[j] = x
      BY <2>2
    <3> HIDE DEF v, x
    <3>3. CASE v[j] = x
      BY <3>1, <3>3 DEF Same, Keeps, x
    <3>4. CASE v[j] = [x EXCEPT !.err = TRUE]
      <4> DEFINE y == v[j]
      <4>1. y = [f \in WriterFields |-> IF f = "err" THEN TRUE ELSE x[f]]
        BY <3>1, <3>4 DEF IsWriter, WriterFields
      <4> HIDE DEF y
      <4>2. /\ y = [f \in WriterFields |-> y[f]]
            /\ y.type = x.type /\ y.opt = x.opt /\ y.off = x.off /\ y.pre = x.pre /\ y.n = x.n
            /\ y.defn = x.defn /\ y.sum = x.sum /\ y.body = x.body /\ y.keyoff = x.keyoff
            /\ y.bodyoff = x.bodyoff /\ y.bits = x.bits /\ y.buf = x.buf /\ y.len = x.len
        BY <4>1 DEF WriterFields
      <4>3. IsWriter(y)
        BY <3>1, <4>2 DEF IsWriter
      <4> QED BY <4>2, <4>3 DEF Same, Keeps, y, x
    <3> QED BY <3>2, <3>3, <3>4
  <2> HIDE DEF v
  <2> DEFINE z == Lost(v[i])
             r == [v EXCEPT ![i] = z]
  <2>6. Same(v[i], z) /\ z.opt = v[i].opt
    <3> DEFINE x == v[i]
               d == [x.doc EXCEPT ![4] = x.doc[4] \o <<<<<<-1>>, <<>>>>>>]
    <3>1. IsWriter(x)
      BY <2>1, <2>5 DEF Same, Keeps
    <3>2. z = [x EXCEPT !.doc = d]
      BY DEF Lost, WithItem
    <3> HIDE DEF x, d, z
    <3>3. z = [f \in WriterFields |-> IF f = "doc" THEN d ELSE x[f]]
      BY <3>1, <3>2 DEF IsWriter, WriterFields
    <3>4. /\ z = [f \in WriterFields |-> z[f]]
          /\ z.type = x.type /\ z.opt = x.opt /\ z.off = x.off /\ z.pre = x.pre /\ z.n = x.n
          /\ z.defn = x.defn /\ z.sum = x.sum /\ z.body = x.body /\ z.keyoff = x.keyoff
          /\ z.bodyoff = x.bodyoff /\ z.bits = x.bits /\ z.buf = x.buf /\ z.len = x.len
      BY <3>3 DEF WriterFields
    <3>5. IsWriter(z)
      BY <3>1, <3>4 DEF IsWriter
    <3> QED BY <3>4, <3>5 DEF Same, Keeps, x
  <2> HIDE DEF z
  <2>7. /\ IsSeq(r) /\ Len(r) = Len(s.w)
        /\ \A k \in 1..Len(s.w) : r[k] = IF k = i THEN z ELSE v[k]
    <3>1. Replaces(r, v, i, z)
      BY DEF Replaces
    <3> HIDE DEF r
    <3> QED BY <2>4, <3>1, ReplacedAt
  <2> HIDE DEF r
  <2>8. \A j \in 1..Len(s.w) : Same(s.w[j], r[j]) /\ r[j].opt = s.w[j].opt
    <3> TAKE j \in 1..Len(s.w)
    <3>1. CASE j = i
      <4>1. r[j] = z
        BY <2>7, <3>1
      <4>2. Same(s.w[j], v[j]) /\ v[j].opt = s.w[j].opt
        BY <2>5
      <4> QED BY <2>6, <3>1, <4>1, <4>2 DEF Same, Keeps
    <3>2. CASE j # i
      BY <2>5, <2>7, <3>2
    <3> QED BY <3>1, <3>2
  <2>9. /\ IsSeq(t.w) /\ Len(t.w) = Len(s.w)
        /\ \A j \in 1..Len(s.w) : Same(s.w[j], t.w[j]) /\ t.w[j].opt = s.w[j].opt
    <3>1. t.w = v \/ t.w = r
      BY <1>2 DEF r, z
    <3>2. CASE t.w = v
      BY <2>4, <2>5, <3>2
    <3>3. CASE t.w = r
      BY <2>7, <2>8, <3>3
    <3> QED BY <3>1, <3>2, <3>3
  <2>10. /\ \A j \in 1..(Len(s.w) - 1) : Same(s.w[j], t.w[j])
         /\ Keeps(s.w[Len(s.w)], t.w[Len(s.w)])
    <3>1. Len(s.w) \in 1..Len(s.w) /\ \A j \in 1..(Len(s.w) - 1) : j \in 1..Len(s.w)
      BY <2>2
    <3> QED BY <2>9, <3>1 DEF Same
  <2>11. Ok(t)
    BY <1>2, <2>1, <2>9, <2>10, Rewritten
  <2>12. \A j \in 1..Len(s.w) : t.w[j].type = s.w[j].type
    BY <2>9 DEF Same, Keeps
  <2> QED BY <1>2, <2>9, <2>11, <2>12 DEF Step, Sane
<1> QED BY <1>3, <1>4

-----------------------------------------------------------------------------
(* Writing. *)

\* A write that is in the memory, if the state is sound, is a step.
LEMMA PutStep ==
  ASSUME NEW s, Sane(s), NEW a, NEW cells,
         Ok(s) => a \in Int /\ IsSeq(cells) /\ InBlock(s, a, Len(cells)),
         NEW t, t = Put(s, a, cells)
  PROVE  Step(s, t) /\ t.w = s.w
<1>1. IsState(s)
  BY DEF Sane
<1>2. IsState(t) /\ t.w = s.w /\ s.marks \subseteq t.marks
  BY <1>1, PutState
<1>3. CASE Excused(s)
  <2>1. ~ Ok(t) /\ Excused(t)
    BY <1>2, <1>3 DEF Ok, Excused
  <2> QED BY <1>2, <2>1 DEF Step, Sane
<1>4. CASE ~ Excused(s)
  <2>1. Ok(s) /\ a \in Int /\ IsSeq(cells) /\ InBlock(s, a, Len(cells))
    BY <1>4 DEF Sane
  <2>2. Ok(t)
    BY <1>1, <2>1, PutOk
  <2> QED BY <1>2, <2>2 DEF Step, Sane
<1> QED BY <1>3, <1>4

\* An address of the window of a writer.
LEMMA AddressIn ==
  ASSUME NEW s, Ok(s), NEW i \in 1..Len(s.w), NEW o \in Nat, NEW n \in Nat,
         o + n <= s.w[i].len
  PROVE  s.w[i].buf + o \in Int /\ InBlock(s, s.w[i].buf + o, n)
<1> DEFINE buf == s.w[i].buf
           len == s.w[i].len
           at == s.block.at
           total == Len(s.block.cells)
<1>1. IsWriter(s.w[i]) /\ at \in Nat /\ total \in Nat /\ at <= buf /\ buf + len = at + total
  BY OkElim
<1>2. buf \in Nat /\ len \in Int
  BY <1>1 DEF IsWriter
<1>3. o + n <= len
  OBVIOUS
<1>4. InBlock(s, buf + o, n) <=> (at <= buf + o /\ buf + o + n <= at + total)
  BY DEF InBlock
<1> HIDE DEF buf, len, at, total
<1>5. buf + o \in Int /\ InBlock(s, buf + o, n)
  BY <1>1, <1>2, <1>3, <1>4
<1> QED BY <1>5 DEF buf

\* x with cells appended.
Offset(x, n) == [x EXCEPT !.off = x.off + n]

\* A writer that has appended keeps its window.
LEMMA OffsetKeeps ==
  ASSUME NEW x, IsWriter(x), NEW n \in Nat, NEW y, y = Offset(x, n)
  PROVE  Keeps(x, y) /\ y.off = x.off + n /\ y.opt = x.opt /\ y.n = x.n
<1>1. x.off + n \in Nat
  BY DEF IsWriter
<1> DEFINE m == x.off + n
<1>2. y = [f \in WriterFields |-> IF f = "off" THEN m ELSE x[f]]
  BY DEF IsWriter, WriterFields, Offset
<1>3. m \in Nat
  BY <1>1
<1> HIDE DEF m
<1>4. /\ y = [f \in WriterFields |-> y[f]]
      /\ y.type = x.type /\ y.opt = x.opt /\ y.off = m /\ y.pre = x.pre /\ y.n = x.n
      /\ y.defn = x.defn /\ y.sum = x.sum /\ y.body = x.body /\ y.keyoff = x.keyoff
      /\ y.bodyoff = x.bodyoff /\ y.bits = x.bits /\ y.buf = x.buf /\ y.len = x.len
  BY <1>2 DEF WriterFields
<1>5. IsWriter(y)
  BY <1>3, <1>4 DEF IsWriter
<1> QED BY <1>4, <1>5 DEF Keeps, m

\* What says that it did not ask for its room is a step.
LEMMA MarkedStep ==
  ASSUME NEW s, NEW c, IsState(c), s.marks \subseteq c.marks,
         NEW t, t = [c EXCEPT !.marks = c.marks \cup {"unasked"}]
  PROVE  Step(s, t)
<1> DEFINE m == c.marks \cup {"unasked"}
<1>1. t = [c EXCEPT !.marks = m] /\ "unasked" \in m /\ s.marks \subseteq m
  OBVIOUS
<1> HIDE DEF m
<1>2. IsState(t) /\ t.marks = m
  BY <1>1 DEF IsState
<1>3. Excused(t) /\ ~ Ok(t) /\ s.marks \subseteq t.marks
  BY <1>1, <1>2 DEF Excused, Ok
<1> QED BY <1>2, <1>3 DEF Step, Sane

\* Appending cells for which there is room is a step that counts them.
LEMMA WriteStep ==
  ASSUME NEW s, Sane(s), NEW i \in Nat, NEW cells, IsSeq(cells),
         Ok(s) => i = Len(s.w) /\ s.w[i].off + Len(cells) <= s.w[i].len,
         NEW t, t = WriteCells(s, i, cells)
  PROVE  /\ Step(s, t)
         /\ Ok(t) => /\ Keeps(s.w[i], t.w[i])
                     /\ t.w[i].off = s.w[i].off + Len(cells)
                     /\ t.w[i].opt = s.w[i].opt /\ t.w[i].n = s.w[i].n
<1> DEFINE a == s.w[i].buf + s.w[i].off
           p == Put(s, a, cells)
           y == Offset(p.w[i], Len(cells))
<1>1. t = WithWriter(p, i, y)
  BY DEF WriteCells, WithWriter, Offset
<1>2. Len(cells) \in Nat
  BY DEF IsSeq
<1>3. ASSUME Ok(s)
      PROVE  /\ i \in 1..Len(s.w) /\ IsWriter(s.w[i])
             /\ a \in Int /\ InBlock(s, a, Len(cells))
  <2>1. i \in 1..Len(s.w)
    BY <1>3 DEF Ok, IsSeq
  <2>2. IsWriter(s.w[i])
    BY <1>3, <2>1, OkElim
  <2>3. s.w[i].off \in Nat /\ s.w[i].off + Len(cells) <= s.w[i].len
    BY <1>3, <2>2 DEF IsWriter
  <2> QED BY <1>2, <1>3, <2>1, <2>2, <2>3, AddressIn
<1>4. Step(s, p) /\ p.w = s.w
  <2> HIDE DEF a, p
  <2> QED BY <1>3, PutStep DEF p
<1>5. Ok(p) => Ok(s)
  BY <1>4, StepOk
<1>6. Ok(p) => i = Len(p.w) /\ Keeps(p.w[i], y) /\ y.off = p.w[i].off + Len(cells)
               /\ y.opt = p.w[i].opt /\ y.n = p.w[i].n
  <2> SUFFICES ASSUME Ok(p)
               PROVE  i = Len(p.w) /\ Keeps(p.w[i], y) /\ y.off = p.w[i].off + Len(cells)
                      /\ y.opt = p.w[i].opt /\ y.n = p.w[i].n
    OBVIOUS
  <2>1. IsWriter(p.w[i]) /\ i = Len(p.w)
    BY <1>3, <1>4, <1>5
  <2> HIDE DEF p
  <2> QED BY <1>2, <2>1, OffsetKeeps
<1>7. Sane(p)
  BY <1>4 DEF Step
<1> HIDE DEF p, y
<1>8. Step(p, t) /\ (Ok(t) => t.w[i] = y)
  BY <1>1, <1>6, <1>7, TopStep
<1>9. Step(s, t)
  BY <1>4, <1>8, StepStep
<1>10. Ok(t) => Ok(p)
  BY <1>7, <1>8, StepOk
<1> QED BY <1>4, <1>6, <1>8, <1>9, <1>10

\* So is appending cells for which it may be that not enough room was asked.
LEMMA WriteUncheckedStep ==
  ASSUME NEW s, Sane(s), NEW i \in Nat, NEW cells, IsSeq(cells), Ok(s) => i = Len(s.w),
         NEW t, t = WriteUnchecked(s, i, cells)
  PROVE  Step(s, t)
<1> DEFINE c == WriteCells(s, i, cells)
           m == c.marks \cup {"unasked"}
           asked == c.w[i].off <= c.w[i].len
<1>1. t = IF asked THEN c ELSE [c EXCEPT !.marks = m]
  BY DEF WriteUnchecked
<1>2. IsState(c) /\ s.marks \subseteq c.marks
  <2> DEFINE p == Put(s, s.w[i].buf + s.w[i].off, cells)
  <2>1. IsState(p) /\ s.marks \subseteq p.marks
    BY PutState DEF Sane
  <2>2. c = [p EXCEPT !.w = [p.w EXCEPT ![i].off = @ + Len(cells)]]
    BY DEF WriteCells
  <2> HIDE DEF p, c
  <2> QED BY <2>1, <2>2 DEF IsState
<1>3. CASE Ok(s) => s.w[i].off + Len(cells) <= s.w[i].len
  <2> HIDE DEF c
  <2>1. Step(s, c)
    BY <1>3, WriteStep DEF c
  <2>2. CASE asked
    BY <1>1, <2>1, <2>2
  <2>3. CASE ~ asked
    BY <1>1, <1>2, <2>3, MarkedStep
  <2> QED BY <2>2, <2>3
<1>4. CASE Ok(s) /\ ~(s.w[i].off + Len(cells) <= s.w[i].len)
  <2>1. ~ asked
    <3> DEFINE p == Put(s, s.w[i].buf + s.w[i].off, cells)
               y == Offset(p.w[i], Len(cells))
    <3>1. IsSeq(s.w) /\ i \in 1..Len(s.w) /\ IsWriter(s.w[i])
      <4>1. IsSeq(s.w) /\ i \in 1..Len(s.w)
        BY <1>4 DEF Ok, IsSeq
      <4> QED BY <1>4, <4>1, OkElim
    <3>2. p.w = s.w /\ IsState(p)
      BY PutState DEF Sane
    <3>3. c = WithWriter(p, i, y)
      BY DEF WriteCells, WithWriter, Offset
    <3> HIDE DEF p, c
    <3>4. c.w[i] = y
      <4> HIDE DEF y
      <4> QED BY <3>1, <3>2, <3>3 DEF WithWriter, IsState, IsSeq
    <3>5. Len(cells) \in Nat
      BY DEF IsSeq
    <3>6. Keeps(s.w[i], y) /\ y.off = s.w[i].off + Len(cells)
      <4> HIDE DEF y
      <4> QED BY <3>1, <3>2, <3>5, OffsetKeeps DEF y
    <3> HIDE DEF y
    <3> QED BY <1>4, <3>4, <3>6 DEF Keeps
  <2> HIDE DEF c, asked
  <2> QED BY <1>1, <1>2, <2>1, MarkedStep
<1> QED BY <1>3, <1>4

-----------------------------------------------------------------------------
(* Items. *)

\* A writer that has an item more keeps its window.
LEMMA ItemKeeps ==
  ASSUME NEW x, IsWriter(x), NEW key, NEW more \in Nat, NEW y, y = ItemIn(x, key, more)
  PROVE  Keeps(x, y) /\ y.off = x.off /\ y.opt = x.opt
<1> DEFINE d == [x.doc EXCEPT ![4] = @ \o <<<<key, <<>>>>>>]
           m == x.n + more
<1>1. y = [[x EXCEPT !.doc = d] EXCEPT !.n = m]
  <2>1. WithItem(x, key) = [x EXCEPT !.doc = d]
    BY DEF WithItem
  <2>2. WithItem(x, key).n = x.n
    BY <2>1 DEF IsWriter, WriterFields
  <2> QED BY <2>1, <2>2 DEF ItemIn
<1>2. m \in Nat
  BY DEF IsWriter
<1> HIDE DEF d, m
<1>3. y = [f \in WriterFields |-> IF f = "doc" THEN d ELSE IF f = "n" THEN m ELSE x[f]]
  BY <1>1 DEF IsWriter, WriterFields
<1>4. /\ y = [f \in WriterFields |-> y[f]]
      /\ y.type = x.type /\ y.opt = x.opt /\ y.off = x.off /\ y.pre = x.pre /\ y.n = m
      /\ y.defn = x.defn /\ y.sum = x.sum /\ y.body = x.body /\ y.keyoff = x.keyoff
      /\ y.bodyoff = x.bodyoff /\ y.bits = x.bits /\ y.buf = x.buf /\ y.len = x.len
  BY <1>3 DEF WriterFields
<1>5. IsWriter(y)
  BY <1>2, <1>4 DEF IsWriter
<1> QED BY <1>4, <1>5 DEF Keeps

\* An item, whatever room is asked for.
LEMMA ItemStep ==
  ASSUME NEW s, Sane(s), NEW i \in Nat, Ok(s) => i = Len(s.w),
         NEW n \in Nat, NEW cells, IsSeq(cells),
         NEW key, NEW more \in Nat, NEW to \in Nat,
         NEW t, t = Item(s, i, n, cells, key, more, to)
  PROVE  Step(s, t)
<1>1. Ok(s) => i \in 1..Len(s.w)
  BY DEF Ok, IsSeq
<1>2. CASE ~ CanHave(s, i, n)
  <2>1. t = Refuse(s, i)
    BY <1>2 DEF Item
  <2> QED BY <1>1, <2>1, RefuseStep
<1>3. CASE CanHave(s, i, n)
  <2> DEFINE u == WithSpace(s, i, n, to)
             v == WriteUnchecked(u, i, cells)
             y == ItemIn(v.w[i], key, more)
  <2>1. t = WithWriter(v, i, y)
    <3>1. t = [v EXCEPT !.w[i] = ItemIn(@, key, more)]
      BY <1>3 DEF Item
    <3> HIDE DEF v
    <3> QED BY <3>1 DEF WithWriter
  <2>2. Step(s, u)
    <3> HIDE DEF u
    <3> QED BY <1>1, <1>3, SpaceStep DEF u
  <2>3. Sane(u) /\ (Ok(u) => Ok(s) /\ i = Len(u.w) /\ i \in 1..Len(u.w))
    <3>1. Sane(u) /\ (Ok(u) => Len(u.w) = Len(s.w))
      BY <2>2 DEF Step
    <3>2. Ok(u) => Ok(s)
      BY <2>2, StepOk
    <3> QED BY <1>1, <3>1, <3>2
  <2> HIDE DEF u
  <2>5. Step(u, v)
    <3> HIDE DEF v
    <3> QED BY <2>3, WriteUncheckedStep DEF v
  <2>6. Sane(v) /\ (Ok(v) => i = Len(v.w) /\ i \in 1..Len(v.w))
    <3>1. Ok(v) => Ok(u)
      BY <2>3, <2>5, StepOk
    <3> QED BY <2>3, <2>5, <3>1 DEF Step
  <2> HIDE DEF v
  <2>7. Ok(v) => Keeps(v.w[i], y) /\ y.opt = v.w[i].opt
    <3> SUFFICES ASSUME Ok(v) PROVE Keeps(v.w[i], y) /\ y.opt = v.w[i].opt
      OBVIOUS
    <3>1. IsWriter(v.w[i])
      BY <2>6, OkElim
    <3> QED BY <3>1, ItemKeeps
  <2> HIDE DEF y
  <2>8. Step(v, t)
    BY <2>1, <2>6, <2>7, TopStep
  <2>9. Step(s, v)
    BY <2>2, <2>5, StepStep
  <2> QED BY <2>8, <2>9, StepStep
<1> QED BY <1>2, <1>3

-----------------------------------------------------------------------------
(* Fields of writers. *)

\* Fields that are numbers, and those nothing here depends on.
Numeric == {"off", "n", "defn", "sum", "body", "keyoff", "bodyoff"}

\* Fields nothing here depends on.
Free == {"ct", "doc", "err", "done"}

\* A field set.
SetField(x, f, v) == [x EXCEPT ![f] = v]

\* y is x with the same window and options.
Kept(x, y) == Keeps(x, y) /\ y.opt = x.opt

\* A field that others do not rely on may be set.
LEMMA SetOk ==
  ASSUME NEW x, IsWriter(x), NEW f \in Numeric \cup Free, NEW v, f \in Numeric => v \in Nat,
         NEW y, y = SetField(x, f, v)
  PROVE  Kept(x, y) /\ y[f] = v /\ \A g \in (Numeric \cup Free) \ {f} : y[g] = x[g]
<1>1. y = [g \in WriterFields |-> IF g = f THEN v ELSE x[g]]
  BY DEF IsWriter, WriterFields, SetField
<1>2. (Numeric \cup Free) \subseteq WriterFields
  BY DEF Numeric, Free, WriterFields
<1>3. y[f] = v /\ \A g \in WriterFields \ {f} : y[g] = x[g]
  BY <1>1, <1>2
<1>4. y = [g \in WriterFields |-> y[g]]
  BY <1>1
<1>5. /\ y.type = x.type /\ y.opt = x.opt /\ y.pre = x.pre
      /\ y.bits = x.bits /\ y.buf = x.buf /\ y.len = x.len
  BY <1>3 DEF WriterFields, Numeric, Free
<1>6. /\ x.off \in Nat /\ x.n \in Nat /\ x.defn \in Nat /\ x.sum \in Nat /\ x.body \in Nat
      /\ x.keyoff \in Nat /\ x.bodyoff \in Nat
  BY DEF IsWriter
<1>7. y.off \in Nat
  <2>1. "off" \in WriterFields /\ "off" \in Numeric
    BY DEF WriterFields, Numeric
  <2> QED BY <1>3, <1>6, <2>1
<1>8. y.n \in Nat
  <2>1. "n" \in WriterFields /\ "n" \in Numeric
    BY DEF WriterFields, Numeric
  <2> QED BY <1>3, <1>6, <2>1
<1>9. y.defn \in Nat
  <2>1. "defn" \in WriterFields /\ "defn" \in Numeric
    BY DEF WriterFields, Numeric
  <2> QED BY <1>3, <1>6, <2>1
<1>10. y.sum \in Nat
  <2>1. "sum" \in WriterFields /\ "sum" \in Numeric
    BY DEF WriterFields, Numeric
  <2> QED BY <1>3, <1>6, <2>1
<1>11. y.body \in Nat
  <2>1. "body" \in WriterFields /\ "body" \in Numeric
    BY DEF WriterFields, Numeric
  <2> QED BY <1>3, <1>6, <2>1
<1>12. y.keyoff \in Nat
  <2>1. "keyoff" \in WriterFields /\ "keyoff" \in Numeric
    BY DEF WriterFields, Numeric
  <2> QED BY <1>3, <1>6, <2>1
<1>13. y.bodyoff \in Nat
  <2>1. "bodyoff" \in WriterFields /\ "bodyoff" \in Numeric
    BY DEF WriterFields, Numeric
  <2> QED BY <1>3, <1>6, <2>1
<1>14. IsWriter(y)
  BY <1>4, <1>5, <1>7, <1>8, <1>9, <1>10, <1>11, <1>12, <1>13 DEF IsWriter
<1> QED BY <1>2, <1>3, <1>5, <1>14 DEF Kept, Keeps

\* A writer keeps itself.
LEMMA KeptSelf == ASSUME NEW x, IsWriter(x) PROVE Kept(x, x)
  BY DEF Kept, Keeps

\* What is kept twice is kept.
LEMMA KeptKept ==
  ASSUME NEW x, NEW y, NEW z, Kept(x, y), Kept(y, z)
  PROVE  Kept(x, z)
  BY DEF Kept, Keeps

-----------------------------------------------------------------------------
(* What is set when a container is added. *)

\* The type of entries is set without moving anything.
LEMMA OfTypeKept ==
  ASSUME NEW x, IsWriter(x), NEW t
  PROVE  LET y == OfType(x, t) IN Kept(x, y) /\ y.off = x.off /\ y.n = x.n
<1> DEFINE v == IF x.ct = NoData THEN t ELSE x.ct
           y == OfType(x, t)
<1>1. y = SetField(x, "ct", v)
  BY DEF OfType, SetField
<1> HIDE DEF v, y
<1>2. "ct" \in Numeric \cup Free /\ "ct" \notin Numeric
      /\ "off" \in (Numeric \cup Free) \ {"ct"} /\ "n" \in (Numeric \cup Free) \ {"ct"}
  BY DEF Numeric, Free
<1>3. Kept(x, y) /\ y["off"] = x["off"] /\ y["n"] = x["n"]
  BY <1>1, <1>2, SetOk
<1> QED BY <1>3 DEF y

\* So is where the next byte goes.
LEMMA OffKept ==
  ASSUME NEW x, IsWriter(x), NEW v \in Nat, NEW y, y = [x EXCEPT !.off = v]
  PROVE  Kept(x, y) /\ y.off = v /\ y.n = x.n
<1>1. y = SetField(x, "off", v)
  BY DEF SetField
<1>2. "off" \in Numeric \cup Free /\ "n" \in (Numeric \cup Free) \ {"off"}
  BY DEF Numeric, Free
<1>3. Kept(x, y) /\ y["off"] = v /\ y["n"] = x["n"]
  BY <1>1, <1>2, SetOk
<1> QED BY <1>3

\* So is how many items there are.
LEMMA CountKept ==
  ASSUME NEW x, IsWriter(x), NEW v \in Nat, NEW y, y = [x EXCEPT !.n = v]
  PROVE  Kept(x, y) /\ y.off = x.off /\ y.n = v
<1>1. y = SetField(x, "n", v)
  BY DEF SetField
<1>2. "n" \in Numeric \cup Free /\ "off" \in (Numeric \cup Free) \ {"n"}
  BY DEF Numeric, Free
<1>3. Kept(x, y) /\ y["n"] = v /\ y["off"] = x["off"]
  BY <1>1, <1>2, SetOk
<1> QED BY <1>3

\* One more is counted.
LEMMA CountedKept ==
  ASSUME NEW x, IsWriter(x)
  PROVE  Kept(x, Counted(x)) /\ Counted(x).off = x.off
<1> DEFINE m == x.n + 1
           y == Counted(x)
<1>1. m \in Nat
  BY DEF IsWriter
<1>2. y = [x EXCEPT !.n = m]
  BY DEF Counted
<1> HIDE DEF m, y
<1>3. Kept(x, y) /\ y.off = x.off
  BY <1>1, <1>2, CountKept
<1> QED BY <1>3 DEF y

\* Where entries begin.
LEMMA EntryOffNat ==
  ASSUME NEW x, IsWriter(x), x.type \in Groups \cup {FILTER}
  PROVE  EntryOff(x) \in Nat
<1>1. x.defn \in Nat /\ x.sum \in Nat
  BY DEF IsWriter
<1>2. CASE x.type = FILTER
  <2>1. x.opt[1] \in Nat
    BY <1>2 DEF IsWriter, IsOptions
  <2>2. x.type # MAP
    BY <1>2 DEF MAP, FILTER
  <2> QED BY <1>2, <2>1, <2>2 DEF EntryOff
<1>3. CASE x.type = MAP
  <2>1. x.opt[1] \in Nat /\ x.opt[2] \in Nat
    <3>1. IsOptions(MAP, x.opt)
      BY <1>3 DEF IsWriter
    <3>2. x.opt \in {<<0, 0>>, <<0, 1>>, <<1, 0>>, <<1, 1>>}
      BY <3>1 DEF IsOptions, FILTER, VECTOR, SERIES, MAP
    <3> QED BY ONLY <3>2
  <2>2. x.type # FILTER
    BY <1>3 DEF MAP, FILTER
  <2> QED BY <1>1, <1>3, <2>1, <2>2 DEF EntryOff
<1>4. CASE x.type \in {VECTOR, SERIES}
  <2>1. x.opt[1] \in Nat
    BY <1>4 DEF IsWriter, IsOptions
  <2>2. x.type # FILTER /\ x.type # MAP
    BY <1>4 DEF MAP, FILTER, VECTOR, SERIES
  <2>3. EntryOff(x) = 4 + x.defn + x.sum + 4 * x.opt[1]
    BY <2>2 DEF EntryOff
  <2> QED BY <1>1, <2>1, <2>3
<1> QED BY <1>2, <1>3, <1>4 DEF Groups

\* Where a summary begins is a number of bytes.
LEMMA SummaryOffNat ==
  ASSUME NEW x, IsWriter(x)
  PROVE  SummaryOff(x) \in Nat
<1>1. x.defn \in Nat
  BY DEF IsWriter
<1>2. CASE x.type = MAP
  <2>1. x.opt[2] \in Nat
    BY SMTT(30), <1>2 DEF IsWriter, IsOptions, FILTER, VECTOR, SERIES, MAP
  <2> QED BY <1>1, <1>2, <2>1 DEF SummaryOff
<1>3. CASE x.type # MAP
  BY <1>1, <1>3 DEF SummaryOff
<1> QED BY <1>2, <1>3

\* A writer that begins its entries keeps its window.
LEMMA EntryKept ==
  ASSUME NEW x, IsWriter(x), x.type \in Groups \cup {FILTER}
  PROVE  Kept(x, Entry(x))
<1> DEFINE v == IF x.n = 0 THEN EntryOff(x) ELSE x.off
           y == Entry(x)
<1>1. v \in Nat
  BY EntryOffNat DEF IsWriter
<1>2. y = [x EXCEPT !.off = v]
  BY DEF Entry
<1> HIDE DEF v, y
<1> QED BY <1>1, <1>2, OffKept DEF y

\* A call adds to a container of a kind.
Fits(c, t) ==
  /\ c = [type |-> c.type, opt |-> c.opt, slot |-> c.slot, key |-> c.key]
  /\ c.type \in Types \ {MSG} /\ IsOptions(c.type, c.opt)
  /\ \/ c.slot = "attrib" /\ t = KEY
     \/ c.slot \in {"key", "body"} /\ t = MSG
     \/ c.slot = "summary" /\ t \in Groups
     \/ c.slot = "entry" /\ t \in Groups \cup {FILTER}

\* A writer in which a container that fits is begun keeps its window.
LEMMA BegunKept ==
  ASSUME NEW x, IsWriter(x), NEW c, Fits(c, x.type)
  PROVE  Kept(x, Begun(x, c.type, c.slot))
<1> DEFINE y == Begun(x, c.type, c.slot)
           z == OfType(x, c.type)
<1>1. Kept(x, z) /\ z.off = x.off /\ IsWriter(z) /\ z.type = x.type
  BY OfTypeKept DEF Kept, Keeps
<1>2. CASE c.slot = "key"
  <2>1. y = SetField(x, "keyoff", x.off)
    BY <1>2 DEF Begun, SetField
  <2>2. "keyoff" \in Numeric \cup Free /\ x.off \in Nat
    BY DEF Numeric, Free, IsWriter
  <2> HIDE DEF y, z
  <2> QED BY <2>1, <2>2, SetOk DEF y
<1>3. CASE c.slot = "summary"
  <2>1. y = [z EXCEPT !.off = SummaryOff(x)]
    BY <1>3 DEF Begun
  <2> HIDE DEF y, z
  <2>2. Kept(z, y)
    BY <1>1, <2>1, SummaryOffNat, OffKept
  <2> QED BY <1>1, <2>2, KeptKept DEF y
<1>4. CASE c.slot = "body"
  <2> DEFINE a == AfterKey(x)
             o == x.off + a
             u == [z EXCEPT !.off = o]
  <2>1. y = [z EXCEPT !.off = @ + a, !.bodyoff = o]
    BY <1>4 DEF Begun
  <2>2. x.type = MSG
    BY <1>4 DEF Fits
  <2>3. a \in Nat
    <3>1. x.opt[2] \in Nat
      BY SMTT(30), <2>2 DEF IsWriter, IsOptions, FILTER, VECTOR, SERIES, MAP, MSG
    <3> QED BY <3>1 DEF AfterKey
  <2>4. o \in Nat
    BY <2>3 DEF IsWriter
  <2>5. y = [[z EXCEPT !.off = z.off + a] EXCEPT !.bodyoff = o]
    <3> HIDE DEF z, y, a, o
    <3> QED BY <2>1
  <2>6. y = SetField(u, "bodyoff", o)
    <3> HIDE DEF z, y, a
    <3> QED BY <1>1, <2>5 DEF SetField
  <2> HIDE DEF z, y, o
  <2>7. Kept(z, u) /\ IsWriter(u)
    BY <1>1, <2>4, OffKept DEF Kept, Keeps
  <2>8. "bodyoff" \in Numeric \cup Free
    BY DEF Numeric, Free
  <2> HIDE DEF u
  <2>9. Kept(u, y)
    BY <2>4, <2>6, <2>7, <2>8, SetOk
  <2> QED BY <1>1, <2>7, <2>9, KeptKept DEF y
<1>5. CASE c.slot = "attrib"
  <2>1. y = x
    BY <1>5 DEF Begun
  <2> HIDE DEF y
  <2> QED BY <2>1, KeptSelf DEF y
<1>6. CASE c.slot = "entry"
  <2> DEFINE u == Entry(z)
  <2>1. x.type \in Groups \cup {FILTER}
    BY <1>6 DEF Fits
  <2>2. y = IF x.type \in {MAP, SERIES} THEN Counted(u) ELSE u
    BY <1>6 DEF Begun
  <2> HIDE DEF z, y
  <2>3. Kept(z, u) /\ IsWriter(u)
    BY <1>1, <2>1, EntryKept DEF Kept, Keeps
  <2> HIDE DEF u
  <2>4. Kept(u, y)
    BY <2>2, <2>3, CountedKept, KeptSelf
  <2> QED BY <1>1, <2>3, <2>4, KeptKept DEF y
<1> QED BY <1>2, <1>3, <1>4, <1>5, <1>6 DEF Fits

\* After the head of an entry too; a key with attributes says so in its flags.
LEMMA HeadedKept ==
  ASSUME NEW x, IsWriter(x), NEW slot
  PROVE  LET y == Headed(x, slot)
         IN  Kept(x, y) /\ y.off = x.off /\ (slot = "attrib" => y.n >= HasAttrib)
<1> DEFINE y == Headed(x, slot)
<1>1. CASE slot = "attrib"
  <2> DEFINE m == x.n + 32
  <2>1. m \in Nat /\ m >= HasAttrib
    BY DEF IsWriter, HasAttrib
  <2>2. y = [x EXCEPT !.n = m]
    BY <1>1 DEF Headed
  <2> HIDE DEF m, y
  <2>3. Kept(x, y) /\ y.off = x.off /\ y.n = m
    BY <2>1, <2>2, CountKept
  <2> QED BY <2>1, <2>3 DEF y
<1>2. CASE slot # "attrib"
  <2>1. y = Counted(x) \/ y = x
    BY <1>2 DEF Headed
  <2> HIDE DEF y
  <2> QED BY <1>2, <2>1, CountedKept, KeptSelf DEF y
<1> QED BY <1>1, <1>2

-----------------------------------------------------------------------------
(* A container in another. *)

\* The length before a container takes 0, 2 or 3 bytes.
LEMMA BitsOf ==
  ASSUME NEW slot
  PROVE  Bits(slot) \in {0, 15, 16} /\ LenBytes(Bits(slot)) \in Nat
<1>1. Bits(slot) = 0 \/ Bits(slot) = 16 \/ Bits(slot) = 15
  <2>1. CASE slot = "body"
    BY <2>1 DEF Bits
  <2>2. CASE slot = "entry"
    BY <2>2 DEF Bits
  <2>3. CASE slot # "body" /\ slot # "entry"
    BY <2>3 DEF Bits
  <2> QED BY <2>1, <2>2, <2>3
<1>2. LenBytes(0) \in Nat /\ LenBytes(15) \in Nat /\ LenBytes(16) \in Nat
  BY DEF LenBytes
<1> QED BY <1>1, <1>2

\* As many as LenBytes says, a number.
LEMMA LenBytesNat ==
  ASSUME NEW bits \in {0, 15, 16}
  PROVE  LenBytes(bits) \in Nat
BY DEF LenBytes

\* What a container begins with is a number of bytes.
LEMMA FirstOffNat ==
  ASSUME NEW t \in Types, NEW opt, IsOptions(t, opt)
  PROVE  FirstOff(t, opt) \in Nat
<1> USE DEF FIELDS, ELEMENTS, KEY, MSG, FILTER, MAP, VECTOR, SERIES
<1>1. CASE t = FIELDS
  BY <1>1 DEF FirstOff
<1>2. CASE t = ELEMENTS
  BY <1>2 DEF FirstOff
<1>3. CASE t = KEY
  BY <1>3 DEF FirstOff
<1>4. CASE t = MSG
  BY <1>4 DEF FirstOff
<1>5. CASE t = FILTER
  <2>1. opt[1] \in Nat
    BY <1>5 DEF IsOptions
  <2> QED BY <1>5, <2>1 DEF FirstOff
<1>6. CASE t = MAP
  <2>1. opt[2] \in Nat
    BY <1>6 DEF IsOptions
  <2> QED BY <1>6, <2>1 DEF FirstOff
<1>7. CASE t \in {VECTOR, SERIES}
  <2>1. opt[1] \in Nat
    BY <1>7 DEF IsOptions
  <2> QED BY <1>7, <2>1 DEF FirstOff
<1> QED BY <1>1, <1>2, <1>3, <1>4, <1>5, <1>6, <1>7 DEF Types, Lists, Groups

\* A writer on a window.
Fresh(t, opt, a, len, bits, slot, key) ==
  [type |-> t, opt |-> opt, buf |-> a, off |-> FirstOff(t, opt), len |-> len, pre |-> 0,
   bits |-> bits, slot |-> slot, key |-> key, err |-> FALSE, done |-> FALSE,
   ct |-> NoData, n |-> 0, defn |-> 0, sum |-> 0, body |-> 0, keyoff |-> 0,
   bodyoff |-> 0, doc |-> <<t, opt, <<>>, <<>>>>]

\* A new writer is one, on the window given.
LEMMA FreshOk ==
  ASSUME NEW t \in Types, NEW opt, IsOptions(t, opt), NEW a \in Nat, NEW len \in Int,
         NEW bits \in {0, 15, 16}, NEW slot, NEW key,
         NEW y, y = Fresh(t, opt, a, len, bits, slot, key)
  PROVE  IsWriter(y) /\ y.buf = a /\ y.len = len /\ y.bits = bits /\ y.type = t /\ y.opt = opt
         /\ y.pre = 0
<1> DEFINE o == FirstOff(t, opt)
           d == <<t, opt, <<>>, <<>>>>
<1>1. o \in Nat
  BY FirstOffNat
<1>2. y = [type |-> t, opt |-> opt, buf |-> a, off |-> o, len |-> len, pre |-> 0,
           bits |-> bits, slot |-> slot, key |-> key, err |-> FALSE, done |-> FALSE,
           ct |-> NoData, n |-> 0, defn |-> 0, sum |-> 0, body |-> 0, keyoff |-> 0,
           bodyoff |-> 0, doc |-> d]
  BY DEF Fresh
<1> HIDE DEF o, d
<1>3. y = [f \in WriterFields |-> y[f]]
  BY <1>2 DEF WriterFields
<1>4. /\ y.type = t /\ y.opt = opt /\ y.buf = a /\ y.off = o /\ y.len = len /\ y.pre = 0
      /\ y.bits = bits /\ y.n = 0 /\ y.defn = 0 /\ y.sum = 0 /\ y.body = 0
      /\ y.keyoff = 0 /\ y.bodyoff = 0
  BY <1>2
<1>5. IsWriter(y)
  BY <1>1, <1>3, <1>4 DEF IsWriter
<1> QED BY <1>4, <1>5

\* The three ways writers are made.
LEMMA NewWriter ==
  ASSUME NEW t, NEW opt, NEW y, y = Writer(t, opt)
  PROVE  y = Fresh(t, opt, 0, 0, 0, "", <<>>)
<1> DEFINE o == FirstOff(t, opt)
           d == <<t, opt, <<>>, <<>>>>
<1>1. y = [type |-> t, opt |-> opt, buf |-> 0, off |-> o, len |-> 0, pre |-> 0,
           bits |-> 0, slot |-> "", key |-> <<>>, err |-> FALSE, done |-> FALSE,
           ct |-> NoData, n |-> 0, defn |-> 0, sum |-> 0, body |-> 0, keyoff |-> 0,
           bodyoff |-> 0, doc |-> d]
  <2> HIDE DEF o, d
  <2> QED BY DEF Writer, o, d
<1> QED BY <1>1 DEF Fresh

\* The outermost writer is a new one on all of the memory.
LEMMA RootWriter ==
  ASSUME NEW t, NEW opt, NEW a, NEW len, NEW y,
         y = [Writer(t, opt) EXCEPT !.buf = a, !.len = len]
  PROVE  y = Fresh(t, opt, a, len, 0, "", <<>>)
<1> DEFINE o == FirstOff(t, opt)
           d == <<t, opt, <<>>, <<>>>>
<1>1. y = [type |-> t, opt |-> opt, buf |-> a, off |-> o, len |-> len, pre |-> 0,
           bits |-> 0, slot |-> "", key |-> <<>>, err |-> FALSE, done |-> FALSE,
           ct |-> NoData, n |-> 0, defn |-> 0, sum |-> 0, body |-> 0, keyoff |-> 0,
           bodyoff |-> 0, doc |-> d]
  <2> HIDE DEF o, d
  <2> QED BY DEF Writer, o, d
<1> QED BY <1>1 DEF Fresh

\* The writer of a container, as append_base() sets it.
Opened(t, opt, a, len, bits, slot, key) ==
  [Writer(t, opt) EXCEPT !.buf = a, !.len = len, !.bits = bits, !.slot = slot, !.key = key]

\* The writer of a container is a new one on a window.
LEMMA WindowWriter ==
  ASSUME NEW t, NEW opt, NEW a, NEW len, NEW bits, NEW slot, NEW key, NEW y,
         y = Opened(t, opt, a, len, bits, slot, key)
  PROVE  y = Fresh(t, opt, a, len, bits, slot, key)
<1> DEFINE o == FirstOff(t, opt)
           d == <<t, opt, <<>>, <<>>>>
<1>1. y = [type |-> t, opt |-> opt, buf |-> a, off |-> o, len |-> len, pre |-> 0,
           bits |-> bits, slot |-> slot, key |-> key, err |-> FALSE, done |-> FALSE,
           ct |-> NoData, n |-> 0, defn |-> 0, sum |-> 0, body |-> 0, keyoff |-> 0,
           bodyoff |-> 0, doc |-> d]
  <2> HIDE DEF o, d
  <2> QED BY DEF Opened, Writer, o, d
<1> QED BY <1>1 DEF Fresh

\* One writer more.
Longer(v, u, i, x, y) == v = [j \in 1..(i + 1) |-> IF j > i THEN y ELSE IF j = i THEN x ELSE u[j]]

\* A sequence with a member replaced and another appended.
LEMMA LongerIs ==
  ASSUME NEW i \in Nat, NEW u, NEW v, NEW x, NEW y, Longer(v, u, i, x, y)
  PROVE  /\ IsSeq(v) /\ Len(v) = i + 1
         /\ v[i + 1] = y /\ (i >= 1 => v[i] = x) /\ SameBelow(i, v, u)
<1>1. i + 1 \in Nat
  OBVIOUS
<1>2. v = [j \in 1..(i + 1) |-> v[j]]
  BY DEF Longer
<1>3. IsSeq(v) /\ Len(v) = i + 1
  BY <1>1, <1>2, FunIsSeq
<1>4. \A j \in 1..(i + 1) : v[j] = IF j > i THEN y ELSE IF j = i THEN x ELSE u[j]
  BY DEF Longer
<1>5. v[i + 1] = y
  BY <1>4
<1>6. i >= 1 => v[i] = x
  BY <1>4
<1>7. SameBelow(i, v, u)
  BY <1>4 DEF SameBelow
<1> QED BY <1>3, <1>5, <1>6, <1>7

\* append_base().
LEMMA WindowOk ==
  ASSUME NEW b, MemoryOk(b), NEW p, InMemory(b, p), NEW c, Fits(c, p.type),
         NEW lb, lb = LenBytes(Bits(c.slot))
  PROVE  LET y == Window(p, c, lb)
         IN  InMemory(b, y) /\ y.buf = p.buf + (p.off + lb) /\ y.bits = Bits(c.slot)
             /\ y.type = c.type /\ y.type # MSG
<1> DEFINE buf == p.buf
           off == p.off
           len == p.len
           at == b.at
           total == Len(b.cells)
           a == buf + off + lb
           m == len - (off + lb)
           y == Window(p, c, lb)
<1>1. buf \in Nat /\ off \in Nat /\ len \in Int /\ at \in Nat /\ total \in Nat
  BY DEF InMemory, IsWriter, MemoryOk, IsSeq
<1>2. at <= buf /\ buf + len = at + total
  BY DEF InMemory
<1>3. lb \in Nat /\ Bits(c.slot) \in {0, 15, 16}
  BY BitsOf
<1>4. y = Fresh(c.type, c.opt, a, m, Bits(c.slot), c.slot, c.key)
  <2> DEFINE t == c.type
             opt == c.opt
             bits == Bits(c.slot)
             slot == c.slot
             key == c.key
  <2>1. y = Opened(t, opt, a, m, bits, slot, key)
    BY DEF Window, Opened
  <2> HIDE DEF t, opt, bits, slot, key, a, m, y
  <2>2. y = Fresh(t, opt, a, m, bits, slot, key)
    BY <2>1, WindowWriter
  <2> QED BY <2>2 DEF t, opt, bits, slot, key
<1>5. c.type \in Types /\ c.type # MSG /\ IsOptions(c.type, c.opt)
  BY DEF Fits
<1> HIDE DEF buf, off, len, at, total
<1>6. a \in Nat /\ m \in Int /\ a = buf + (off + lb) /\ at <= a /\ a + m = at + total
  BY <1>1, <1>2, <1>3
<1> HIDE DEF a, m, y
<1>7. IsWriter(y) /\ y.buf = a /\ y.len = m /\ y.bits = Bits(c.slot) /\ y.type = c.type
  BY <1>3, <1>4, <1>5, <1>6, FreshOk
<1>8. InMemory(b, y)
  BY <1>6, <1>7 DEF InMemory, at, total
<1> QED BY <1>5, <1>6, <1>7, <1>8 DEF y, buf, off

\* append_base() leaves a sound state sound: the new window is the rest of its
\* parent, after room for the length.
LEMMA AppendedSane ==
  ASSUME NEW s, Sane(s), NEW i \in Nat, NEW c, NEW lb, lb = LenBytes(Bits(c.slot)),
         Ok(s) => /\ i = Len(s.w) /\ Fits(c, s.w[i].type)
                  /\ s.w[i].type = KEY => s.w[i].n >= HasAttrib,
         NEW t, t = Appended(s, i, c, lb)
  PROVE  Sane(t) /\ s.marks \subseteq t.marks
<1>1. Ok(s) => i \in 1..Len(s.w) /\ i >= 1
  BY DEF Ok, IsSeq
<1>2. CASE s.w[i].err
  <2>1. t = Refuse(s, i)
    BY <1>2 DEF Appended
  <2> QED BY <1>1, <2>1, RefuseStep DEF Step
<1>3. CASE ~ s.w[i].err
  <2> DEFINE p == s.w[i]
             x == Offset(p, lb)
             y == Window(p, c, lb)
             v == [j \in 1..(i + 1) |-> IF j > i THEN y ELSE IF j = i THEN x ELSE s.w[j]]
  <2>1. t = [s EXCEPT !.w = v]
    BY <1>3 DEF Appended, Offset
  <2>2. Longer(v, s.w, i, x, y)
    BY DEF Longer
  <2> HIDE DEF v
  <2>3. t.w = v /\ t.block = s.block /\ t.marks = s.marks /\ IsState(t)
    BY <2>1 DEF Sane, IsState
  <2>4. CASE Excused(s)
    BY <2>3, <2>4 DEF Sane, Excused
  <2>5. CASE ~ Excused(s)
    <3>1. Ok(s) /\ i = Len(s.w) /\ Fits(c, p.type) /\ (p.type = KEY => p.n >= HasAttrib)
          /\ i \in 1..Len(s.w) /\ i >= 1
      BY <1>1, <2>5 DEF Sane
    <3>2. lb \in Nat
      BY BitsOf
    <3>3. MemoryOk(s.block) /\ InMemory(s.block, p) /\ IsWriter(p) /\ s.marks = {}
      BY <3>1 DEF Ok, InMemory
    <3>4. InMemory(s.block, y) /\ y.buf = p.buf + (p.off + lb) /\ y.bits = Bits(c.slot)
          /\ y.type # MSG
      <4> HIDE DEF y, p
      <4> QED BY <3>1, <3>3, WindowOk DEF y
    <3>5. Keeps(p, x) /\ x.off = p.off + lb /\ x.n = p.n
      <4> HIDE DEF x, p
      <4> QED BY <3>2, <3>3, OffsetKeeps DEF x
    <3>6. InMemory(s.block, x) /\ x.type = p.type /\ x.buf = p.buf /\ x.bits = p.bits /\ x.pre = p.pre
      BY <3>3, <3>5 DEF InMemory, Keeps
    <3>7. Child(x, y)
      <4> DEFINE off == p.off
                 xoff == x.off
      <4>1. off \in Nat /\ xoff = off + lb
        BY <3>3, <3>5 DEF IsWriter
      <4> HIDE DEF off, xoff
      <4>2. lb <= xoff
        BY <3>2, <4>1
      <4>3. y.buf = x.buf + x.off
        BY <3>4, <3>5, <3>6
      <4>4. LenBytes(y.bits) <= x.off
        BY <3>4, <4>2 DEF xoff
      <4>5. x.type = KEY => x.n >= HasAttrib
        BY <3>1, <3>5, <3>6
      <4> QED BY <3>4, <4>3, <4>4, <4>5 DEF Child
    <3> HIDE DEF x, y
    <3>8. IsSeq(v) /\ Len(v) = i + 1 /\ v[i + 1] = y /\ v[i] = x /\ SameBelow(i, v, s.w)
      BY <2>2, <3>1, LongerIs
    <3>9. \A j \in 1..(i + 1) : j = i + 1 \/ j = i \/ j \in 1..(i - 1)
      OBVIOUS
    <3>10. \A j \in 1..(i + 1) : InMemory(s.block, v[j])
      <4> TAKE j \in 1..(i + 1)
      <4>1. CASE j \in 1..(i - 1)
        <5>1. j \in 1..Len(s.w) /\ v[j] = s.w[j]
          BY <3>1, <3>8, <4>1 DEF SameBelow
        <5> QED BY <3>1, <5>1 DEF Ok
      <4> QED BY <3>4, <3>6, <3>8, <3>9, <4>1
    <3>11. \A j \in 2..(i + 1) : Child(v[j - 1], v[j])
      <4> TAKE j \in 2..(i + 1)
      <4>1. CASE j = i + 1
        <5>1. j - 1 = i
          BY <4>1
        <5> QED BY <3>7, <3>8, <4>1, <5>1
      <4>2. CASE j = i
        <5>1. j \in 2..Len(s.w) /\ j - 1 \in 1..(i - 1)
          BY <3>1, <4>2
        <5>2. Child(s.w[j - 1], p)
          BY <3>1, <4>2, <5>1 DEF Ok
        <5>3. v[j - 1] = s.w[j - 1] /\ v[j] = x
          BY <3>8, <4>2, <5>1 DEF SameBelow
        <5>4. Child(s.w[j - 1], x)
          BY <3>6, <5>2 DEF Child
        <5> QED BY <5>3, <5>4
      <4>3. CASE j \in 1..(i - 1)
        <5>1. j \in 2..Len(s.w) /\ j - 1 \in 1..(i - 1)
          BY <3>1, <4>3
        <5>2. Child(s.w[j - 1], s.w[j])
          BY <3>1, <5>1 DEF Ok
        <5>3. v[j - 1] = s.w[j - 1] /\ v[j] = s.w[j]
          BY <3>8, <4>3, <5>1 DEF SameBelow
        <5> QED BY <5>2, <5>3
      <4>4. j = i + 1 \/ j = i \/ j \in 1..(i - 1)
        OBVIOUS
      <4> QED BY <4>1, <4>2, <4>3, <4>4
    <3>12. v[1].buf = s.block.at + v[1].pre /\ v[1].bits = 0
      <4>1. s.w[1].buf = s.block.at + s.w[1].pre /\ s.w[1].bits = 0
        BY <3>1 DEF Ok
      <4>2. CASE i = 1
        BY <3>6, <3>8, <4>1, <4>2
      <4>3. CASE i > 1
        <5>1. 1 \in 1..(i - 1)
          BY <4>3
        <5>2. v[1] = s.w[1]
          BY <3>8, <5>1 DEF SameBelow
        <5> QED BY <4>1, <5>2
      <4>4. i = 1 \/ i > 1
        <5>1. i >= 1
          BY <3>1
        <5> QED BY <5>1
      <4> QED BY <4>2, <4>3, <4>4
    <3>13. Len(v) >= 1
      BY <3>8
    <3>14. Ok(t)
      BY <2>3, <3>3, <3>8, <3>10, <3>11, <3>12, <3>13 DEF Ok
    <3> QED BY <2>3, <3>14 DEF Sane
  <2> QED BY <2>4, <2>5
<1> QED BY <1>2, <1>3

\* What an entry begins with is a sequence of cells, and not empty before
\* attributes.
LEMMA HeadIsSeq ==
  ASSUME NEW x, NEW t, NEW slot, NEW key
  PROVE  IsSeq(EntryHead(x, t, slot, key)) /\ (slot = "attrib" => EntryHead(x, t, slot, key) # <<>>)
<1> DEFINE a == U8(key[1])
           b == U8(key[2])
           h == EntryHead(x, t, slot, key)
<1>1. CASE slot = "attrib"
  <2>1. h = U8(t)
    BY <1>1 DEF EntryHead
  <2> HIDE DEF h
  <2>2. Len(h) = 1 /\ IsSeq(h)
    BY <2>1, Numbers
  <2>3. h # <<>>
    BY <2>2, Empty
  <2> QED BY <2>2, <2>3 DEF h
<1>2. CASE slot # "attrib"
  <2>1. \/ h = <<>>
        \/ h = U8(key[1]) \o U8(1) \o U8(key[2])
        \/ h = U8(key[1]) \o U32(key[2])
        \/ h = U8(key[1]) \o U8(key[2])
        \/ h = U8(key[1] + 32) \o U8(key[2]) \o U8(t)
    <3>1. CASE slot # "entry" \/ x.type = SERIES
      BY <1>2, <3>1 DEF EntryHead
    <3>2. CASE ~ (slot # "entry" \/ x.type = SERIES) /\ x.type = MAP
      <4>1. x.type # VECTOR
        BY <3>2 DEF MAP, VECTOR
      <4> QED BY <1>2, <3>2, <4>1 DEF EntryHead
    <3>3. CASE ~ (slot # "entry" \/ x.type = SERIES) /\ x.type = VECTOR
      <4>1. x.type # MAP
        BY <3>3 DEF MAP, VECTOR
      <4> QED BY <1>2, <3>3, <4>1 DEF EntryHead
    <3>4. CASE ~ (slot # "entry" \/ x.type = SERIES) /\ x.type # MAP /\ x.type # VECTOR
      BY <1>2, <3>4 DEF EntryHead
    <3> QED BY <3>1, <3>2, <3>3, <3>4
  <2> HIDE DEF h
  <2>2. ASSUME NEW u, NEW v, IsSeq(u), IsSeq(v) PROVE IsSeq(u \o v)
    BY <2>2, Concat
  <2>3. \A u : IsSeq(U8(u)) /\ IsSeq(U32(u))
    BY Numbers
  <2>4. IsSeq(<<>>)
    BY Empty
  <2>5. IsSeq(h)
    <3>1. IsSeq(U8(key[1]) \o U8(1)) /\ IsSeq(U8(key[1] + 32) \o U8(key[2]))
      BY <2>2, <2>3
    <3>2. IsSeq(U8(key[1]) \o U8(1) \o U8(key[2])) /\ IsSeq(U8(key[1] + 32) \o U8(key[2]) \o U8(t))
      BY <2>2, <2>3, <3>1
    <3>3. IsSeq(U8(key[1]) \o U32(key[2])) /\ IsSeq(U8(key[1]) \o U8(key[2]))
      BY <2>2, <2>3
    <3> QED BY <2>1, <2>4, <3>2, <3>3
  <2> QED BY <1>2, <2>5 DEF h
<1> QED BY <1>1, <1>2

\* Only attributes fit in a key.
LEMMA InKey ==
  ASSUME NEW c, Fits(c, KEY)
  PROVE  c.slot = "attrib"
<1>1. KEY # MSG /\ KEY \notin Groups \cup {FILTER}
  BY DEF KEY, MSG, Groups, FILTER, VECTOR, MAP, SERIES
<1> QED BY <1>1 DEF Fits

\* So does append_base() when it first makes room.
LEMMA AppendBaseSane ==
  ASSUME NEW s, Sane(s), NEW i \in Nat, NEW c, NEW lb, lb = LenBytes(Bits(c.slot)),
         NEW to \in Nat,
         Ok(s) => /\ i = Len(s.w) /\ Fits(c, s.w[i].type)
                  /\ s.w[i].type = KEY => s.w[i].n >= HasAttrib,
         NEW t, t = AppendBase(s, i, c, lb, to)
  PROVE  Sane(t) /\ s.marks \subseteq t.marks
<1>1. Ok(s) => i \in 1..Len(s.w)
  BY DEF Ok, IsSeq
<1>2. CASE ~ CanHave(s, i, lb)
  <2>1. t = Refuse(s, i)
    BY <1>2 DEF AppendBase
  <2> QED BY <1>1, <2>1, RefuseStep DEF Step
<1>3. CASE CanHave(s, i, lb)
  <2> DEFINE u == WithSpace(s, i, lb, to)
  <2>1. t = Appended(u, i, c, lb)
    BY <1>3 DEF AppendBase
  <2>2. lb \in Nat
    BY BitsOf
  <2>3. Step(s, u) /\ (Ok(u) => Moved(s.w[i], u.w[i]))
    <3> HIDE DEF u
    <3> QED BY <1>1, <1>3, <2>2, SpaceStep DEF u
  <2>4. Sane(u) /\ s.marks \subseteq u.marks /\ (Ok(u) => Len(u.w) = Len(s.w))
    BY <2>3 DEF Step
  <2>5. Ok(u) => Ok(s)
    BY <2>3, StepOk
  <2> HIDE DEF u
  <2>6. Ok(u) => /\ i = Len(u.w) /\ Fits(c, u.w[i].type)
                 /\ u.w[i].type = KEY => u.w[i].n >= HasAttrib
    BY <2>3, <2>4, <2>5 DEF Moved
  <2>7. Sane(t) /\ u.marks \subseteq t.marks
    BY <2>1, <2>4, <2>6, AppendedSane
  <2> QED BY <2>4, <2>7
<1> QED BY <1>2, <1>3

\* Writing the head of an entry for which there is room is a step.
LEMMA WithHeadStep ==
  ASSUME NEW s, Sane(s), NEW i \in Nat, NEW c, NEW head, IsSeq(head), NEW to \in Nat,
         c.slot = "attrib" => head # <<>>,
         Ok(s) => i = Len(s.w) /\ Fits(c, s.w[i].type),
         head # <<>> => CanHave(s, i, Len(head)),
         NEW t, t = WithHead(s, i, c, head, to)
  PROVE  /\ Step(s, t)
         /\ Ok(t) => (t.w[i].type = KEY => t.w[i].n >= HasAttrib)
<1>1. Ok(s) => i \in 1..Len(s.w)
  BY DEF Ok, IsSeq
<1>2. CASE head = <<>>
  <2>1. t = s
    BY <1>2 DEF WithHead
  <2>2. Ok(s) => s.w[i].type # KEY
    BY <1>2, InKey
  <2> QED BY <2>1, <2>2, StepSelf
<1>3. CASE head # <<>>
  <2> DEFINE n == Len(head)
             u == WithSpace(s, i, n, to)
             v == WriteCells(u, i, head)
             y == Headed(v.w[i], c.slot)
  <2>1. t = WithWriter(v, i, y)
    <3>1. t = [v EXCEPT !.w[i] = Headed(@, c.slot)]
      BY <1>3 DEF WithHead
    <3> HIDE DEF v
    <3> QED BY <3>1 DEF WithWriter
  <2>2. n \in Nat
    BY DEF IsSeq
  <2>3. Step(s, u) /\ (Ok(u) => u.w[i].off + n <= u.w[i].len)
    <3> HIDE DEF u, n
    <3> QED BY <1>1, <1>3, <2>2, SpaceStep DEF u, n
  <2>4. Sane(u) /\ (Ok(u) => Ok(s) /\ i = Len(u.w) /\ i \in 1..Len(u.w))
    <3>1. Sane(u) /\ (Ok(u) => Len(u.w) = Len(s.w))
      BY <2>3 DEF Step
    <3>2. Ok(u) => Ok(s)
      BY <2>3, StepOk
    <3> QED BY <1>1, <3>1, <3>2
  <2> HIDE DEF u
  <2>5. Step(u, v)
    <3> HIDE DEF v
    <3> QED BY <2>3, <2>4, WriteStep DEF v, n
  <2>6. Step(s, v)
    BY <2>3, <2>5, StepStep
  <2>7. Sane(v) /\ (Ok(v) => Ok(s) /\ i = Len(v.w) /\ i \in 1..Len(v.w)
                           /\ v.w[i].type = s.w[i].type)
    <3>1. Ok(v) => Ok(s)
      BY <2>6, StepOk
    <3> QED BY <1>1, <2>6, <3>1 DEF Step
  <2> HIDE DEF v
  <2>8. Ok(v) => Kept(v.w[i], y) /\ (c.slot = "attrib" => y.n >= HasAttrib)
    <3> SUFFICES ASSUME Ok(v) PROVE Kept(v.w[i], y) /\ (c.slot = "attrib" => y.n >= HasAttrib)
      OBVIOUS
    <3>1. IsWriter(v.w[i])
      BY <2>7, OkElim
    <3> DEFINE x == v.w[i]
    <3> HIDE DEF x
    <3>2. Kept(x, y) /\ (c.slot = "attrib" => y.n >= HasAttrib)
      BY <3>1, HeadedKept DEF x
    <3> QED BY <3>2 DEF x
  <2> HIDE DEF y
  <2>9. Step(v, t) /\ (Ok(t) => t.w[i] = y)
    BY <2>1, <2>7, <2>8, TopStep DEF Kept
  <2>10. Step(s, t)
    BY <2>6, <2>9, StepStep
  <2>11. Ok(t) => (t.w[i].type = KEY => t.w[i].n >= HasAttrib)
    <3>1. Ok(t) => Ok(v)
      BY <2>7, <2>9, StepOk
    <3>2. Ok(v) => (s.w[i].type = KEY => y.n >= HasAttrib)
      BY <2>7, <2>8, InKey
    <3>3. Ok(v) => y.type = s.w[i].type
      BY <2>7, <2>8 DEF Kept, Keeps
    <3> QED BY <2>9, <3>1, <3>2, <3>3
  <2> QED BY <2>10, <2>11
<1> QED BY <1>2, <1>3

\* A container is started, head and all, in a sound state.
LEMMA StartedSane ==
  ASSUME NEW s, Sane(s), NEW i \in Nat, NEW c, NEW head, IsSeq(head), NEW to \in Nat,
         c.slot = "attrib" => head # <<>>,
         Ok(s) => i = Len(s.w) /\ Fits(c, s.w[i].type),
         NEW t, t = Started(s, i, c, head, to)
  PROVE  Sane(t) /\ s.marks \subseteq t.marks
<1>1. CASE head # <<>> /\ ~ CanHave(s, i, Len(head))
  <2>1. t = Refuse(s, i)
    BY <1>1 DEF Started
  <2>2. Ok(s) => i \in 1..Len(s.w)
    BY DEF Ok, IsSeq
  <2> QED BY <2>1, <2>2, RefuseStep DEF Step
<1>2. CASE ~ (head # <<>> /\ ~ CanHave(s, i, Len(head)))
  <2> DEFINE u == WithHead(s, i, c, head, to)
             lb == LenBytes(Bits(c.slot))
  <2>1. t = AppendBase(u, i, c, lb, to)
    BY <1>2 DEF Started
  <2> HIDE DEF u
  <2>2. Step(s, u) /\ (Ok(u) => (u.w[i].type = KEY => u.w[i].n >= HasAttrib))
    BY <1>2, WithHeadStep DEF u
  <2>3. Ok(u) => Ok(s)
    BY <2>2, StepOk
  <2>4. Sane(u) /\ s.marks \subseteq u.marks
        /\ (Ok(u) => i = Len(u.w) /\ i \in 1..Len(s.w) /\ u.w[i].type = s.w[i].type)
    <3>1. Ok(s) => i \in 1..Len(s.w)
      BY DEF Ok, IsSeq
    <3> QED BY <2>2, <2>3, <3>1 DEF Step
  <2>5. Ok(u) => /\ i = Len(u.w) /\ Fits(c, u.w[i].type)
                 /\ u.w[i].type = KEY => u.w[i].n >= HasAttrib
    BY <2>2, <2>3, <2>4
  <2> HIDE DEF lb
  <2>6. Sane(t) /\ u.marks \subseteq t.marks
    BY <2>1, <2>4, <2>5, AppendBaseSane DEF lb
  <2> QED BY <2>4, <2>6
<1> QED BY <1>1, <1>2

\* add_*().
LEMMA AddedSane ==
  ASSUME NEW s, Sane(s), NEW i \in Nat, NEW c, NEW to \in Nat,
         Ok(s) => i = Len(s.w) /\ Fits(c, s.w[i].type),
         NEW t, t = Added(s, i, c, to)
  PROVE  Sane(t)
<1> DEFINE x == s.w[i]
           y == Begun(x, c.type, c.slot)
           u == [s EXCEPT !.w[i] = y]
           head == EntryHead(x, c.type, c.slot, c.key)
<1>1. Ok(s) => i \in 1..Len(s.w)
  BY DEF Ok, IsSeq
<1>2. CASE Refused(x, c.type, c.slot)
  <2>1. t = Refuse(s, i)
    BY <1>2 DEF Added
  <2> QED BY <1>1, <2>1, RefuseStep DEF Step
<1>3. CASE ~ Refused(x, c.type, c.slot)
  <2>1. t = Started(u, i, c, head, to)
    BY <1>3 DEF Added
  <2>2. u = WithWriter(s, i, y)
    BY DEF WithWriter
  <2>3. Ok(s) => Kept(x, y)
    <3>1. Ok(s) => IsWriter(x)
      BY <1>1, OkElim
    <3> HIDE DEF y, x
    <3> QED BY <3>1, BegunKept DEF y, x
  <2>4. IsSeq(head) /\ (c.slot = "attrib" => head # <<>>)
    <3> HIDE DEF head, x
    <3> QED BY HeadIsSeq DEF head
  <2> HIDE DEF u, y, head
  <2>5. Step(s, u)
    BY <2>2, <2>3, TopStep DEF Kept
  <2>6. Ok(u) => Ok(s)
    BY <2>5, StepOk
  <2>7. Sane(u) /\ (Ok(u) => i = Len(u.w) /\ Fits(c, u.w[i].type))
    BY <1>1, <2>5, <2>6 DEF Step
  <2> QED BY <2>1, <2>4, <2>7, StartedSane
<1> QED BY <1>2, <1>3

-----------------------------------------------------------------------------
(* Headers. *)

\* The hint and count of a header are cells.
LEMMA CountsIs ==
  ASSUME NEW x
  PROVE  IsSeq(Counts(x))
<1>1. ASSUME NEW u, NEW v, IsSeq(u), IsSeq(v) PROVE IsSeq(u \o v)
  BY <1>1, Concat
<1> DEFINE a == IF x.opt[1] = 1 THEN U8(1) ELSE <<>>
           b == IF x.opt[1] = 1 THEN U32(1) ELSE <<>>
<1>2. IsSeq(a) /\ IsSeq(b) /\ IsSeq(U8(x.n)) /\ IsSeq(U16(x.n))
  BY Numbers, Empty
<1> HIDE DEF a, b
<1>3. Counts(x) = IF x.type = FILTER THEN a \o U8(x.n) ELSE b \o U16(x.n)
  BY DEF Counts, a, b
<1> QED BY <1>1, <1>2, <1>3

\* A header is no longer than hdr_size() says.
LEMMA HeaderIs ==
  ASSUME NEW x, IsWriter(x)
  PROVE  /\ IsSeq(Header(x))
         /\ HdrSize(x) \in Nat /\ Len(Header(x)) <= HdrSize(x)
<1>1. ASSUME NEW u, NEW v, IsSeq(u), IsSeq(v) PROVE IsSeq(u \o v)
  BY <1>1, Concat
<1>2. \A u : IsSeq(U8(u)) /\ IsSeq(U16(u)) /\ IsSeq(U32(u))
  BY Numbers
<1>3. IsSeq(Header(x))
  <2> DEFINE a == IF x.type = MAP THEN U8(1) ELSE <<>>
             b == IF x.type = MAP /\ x.opt[2] = 1 THEN U16(1) ELSE <<>>
             c == Blank(x.defn + x.sum)
             d == Counts(x)
             h == Header(x)
             e == U8(HdrFlags(x))
             f == U8(x.ct)
             g == U16(x.n)
  <2>1. IsSeq(a) /\ IsSeq(b)
    BY Numbers, Empty
  <2>2. IsSeq(c)
    <3>1. x.defn + x.sum \in Nat
      BY DEF IsWriter
    <3> QED BY <3>1, Blanks
  <2>3. IsSeq(d)
    BY CountsIs
  <2>4. IsSeq(e) /\ IsSeq(f) /\ IsSeq(g) /\ IsSeq(U8(x.n)) /\ IsSeq(U8(9)) /\ IsSeq(U8(3))
        /\ IsSeq(U8(1)) /\ IsSeq(U8(8)) /\ IsSeq(U16(0))
    BY <1>2
  <2>5. \/ h = U8(x.n)
        \/ h = U8(9) \o U8(3) \o U8(1) \o U16(0) \o g
        \/ h = U8(8) \o g
        \/ h = e \o a \o f \o b \o c \o d
    <3>1. KEY # FIELDS /\ KEY # ELEMENTS /\ FIELDS # ELEMENTS
      BY DEF KEY, FIELDS, ELEMENTS
    <3>2. CASE x.type = KEY
      <4>1. h = U8(x.n)
        BY <3>1, <3>2 DEF Header
      <4> QED BY <4>1
    <3>3. CASE x.type = FIELDS
      <4>1. h = U8(9) \o U8(3) \o U8(1) \o U16(0) \o g
        BY <3>1, <3>3 DEF Header
      <4> QED BY <4>1
    <3>4. CASE x.type = ELEMENTS
      <4>1. h = U8(8) \o g
        BY <3>1, <3>4 DEF Header
      <4> QED BY <4>1
    <3>5. CASE x.type # KEY /\ x.type # FIELDS /\ x.type # ELEMENTS
      <4>1. h = e \o a \o f \o b \o c \o d
        BY <3>5 DEF Header
      <4> QED BY <4>1
    <3> QED BY <3>2, <3>3, <3>4, <3>5
  <2> HIDE DEF a, b, c, d, e, f, g, h
  <2>6. IsSeq(U8(9) \o U8(3) \o U8(1) \o U16(0) \o g)
    <3>1. IsSeq(U8(9) \o U8(3))
      BY <1>1, <2>4
    <3>2. IsSeq(U8(9) \o U8(3) \o U8(1))
      BY <1>1, <2>4, <3>1
    <3>3. IsSeq(U8(9) \o U8(3) \o U8(1) \o U16(0))
      BY <1>1, <2>4, <3>2
    <3> QED BY <1>1, <2>4, <3>3
  <2>7. IsSeq(U8(8) \o g)
    BY <1>1, <2>4
  <2>8. IsSeq(e \o a \o f \o b \o c \o d)
    <3>1. IsSeq(e \o a)
      BY <1>1, <2>1, <2>4
    <3>2. IsSeq(e \o a \o f)
      BY <1>1, <2>4, <3>1
    <3>3. IsSeq(e \o a \o f \o b)
      BY <1>1, <2>1, <3>2
    <3>4. IsSeq(e \o a \o f \o b \o c)
      BY <1>1, <2>2, <3>3
    <3> QED BY <1>1, <2>3, <3>4
  <2>9. IsSeq(h)
    BY <2>4, <2>5, <2>6, <2>7, <2>8
  <2> QED BY <2>9 DEF h
<1>4. Len(Header(x)) \in Nat
  BY <1>3 DEF IsSeq
<1>5. HdrSize(x) = Len(Header(x)) + (IF x.type \in Lists /\ x.n > 0 THEN 4 ELSE 0)
  BY DEF HdrSize
<1> DEFINE l == Len(Header(x))
           m == HdrSize(x)
<1> HIDE DEF l, m
<1>6. l \in Nat /\ (m = l + 4 \/ m = l + 0)
  BY <1>4, <1>5 DEF l, m
<1>7. m \in Nat /\ l <= m
  BY <1>6
<1> QED BY <1>3, <1>7 DEF l, m

\* What a header depends on.
LEMMA HeaderSame ==
  ASSUME NEW x, NEW y, y.type = x.type, y.opt = x.opt, y.n = x.n, y.defn = x.defn,
         y.sum = x.sum, y.ct = x.ct
  PROVE  HdrSize(y) = HdrSize(x)
<1>1. Header(y) = Header(x)
  BY DEF Header, HdrFlags, Counts
<1> HIDE DEF Header
<1> QED BY <1>1 DEF HdrSize

\* The length is written in the bytes that were kept for it.
LEMMA LenCellsIs ==
  ASSUME NEW bits \in {0, 15, 16}, NEW n
  PROVE  IsSeq(LenCells(bits, n)) /\ Len(LenCells(bits, n)) = LenBytes(bits)
<1>1. CASE bits = 0
  <2>1. LenCells(bits, n) = <<>> /\ LenBytes(bits) = 0
    BY <1>1 DEF LenCells, LenBytes
  <2> DEFINE e == <<>>
  <2>2. IsSeq(e) /\ Len(e) = 0
    BY Empty
  <2> HIDE DEF e
  <2>3. LenCells(bits, n) = e
    BY <2>1 DEF e
  <2> QED BY <2>1, <2>2, <2>3
<1>2. CASE bits = 15
  <2>1. LenCells(bits, n) = U16(n) /\ LenBytes(bits) = 2
    BY <1>2 DEF LenCells, LenBytes
  <2> QED BY <2>1, Numbers
<1>3. CASE bits = 16
  <2> DEFINE a == U8(254)
             b == U16(n)
  <2>1. LenCells(bits, n) = a \o b /\ LenBytes(bits) = 3
    BY <1>3 DEF LenCells, LenBytes
  <2>2. IsSeq(a) /\ Len(a) = 1 /\ IsSeq(b) /\ Len(b) = 2
    BY Numbers
  <2> HIDE DEF a, b
  <2>3. IsSeq(a \o b) /\ Len(a \o b) = Len(a) + Len(b)
    BY <2>2, Concat
  <2> DEFINE c == LenCells(bits, n)
  <2> HIDE DEF c
  <2>4. c = a \o b
    BY <2>1 DEF c
  <2>5. IsSeq(c) /\ Len(c) = 3
    BY <2>2, <2>3, <2>4
  <2> QED BY <2>1, <2>5 DEF c
<1> QED BY <1>1, <1>2, <1>3

-----------------------------------------------------------------------------
(* A container that is ended. *)

\* One writer less.
Shorter(v, u, i, y) == v = [j \in 1..(i - 1) |-> IF j = i - 1 THEN y ELSE u[j]]

\* The writers have the types they had.
SameTypes(n, u, v) == \A j \in 1..n : u[j].type = v[j].type

\* Without its innermost writer a sound state is sound.
LEMMA ShorterOk ==
  ASSUME NEW s, Ok(s), NEW i \in Nat, i = Len(s.w), i >= 2, NEW y, Keeps(s.w[i - 1], y),
         NEW v, Shorter(v, s.w, i, y), NEW t, t.w = v, t.block = s.block, t.marks = s.marks
  PROVE  Ok(t) /\ Len(t.w) = i - 1 /\ SameTypes(Len(t.w), t.w, s.w)
<1> DEFINE m == i - 1
<1>1. m \in Nat /\ m >= 1 /\ m \in 1..Len(s.w) /\ i = m + 1
  OBVIOUS
<1>2. v = [j \in 1..m |-> v[j]]
  BY DEF Shorter
<1>3. IsSeq(v) /\ Len(v) = m
  BY <1>1, <1>2, FunIsSeq
<1>4. \A j \in 1..m : v[j] = IF j = m THEN y ELSE s.w[j]
  BY DEF Shorter
<1>5. Keeps(s.w[m], y)
  OBVIOUS
<1> HIDE DEF m
<1>6. ASSUME NEW j \in 1..m
      PROVE  /\ InMemory(s.block, v[j]) /\ v[j].buf = s.w[j].buf /\ v[j].bits = s.w[j].bits
             /\ v[j].type = s.w[j].type /\ v[j].pre = s.w[j].pre
             /\ j \in 1..Len(s.w)
  <2>1. j \in 1..Len(s.w)
    BY <1>1
  <2>2. InMemory(s.block, s.w[j])
    BY <2>1 DEF Ok
  <2>3. CASE j = m
    <3>1. v[j] = y
      BY <1>4, <2>3
    <3> QED BY <1>5, <2>1, <2>2, <2>3, <3>1 DEF Keeps, InMemory
  <2>4. CASE j # m
    <3>1. v[j] = s.w[j]
      BY <1>4, <2>4
    <3> QED BY <2>1, <2>2, <3>1
  <2> QED BY <2>3, <2>4
<1>7. \A j \in 2..m : Child(v[j - 1], v[j])
  <2> TAKE j \in 2..m
  <2>1. j \in 1..m /\ j \in 2..Len(s.w) /\ j - 1 \in 1..m /\ j - 1 # m
    BY <1>1
  <2>2. Child(s.w[j - 1], s.w[j])
    BY <2>1 DEF Ok
  <2>3. v[j - 1] = s.w[j - 1]
    BY <1>4, <2>1
  <2>4. v[j].buf = s.w[j].buf /\ v[j].bits = s.w[j].bits /\ v[j].type = s.w[j].type
    BY <1>6, <2>1
  <2> QED BY <2>2, <2>3, <2>4 DEF Child
<1>8. v[1].buf = s.block.at + v[1].pre /\ v[1].bits = 0
  <2>1. 1 \in 1..m
    BY <1>1
  <2>2. v[1].buf = s.w[1].buf /\ v[1].bits = s.w[1].bits /\ v[1].pre = s.w[1].pre
    BY <1>6, <2>1
  <2> QED BY <2>2 DEF Ok
<1>9. MemoryOk(s.block) /\ s.marks = {}
  BY DEF Ok
<1>10. Ok(t)
  BY <1>1, <1>3, <1>6, <1>7, <1>8, <1>9 DEF Ok
<1>11. SameTypes(Len(t.w), t.w, s.w)
  BY <1>3, <1>6 DEF SameTypes
<1> QED BY <1>3, <1>10, <1>11 DEF m

\* t is s after the i-th, which was the last, is ended.
After(s, t, i) ==
  /\ Sane(t) /\ s.marks \subseteq t.marks
  /\ Ok(t) => /\ Len(t.w) = IF i = 1 THEN 1 ELSE i - 1
              /\ SameTypes(Len(t.w), t.w, s.w)

\* Keeping what was asked for moves nothing.
LEMMA DocKept ==
  ASSUME NEW x, IsWriter(x), NEW slot, NEW key, NEW d
  PROVE  Kept(x, WithDoc(x, slot, key, d))
<1> DEFINE e == [x.doc EXCEPT ![3] = @ \o <<d>>]
           f == [x.doc EXCEPT ![4] = @ \o <<<<key, <<d>>>>>>]
           g == IF slot \in {"key", "summary", "attrib"} THEN e ELSE f
           y == WithDoc(x, slot, key, d)
<1>1. y = SetField(x, "doc", g)
  BY DEF WithDoc, SetField
<1> HIDE DEF g, y
<1>2. "doc" \in Numeric \cup Free /\ "doc" \notin Numeric
  BY DEF Numeric, Free
<1>3. Kept(x, y)
  BY <1>1, <1>2, SetOk
<1> QED BY <1>3 DEF y

\* Two numbers set.
LEMMA TwoKept ==
  ASSUME NEW p, IsWriter(p), NEW f \in Numeric, NEW v \in Nat, NEW o \in Nat,
         NEW y, y = SetField(SetField(p, f, v), "off", o)
  PROVE  Kept(p, y)
<1> DEFINE z == SetField(p, f, v)
<1>1. f \in Numeric \cup Free /\ "off" \in Numeric \cup Free
  BY DEF Numeric
<1>2. y = SetField(z, "off", o)
  OBVIOUS
<1> HIDE DEF z
<1>3. Kept(p, z)
  BY <1>1, SetOk DEF z
<1>4. IsWriter(z)
  BY <1>3 DEF Kept, Keeps
<1>5. Kept(z, y)
  BY <1>1, <1>2, <1>4, SetOk
<1> QED BY <1>3, <1>5, KeptKept

\* A parent told of the size of what it contains keeps its window.
LEMMA SizedKept ==
  ASSUME NEW p, IsWriter(p), NEW x, IsWriter(x)
  PROVE  Kept(p, Sized(p, x))
<1> DEFINE size == x.off + LenBytes(x.bits)
           y == Sized(p, x)
           o == p.off + x.off
<1>1. size \in Nat
  <2>1. x.off \in Nat /\ x.bits \in {0, 15, 16}
    BY DEF IsWriter
  <2>2. LenBytes(x.bits) \in Nat
    BY <2>1, LenBytesNat
  <2> QED BY <2>1, <2>2
<1>2. o \in Nat
  BY DEF IsWriter
<1>3. CASE x.slot \in {"key", "summary"}
  <2> DEFINE v == p.sum + size
  <2>1. y = [p EXCEPT !.sum = @ + size, !.off = @ + x.off]
    BY <1>3 DEF Sized
  <2>2. v \in Nat
    BY <1>1 DEF IsWriter
  <2> HIDE DEF size, y
  <2>3. y = SetField(SetField(p, "sum", v), "off", o)
    BY <2>1 DEF SetField
  <2> HIDE DEF v, o
  <2>4. "sum" \in Numeric
    BY DEF Numeric
  <2>5. Kept(p, y)
    BY <1>2, <2>2, <2>3, <2>4, TwoKept
  <2> QED BY <2>5 DEF y
<1>4. CASE x.slot = "body"
  <2> DEFINE v == p.body + size
  <2>1. y = [p EXCEPT !.body = @ + size, !.off = @ + x.off]
    BY <1>4 DEF Sized
  <2>2. v \in Nat
    BY <1>1 DEF IsWriter
  <2> HIDE DEF size, y
  <2>3. y = SetField(SetField(p, "body", v), "off", o)
    BY <2>1 DEF SetField
  <2> HIDE DEF v, o
  <2>4. "body" \in Numeric
    BY DEF Numeric
  <2>5. Kept(p, y)
    BY <1>2, <2>2, <2>3, <2>4, TwoKept
  <2> QED BY <2>5 DEF y
<1>5. CASE x.slot \notin {"key", "summary", "body"}
  <2>1. y = [p EXCEPT !.off = o]
    BY <1>5 DEF Sized
  <2> HIDE DEF o, y
  <2>2. Kept(p, y)
    BY <1>2, <2>1, OffKept
  <2> QED BY <2>2 DEF y
<1> QED BY <1>3, <1>4, <1>5

\* What is written when the i-th is ended.
HeaderPut(s, i) ==
  LET x == s.w[i]
  IN Put(Put(s, x.buf, Header(x)), x.buf - LenBytes(x.bits), LenCells(x.bits, x.off))

\* The bytes kept for the length are in the memory: they are the last of the
\* parent before the window.
LEMMA LengthIn ==
  ASSUME NEW s, Ok(s), NEW i \in 1..Len(s.w), s.w[i].off <= s.w[i].len,
         NEW a, a = s.w[i].buf - LenBytes(s.w[i].bits)
  PROVE  a \in Int /\ InBlock(s, a, LenBytes(s.w[i].bits))
<1> DEFINE buf == s.w[i].buf
           len == s.w[i].len
           off == s.w[i].off
           at == s.block.at
           total == Len(s.block.cells)
           n == LenBytes(s.w[i].bits)
<1>1. IsWriter(s.w[i]) /\ at \in Nat /\ total \in Nat /\ at <= buf /\ buf + len = at + total
  BY OkElim
<1>2. buf \in Nat /\ len \in Int /\ off \in Nat /\ n \in Nat
  <2>1. s.w[i].bits \in {0, 15, 16}
    BY <1>1 DEF IsWriter
  <2>2. n \in Nat
    BY <2>1, LenBytesNat
  <2> QED BY <1>1, <2>2 DEF IsWriter
<1>3. off <= len /\ a = buf - n
  OBVIOUS
<1>4. at <= buf - n
  <2>1. CASE i = 1
    <3>1. s.w[1].bits = 0
      BY DEF Ok
    <3>2. n = 0
      BY <2>1, <3>1 DEF LenBytes
    <3> HIDE DEF n, buf, at
    <3> QED BY <1>1, <1>2, <3>2
  <2>2. CASE i # 1
    <3> DEFINE pbuf == s.w[i - 1].buf
               poff == s.w[i - 1].off
    <3>1. i \in 2..Len(s.w) /\ i - 1 \in 1..Len(s.w)
      BY <2>2 DEF Ok, IsSeq
    <3>2. Child(s.w[i - 1], s.w[i])
      BY <3>1 DEF Ok
    <3>3. buf = pbuf + poff /\ n <= poff
      BY <3>2 DEF Child
    <3>4. IsWriter(s.w[i - 1]) /\ at <= pbuf
      BY <3>1, OkElim
    <3>5. pbuf \in Nat /\ poff \in Nat
      BY <3>4 DEF IsWriter
    <3> HIDE DEF buf, n, pbuf, poff, at
    <3> QED BY <1>1, <1>2, <3>3, <3>4, <3>5
  <2> QED BY <2>1, <2>2
<1>5. InBlock(s, a, n) <=> at <= a /\ a + n <= at + total
  BY DEF InBlock
<1> HIDE DEF buf, len, off, at, total, n
<1>6. a \in Int /\ at <= a /\ a + n <= at + total
  BY <1>1, <1>2, <1>3, <1>4
<1> QED BY <1>5, <1>6 DEF n

\* A container that has room for its header writes header and length in the
\* memory.
LEMMA HeaderStep ==
  ASSUME NEW s, Sane(s), NEW i \in Nat,
         Ok(s) => /\ i = Len(s.w) /\ HdrSize(s.w[i]) <= s.w[i].off
                  /\ s.w[i].off <= s.w[i].len,
         NEW t, t = HeaderPut(s, i)
  PROVE  Step(s, t) /\ t.w = s.w
<1> DEFINE x == s.w[i]
           h == Header(x)
           u == Put(s, x.buf, h)
           a == x.buf - LenBytes(x.bits)
           c == LenCells(x.bits, x.off)
<1>1. t = Put(u, a, c)
  BY DEF HeaderPut
<1>2. Ok(s) => i \in 1..Len(s.w) /\ IsWriter(x)
  <2>1. Ok(s) => i \in 1..Len(s.w)
    BY DEF Ok, IsSeq
  <2> QED BY <2>1, OkElim
<1>3. Ok(s) => x.buf \in Int /\ IsSeq(h) /\ InBlock(s, x.buf, Len(h))
  <2> SUFFICES ASSUME Ok(s) PROVE x.buf \in Int /\ IsSeq(h) /\ InBlock(s, x.buf, Len(h))
    OBVIOUS
  <2>1. IsSeq(h) /\ HdrSize(x) \in Nat /\ Len(h) <= HdrSize(x)
    <3> HIDE DEF x
    <3> QED BY <1>2, HeaderIs
  <2> DEFINE n == Len(h)
             m == HdrSize(x)
             off == x.off
             len == x.len
             buf == x.buf
  <2>2. n \in Nat /\ off \in Nat /\ len \in Int /\ buf \in Nat
    BY <1>2, <2>1 DEF IsSeq, IsWriter
  <2>3. m <= off /\ off <= len /\ n <= m /\ m \in Nat
    BY <2>1
  <2> HIDE DEF h, n, m, off, len, buf
  <2>4. 0 + n <= len
    BY <2>2, <2>3
  <2>5. InBlock(s, x.buf + 0, n)
    BY <1>2, <2>2, <2>4, AddressIn DEF len
  <2>6. x.buf + 0 = x.buf /\ x.buf \in Int
    BY <2>2 DEF buf
  <2> QED BY <2>1, <2>5, <2>6 DEF n
<1>4. Step(s, u) /\ u.w = s.w
  <2> HIDE DEF u, h, x
  <2> QED BY <1>3, PutStep DEF u
<1>5. Sane(u) /\ (Ok(u) => Ok(s))
  BY <1>4, StepOk DEF Step
<1>6. Ok(u) => a \in Int /\ IsSeq(c) /\ InBlock(u, a, Len(c))
  <2> SUFFICES ASSUME Ok(u) PROVE a \in Int /\ IsSeq(c) /\ InBlock(u, a, Len(c))
    OBVIOUS
  <2>1. i \in 1..Len(u.w) /\ u.w[i] = x /\ x.off <= x.len /\ IsWriter(x)
    BY <1>2, <1>4, <1>5
  <2>2. x.bits \in {0, 15, 16}
    BY <2>1 DEF IsWriter
  <2> HIDE DEF u, x
  <2>3. IsSeq(c) /\ Len(c) = LenBytes(x.bits)
    BY <2>2, LenCellsIs
  <2> HIDE DEF c
  <2>4. a \in Int /\ InBlock(u, a, LenBytes(x.bits))
    BY <2>1, LengthIn
  <2> QED BY <2>3, <2>4
<1> HIDE DEF u, a, c, h, x
<1>7. Step(u, t) /\ t.w = u.w
  BY <1>1, <1>5, <1>6, PutStep
<1>8. Step(s, t)
  BY <1>4, <1>7, StepStep
<1> QED BY <1>4, <1>7, <1>8

\* A step and then an end are an end.
LEMMA AfterStep ==
  ASSUME NEW s, Sane(s), NEW i \in Nat, i >= 1, Ok(s) => i = Len(s.w),
         NEW u, Step(s, u), NEW t, After(u, t, i)
  PROVE  After(s, t, i)
<1>1. Sane(u) /\ s.marks \subseteq u.marks
  BY DEF Step
<1>2. Sane(t) /\ u.marks \subseteq t.marks
  BY DEF After
<1>3. ASSUME Ok(t)
      PROVE  /\ Len(t.w) = IF i = 1 THEN 1 ELSE i - 1
             /\ SameTypes(Len(t.w), t.w, s.w)
  <2>1. Ok(u) /\ Ok(s)
    <3>1. Ok(u)
      BY <1>1, <1>2, <1>3, MarksOk
    <3> QED BY <3>1, StepOk
  <2>2. Len(t.w) = IF i = 1 THEN 1 ELSE i - 1
    BY <1>3 DEF After
  <2>3. \A j \in 1..Len(t.w) : t.w[j].type = u.w[j].type
    BY <1>3 DEF After, SameTypes
  <2>4. \A j \in 1..i : u.w[j].type = s.w[j].type
    BY <2>1 DEF Step
  <2> DEFINE n == Len(t.w)
  <2>5. \A j \in 1..n : j \in 1..i
    <3>1. n = 1 \/ n = i - 1
      BY <2>2
    <3> HIDE DEF n
    <3> QED BY <3>1
  <2>6. SameTypes(n, t.w, s.w)
    BY <2>3, <2>4, <2>5 DEF SameTypes
  <2> QED BY <2>2, <2>6
<1> QED BY <1>1, <1>2, <1>3 DEF After

\* The outermost one stays.
LEMMA DoneAfter ==
  ASSUME NEW s, Sane(s), Ok(s) => Len(s.w) = 1, NEW t, t = [s EXCEPT !.w[1].done = TRUE]
  PROVE  After(s, t, 1)
<1> DEFINE y == SetField(s.w[1], "done", TRUE)
<1>1. t = WithWriter(s, 1, y)
  BY DEF WithWriter, SetField
<1>2. Ok(s) => Kept(s.w[1], y)
  <2>1. Ok(s) => IsWriter(s.w[1])
    BY OkElim
  <2>2. "done" \in Numeric \cup Free /\ "done" \notin Numeric
    BY DEF Numeric, Free
  <2> HIDE DEF y
  <2> QED BY <2>1, <2>2, SetOk DEF y
<1> HIDE DEF y
<1>3. Step(s, t)
  BY <1>1, <1>2, TopStep DEF Kept
<1>4. Ok(t) => Len(t.w) = 1 /\ SameTypes(Len(t.w), t.w, s.w)
  BY <1>3, StepOk DEF Step, SameTypes
<1> QED BY <1>3, <1>4 DEF Step, After

\* The innermost one leaves.
LEMMA LeaveAfter ==
  ASSUME NEW s, Sane(s), NEW i \in Nat, i >= 2, NEW y,
         Ok(s) => i = Len(s.w) /\ Keeps(s.w[i - 1], y),
         NEW t, IsState(t), t.block = s.block, t.marks = s.marks, Shorter(t.w, s.w, i, y)
  PROVE  After(s, t, i)
<1>1. CASE Excused(s)
  BY <1>1 DEF After, Sane, Ok, Excused
<1>2. CASE ~ Excused(s)
  <2>1. Ok(s) /\ i = Len(s.w) /\ Keeps(s.w[i - 1], y)
    BY <1>2 DEF Sane
  <2>2. Ok(t) /\ Len(t.w) = i - 1 /\ SameTypes(Len(t.w), t.w, s.w)
    <3> DEFINE v == t.w
    <3>1. Shorter(v, s.w, i, y) /\ t.w = v
      OBVIOUS
    <3> HIDE DEF v
    <3> QED BY ZenonT(30), <2>1, <3>1, ShorterOk
  <2>3. Len(t.w) = IF i = 1 THEN 1 ELSE i - 1
    <3>1. Len(t.w) = i - 1
      BY <2>2
    <3> QED BY <3>1
  <2> QED BY <2>2, <2>3 DEF After, Sane
<1> QED BY <1>1, <1>2

\* The innermost container leaves a sound state.
LEMMA LeftAfter ==
  ASSUME NEW s, Sane(s), NEW i \in Nat, i >= 1, Ok(s) => i = Len(s.w),
         NEW t, t = Left(s, i)
  PROVE  After(s, t, i)
<1>1. CASE i = 1
  <2>1. t = [s EXCEPT !.w[1].done = TRUE]
    BY <1>1 DEF Left
  <2> QED BY <1>1, <2>1, DoneAfter
<1>2. CASE i # 1
  <2> DEFINE x == s.w[i]
             y == WithDoc(s.w[i - 1], x.slot, x.key, x.doc)
             v == [j \in 1..(i - 1) |-> IF j = i - 1 THEN y ELSE s.w[j]]
  <2>1. t = [s EXCEPT !.w = v]
    <3>1. \A j \in 1..(i - 1) : (IF j = i - 1 THEN WithDoc(s.w[j], x.slot, x.key, x.doc) ELSE s.w[j])
                                = IF j = i - 1 THEN y ELSE s.w[j]
      OBVIOUS
    <3>2. v = [j \in 1..(i - 1) |-> IF j = i - 1 THEN WithDoc(s.w[j], x.slot, x.key, x.doc) ELSE s.w[j]]
      BY <3>1
    <3> HIDE DEF v
    <3> QED BY <1>2, <3>2 DEF Left
  <2>2. Shorter(v, s.w, i, y)
    BY DEF Shorter
  <2>3. Ok(s) => Keeps(s.w[i - 1], y)
    <3> SUFFICES ASSUME Ok(s) PROVE Keeps(s.w[i - 1], y)
      OBVIOUS
    <3>1. i - 1 \in 1..Len(s.w)
      BY <1>2
    <3>2. IsWriter(s.w[i - 1])
      BY <3>1, OkElim
    <3> HIDE DEF x
    <3> QED BY <3>2, DocKept DEF Kept
  <2> HIDE DEF v, y
  <2>4. t.w = v /\ t.block = s.block /\ t.marks = s.marks /\ IsState(t)
    BY <2>1 DEF Sane, IsState
  <2>5. Shorter(t.w, s.w, i, y) /\ i >= 2
    BY <1>2, <2>2, <2>4
  <2> QED BY <2>3, <2>4, <2>5, LeaveAfter
<1> QED BY <1>1, <1>2

\* With its header written.
LEMMA WrittenAfter ==
  ASSUME NEW s, Sane(s), NEW i \in Nat, i >= 1,
         Ok(s) => /\ i = Len(s.w) /\ HdrSize(s.w[i]) <= s.w[i].off
                  /\ s.w[i].off <= s.w[i].len,
         NEW t, t = Left(Written(s, i), i)
  PROVE  After(s, t, i)
<1> DEFINE h == HeaderPut(s, i)
<1>1. Step(s, h) /\ h.w = s.w
  <2> HIDE DEF h
  <2> QED BY HeaderStep DEF h
<1>2. Sane(h) /\ (Ok(h) => Ok(s))
  BY <1>1, StepOk DEF Step
<1>3. Ok(h) => i = Len(h.w)
  BY <1>1, <1>2
<1>4. CASE i = 1
  <2>1. Written(s, i) = h
    BY <1>4 DEF Written, HeaderPut
  <2> HIDE DEF h
  <2>2. After(h, t, i)
    BY <1>2, <1>3, <2>1, LeftAfter
  <2> QED BY <1>1, <2>2, AfterStep
<1>5. CASE i # 1
  <2> DEFINE x == s.w[i]
             p == h.w[i - 1]
             z == Sized(p, x)
             u == WithWriter(h, i - 1, z)
             r == [h.w EXCEPT ![i - 1] = z]
             y == WithDoc(z, x.slot, x.key, x.doc)
             v == [j \in 1..(i - 1) |-> IF j = i - 1 THEN y ELSE h.w[j]]
  <2>1. Written(s, i) = u
    BY <1>5 DEF Written, HeaderPut, WithWriter
  <2> HIDE DEF h
  <2>2. u = [h EXCEPT !.w = r] /\ u.w = r /\ IsState(u) /\ u.block = h.block /\ u.marks = h.marks
    <3>1. u = [h EXCEPT !.w = r]
      BY DEF WithWriter
    <3> HIDE DEF u, r
    <3> QED BY <1>2, <3>1 DEF Sane, IsState
  <2>3. i >= 2 /\ i - 1 \in Nat
    BY <1>5
  <2>4. CASE Excused(h)
    <3>1. t.block = u.block /\ t.marks = u.marks /\ IsState(t)
      <4> HIDE DEF u
      <4>1. \E q : t = [u EXCEPT !.w = q]
        BY <1>5, <2>1 DEF Left
      <4> QED BY <2>2, <4>1 DEF IsState
    <3> HIDE DEF u, r
    <3>2. After(h, t, i)
      BY <2>2, <2>4, <3>1 DEF After, Sane, Ok, Excused
    <3> QED BY <1>1, <3>2, AfterStep
  <2>5. CASE ~ Excused(h)
    <3>1. Ok(h) /\ Ok(s) /\ i = Len(h.w) /\ IsSeq(h.w) /\ i \in 1..Len(h.w) /\ i - 1 \in 1..Len(h.w)
      <4>1. Ok(h) /\ Ok(s)
        BY <1>2, <2>5 DEF Sane
      <4> QED BY <1>3, <2>3, <4>1 DEF Ok
    <3>2. IsWriter(p) /\ IsWriter(x)
      <4>1. IsWriter(h.w[i]) /\ IsWriter(p)
        BY <3>1, OkElim
      <4> QED BY <1>1, <4>1
    <3>3. \A j \in 1..i : r[j] = IF j = i - 1 THEN z ELSE h.w[j]
      <4>1. Replaces(r, h.w, i - 1, z)
        BY DEF Replaces
      <4> HIDE DEF r, z, p
      <4> QED BY <3>1, <4>1, ReplacedAt
    <3>4. r[i] = x /\ r[i - 1] = z
      <4>1. i \in 1..i /\ i - 1 \in 1..i /\ i # i - 1
        BY <2>3
      <4> HIDE DEF r, z, x
      <4>2. r[i] = h.w[i] /\ r[i - 1] = z
        BY <3>3, <4>1
      <4> QED BY <1>1, <4>2 DEF x
    <3>5. t = [u EXCEPT !.w = v]
      <4>1. \A j \in 1..(i - 1) :
               (IF j = i - 1 THEN WithDoc(r[j], x.slot, x.key, x.doc) ELSE r[j])
               = IF j = i - 1 THEN y ELSE h.w[j]
        <5> TAKE j \in 1..(i - 1)
        <5>1. j \in 1..i
          OBVIOUS
        <5> HIDE DEF r, x, z
        <5> QED BY <3>3, <3>4, <5>1
      <4> HIDE DEF r, x, y
      <4>2. v = [j \in 1..(i - 1) |-> IF j = i - 1 THEN WithDoc(r[j], x.slot, x.key, x.doc) ELSE r[j]]
        BY <4>1
      <4> HIDE DEF u, v
      <4>3. t = [u EXCEPT !.w = [j \in 1..(i - 1) |->
                   IF j = i - 1 THEN WithDoc(r[j], x.slot, x.key, x.doc) ELSE r[j]]]
        BY <1>5, <2>1, <2>2, <3>4 DEF Left
      <4> QED BY <4>2, <4>3
    <3>6. Kept(p, z)
      <4> HIDE DEF p, x
      <4> QED BY <3>2, SizedKept
    <3>7. Keeps(p, y)
      <4> HIDE DEF p, z
      <4>1. IsWriter(z)
        BY <3>6 DEF Kept, Keeps
      <4>2. Kept(z, y)
        <5> HIDE DEF x
        <5> QED BY <4>1, DocKept
      <4> HIDE DEF y
      <4>3. Kept(p, y)
        BY <3>6, <4>2, KeptKept
      <4> QED BY <4>3 DEF Kept
    <3>8. Shorter(v, h.w, i, y)
      BY DEF Shorter
    <3> HIDE DEF u, r, v, y, z
    <3>9. t.w = v /\ t.block = h.block /\ t.marks = h.marks /\ IsState(t)
      BY <2>2, <3>5 DEF IsState
    <3>10. Shorter(t.w, h.w, i, y) /\ Keeps(h.w[i - 1], y)
      BY <3>7, <3>8, <3>9
    <3>11. After(h, t, i)
      BY <1>2, <1>3, <2>3, <3>9, <3>10, LeaveAfter
    <3> QED BY <1>1, <3>11, AfterStep
  <2> QED BY <2>4, <2>5
<1> QED BY <1>4, <1>5

\* The larger of two numbers is one, and at least both.
LEMMA Maximum ==
  ASSUME NEW a \in Nat, NEW b \in Nat
  PROVE  Max2(a, b) \in Nat /\ a <= Max2(a, b) /\ b <= Max2(a, b)
BY DEF Max2

\* The size raised.
RaisedTo(s, i, m) == [s EXCEPT !.w[i].off = Max2(@, m)]

\* A size raised to that of the header is a step.
LEMMA RaisedStep ==
  ASSUME NEW s, Sane(s), NEW i \in Nat, i >= 1, NEW m, Ok(s) => i = Len(s.w) /\ m \in Nat,
         NEW t, t = RaisedTo(s, i, m)
  PROVE  /\ Step(s, t)
         /\ Ok(t) => /\ t.w[i].off \in Nat /\ m <= t.w[i].off
                     /\ t.w[i] = [s.w[i] EXCEPT !.off = Max2(@, m)]
<1> DEFINE x == s.w[i]
           o == Max2(x.off, m)
           y == [x EXCEPT !.off = o]
<1>1. t = WithWriter(s, i, y)
  BY DEF WithWriter, RaisedTo
<1>2. ASSUME Ok(s)
      PROVE  Kept(x, y) /\ y.off = o /\ o \in Nat /\ m <= o
  <2>1. i \in 1..Len(s.w) /\ m \in Nat
    BY <1>2
  <2>2. IsWriter(x)
    BY <1>2, <2>1, OkElim
  <2>3. x.off \in Nat
    BY <2>2 DEF IsWriter
  <2> HIDE DEF x
  <2>4. o \in Nat /\ m <= o
    BY <2>1, <2>3, Maximum
  <2> HIDE DEF o
  <2>5. Kept(x, y) /\ y.off = o
    BY <2>2, <2>4, OffKept
  <2> QED BY <2>4, <2>5
<1>3. y = [s.w[i] EXCEPT !.off = Max2(@, m)]
  OBVIOUS
<1> HIDE DEF y, x, o
<1>4. Step(s, t) /\ (Ok(t) => t.w[i] = y)
  BY <1>1, <1>2, TopStep DEF Kept, x
<1>5. Ok(t) => Ok(s)
  BY <1>4, StepOk
<1>6. ASSUME Ok(t)
      PROVE  t.w[i].off \in Nat /\ m <= t.w[i].off
  <2>1. t.w[i].off = o /\ o \in Nat /\ m <= o
    BY <1>2, <1>4, <1>5, <1>6
  <2> QED BY <2>1
<1> QED BY <1>3, <1>4, <1>6

\* update_hdr().
LEMMA EndedAfter ==
  ASSUME NEW s, Sane(s), NEW i \in Nat, i >= 1, Ok(s) => i = Len(s.w), NEW to \in Nat,
         NEW t, t = Ended(s, i, to)
  PROVE  After(s, t, i)
<1> DEFINE m == HdrSize(s.w[i])
           a == RaisedTo(s, i, m)
<1>1. Ok(s) => m \in Nat /\ i \in 1..Len(s.w)
  <2> SUFFICES ASSUME Ok(s) PROVE m \in Nat /\ i \in 1..Len(s.w)
    OBVIOUS
  <2>1. i \in 1..Len(s.w)
    OBVIOUS
  <2>2. IsWriter(s.w[i])
    BY <2>1, OkElim
  <2> QED BY <2>1, <2>2, HeaderIs
<1>2. t = IF CanHave(a, i, 0) THEN Left(Written(WithSpace(a, i, 0, to), i), i)
          ELSE Left(Error(a, i), i)
  BY DEF Ended, RaisedTo
<1> HIDE DEF a
<1>3. /\ Step(s, a)
      /\ Ok(a) => /\ a.w[i].off \in Nat /\ m <= a.w[i].off
                  /\ a.w[i] = [s.w[i] EXCEPT !.off = Max2(@, m)]
  <2> HIDE DEF m
  <2> QED BY <1>1, RaisedStep DEF a
<1>4. Sane(a) /\ (Ok(a) => Ok(s) /\ i = Len(a.w) /\ i \in 1..Len(a.w))
  <2>1. Ok(a) => Ok(s)
    BY <1>3, StepOk
  <2> QED BY <1>1, <1>3, <2>1 DEF Step
<1>5. CASE ~ CanHave(a, i, 0)
  <2> DEFINE u == Error(a, i)
  <2>1. t = Left(u, i)
    BY <1>2, <1>5
  <2>2. Step(a, u)
    BY <1>4, RefuseStep
  <2> HIDE DEF u
  <2>3. Sane(u) /\ (Ok(u) => i = Len(u.w))
    <3>1. Ok(u) => Ok(a)
      BY <1>4, <2>2, StepOk
    <3> QED BY <1>4, <2>2, <3>1 DEF Step
  <2>4. After(u, t, i)
    BY <2>1, <2>3, LeftAfter
  <2>5. After(a, t, i)
    BY <1>4, <2>2, <2>4, AfterStep
  <2> QED BY <1>3, <2>5, AfterStep
<1>6. CASE CanHave(a, i, 0)
  <2> DEFINE u == WithSpace(a, i, 0, to)
  <2>1. t = Left(Written(u, i), i)
    BY <1>2, <1>6
  <2> HIDE DEF u
  <2>2. /\ Step(a, u)
        /\ Ok(u) => /\ u.w[i].off + 0 <= u.w[i].len
                    /\ Moved(a.w[i], u.w[i])
    BY <1>4, <1>6, SpaceStep DEF u
  <2>3. Sane(u) /\ (Ok(u) => Ok(a) /\ i = Len(u.w))
    <3>1. Ok(u) => Ok(a)
      BY <1>4, <2>2, StepOk
    <3> QED BY <1>4, <2>2, <3>1 DEF Step
  <2>4. ASSUME Ok(u)
        PROVE  i = Len(u.w) /\ HdrSize(u.w[i]) <= u.w[i].off /\ u.w[i].off <= u.w[i].len
    <3> DEFINE x == s.w[i]
               b == a.w[i]
               y == u.w[i]
    <3>1. IsWriter(x)
      BY <1>1, <1>4, <2>3, <2>4, OkElim
    <3>2. b = [x EXCEPT !.off = Max2(@, m)] /\ m <= b.off /\ b.off \in Nat
      BY <1>3, <2>3, <2>4
    <3>3. Moved(b, y) /\ y.off + 0 <= y.len
      BY <2>2, <2>4
    <3> HIDE DEF x, b, y, m
    <3>4. /\ b.type = x.type /\ b.opt = x.opt /\ b.n = x.n /\ b.defn = x.defn
          /\ b.sum = x.sum /\ b.ct = x.ct
      BY <3>1, <3>2 DEF IsWriter, WriterFields
    <3>5. /\ y.type = x.type /\ y.opt = x.opt /\ y.n = x.n /\ y.defn = x.defn
          /\ y.sum = x.sum /\ y.ct = x.ct /\ y.off = b.off
      BY <3>3, <3>4 DEF Moved
    <3>6. HdrSize(y) = HdrSize(x)
      BY <3>5, HeaderSame
    <3>7. HdrSize(y) <= y.off
      BY <3>2, <3>5, <3>6 DEF m, x
    <3>8. y.off <= y.len
      <4>1. y.off \in Nat
        BY <3>2, <3>5
      <4> QED BY <3>3, <4>1
    <3> QED BY <2>3, <2>4, <3>7, <3>8 DEF y
  <2>5. After(u, t, i)
    BY <2>1, <2>3, <2>4, WrittenAfter
  <2>6. After(a, t, i)
    BY <1>4, <2>2, <2>5, AfterStep
  <2> QED BY <1>3, <2>6, AfterStep
<1> QED BY <1>5, <1>6

\* A container ended with an error leaves a sound state.
LEMMA FailedAfter ==
  ASSUME NEW s, Sane(s), NEW i \in Nat, i >= 1, Ok(s) => i = Len(s.w),
         NEW t, t = Left(Error(s, i), i)
  PROVE  After(s, t, i)
<1> DEFINE u == Error(s, i)
<1>1. t = Left(u, i)
  OBVIOUS
<1>2. Step(s, u)
  <2>1. Ok(s) => i \in 1..Len(s.w)
    OBVIOUS
  <2> QED BY <2>1, RefuseStep
<1> HIDE DEF u
<1>3. Sane(u) /\ (Ok(u) => i = Len(u.w))
  <2>1. Ok(u) => Ok(s)
    BY <1>2, StepOk
  <2> QED BY <1>2, <2>1 DEF Step
<1>4. After(u, t, i)
  BY <1>1, <1>3, LeftAfter
<1> QED BY <1>2, <1>4, AfterStep

-----------------------------------------------------------------------------
(* Messages.  They are outermost, and move in the memory. *)

\* y is all of the memory but what is before it.
Whole(b, y) ==
  /\ IsWriter(y) /\ y.bits = 0
  /\ y.buf = b.at + y.pre /\ y.buf + y.len = b.at + Len(b.cells)

\* The outermost writer is all of the memory.
LEMMA WholeOk ==
  ASSUME NEW s, Ok(s)
  PROVE  Whole(s.block, s.w[1]) /\ 1 \in 1..Len(s.w) /\ MemoryOk(s.block)
<1>1. 1 \in 1..Len(s.w)
  BY DEF Ok, IsSeq
<1> QED BY <1>1, OkElim DEF Ok, Whole

\* A writer that is alone may be replaced by another on all of the memory.
LEMMA OneOk ==
  ASSUME NEW s, Ok(s), Len(s.w) = 1, NEW y, Whole(s.block, y),
         NEW t, Replaced(s, t, 1, y)
  PROVE  Ok(t) /\ Len(t.w) = 1 /\ t.w[1] = y
<1>1. IsSeq(t.w) /\ Len(t.w) = 1 /\ t.w[1] = y
  <2>1. Replaces(t.w, s.w, 1, y) /\ IsSeq(s.w)
    BY DEF Replaced, Ok
  <2> DEFINE v == t.w
  <2> HIDE DEF v
  <2>2. IsSeq(v) /\ Len(v) = Len(s.w) /\ \A k \in 1..Len(s.w) : v[k] = IF k = 1 THEN y ELSE s.w[k]
    BY <2>1, ReplacedAt DEF v
  <2>3. v[1] = y
    BY <2>2
  <2> QED BY <2>2, <2>3 DEF v
<1>2. t.block = s.block /\ t.marks = {} /\ MemoryOk(s.block)
  BY DEF Replaced, Ok
<1>3. InMemory(s.block, y)
  <2> DEFINE at == s.block.at
             pre == y.pre
  <2>1. at \in Nat /\ pre \in Nat /\ y.buf = at + pre
    BY <1>2 DEF Whole, IsWriter, MemoryOk
  <2> HIDE DEF at, pre
  <2>2. at <= y.buf
    BY <2>1
  <2> QED BY <2>2 DEF InMemory, Whole, at
<1>4. \A j \in 1..Len(t.w) : InMemory(t.block, t.w[j])
  BY <1>1, <1>2, <1>3
<1>5. \A j \in 2..Len(t.w) : Child(t.w[j - 1], t.w[j])
  BY <1>1
<1> QED BY <1>1, <1>2, <1>4, <1>5 DEF Ok, Whole

\* Replacing it is a step.
LEMMA OneStep ==
  ASSUME NEW s, Sane(s), NEW y,
         Ok(s) => /\ Len(s.w) = 1 /\ Whole(s.block, y)
                  /\ y.type = s.w[1].type /\ y.opt = s.w[1].opt,
         NEW t, t = WithWriter(s, 1, y)
  PROVE  Step(s, t) /\ (Ok(t) => t.w[1] = y)
<1>1. t.w = [s.w EXCEPT ![1] = y] /\ t.block = s.block /\ t.marks = s.marks /\ IsState(t)
  BY DEF WithWriter, Sane, IsState
<1>2. CASE Excused(s)
  BY <1>1, <1>2 DEF Step, Sane, Ok, Excused
<1>3. CASE ~ Excused(s)
  <2>1. Ok(s) /\ Len(s.w) = 1 /\ Whole(s.block, y) /\ y.type = s.w[1].type /\ y.opt = s.w[1].opt
    BY <1>3 DEF Sane
  <2>2. Ok(t) /\ Len(t.w) = 1 /\ t.w[1] = y
    <3>1. Replaced(s, t, 1, y)
      BY <1>1 DEF Replaced, Replaces
    <3> QED BY <2>1, <3>1, OneOk
  <2>3. \A j \in 1..1 : t.w[j].type = s.w[j].type /\ t.w[j].opt = s.w[j].opt
    BY <2>1, <2>2
  <2>4. Sane(t)
    BY <1>1, <2>2 DEF Sane
  <2> QED BY <1>1, <2>1, <2>2, <2>3, <2>4 DEF Step
<1> QED BY <1>2, <1>3

\* y is x but for where it is.
Reframed(x, y) ==
  /\ y.type = x.type /\ y.opt = x.opt /\ y.off = x.off /\ y.n = x.n /\ y.sum = x.sum
  /\ y.body = x.body /\ y.keyoff = x.keyoff /\ y.bodyoff = x.bodyoff /\ y.bits = x.bits

\* A writer with another window.
Framed(x, a, n, p) == [x EXCEPT !.buf = a, !.len = n, !.pre = p]

\* A writer with another window has nothing else changed.
LEMMA FramedOk ==
  ASSUME NEW x, IsWriter(x), NEW a \in Nat, NEW n \in Int, NEW p \in Nat,
         NEW y, y = Framed(x, a, n, p)
  PROVE  IsWriter(y) /\ Reframed(x, y) /\ y.buf = a /\ y.len = n /\ y.pre = p
<1>1. y = [f \in WriterFields |-> IF f = "buf" THEN a ELSE IF f = "len" THEN n
                                  ELSE IF f = "pre" THEN p ELSE x[f]]
  BY DEF IsWriter, WriterFields, Framed
<1>2. y = [f \in WriterFields |-> y[f]]
  BY <1>1
<1>3. y.buf = a /\ y.len = n /\ y.pre = p
  BY <1>1 DEF WriterFields
<1>4. Reframed(x, y) /\ y.defn = x.defn
  BY <1>1 DEF WriterFields, Reframed
<1>5. IsWriter(y)
  BY <1>2, <1>3, <1>4 DEF IsWriter, Reframed
<1> QED BY <1>3, <1>4, <1>5

\* Moving the end of the prefix leaves the rest of the memory to the window.
LEMMA PrefixedOk ==
  ASSUME NEW b, MemoryOk(b), NEW x, Whole(b, x), NEW p \in Nat,
         NEW y, y = Prefixed(x, p)
  PROVE  Whole(b, y) /\ Reframed(x, y) /\ y.pre = p /\ y.len = x.len + x.pre - p
<1> DEFINE buf == x.buf
           len == x.len
           pre == x.pre
           at == b.at
           total == Len(b.cells)
           a == buf - pre + p
           n == len + pre - p
<1>1. y = Framed(x, a, n, p)
  BY DEF Framed, Prefixed
<1>2. buf \in Nat /\ len \in Int /\ pre \in Nat /\ at \in Nat /\ total \in Nat
  BY DEF Whole, IsWriter, MemoryOk, IsSeq
<1>3. buf = at + pre /\ buf + len = at + total /\ IsWriter(x) /\ x.bits = 0
  BY DEF Whole
<1> HIDE DEF buf, len, pre, at, total
<1>4. a \in Nat /\ n \in Int /\ a = at + p /\ a + n = at + total
  BY <1>2, <1>3
<1> HIDE DEF a, n
<1>5. IsWriter(y) /\ Reframed(x, y) /\ y.buf = a /\ y.len = n /\ y.pre = p
  BY <1>1, <1>3, <1>4, FramedOk
<1>6. y.bits = 0
  BY <1>3, <1>5 DEF Reframed
<1> QED BY <1>4, <1>5, <1>6 DEF Whole, at, total, n, len, pre

\* The parts of the header of a message are numbers of bytes.
LEMMA UptoKeyNat ==
  ASSUME NEW x, IsWriter(x), x.type = MSG
  PROVE  /\ UptoKey(x) \in Nat /\ AfterKey(x) \in Nat
         /\ x.opt[1] \in {0, 1} /\ x.opt[2] \in {0, 1}
<1>1. x.opt \in {<<0, 0>>, <<0, 1>>, <<1, 0>>, <<1, 1>>}
  BY DEF IsWriter, IsOptions, FILTER, VECTOR, SERIES, MAP, MSG
<1>2. x.opt[1] \in {0, 1} /\ x.opt[2] \in {0, 1}
  BY <1>1
<1>3. UptoKey(x) = 11 + 4 * x.opt[1] /\ AfterKey(x) = 2 * x.opt[2]
  BY DEF UptoKey, AfterKey
<1> QED BY <1>2, <1>3

\* Both depend on the options only.
LEMMA KeyOptions ==
  ASSUME NEW x, NEW y, y.opt = x.opt
  PROVE  UptoKey(y) = UptoKey(x) /\ AfterKey(y) = AfterKey(x)
BY DEF UptoKey, AfterKey

\* Cells of a length.
Measures(c, n) == IsSeq(c) /\ Len(c) = n

\* The length of a concatenation.
LEMMA Joined ==
  ASSUME NEW a, NEW m \in Nat, Measures(a, m), NEW b, NEW n \in Nat, Measures(b, n)
  PROVE  Measures(a \o b, m + n)
<1>1. IsSeq(a) /\ IsSeq(b) /\ Len(a) = m /\ Len(b) = n
  BY DEF Measures
<1>2. IsSeq(a \o b) /\ Len(a \o b) = Len(a) + Len(b)
  BY <1>1, Concat
<1> QED BY <1>1, <1>2 DEF Measures

\* The header of a message is as long as its options make it.
LEMMA MsgHeaderIs ==
  ASSUME NEW x, IsWriter(x), x.type = MSG, NEW size
  PROVE  /\ IsSeq(MsgHeader(x, size)) /\ Len(MsgHeader(x, size)) = UptoKey(x)
         /\ IsSeq(PartNum(x)) /\ Len(PartNum(x)) = AfterKey(x)
<1> DEFINE a == U16(size - 2)
           b == U8(7)
           c == U8(6)
           d == U32(1)
           e == U16(B(x.sum # 0) + 2 * x.opt[1] + 4 * x.opt[2])
           f == U8(x.ct)
           g == IF x.opt[1] = 1 THEN U32(1) ELSE <<>>
           p == PartNum(x)
           h == MsgHeader(x, size)
<1>1. x.opt[1] \in {0, 1} /\ x.opt[2] \in {0, 1}
  BY UptoKeyNat
<1>2. IsSeq(g) /\ Len(g) = 4 * x.opt[1]
  <2>1. CASE x.opt[1] = 1
    <3>1. g = U32(1)
      BY <2>1
    <3> QED BY <2>1, <3>1, Numbers
  <2>2. CASE x.opt[1] = 0
    <3> DEFINE z == <<>>
    <3>1. IsSeq(z) /\ Len(z) = 0
      BY Empty
    <3>2. g = z
      BY <2>2
    <3> HIDE DEF z, g
    <3> QED BY <2>2, <3>1, <3>2
  <2> QED BY <1>1, <2>1, <2>2
<1>3. IsSeq(p) /\ Len(p) = AfterKey(x)
  <2>1. AfterKey(x) = 2 * x.opt[2]
    BY DEF AfterKey
  <2>2. CASE x.opt[2] = 1
    <3>1. p = U16(1)
      BY <2>2 DEF PartNum
    <3> QED BY <2>1, <2>2, <3>1, Numbers
  <2>3. CASE x.opt[2] = 0
    <3> DEFINE z == <<>>
    <3>1. IsSeq(z) /\ Len(z) = 0
      BY Empty
    <3>2. p = z
      BY <2>3 DEF PartNum
    <3> HIDE DEF z, p
    <3> QED BY <2>1, <2>3, <3>1, <3>2
  <2> QED BY <1>1, <2>2, <2>3
<1>4. h = a \o b \o c \o d \o e \o f \o g
  BY DEF MsgHeader
<1>5. /\ Measures(a, 2) /\ Measures(b, 1) /\ Measures(c, 1) /\ Measures(d, 4)
      /\ Measures(e, 2) /\ Measures(f, 1)
  BY Numbers DEF Measures
<1>12. Measures(g, 4 * x.opt[1])
  BY <1>2 DEF Measures
<1> HIDE DEF a, b, c, d, e, f, g, h, p
<1>6. Measures(a \o b, 3)
  BY <1>5, Joined
<1>7. Measures(a \o b \o c, 4)
  BY <1>5, <1>6, Joined
<1>8. Measures(a \o b \o c \o d, 8)
  BY <1>5, <1>7, Joined
<1>9. Measures(a \o b \o c \o d \o e, 10)
  BY <1>5, <1>8, Joined
<1>10. Measures(a \o b \o c \o d \o e \o f, 11)
  BY <1>5, <1>9, Joined
<1>11. IsSeq(h) /\ Len(h) = 11 + 4 * x.opt[1]
  <2>1. 4 * x.opt[1] \in Nat
    BY <1>1
  <2>2. Measures(h, 11 + 4 * x.opt[1])
    BY <1>4, <1>10, <1>12, <2>1, Joined
  <2> QED BY <2>2 DEF Measures
<1> QED BY <1>3, <1>11 DEF UptoKey, h, p

\* A message of a size that its header fits in writes header and part number in
\* the memory.
LEMMA MsgWrittenStep ==
  ASSUME NEW s, Sane(s), NEW size,
         Ok(s) => /\ Len(s.w) = 1 /\ s.w[1].type = MSG
                  /\ size \in Nat /\ UptoKey(s.w[1]) + AfterKey(s.w[1]) <= size
                  /\ size <= s.w[1].len,
         NEW t, t = MsgWritten(s, size)
  PROVE  Step(s, t) /\ t.w = s.w
<1> DEFINE x == s.w[1]
           h == MsgHeader(x, size)
           u == Put(s, x.buf, h)
           a == x.buf + size - AfterKey(x)
           c == PartNum(x)
<1>1. t = Put(u, a, c)
  BY DEF MsgWritten
<1>2. Ok(s) => 1 \in 1..Len(s.w) /\ IsWriter(x) /\ x.type = MSG
  BY WholeOk, OkElim
<1>3. ASSUME Ok(s)
      PROVE  /\ x.buf \in Int /\ IsSeq(h) /\ InBlock(s, x.buf, Len(h))
             /\ a \in Int /\ IsSeq(c) /\ InBlock(s, a, Len(c))
  <2>1. /\ 1 \in 1..Len(s.w) /\ IsWriter(x) /\ x.type = MSG
        /\ size \in Nat /\ UptoKey(x) + AfterKey(x) <= size /\ size <= x.len
    BY <1>2, <1>3
  <2> DEFINE up == UptoKey(x)
             after == AfterKey(x)
             len == x.len
             buf == x.buf
  <2>2. buf \in Nat /\ len \in Int
    BY <2>1 DEF IsWriter
  <2> HIDE DEF x
  <2>3. up \in Nat /\ after \in Nat
    BY <2>1, UptoKeyNat
  <2>4. IsSeq(h) /\ Len(h) = up /\ IsSeq(c) /\ Len(c) = after
    BY <2>1, MsgHeaderIs
  <2> HIDE DEF up, after, len, buf, h, c
  <2>5. up + after <= size /\ size <= len /\ size \in Nat
    BY <2>1 DEF up, after, len
  <2> DEFINE o == size - after
  <2>6. o \in Nat /\ 0 + up <= len /\ o + after <= len /\ buf + o = buf + size - after /\ buf + 0 = buf
    BY <2>2, <2>3, <2>5
  <2> HIDE DEF o
  <2>7. buf + 0 \in Int /\ InBlock(s, buf + 0, up)
    BY <1>3, <2>1, <2>3, <2>6, AddressIn DEF buf, len, x
  <2>8. buf + o \in Int /\ InBlock(s, buf + o, after)
    BY <1>3, <2>1, <2>3, <2>6, AddressIn DEF buf, len, x
  <2>9. a = buf + o /\ x.buf = buf + 0
    BY <2>6 DEF buf, after
  <2> HIDE DEF a
  <2> QED BY <2>4, <2>7, <2>8, <2>9
<1>4. Step(s, u) /\ u.w = s.w
  <2> HIDE DEF u, h, x, a, c
  <2> QED BY <1>3, PutStep DEF u
<1>5. Sane(u) /\ (Ok(u) => Ok(s))
  BY <1>4, StepOk DEF Step
<1>6. Ok(u) => InBlock(u, a, Len(c))
  <2>1. Len(u.block.cells) = Len(s.block.cells) \/ ~ Ok(u)
    <3> SUFFICES ASSUME Ok(u) PROVE Len(u.block.cells) = Len(s.block.cells)
      OBVIOUS
    <3>1. Ok(s) /\ Len(s.w) = 1 /\ u.w = s.w
      BY <1>4, <1>5
    <3>2. Whole(u.block, x) /\ Whole(s.block, x) /\ MemoryOk(u.block) /\ MemoryOk(s.block)
      BY <3>1, WholeOk
    <3> DEFINE ua == u.block.at
               un == Len(u.block.cells)
               sa == s.block.at
               sn == Len(s.block.cells)
    <3>3. x.buf = ua + x.pre /\ x.buf + x.len = ua + un /\ x.buf = sa + x.pre /\ x.buf + x.len = sa + sn
          /\ x.buf \in Nat /\ x.pre \in Nat /\ x.len \in Int
      BY <3>2 DEF Whole, IsWriter
    <3>4. ua \in Nat /\ sa \in Nat /\ un \in Nat /\ sn \in Nat
      BY <3>2 DEF MemoryOk, IsSeq
    <3> HIDE DEF ua, un, sa, sn, u, x
    <3>5. un = sn
      BY <3>3, <3>4
    <3> QED BY <3>5 DEF un, sn
  <2> SUFFICES ASSUME Ok(u) PROVE InBlock(u, a, Len(c))
    OBVIOUS
  <2>2. Ok(s) /\ 1 \in 1..Len(u.w) /\ u.w = s.w
    BY <1>2, <1>4, <1>5
  <2>3. u.block.at = s.block.at
    <3>1. Whole(u.block, x) /\ Whole(s.block, x) /\ MemoryOk(u.block) /\ MemoryOk(s.block)
      BY <2>2, WholeOk
    <3> DEFINE ua == u.block.at
               sa == s.block.at
    <3>2. x.buf = ua + x.pre /\ x.buf = sa + x.pre /\ x.pre \in Nat /\ ua \in Nat /\ sa \in Nat
      BY <3>1 DEF Whole, IsWriter, MemoryOk
    <3> HIDE DEF ua, sa
    <3> QED BY <3>2 DEF ua, sa
  <2> HIDE DEF u, a, c
  <2> QED BY <1>3, <2>1, <2>2, <2>3 DEF InBlock
<1> HIDE DEF u, a, c, h, x
<1>7. Step(u, t) /\ t.w = u.w
  BY <1>1, <1>3, <1>5, <1>6, PutStep
<1>8. Step(s, t)
  BY <1>4, <1>7, StepStep
<1> QED BY <1>4, <1>7, <1>8

\* So it is when the room was made first, and the message is ended.
LEMMA MsgSizedAfter ==
  ASSUME NEW s, Sane(s), NEW size, NEW to \in Nat,
         Ok(s) => /\ Len(s.w) = 1 /\ s.w[1].type = MSG
                  /\ size \in Nat /\ UptoKey(s.w[1]) + AfterKey(s.w[1]) <= size,
         NEW t, t = MsgSized(s, size, to)
  PROVE  After(s, t, 1)
<1> DEFINE one == 1
           a == RaisedTo(s, one, size)
<1>0. one \in Nat /\ one >= 1 /\ one = 1
  OBVIOUS
<1>1. t = IF CanHave(a, 1, 0) THEN Left(MsgWritten(WithSpace(a, 1, 0, to), size), 1)
          ELSE Left(Error(a, 1), 1)
  BY DEF MsgSized, RaisedTo
<1> HIDE DEF a, one
<1>2. Step(s, a) /\ (Ok(a) => a.w[1].off \in Nat /\ size <= a.w[1].off)
  <2>1. Step(s, a) /\ (Ok(a) => a.w[one].off \in Nat /\ size <= a.w[one].off)
    BY <1>0, RaisedStep DEF a
  <2> QED BY <1>0, <2>1
<1>3. Sane(a) /\ (Ok(a) => /\ Ok(s) /\ Len(a.w) = 1 /\ 1 \in 1..Len(a.w)
                           /\ a.w[1].type = s.w[1].type /\ a.w[1].opt = s.w[1].opt)
  <2>1. Ok(a) => Ok(s)
    BY <1>2, StepOk
  <2> QED BY <1>2, <2>1 DEF Step
<1>4. CASE ~ CanHave(a, 1, 0)
  <2>1. t = Left(Error(a, 1), 1)
    BY <1>1, <1>4
  <2>2. After(a, t, 1)
    BY <1>0, <1>3, <2>1, FailedAfter
  <2> QED BY <1>0, <1>2, <1>3, <2>2, AfterStep
<1>5. CASE CanHave(a, 1, 0)
  <2> DEFINE u == WithSpace(a, 1, 0, to)
             v == MsgWritten(u, size)
  <2>1. t = Left(v, 1)
    BY <1>1, <1>5
  <2> HIDE DEF u
  <2>2. Step(a, u) /\ (Ok(u) => u.w[1].off + 0 <= u.w[1].len /\ Moved(a.w[1], u.w[1]))
    BY <1>3, <1>5, SpaceStep DEF u
  <2>3. Sane(u) /\ (Ok(u) => Ok(a) /\ Len(u.w) = 1)
    <3>1. Ok(u) => Ok(a)
      BY <1>3, <2>2, StepOk
    <3> QED BY <1>3, <2>2, <3>1 DEF Step
  <2>4. ASSUME Ok(u)
        PROVE  /\ Len(u.w) = 1 /\ u.w[1].type = MSG
               /\ size \in Nat /\ UptoKey(u.w[1]) + AfterKey(u.w[1]) <= size
               /\ size <= u.w[1].len
    <3>1. /\ u.w[1].type = MSG /\ u.w[1].opt = s.w[1].opt
          /\ u.w[1].off = a.w[1].off
      BY <1>3, <2>2, <2>3, <2>4 DEF Moved
    <3>2. UptoKey(u.w[1]) = UptoKey(s.w[1]) /\ AfterKey(u.w[1]) = AfterKey(s.w[1])
      BY <3>1, KeyOptions
    <3>3. size \in Nat /\ UptoKey(u.w[1]) + AfterKey(u.w[1]) <= size
      BY <1>3, <2>3, <2>4, <3>2
    <3>4. size <= u.w[1].len
      <4> DEFINE off == a.w[1].off
                 len == u.w[1].len
      <4>1. off \in Nat /\ size <= off /\ off + 0 <= len
        BY <1>2, <2>2, <2>3, <2>4, <3>1
      <4>2. IsWriter(u.w[1])
        BY <2>3, <2>4, OkElim
      <4>3. len \in Int
        BY <4>2 DEF IsWriter
      <4> HIDE DEF off, len
      <4>4. size <= len
        BY <3>3, <4>1, <4>3
      <4> QED BY <4>4 DEF len
    <3> QED BY <2>3, <2>4, <3>1, <3>3, <3>4
  <2>5. Step(u, v)
    BY <2>3, <2>4, MsgWrittenStep
  <2> HIDE DEF v
  <2>6. Sane(v) /\ (Ok(v) => Len(v.w) = 1)
    <3>1. Ok(v) => Ok(u)
      BY <2>3, <2>5, StepOk
    <3> QED BY <2>3, <2>5, <3>1 DEF Step
  <2>7. After(v, t, 1)
    BY <1>0, <2>1, <2>6, LeftAfter
  <2>8. After(u, t, 1)
    BY <1>0, <2>3, <2>5, <2>7, AfterStep
  <2>9. After(a, t, 1)
    BY <1>0, <1>3, <2>2, <2>8, AfterStep
  <2> QED BY <1>0, <1>2, <1>3, <2>9, AfterStep
<1> QED BY <1>4, <1>5

\* A slice of the memory has the length asked for.
LEMMA SliceIs ==
  ASSUME NEW s, NEW a \in Nat, NEW n \in Nat, s.block.at \in Nat
  PROVE  IsSeq(Slice(s, a, n)) /\ Len(Slice(s, a, n)) = n
<1> DEFINE at == s.block.at
           c == s.block.cells
           l == a - at + 1
           h == a - at + n
           S == {c[j] : j \in l..h}
           d == SubSeq(c, l, h)
<1>1. l \in Int /\ h \in Int /\ h - l + 1 = n /\ (l <= h <=> n # 0)
  <2> HIDE DEF at
  <2> QED BY DEF at
<1>2. \A j \in l..h : c[j] \in S
  OBVIOUS
<1>3. Slice(s, a, n) = d
  BY DEF Slice
<1> HIDE DEF S, l, h, c
<1>4. d \in Seq(S) /\ Len(d) = IF l <= h THEN h - l + 1 ELSE 0
  BY <1>1, <1>2, SubSeqProperties
<1> HIDE DEF d
<1>5. IsSeq(d)
  BY <1>4, SeqIs
<1>6. Len(d) = n
  BY <1>1, <1>4
<1> QED BY <1>3, <1>5, <1>6

\* check_prefix(): what a message has moves up.
LEMMA ShiftedStep ==
  ASSUME NEW s, Sane(s), NEW n \in Nat,
         Ok(s) => Len(s.w) = 1 /\ s.w[1].off + n <= s.w[1].len,
         NEW t, t = Shifted(s, n)
  PROVE  Step(s, t) /\ (Ok(t) => t.w[1].pre = s.w[1].pre + n)
<1> DEFINE x == s.w[1]
           a == x.buf + n
           c == Slice(s, x.buf, x.off)
           u == Put(s, a, c)
           p == x.pre + n
           y == Prefixed(x, p)
<1>1. t = WithWriter(u, 1, y)
  BY DEF Shifted, WithWriter
<1>2. ASSUME Ok(s)
      PROVE  a \in Int /\ IsSeq(c) /\ InBlock(s, a, Len(c)) /\ IsWriter(x) /\ p \in Nat
  <2> DEFINE buf == x.buf
             off == x.off
             len == x.len
  <2>1. 1 \in 1..Len(s.w) /\ IsWriter(x) /\ s.block.at \in Nat /\ off + n <= len
    BY <1>2, WholeOk, OkElim
  <2>2. buf \in Nat /\ off \in Nat /\ len \in Int /\ p \in Nat
    BY SMTT(30), <2>1 DEF IsWriter
  <2> HIDE DEF buf, off, len
  <2>3. IsSeq(c) /\ Len(c) = off
    BY <2>1, <2>2, SliceIs DEF buf, off
  <2>4. n + off <= len
    BY <2>1, <2>2
  <2>5. s.w[1].buf + n \in Int /\ InBlock(s, s.w[1].buf + n, off)
    BY <1>2, <2>1, <2>2, <2>4, AddressIn DEF len
  <2> QED BY <2>1, <2>2, <2>3, <2>5
<1>3. Step(s, u) /\ u.w = s.w
  <2> HIDE DEF u, a, c
  <2> QED BY <1>2, PutStep DEF u
<1>4. Sane(u) /\ (Ok(u) => Ok(s))
  BY <1>3, StepOk DEF Step
<1> HIDE DEF u
<1>5. ASSUME Ok(u)
      PROVE  /\ Len(u.w) = 1 /\ Whole(u.block, y)
             /\ y.type = u.w[1].type /\ y.opt = u.w[1].opt /\ y.pre = p
  <2>1. Whole(u.block, x) /\ MemoryOk(u.block) /\ Len(u.w) = 1 /\ u.w[1] = x
    BY <1>3, <1>4, <1>5, WholeOk
  <2>2. p \in Nat
    BY <1>2, <1>4, <1>5
  <2> HIDE DEF x, p
  <2>3. Whole(u.block, y) /\ Reframed(x, y) /\ y.pre = p
    BY <2>1, <2>2, PrefixedOk
  <2> QED BY <2>1, <2>3 DEF Reframed
<1> HIDE DEF y
<1>6. Step(u, t) /\ (Ok(t) => t.w[1] = y)
  BY <1>1, <1>4, <1>5, OneStep
<1>7. Ok(t) => Ok(u)
  BY <1>4, <1>6, StepOk
<1>8. Step(s, t)
  BY <1>3, <1>6, StepStep
<1> QED BY <1>5, <1>6, <1>7, <1>8 DEF p

\* The header of a message is in its window.
LEMMA WithHeaderOk ==
  ASSUME NEW b, MemoryOk(b), NEW x, Whole(b, x), NEW n \in Nat, n <= x.pre,
         NEW y, y = WithHeader(x, n)
  PROVE  Whole(b, y) /\ y.type = x.type /\ y.opt = x.opt
<1> DEFINE p == x.pre - n
           q == Prefixed(x, p)
<1>1. p \in Nat
  BY DEF Whole, IsWriter
<1>2. Whole(b, q) /\ Reframed(x, q)
  <2> HIDE DEF p
  <2> QED BY <1>1, PrefixedOk
<1>3. y = [q EXCEPT !.off = @ + n, !.keyoff = @ + n * B(x.sum # 0), !.bodyoff = @ + n * B(x.body # 0)]
  BY DEF WithHeader
<1> HIDE DEF q
<1> DEFINE o == q.off + n
           k == q.keyoff + n * B(x.sum # 0)
           m == q.bodyoff + n * B(x.body # 0)
           q1 == SetField(q, "off", o)
           q2 == SetField(q1, "keyoff", k)
<1>4. IsWriter(q)
  BY <1>2 DEF Whole
<1>5. o \in Nat /\ k \in Nat /\ m \in Nat
  <2>1. q.off \in Nat /\ q.keyoff \in Nat /\ q.bodyoff \in Nat
    BY <1>4 DEF IsWriter
  <2>2. n * B(x.sum # 0) \in Nat /\ n * B(x.body # 0) \in Nat
    BY DEF B
  <2> QED BY <2>1, <2>2
<1>6. y = SetField(q2, "bodyoff", m)
  BY <1>3 DEF SetField
<1> HIDE DEF o, k, m, q2
<1>7. /\ "off" \in Numeric \cup Free /\ "keyoff" \in Numeric \cup Free
      /\ "bodyoff" \in Numeric \cup Free
  BY DEF Numeric
<1>8. q2 = SetField(q1, "keyoff", k)
  BY DEF q2
<1> HIDE DEF q1
<1>9. Kept(q, q1) /\ IsWriter(q1)
  BY <1>4, <1>5, <1>7, SetOk DEF q1, Kept, Keeps
<1>10. Kept(q1, q2) /\ IsWriter(q2)
  BY <1>5, <1>7, <1>8, <1>9, SetOk DEF Kept, Keeps
<1>11. Kept(q2, y)
  BY <1>5, <1>6, <1>7, <1>10, SetOk
<1>12. Kept(q, y)
  BY <1>9, <1>10, <1>11, KeptKept
<1> QED BY <1>2, <1>12 DEF Kept, Keeps, Whole, Reframed

\* The size of a message has room for its header.
LEMMA MsgHdrSizeIs ==
  ASSUME NEW y, IsWriter(y), y.type = MSG
  PROVE  MsgHdrSize(y) \in Nat /\ UptoKey(y) + AfterKey(y) <= MsgHdrSize(y)
<1> DEFINE a == y.keyoff + y.sum + AfterKey(y)
           b == y.bodyoff
           c == UptoKey(y) + AfterKey(y)
<1>1. UptoKey(y) \in Nat /\ AfterKey(y) \in Nat
  BY UptoKeyNat
<1>2. a \in Nat /\ b \in Nat /\ c \in Nat
  BY <1>1 DEF IsWriter
<1>3. MsgHdrSize(y) = Max2(Max2(a, b), c)
  BY DEF MsgHdrSize
<1> HIDE DEF a, b, c
<1>4. Max2(a, b) \in Nat
  BY <1>2, Maximum
<1>5. Max2(Max2(a, b), c) \in Nat /\ c <= Max2(Max2(a, b), c)
  BY <1>2, <1>4, Maximum
<1> QED BY <1>3, <1>5 DEF c

\* What lacks of the prefix makes it long enough.
LEMMA LackingIs ==
  ASSUME NEW s, NEW n \in Nat, s.w[1].pre \in Nat
  PROVE  /\ Lacking(s, n) \in Nat
         /\ Lacking(s, n) = 0 => n <= s.w[1].pre
         /\ n <= s.w[1].pre + Lacking(s, n)
<1> DEFINE pre == s.w[1].pre
<1>1. Lacking(s, n) = Max2(0, n - pre)
  BY DEF Lacking
<1> HIDE DEF pre
<1>2. pre \in Nat
  BY DEF pre
<1> DEFINE l == Lacking(s, n)
<1> HIDE DEF l
<1>3. l = Max2(0, n - pre)
  BY <1>1 DEF l
<1>4. l \in Nat /\ (l = 0 => n <= pre) /\ n <= pre + l
  BY <1>2, <1>3 DEF Max2
<1> QED BY <1>4 DEF l, pre

\* update_hdr() of a message.
LEMMA MsgEndedAfter ==
  ASSUME NEW s, Sane(s), Ok(s), Len(s.w) = 1, s.w[1].type = MSG, NEW to \in Nat,
         NEW t, t = MsgEnded(s, to)
  PROVE  After(s, t, 1)
<1> DEFINE one == 1
           x == s.w[1]
           up == UptoKey(x)
           n == Lacking(s, up)
           v == WithSpace(s, one, n, to)
           moved == IF n = 0 THEN s ELSE Shifted(v, n)
           y == WithHeader(moved.w[1], up)
           z == [x EXCEPT !.off = up + AfterKey(x)]
<1>0. one \in Nat /\ one >= 1 /\ one = 1
  OBVIOUS
<1>1. /\ x.off > 0 /\ n > 0 /\ ~ CanHave(s, 1, n) => t = Left(Error(s, 1), 1)
      /\ x.off > 0 /\ ~ (n > 0 /\ ~ CanHave(s, 1, n)) =>
           t = MsgSized(WithWriter(moved, 1, y), MsgHdrSize(y), to)
      /\ ~ (x.off > 0) => t = MsgSized(WithWriter(s, 1, z), MsgHdrSize(z), to)
  <2> HIDE DEF up, n
  <2>1. t = (IF x.off > 0 /\ n > 0 /\ ~ CanHave(s, 1, n) THEN Left(Error(s, 1), 1)
             ELSE MsgSized(IF x.off > 0 THEN WithWriter(moved, 1, IF x.off > 0 THEN y ELSE z)
                           ELSE WithWriter(s, 1, IF x.off > 0 THEN y ELSE z),
                           MsgHdrSize(IF x.off > 0 THEN y ELSE z), to))
    BY DEF MsgEnded, WithWriter, up, n
  <2> HIDE DEF x, moved, y, z
  <2> QED BY <2>1
<1>2. 1 \in 1..Len(s.w) /\ MemoryOk(s.block) /\ Whole(s.block, x) /\ IsWriter(x)
  BY WholeOk, OkElim
<1>3. up \in Nat /\ AfterKey(x) \in Nat /\ x.pre \in Nat /\ x.off \in Nat
  <2> HIDE DEF x
  <2> QED BY <1>2, UptoKeyNat DEF IsWriter, x
<1>4. n \in Nat /\ (n = 0 => up <= x.pre) /\ up <= x.pre + n
  <2> HIDE DEF up
  <2> QED BY <1>3, LackingIs
<1> HIDE DEF n, up, one
<1>5. CASE x.off > 0 /\ n > 0 /\ ~ CanHave(s, 1, n)
  <2>1. t = Left(Error(s, one), one)
    BY <1>0, <1>1, <1>5
  <2> QED BY <1>0, <2>1, FailedAfter
<1>6. CASE x.off > 0 /\ ~ (n > 0 /\ ~ CanHave(s, 1, n))
  <2> DEFINE u == WithWriter(moved, 1, y)
  <2>1. t = MsgSized(u, MsgHdrSize(y), to)
    BY <1>1, <1>6
  <2>2. Step(s, moved) /\ (Ok(moved) => up <= moved.w[1].pre)
    <3>1. CASE n = 0
      <4>1. moved = s
        BY <3>1
      <4> HIDE DEF moved
      <4> QED BY <1>4, <3>1, <4>1, StepSelf
    <3>2. CASE n # 0
      <4>1. CanHave(s, one, n)
        <5>1. n > 0
          BY <1>4, <3>2
        <5> QED BY <1>0, <1>6, <5>1
      <4>2. moved = Shifted(v, n)
        BY <3>2
      <4> HIDE DEF moved, v
      <4>3. /\ Step(s, v)
            /\ Ok(v) => v.w[one].off + n <= v.w[one].len /\ Moved(s.w[one], v.w[one])
        BY <1>0, <1>2, <1>4, <4>1, SpaceStep DEF v
      <4>4. Sane(v) /\ (Ok(v) => Len(v.w) = 1 /\ v.w[1].off + n <= v.w[1].len /\ v.w[1].pre = x.pre)
        BY <1>0, <4>3 DEF Step, Moved
      <4>5. Step(v, moved) /\ (Ok(moved) => moved.w[1].pre = v.w[1].pre + n)
        BY <1>4, <4>2, <4>4, ShiftedStep
      <4>6. Step(s, moved)
        BY <4>3, <4>5, StepStep
      <4>7. Ok(moved) => Ok(v)
        BY <4>4, <4>5, StepOk
      <4>8. Ok(moved) => up <= moved.w[1].pre
        BY <1>4, <4>4, <4>5, <4>7
      <4> QED BY <4>6, <4>8
    <3> QED BY <3>1, <3>2
  <2> HIDE DEF moved
  <2>3. Sane(moved) /\ (Ok(moved) => Len(moved.w) = 1 /\ moved.w[1].type = MSG)
    BY <1>2, <2>2 DEF Step
  <2>4. ASSUME Ok(moved)
        PROVE  Whole(moved.block, y) /\ y.type = moved.w[1].type /\ y.opt = moved.w[1].opt
    <3> DEFINE q == moved.w[1]
    <3>1. MemoryOk(moved.block) /\ Whole(moved.block, q) /\ up <= q.pre
      BY <2>2, <2>4, WholeOk
    <3> HIDE DEF q
    <3>2. Whole(moved.block, y) /\ y.type = q.type /\ y.opt = q.opt
      BY <1>3, <3>1, WithHeaderOk DEF q
    <3> QED BY <3>2 DEF q
  <2> HIDE DEF y
  <2>5. Step(moved, u) /\ (Ok(u) => u.w[1] = y)
    BY <2>3, <2>4, OneStep
  <2> HIDE DEF u
  <2>6. Sane(u) /\ (Ok(u) => Ok(moved))
    BY <2>3, <2>5, StepOk DEF Step
  <2>7. ASSUME Ok(u)
        PROVE  /\ Len(u.w) = 1 /\ u.w[1].type = MSG
               /\ MsgHdrSize(y) \in Nat /\ UptoKey(u.w[1]) + AfterKey(u.w[1]) <= MsgHdrSize(y)
    <3>1. IsWriter(y) /\ y.type = MSG /\ u.w[1] = y
      BY <2>3, <2>4, <2>5, <2>6, <2>7 DEF Whole
    <3>2. Len(u.w) = 1
      BY <2>3, <2>5, <2>6, <2>7 DEF Step
    <3> QED BY <3>1, <3>2, MsgHdrSizeIs
  <2> DEFINE size == MsgHdrSize(y)
  <2> HIDE DEF size
  <2>8. After(u, t, 1)
    BY <2>1, <2>6, <2>7, MsgSizedAfter DEF size
  <2>9. After(moved, t, one)
    BY <1>0, <2>3, <2>5, <2>8, AfterStep
  <2>10. After(s, t, one)
    BY <1>0, <2>2, <2>9, AfterStep
  <2> QED BY <1>0, <2>10
<1>7. CASE ~ (x.off > 0)
  <2> DEFINE u == WithWriter(s, 1, z)
             m == up + AfterKey(x)
  <2>1. t = MsgSized(u, MsgHdrSize(z), to)
    BY <1>1, <1>7
  <2>2. Kept(x, z)
    <3>1. m \in Nat /\ z = [x EXCEPT !.off = m]
      BY <1>3
    <3> HIDE DEF m, x, z
    <3> QED BY <1>2, <3>1, OffKept
  <2> HIDE DEF z
  <2>3. Whole(s.block, z) /\ z.type = s.w[1].type /\ z.opt = s.w[1].opt
    BY <1>2, <2>2 DEF Kept, Keeps, Whole
  <2>4. Step(s, u) /\ (Ok(u) => u.w[1] = z)
    BY <2>3, OneStep
  <2> HIDE DEF u
  <2>5. Sane(u)
    BY <2>4 DEF Step
  <2>6. ASSUME Ok(u)
        PROVE  /\ Len(u.w) = 1 /\ u.w[1].type = MSG
               /\ MsgHdrSize(z) \in Nat /\ UptoKey(u.w[1]) + AfterKey(u.w[1]) <= MsgHdrSize(z)
    <3>1. IsWriter(z) /\ z.type = MSG /\ u.w[1] = z
      BY <2>3, <2>4, <2>6 DEF Whole
    <3>2. Len(u.w) = 1
      BY <2>4, <2>6 DEF Step
    <3> QED BY <3>1, <3>2, MsgHdrSizeIs
  <2> DEFINE size == MsgHdrSize(z)
  <2> HIDE DEF size
  <2>7. After(u, t, 1)
    BY <2>1, <2>5, <2>6, MsgSizedAfter DEF size
  <2>8. After(s, t, one)
    BY <1>0, <2>4, <2>7, AfterStep
  <2> QED BY <1>0, <2>8
<1> QED BY <1>5, <1>6, <1>7

-----------------------------------------------------------------------------
(* The outermost writer, new or again. *)

\* A new writer, before it has memory.
LEMMA WriterOk ==
  ASSUME NEW t \in Types, NEW opt, IsOptions(t, opt)
  PROVE  IsWriter(Writer(t, opt)) /\ Writer(t, opt).bits = 0 /\ Writer(t, opt).type = t
         /\ Writer(t, opt).opt = opt
<1> DEFINE y == Writer(t, opt)
           e == ""
           k == <<>>
<1>1. y = Fresh(t, opt, 0, 0, 0, e, k)
  BY NewWriter
<1> HIDE DEF e, k, y
<1>2. IsWriter(y) /\ y.bits = 0 /\ y.type = t /\ y.opt = opt
  BY <1>1, FreshOk
<1> QED BY <1>2 DEF y

\* Keeping room for the header of a message moves the window in the memory.
LEMMA ResetPrefixOk ==
  ASSUME NEW b, MemoryOk(b), NEW x, Whole(b, x)
  PROVE  Whole(b, ResetPrefix(x))
<1> DEFINE total == x.len + x.pre
           p == IF Prefix > total THEN total \div 2 ELSE Prefix
<1>1. CASE x.type # MSG \/ x.pre = Prefix
  BY <1>1 DEF ResetPrefix
<1>2. CASE ~ (x.type # MSG \/ x.pre = Prefix)
  <2>1. ResetPrefix(x) = Prefixed(x, p)
    BY <1>2 DEF ResetPrefix
  <2>2. total \in Nat
    <3> DEFINE at == b.at
               n == Len(b.cells)
               pre == x.pre
               len == x.len
               buf == x.buf
    <3>1. /\ at \in Nat /\ n \in Nat /\ pre \in Nat /\ len \in Int /\ buf \in Nat
          /\ buf = at + pre /\ buf + len = at + n
      BY DEF Whole, IsWriter, MemoryOk, IsSeq
    <3> HIDE DEF at, n, pre, len, buf
    <3>2. len + pre = n
      BY <3>1
    <3> QED BY <3>1, <3>2 DEF len, pre
  <2> HIDE DEF total
  <2>3. total \div 2 \in Nat
    BY <2>2
  <2>4. p \in Nat
    BY <2>3, RwfAssumption
  <2> HIDE DEF p
  <2>5. Whole(b, Prefixed(x, p))
    BY <2>4, PrefixedOk
  <2> QED BY <2>1, <2>5
<1> QED BY <1>1, <1>2

\* One writer and its memory.
LEMMA AloneOk ==
  ASSUME NEW b, MemoryOk(b), NEW y, Whole(b, y),
         NEW s, s = [w |-> << y >>, block |-> b, marks |-> {}]
  PROVE  Sane(s) /\ Ok(s) /\ Len(s.w) = 1
<1> DEFINE v == << y >>
<1>1. IsSeq(v) /\ Len(v) = 1 /\ v[1] = y
  BY DEF IsSeq
<1>2. s.w = v /\ s.block = b /\ s.marks = {} /\ IsState(s)
  BY DEF IsState
<1> HIDE DEF v
<1>3. InMemory(b, y)
  <2> DEFINE at == b.at
             pre == y.pre
  <2>1. at \in Nat /\ pre \in Nat /\ y.buf = at + pre
    BY DEF Whole, IsWriter, MemoryOk
  <2> HIDE DEF at, pre
  <2>2. at <= y.buf
    BY <2>1
  <2> QED BY <2>2 DEF InMemory, Whole, at
<1>4. \A j \in 1..Len(s.w) : InMemory(s.block, s.w[j])
  BY <1>1, <1>2, <1>3
<1>5. \A j \in 2..Len(s.w) : Child(s.w[j - 1], s.w[j])
  BY <1>1, <1>2
<1>6. Ok(s)
  BY <1>1, <1>2, <1>4, <1>5 DEF Ok, Whole
<1> QED BY <1>1, <1>2, <1>6 DEF Sane

\* The outermost writer is all of the memory that it starts with.
LEMMA RootOk ==
  ASSUME NEW t \in Types, NEW opt, IsOptions(t, opt), NEW a \in Nat, NEW len \in Nat,
         NEW b, b = [at |-> a, cells |-> [k \in 1..len |-> Junk]]
  PROVE  MemoryOk(b) /\ Whole(b, Root(t, opt, a, len))
<1> DEFINE y == [Writer(t, opt) EXCEPT !.buf = a, !.len = len]
           c == [k \in 1..len |-> Junk]
           e == ""
           g == <<>>
<1>1. IsSeq(c) /\ Len(c) = len
  <2>1. c = [k \in 1..len |-> c[k]]
    OBVIOUS
  <2> HIDE DEF c
  <2> QED BY <2>1, FunIsSeq
<1> HIDE DEF c
<1>2. MemoryOk(b) /\ b.at = a /\ Len(b.cells) = len
  BY <1>1 DEF MemoryOk, c
<1>3. y = Fresh(t, opt, a, len, 0, e, g)
  <2>1. y = [Writer(t, opt) EXCEPT !.buf = a, !.len = len]
    OBVIOUS
  <2> HIDE DEF y
  <2> QED BY <2>1, RootWriter
<1>4. Root(t, opt, a, len) = ResetPrefix(y)
  BY DEF Root
<1> HIDE DEF y, e, g
<1>5. IsWriter(y) /\ y.buf = a /\ y.len = len /\ y.pre = 0 /\ y.bits = 0
  BY <1>3, FreshOk
<1>6. Whole(b, y)
  BY <1>2, <1>5 DEF Whole
<1> QED BY <1>2, <1>4, <1>6, ResetPrefixOk

\* After reset() it is again.
LEMMA AgainOk ==
  ASSUME NEW b, MemoryOk(b), NEW x, Whole(b, x)
  PROVE  Whole(b, Again(x))
<1> DEFINE z == Writer(x.type, x.opt)
           y == Framed(z, x.buf, x.len, x.pre)
           v == SetField(y, "ct", x.ct)
<1>1. Again(x) = IF x.type = MSG THEN ResetPrefix(y) ELSE v
  BY DEF Again, Framed, SetField
<1>2. /\ x.type \in Types /\ IsOptions(x.type, x.opt) /\ x.buf \in Nat /\ x.len \in Int
      /\ x.pre \in Nat
  BY DEF Whole, IsWriter
<1> HIDE DEF z
<1>3. IsWriter(z) /\ z.bits = 0
  BY <1>2, WriterOk DEF z
<1> HIDE DEF y
<1>4. IsWriter(y) /\ y.buf = x.buf /\ y.len = x.len /\ y.pre = x.pre /\ y.bits = 0
  BY <1>2, <1>3, FramedOk DEF y, Reframed
<1>5. Whole(b, y)
  BY <1>4 DEF Whole
<1>6. Whole(b, ResetPrefix(y))
  BY <1>5, ResetPrefixOk
<1>7. Whole(b, v)
  <2>1. "ct" \in Numeric \cup Free /\ "ct" \notin Numeric
    BY DEF Numeric, Free
  <2> HIDE DEF v
  <2>2. Kept(y, v)
    BY <1>4, <2>1, SetOk DEF v
  <2> QED BY <1>5, <2>2 DEF Kept, Keeps, Whole
<1> QED BY <1>1, <1>6, <1>7

-----------------------------------------------------------------------------
(* The calls that append. *)

\* The innermost writer of a sound state.
LEMMA InTop ==
  ASSUME NEW s, Ok(s), NEW i, i = Len(s.w)
  PROVE  i \in Nat /\ i \in 1..Len(s.w) /\ IsWriter(s.w[i])
<1>1. i \in Nat /\ i \in 1..Len(s.w)
  BY DEF Ok, IsSeq
<1>2. IsWriter(s.w[i])
  BY <1>1, OkElim
<1> QED BY <1>1, <1>2

\* Cells for which there is room.
LEMMA AppendStep ==
  ASSUME NEW s, Sane(s), NEW i \in Nat, Ok(s) => i = Len(s.w),
         NEW n \in Nat, NEW cells, IsSeq(cells), Len(cells) = n, CanHave(s, i, n),
         NEW to \in Nat, NEW t, t = WriteCells(WithSpace(s, i, n, to), i, cells)
  PROVE  Step(s, t)
<1> DEFINE u == WithSpace(s, i, n, to)
<1>1. Ok(s) => i \in 1..Len(s.w)
  BY InTop
<1>2. Step(s, u) /\ (Ok(u) => u.w[i].off + n <= u.w[i].len)
  <2> HIDE DEF u
  <2> QED BY <1>1, SpaceStep DEF u
<1> HIDE DEF u
<1>3. Ok(u) => Ok(s)
  BY <1>2, StepOk
<1>4. Sane(u) /\ (Ok(u) => i = Len(u.w))
  BY <1>2, <1>3 DEF Step
<1>5. Step(u, t)
  BY <1>2, <1>4, WriteStep DEF u
<1> QED BY <1>2, <1>5, StepStep

\* add_raw_container().
LEMMA WithRawKept ==
  ASSUME NEW x, IsWriter(x)
  PROVE  Kept(x, WithRaw(x))
<1> DEFINE d == [x.doc EXCEPT ![4] = x.doc[4] \o <<<<<<>>, <<RawDoc>>>>>>]
           n == Len(RawCells)
           z == SetField(x, "body", n)
           y == SetField(z, "doc", d)
<1>1. WithRaw(x) = [x EXCEPT !.body = n, !.doc[4] = x.doc[4] \o <<<<<<>>, <<RawDoc>>>>>>]
  BY DEF WithRaw
<1>2. WithRaw(x) = y
  <2> HIDE DEF n
  <2>1. WithRaw(x) = [x EXCEPT !.body = n, !.doc = d]
    BY <1>1
  <2> HIDE DEF d
  <2> QED BY <2>1 DEF SetField
<1>3. IsSeq(RawCells) /\ n \in Nat
  <2>1. IsSeq(U8(8)) /\ IsSeq(U16(0))
    BY Numbers
  <2>2. IsSeq(U8(8) \o U16(0))
    BY <2>1, Concat
  <2> QED BY <2>2 DEF RawCells, IsSeq
<1>4. "body" \in Numeric \cup Free /\ "doc" \in Numeric \cup Free /\ "doc" \notin Numeric
  BY DEF Numeric, Free
<1> HIDE DEF d, n
<1>5. Kept(x, z)
  <2> HIDE DEF z
  <2> QED BY <1>3, <1>4, SetOk DEF z
<1>6. IsWriter(z)
  BY <1>5 DEF Kept, Keeps
<1> HIDE DEF z
<1>7. Kept(z, y)
  <2> HIDE DEF y
  <2> QED BY <1>4, <1>6, SetOk DEF y
<1> HIDE DEF y
<1> QED BY <1>2, <1>5, <1>7, KeptKept

\* A container encoded elsewhere is appended in a step.
LEMMA RawAddedStep ==
  ASSUME NEW s, Sane(s), Ok(s) => Len(s.w) = 1, NEW to \in Nat,
         NEW t, t = RawAdded(s, to)
  PROVE  Step(s, t)
<1> DEFINE one == 1
           n == Len(RawCells)
           c == RawCells
           v == WriteCells(WithSpace(s, one, n, to), one, c)
           y == WithRaw(v.w[one])
<1>1. one \in Nat /\ one = 1
  OBVIOUS
<1>2. Ok(s) => one \in 1..Len(s.w)
  OBVIOUS
<1>3. IsSeq(c) /\ n \in Nat /\ Len(c) = n
  <2>1. IsSeq(U8(8)) /\ IsSeq(U16(0))
    BY Numbers
  <2>2. IsSeq(U8(8) \o U16(0))
    BY <2>1, Concat
  <2> QED BY <2>2 DEF RawCells, IsSeq
<1>4. CASE ~ CanHave(s, 1, n)
  <2>1. t = Refuse(s, one)
    BY <1>4 DEF RawAdded
  <2> HIDE DEF one, n, c, v, y
  <2> QED BY <1>2, <2>1, RefuseStep
<1>5. CASE CanHave(s, 1, n)
  <2>1. t = WithWriter(v, one, y)
    <3>1. t = [v EXCEPT !.w[1] = WithRaw(@)]
      BY <1>5 DEF RawAdded
    <3> HIDE DEF v
    <3> QED BY <3>1 DEF WithWriter
  <2>2. CanHave(s, one, n)
    BY <1>5
  <2> HIDE DEF one, n, c
  <2>3. Step(s, v)
    <3> HIDE DEF v
    <3> QED BY <1>1, <1>3, <2>2, AppendStep DEF v
  <2> HIDE DEF v
  <2>4. Ok(v) => Ok(s)
    BY <2>3, StepOk
  <2>5. Sane(v) /\ (Ok(v) => one = Len(v.w))
    BY <1>1, <2>3, <2>4 DEF Step
  <2>6. Ok(v) => Kept(v.w[one], y)
    BY <2>5, InTop, WithRawKept
  <2> HIDE DEF y
  <2>7. Step(v, t)
    BY <1>1, <2>1, <2>5, <2>6, TopStep DEF Kept
  <2> QED BY <2>3, <2>7, StepStep
<1> QED BY <1>4, <1>5

\* Its message begins its body first.
LEMMA RawStep ==
  ASSUME NEW s, Sane(s), Ok(s) => Len(s.w) = 1 /\ s.w[1].type = MSG, NEW to \in Nat,
         NEW t, t = IF s.w[1].ct # NoData THEN Refuse(s, 1)
                    ELSE RawAdded([s EXCEPT !.w[1] = Begun(@, ELEMENTS, "body")], to)
  PROVE  Step(s, t)
<1> DEFINE one == 1
           x == s.w[one]
           e == "body"
           y == Begun(x, ELEMENTS, e)
           u == [s EXCEPT !.w[one] = y]
           c == Opening(ELEMENTS, <<>>, e, <<>>)
<1>1. one \in Nat /\ one = 1
  OBVIOUS
<1>2. Ok(s) => one \in 1..Len(s.w) /\ one = Len(s.w)
  OBVIOUS
<1>3. CASE x.ct # NoData
  <2>1. t = Refuse(s, one)
    BY <1>3
  <2> HIDE DEF one
  <2> QED BY <1>2, <2>1, RefuseStep
<1>4. CASE ~ (x.ct # NoData)
  <2>1. t = RawAdded(u, to)
    BY <1>4
  <2>2. c.type = ELEMENTS /\ c.slot = e /\ c.opt = <<>>
    BY DEF Opening
  <2>3. Ok(s) => Fits(c, x.type)
    <3>1. c = [type |-> c.type, opt |-> c.opt, slot |-> c.slot, key |-> c.key]
      BY DEF Opening
    <3>2. ELEMENTS \in Types \ {MSG} /\ IsOptions(ELEMENTS, <<>>)
      BY DEF Types, Lists, Groups, IsOptions, FIELDS, ELEMENTS, FILTER, VECTOR, MAP, SERIES, MSG, KEY
    <3> HIDE DEF c
    <3> QED BY <2>2, <3>1, <3>2 DEF Fits
  <2> HIDE DEF c
  <2>4. Ok(s) => Kept(x, y)
    <3>1. Ok(s) => IsWriter(x)
      BY <1>2, InTop
    <3>2. y = Begun(x, c.type, c.slot)
      BY <2>2
    <3> HIDE DEF x, y
    <3> QED BY <2>3, <3>1, <3>2, BegunKept
  <2>5. u = WithWriter(s, one, y)
    BY DEF WithWriter
  <2> HIDE DEF u, y, one
  <2>6. Step(s, u)
    BY <1>1, <1>2, <2>4, <2>5, TopStep DEF Kept
  <2>7. Ok(u) => Ok(s)
    BY <2>6, StepOk
  <2>8. Sane(u) /\ (Ok(u) => Len(u.w) = 1)
    BY <2>6, <2>7 DEF Step
  <2>9. Step(u, t)
    BY <2>1, <2>8, RawAddedStep
  <2> QED BY <2>6, <2>9, StepStep
<1> QED BY <1>3, <1>4

\* add_field_defn().
LEMMA DefnCellsIs ==
  IsSeq(DefnCells) /\ Len(DefnCells) \in Nat
<1>1. IsSeq(U16(2)) /\ IsSeq(U8(0))
  BY Numbers
<1>2. IsSeq(U16(2) \o U8(0))
  BY <1>1, Concat
<1> DEFINE a == U16(2) \o U8(0)
           b == U8(0)
<1> HIDE DEF a, b
<1>3. IsSeq(a \o b)
  BY <1>1, <1>2, Concat DEF a, b
<1>4. DefnCells = a \o b
  BY DEF DefnCells, a, b
<1> QED BY <1>3, <1>4 DEF IsSeq

\* Field definitions are counted without moving anything.
LEMMA DefinedKept ==
  ASSUME NEW x, IsWriter(x)
  PROVE  Kept(x, Defined(x))
<1> DEFINE n == Len(DefnCells)
           d == [x.doc EXCEPT ![2] = x.doc[2] \o <<n>>]
           z == SetField(x, "defn", n)
           y == SetField(z, "doc", d)
<1>1. Defined(x) = [x EXCEPT !.defn = n, !.doc[2] = x.doc[2] \o <<n>>]
  BY DEF Defined
<1>2. Defined(x) = y
  <2> HIDE DEF n
  <2>1. Defined(x) = [x EXCEPT !.defn = n, !.doc = d]
    BY <1>1
  <2> HIDE DEF d
  <2> QED BY <2>1 DEF SetField
<1>3. n \in Nat
  BY DefnCellsIs
<1>4. "defn" \in Numeric \cup Free /\ "doc" \in Numeric \cup Free /\ "doc" \notin Numeric
  BY DEF Numeric, Free
<1> HIDE DEF d, n
<1>5. Kept(x, z)
  <2> HIDE DEF z
  <2> QED BY <1>3, <1>4, SetOk DEF z
<1>6. IsWriter(z)
  BY <1>5 DEF Kept, Keeps
<1> HIDE DEF z
<1>7. Kept(z, y)
  <2> HIDE DEF y
  <2> QED BY <1>4, <1>6, SetOk DEF y
<1> HIDE DEF y
<1> QED BY <1>2, <1>5, <1>7, KeptKept

\* Field definitions are written in a step, whether there is room for them or not.
LEMMA DefnStep ==
  ASSUME NEW s, Sane(s), Ok(s), NEW i, i = Len(s.w),
         NEW t, t = [WriteUnchecked([s EXCEPT !.w[i].off = SummaryOff(s.w[i])], i, DefnCells)
                       EXCEPT !.w[i] = Defined(@)]
  PROVE  Step(s, t)
<1> DEFINE x == s.w[i]
           c == DefnCells
           o == SummaryOff(x)
           y == [x EXCEPT !.off = o]
           u == [s EXCEPT !.w[i].off = o]
           v == WriteUnchecked(u, i, c)
           z == Defined(v.w[i])
<1>1. i \in Nat /\ IsWriter(x)
  BY InTop
<1>2. o \in Nat
  <2> HIDE DEF x
  <2> QED BY <1>1, SummaryOffNat
<1>3. IsSeq(c)
  BY DefnCellsIs
<1>4. u = WithWriter(s, i, y)
  <2> HIDE DEF o
  <2> QED BY DEF WithWriter
<1>5. t = WithWriter(v, i, z)
  <2>1. t = [v EXCEPT !.w[i] = Defined(@)]
    OBVIOUS
  <2> HIDE DEF v
  <2> QED BY <2>1 DEF WithWriter
<1> HIDE DEF c, o
<1>6. Kept(x, y) /\ y.off = o
  <2> HIDE DEF x, y
  <2> QED BY <1>1, <1>2, OffKept DEF y
<1> HIDE DEF u, y
<1>8. Step(s, u)
  BY <1>1, <1>4, <1>6, TopStep DEF Kept
<1>9. Sane(u) /\ (Ok(u) => i = Len(u.w))
  BY <1>8 DEF Step
<1>11. Step(u, v)
  <2> HIDE DEF v
  <2> QED BY <1>1, <1>3, <1>9, WriteUncheckedStep DEF v
<1> HIDE DEF v
<1>12. Ok(v) => Ok(u)
  BY <1>9, <1>11, StepOk
<1>13. Sane(v) /\ (Ok(v) => i = Len(v.w))
  BY <1>9, <1>11, <1>12 DEF Step
<1>14. Ok(v) => Kept(v.w[i], z)
  BY <1>13, InTop, DefinedKept
<1> HIDE DEF z
<1>15. Step(v, t)
  BY ZenonT(30), <1>1, <1>5, <1>13, <1>14, TopStep DEF Kept
<1>16. Step(s, v)
  BY <1>8, <1>11, StepStep
<1> QED BY <1>15, <1>16, StepStep

\* Lost(x): asked for and refused.
LEMMA LostKept ==
  ASSUME NEW x, IsWriter(x)
  PROVE  Kept(x, Lost(x))
<1> DEFINE d == [x.doc EXCEPT ![4] = x.doc[4] \o <<<<<<-1>>, <<>>>>>>]
           y == Lost(x)
<1>1. y = SetField(x, "doc", d)
  BY DEF Lost, WithItem, SetField
<1> HIDE DEF d, y
<1>2. "doc" \in Numeric \cup Free /\ "doc" \notin Numeric
  BY DEF Numeric, Free
<1>3. Kept(x, y)
  BY <1>1, <1>2, SetOk
<1> QED BY <1>3 DEF y

\* add_delete_entry().
LEMMA DeleteStep ==
  ASSUME NEW s, Sane(s), Ok(s), NEW i, i = Len(s.w), s.w[i].type = MAP, NEW k, NEW to \in Nat,
         NEW t, t = IF s.w[i].err THEN [s EXCEPT !.w[i] = Lost(@)]
                    ELSE Item([s EXCEPT !.w[i] = Counted(Entry(@))], i, 3,
                              U8(3) \o U8(1) \o U8(k), <<3, k>>, 0, to)
  PROVE  Step(s, t)
<1> DEFINE x == s.w[i]
           l == Lost(x)
           e == Entry(x)
           y == Counted(e)
           u == [s EXCEPT !.w[i] = y]
           n == 3
           c == U8(3) \o U8(1) \o U8(k)
           key == <<3, k>>
           z == 0
<1>1. i \in Nat /\ IsWriter(x)
  BY InTop
<1>2. CASE x.err
  <2>1. t = WithWriter(s, i, l)
    BY <1>2 DEF WithWriter
  <2>2. Kept(x, l)
    <3> HIDE DEF x, l
    <3> QED BY <1>1, LostKept DEF l
  <2> DEFINE v == WithWriter(s, i, l)
  <2>3. v = WithWriter(s, i, l) /\ t = v
    BY <2>1
  <2> HIDE DEF l, v
  <2>4. Step(s, v)
    BY <1>1, <2>2, <2>3, TopStep DEF Kept
  <2> QED BY <2>3, <2>4
<1>3. CASE ~ x.err
  <2>1. t = Item(u, i, n, c, key, z, to)
    BY <1>3
  <2>2. IsSeq(c) /\ n \in Nat /\ z \in Nat
    <3> DEFINE a == U8(3)
               b == U8(1)
               d == U8(k)
               ab == a \o b
    <3>1. Measures(a, 1) /\ Measures(b, 1) /\ Measures(d, 1)
      BY Numbers DEF Measures
    <3>2. c = ab \o d
      OBVIOUS
    <3> HIDE DEF a, b, d
    <3>3. Measures(ab, 2)
      <4>1. Measures(a \o b, 1 + 1)
        BY <3>1, Joined
      <4> QED BY <4>1
    <3> HIDE DEF ab, c
    <3>4. Measures(c, 3)
      <4>1. Measures(ab \o d, 2 + 1)
        BY <3>1, <3>3, Joined
      <4> QED BY <3>2, <4>1
    <3> QED BY <3>4 DEF Measures
  <2>3. u = WithWriter(s, i, y)
    BY DEF WithWriter
  <2>4. Kept(x, y)
    <3> HIDE DEF x
    <3>1. Kept(x, e)
      <4>1. x.type \in Groups \cup {FILTER}
        BY DEF x, Groups
      <4> QED BY <1>1, <4>1, EntryKept
    <3>2. IsWriter(e)
      BY <3>1 DEF Kept, Keeps
    <3> HIDE DEF e
    <3>3. Kept(e, y)
      BY <3>2, CountedKept
    <3> HIDE DEF y
    <3> QED BY <3>1, <3>3, KeptKept
  <2> HIDE DEF u, y, n, c, key, z
  <2>5. Step(s, u)
    BY <1>1, <2>3, <2>4, TopStep DEF Kept
  <2>6. Sane(u) /\ (Ok(u) => i = Len(u.w))
    BY <2>5 DEF Step
  <2>7. Step(u, t)
    BY <1>1, <2>1, <2>2, <2>6, ItemStep
  <2> QED BY <2>5, <2>7, StepStep
<1> QED BY <1>2, <1>3

\* What identifies a key.
LEMMA KeyCellsIs ==
  ASSUME NEW f \in DOMAIN KeyFlag, NEW cells \in KeyCells[f]
  PROVE  IsSeq(cells) /\ KeyRoom[f] \in Nat /\ KeyFlag[f] \in 1..16
<1>1. f \in 1..5
  BY DEF KeyFlag
<1>2. KeyRoom[f] \in Nat /\ KeyFlag[f] \in 1..16
  BY <1>1 DEF KeyRoom, KeyFlag
<1> DEFINE a == U8(9)
           g == U8(254)
           h == U16(300)
           e == U8(1)
           b == e \o a
           d == U32(9)
           l == g \o h
<1>3. IsSeq(a) /\ IsSeq(e) /\ IsSeq(d) /\ IsSeq(g) /\ IsSeq(h)
  BY Numbers
<1>4. KeyCells = <<{a, l}, {b}, {a}, {d}, {d}>>
  BY DEF KeyCells
<1> HIDE DEF a, e, d, g, h
<1>5. IsSeq(b) /\ IsSeq(l)
  BY <1>3, Concat
<1> HIDE DEF b, l
<1>6. IsSeq(cells)
  BY <1>1, <1>3, <1>4, <1>5
<1> QED BY <1>2, <1>6

\* A key with attributes open in it refuses what identifies it; else it is the
\* innermost writer and appends.
LEMMA KeyStep ==
  ASSUME NEW s, Sane(s), Ok(s), NEW i \in 1..Len(s.w), s.w[i].type = KEY,
         NEW f \in DOMAIN KeyFlag, NEW cells \in KeyCells[f], NEW to \in Nat,
         NEW t, t = IF ~CanHave(s, i, KeyRoom[f]) THEN Refuse(s, i)
                    ELSE IF s.w[i].n >= KeyFlag[f]
                    THEN Refuse(WithSpace(s, i, KeyRoom[f], to), i)
                    ELSE Item(s, i, KeyRoom[f], cells, <<f>> \o cells, KeyFlag[f], to)
  PROVE  Step(s, t)
<1> DEFINE n == KeyRoom[f]
           c == cells
           m == KeyFlag[f]
           key == <<f>> \o cells
           u == WithSpace(s, i, n, to)
<1>1. IsSeq(c) /\ n \in Nat /\ m \in 1..16
  BY KeyCellsIs
<1>2. i \in Nat /\ Len(s.w) \in Nat
  BY DEF Ok, IsSeq
<1>3. \/ t = Refuse(s, i)
      \/ CanHave(s, i, n) /\ t = Refuse(u, i)
      \/ ~(s.w[i].n >= m) /\ t = Item(s, i, n, c, key, m, to)
  OBVIOUS
<1> HIDE DEF n, c, m, key
<1>4. CASE t = Refuse(s, i)
  BY <1>4, RefuseStep
<1>5. CASE CanHave(s, i, n) /\ t = Refuse(u, i)
  <2>1. Step(s, u)
    <3> HIDE DEF u
    <3> QED BY <1>1, <1>5, SpaceStep DEF u
  <2> HIDE DEF u
  <2>2. Sane(u) /\ (Ok(u) => i \in 1..Len(u.w))
    BY <2>1 DEF Step
  <2>3. Step(u, t)
    BY <1>5, <2>2, RefuseStep
  <2> QED BY <2>1, <2>3, StepStep
<1>6. CASE ~(s.w[i].n >= m) /\ t = Item(s, i, n, c, key, m, to)
  <2>1. i = Len(s.w)
    <3> SUFFICES ASSUME i # Len(s.w) PROVE FALSE
      OBVIOUS
    <3> DEFINE j == i + 1
    <3>1. j \in 2..Len(s.w) /\ j - 1 = i
      BY <1>2
    <3> HIDE DEF j
    <3>2. Child(s.w[j - 1], s.w[j])
      BY <3>1 DEF Ok
    <3>3. s.w[i].n >= 32
      BY <3>1, <3>2 DEF Child, HasAttrib
    <3>4. s.w[i].n \in Nat
      BY OkElim DEF IsWriter
    <3> DEFINE a == s.w[i].n
    <3> HIDE DEF a
    <3>5. a >= 32 /\ a \in Nat /\ ~(a >= m)
      BY <1>6, <3>3, <3>4 DEF a
    <3> QED BY <1>1, <3>5
  <2>2. m \in Nat
    BY <1>1
  <2> QED BY <1>1, <1>2, <1>6, <2>1, <2>2, ItemStep
<1> QED BY <1>3, <1>4, <1>5, <1>6

\* The cells of a field, in a list of either type.
LEMMA FieldCellsIs ==
  ASSUME NEW x, NEW f \in Fields
  PROVE  IsSeq(FieldCells(x, f)) /\ Len(FieldCells(x, f)) \in Nat
<1> DEFINE val == SubSeq(f, 2, Len(f))
           a == U8(1)
           b == U8(f[1])
           c == U8(17)
           d == U8(Len(val))
           e == U16(f[1])
<1>1. IsSeq(val)
  <2>1. f \in Seq(Nat)
    BY RwfAssumption
  <2>2. val \in Seq(Nat)
    BY <2>1, SubSeqProperties
  <2> HIDE DEF val
  <2> QED BY <2>2, SeqIs
<1>2. FieldCells(x, f) = IF x.type = FIELDS THEN e \o d \o val ELSE a \o b \o c \o d \o val
  BY DEF FieldCells
<1>3. IsSeq(a) /\ IsSeq(b) /\ IsSeq(c) /\ IsSeq(d) /\ IsSeq(e)
  <2> HIDE DEF val
  <2> QED BY Numbers
<1> HIDE DEF val, a, b, c, d, e
<1> DEFINE g == e \o d
           h == a \o b
           k == h \o c
           l == k \o d
<1>4. IsSeq(g) /\ IsSeq(h)
  BY <1>3, Concat
<1>5. FieldCells(x, f) = IF x.type = FIELDS THEN g \o val ELSE l \o val
  BY <1>2
<1> HIDE DEF g, h
<1>6. IsSeq(k)
  BY <1>3, <1>4, Concat
<1> HIDE DEF k
<1>7. IsSeq(l)
  BY <1>3, <1>6, Concat
<1> HIDE DEF l
<1>8. IsSeq(g \o val) /\ IsSeq(l \o val)
  BY <1>1, <1>4, <1>7, Concat
<1> QED BY <1>5, <1>8 DEF IsSeq

\* What a call asks for fits where the call asks for it.
LEMMA OpeningFits ==
  ASSUME NEW type \in Types \ {MSG}, NEW opt, IsOptions(type, opt), NEW slot, NEW key, NEW t,
         \/ slot = "attrib" /\ t = KEY
         \/ slot \in {"key", "body"} /\ t = MSG
         \/ slot = "summary" /\ t \in Groups
         \/ slot = "entry" /\ t \in Groups \cup {FILTER}
  PROVE  Fits(Opening(type, opt, slot, key), t)
<1> DEFINE c == Opening(type, opt, slot, key)
<1>1. /\ c = [type |-> c.type, opt |-> c.opt, slot |-> c.slot, key |-> c.key]
      /\ c.type = type /\ c.opt = opt /\ c.slot = slot
  BY DEF Opening
<1> HIDE DEF c
<1>2. Fits(c, t)
  BY <1>1 DEF Fits
<1> QED BY <1>2 DEF c

\* Messages are outermost writers.
LEMMA MsgAlone ==
  ASSUME NEW s, Ok(s), s.w[Len(s.w)].type = MSG
  PROVE  Len(s.w) = 1
<1>1. Len(s.w) \in Nat /\ Len(s.w) >= 1
  BY DEF Ok, IsSeq
<1> SUFFICES ASSUME Len(s.w) # 1 PROVE FALSE
  OBVIOUS
<1> DEFINE j == Len(s.w)
<1>2. j \in 2..j
  <2>1. j \in Nat /\ j >= 1 /\ j # 1
    BY <1>1
  <2> HIDE DEF j
  <2> QED BY <2>1
<1>3. Child(s.w[j - 1], s.w[j])
  BY <1>2 DEF Ok
<1> QED BY <1>3 DEF Child

-----------------------------------------------------------------------------
(* The invariant. *)

\* The writer something is added to once those in it are ended.
Target == IF ending = None THEN Top ELSE ending - 1

\* A call waits for a container in which what it adds fits.
Control ==
  /\ ending \in 0..Top
  /\ call # <<>> => Target >= 1 /\ Fits(call, w[Target].type)

\* The inductive invariant: control is where a call left it, and the windows nest
\* unless one was left behind, or a call asked for too little room.
WInv == Sane(Now) /\ (marks = {} => Control)

\* The state as the operators see it, and that it is sound unless marked.
LEMMA NowIs ==
  /\ Now.w = w /\ Now.block = block /\ Now.marks = marks
  /\ WInv /\ marks = {} => Ok(Now)
<1>1. Now.w = w /\ Now.block = block /\ Now.marks = marks
  BY DEF Now
<1>2. WInv /\ marks = {} => Ok(Now)
  <2>1. WInv => Sane(Now)
    BY DEF WInv
  <2> HIDE DEF Now
  <2> QED BY <1>1, <2>1 DEF Sane, Excused
<1> QED BY <1>1, <1>2

\* What becomes of a call is the state after it.
LEMMA Becoming ==
  ASSUME NEW t, Sane(t), Become(t)
  PROVE  Now' = t
<1>1. t = [w |-> t.w, block |-> t.block, marks |-> t.marks]
  BY DEF Sane, IsState
<1>2. Now' = [w |-> w', block |-> block', marks |-> marks']
  BY DEF Now
<1> QED BY <1>1, <1>2 DEF Become

\* A call that is complete.
LEMMA Complete ==
  ASSUME NEW t, Sane(t), Become(t), call' = <<>>, ending' = None
  PROVE  WInv'
<1>1. Now' = t
  BY Becoming
<1>2. Sane(Now')
  BY <1>1
<1>3. marks' = {} => Control'
  <2> SUFFICES ASSUME marks' = {} PROVE Control'
    OBVIOUS
  <2>1. t.marks = {} /\ w' = t.w
    BY DEF Become
  <2>2. Ok(t)
    BY <2>1 DEF Sane, Excused
  <2>3. Len(w') \in Nat
    BY <2>1, <2>2 DEF Ok, IsSeq
  <2> QED BY <2>3 DEF Control, None, Top
<1> QED BY <1>2, <1>3 DEF WInv

\* A call that waits for others to be ended.
LEMMA AddCallInv ==
  ASSUME WInv, NEW i \in 1..Top, NEW c, Fits(c, w[i].type), AddCall(i, c)
  PROVE  WInv'
<1>1. Now' = Now
  BY DEF AddCall, Now
<1>2. Ok(Now)
  BY NowIs DEF AddCall, Called, Ready, Idle
<1>3. Len(w) \in Nat
  BY <1>2, NowIs DEF Ok, IsSeq
<1>4. Sane(Now')
  BY <1>1 DEF WInv
<1>5. w' = w /\ call' = c /\ ending' = IF i < Top THEN i + 1 ELSE None
  BY DEF AddCall
<1>6. Top' = Top
  BY <1>5 DEF Top
<1>7. Target' = i /\ ending' \in 0..Top'
  BY <1>3, <1>5, <1>6 DEF Target, None, Top
<1>8. Control'
  <2>1. w'[Target'].type = w[i].type
    BY <1>5, <1>7
  <2>2. Fits(call', w'[Target'].type)
    BY <1>5, <2>1
  <2>3. i >= 1
    BY <1>3 DEF Top
  <2> QED BY <1>7, <2>2, <2>3 DEF Control
<1> QED BY <1>4, <1>8 DEF WInv

\* One of the containers is ended.
LEMMA EndedInv ==
  ASSUME WInv, marks = {}, ending # None, NEW t, After(Now, t, Top), Become(t),
         ending' = IF Top = ending THEN None ELSE ending, call' = call
  PROVE  WInv'
<1>1. Sane(t)
  BY DEF After
<1>2. Now' = t
  BY <1>1, Becoming
<1>3. Sane(Now')
  BY <1>1, <1>2
<1>4. marks' = {} => Control'
  <2> SUFFICES ASSUME marks' = {} PROVE Control'
    OBVIOUS
  <2>1. t.marks = {} /\ w' = t.w
    BY DEF Become
  <2>2. Ok(t)
    BY <1>1, <2>1 DEF Sane, Excused
  <2>3. Ok(Now)
    BY NowIs
  <2>4. Len(w) \in Nat /\ Len(w) >= 1
    BY <2>3, NowIs DEF Ok, IsSeq
  <2>5. Len(w') = (IF Len(w) = 1 THEN 1 ELSE Len(w) - 1) /\ SameTypes(Len(w'), w', w)
    BY <2>1, <2>2, NowIs DEF After, Top
  <2>6. ending \in 1..Len(w) /\ (call # <<>> => ending - 1 >= 1 /\ Fits(call, w[ending - 1].type))
    BY <2>4 DEF WInv, Control, Target, None, Top
  <2>7. ending' \in 0..Len(w')
    <3> DEFINE n == Len(w)
               m == Len(w')
    <3>1. /\ n \in Nat /\ n >= 1 /\ m = (IF n = 1 THEN 1 ELSE n - 1) /\ ending \in 1..n
          /\ ending' = IF n = ending THEN 0 ELSE ending
      BY <2>4, <2>5, <2>6 DEF None, Top
    <3> HIDE DEF n, m
    <3>2. ending' \in 0..m
      BY <3>1
    <3> QED BY <3>2 DEF m
  <2>8. call # <<>> => Target' = ending - 1 /\ ending - 1 \in 1..Len(w')
    BY <2>4, <2>5, <2>6 DEF Target, None, Top
  <2>9. call # <<>> => w'[ending - 1].type = w[ending - 1].type
    BY <2>5, <2>8 DEF SameTypes
  <2>10. call' # <<>> => Target' >= 1 /\ Fits(call', w'[Target'].type)
    BY <2>6, <2>8, <2>9
  <2> QED BY <2>7, <2>10 DEF Control, Top
<1> QED BY <1>3, <1>4 DEF WInv

\* The invariant holds at first.
LEMMA RwfInitInv ==
  ASSUME RwfInit
  PROVE  WInv
<1>1. PICK r \in Roots, a \in Places, len \in BufferSizes :
        /\ w = <<Root(r[1], r[2], a, len)>>
        /\ block = [at |-> a, cells |-> [k \in 1..len |-> Junk]]
        /\ ending = None /\ call = <<>> /\ marks = {}
  BY DEF RwfInit
<1>2. r[1] \in Types /\ IsOptions(r[1], r[2]) /\ a \in Nat /\ len \in Nat
  BY RwfAssumption
<1> DEFINE b == [at |-> a, cells |-> [k \in 1..len |-> Junk]]
           t == r[1]
           opt == r[2]
           y == Root(t, opt, a, len)
           s == [w |-> << y >>, block |-> b, marks |-> {}]
<1>3. MemoryOk(b) /\ Whole(b, y)
  <2> HIDE DEF b, t, opt, y
  <2> QED BY <1>2, RootOk DEF b, t, opt, y
<1>4. Now = s
  BY <1>1 DEF Now
<1>5. Sane(s)
  <2> HIDE DEF b, y, s
  <2> QED BY <1>3, AloneOk DEF s
<1>6. Control
  <2>1. ending = 0 /\ call = <<>> /\ Len(w) = 1
    BY <1>1 DEF None
  <2> QED BY <2>1 DEF Control, Top
<1> QED BY <1>4, <1>5, <1>6 DEF WInv

\* reset() keeps it.
LEMMA ResetInv ==
  ASSUME WInv, ResetWriter
  PROVE  WInv'
<1> DEFINE y == Again(w[1])
           s == [w |-> << y >>, block |-> block, marks |-> {}]
<1>1. Ok(Now)
  BY NowIs DEF ResetWriter, Idle
<1>2. MemoryOk(block) /\ Whole(block, w[1])
  BY <1>1, WholeOk, NowIs
<1>3. Whole(block, y)
  BY <1>2, AgainOk
<1>4. w' = << y >> /\ block' = block /\ marks' = {} /\ call' = <<>> /\ ending' = None
  BY DEF ResetWriter, Idle
<1>5. Become(s)
  BY <1>4 DEF Become
<1>6. Sane(s)
  <2> HIDE DEF y, s
  <2> QED BY <1>2, <1>3, AloneOk DEF s
<1> HIDE DEF y, s
<1> QED BY <1>4, <1>5, <1>6, Complete

\* So do the calls that add a container: they wait for those that are open.
LEMMA AddCallsInv ==
  ASSUME WInv, NEW i \in 1..Top,
         AddKey(i) \/ AddBody(i) \/ AddSummary(i) \/ AddEntry(i) \/ Attrib(i)
  PROVE  WInv'
<1> DEFINE t == w[i].type
<1>1. CASE AddKey(i)
  <2> DEFINE c == Opening(KEY, <<>>, "key", <<>>)
  <2>1. KEY \in Types \ {MSG} /\ IsOptions(KEY, <<>>)
    BY DEF Types, Lists, Groups, IsOptions, FIELDS, ELEMENTS, FILTER, VECTOR, MAP, SERIES, MSG, KEY
  <2>2. t = MSG /\ AddCall(i, c)
    BY <1>1 DEF AddKey
  <2>3. Fits(c, t)
    BY <2>1, <2>2, OpeningFits
  <2> HIDE DEF c
  <2> QED BY <2>2, <2>3, AddCallInv
<1>2. CASE AddBody(i)
  <2>1. PICK k \in Kinds : AddCall(i, Opening(k[1], k[2], "body", <<>>))
    BY <1>2 DEF AddBody
  <2> DEFINE c == Opening(k[1], k[2], "body", <<>>)
  <2>2. k[1] \in Types \ {MSG} /\ IsOptions(k[1], k[2]) /\ t = MSG
    BY <1>2, RwfAssumption DEF AddBody
  <2>3. Fits(c, t)
    BY <2>2, OpeningFits
  <2> HIDE DEF c
  <2> QED BY <2>1, <2>3, AddCallInv DEF c
<1>3. CASE AddSummary(i)
  <2>1. PICK k \in Kinds : AddCall(i, Opening(k[1], k[2], "summary", <<>>))
    BY <1>3 DEF AddSummary
  <2> DEFINE c == Opening(k[1], k[2], "summary", <<>>)
  <2>2. k[1] \in Types \ {MSG} /\ IsOptions(k[1], k[2]) /\ t \in Groups
    BY <1>3, RwfAssumption DEF AddSummary
  <2>3. Fits(c, t)
    BY <2>2, OpeningFits
  <2> HIDE DEF c
  <2> QED BY <2>1, <2>3, AddCallInv DEF c
<1>4. CASE AddEntry(i)
  <2>1. PICK k \in Kinds, key \in EntryKeys(w[i].type) :
          AddCall(i, Opening(k[1], k[2], "entry", key))
    BY <1>4 DEF AddEntry
  <2> DEFINE c == Opening(k[1], k[2], "entry", key)
  <2>2. k[1] \in Types \ {MSG} /\ IsOptions(k[1], k[2]) /\ t \in Groups \cup {FILTER}
    BY <1>4, RwfAssumption DEF AddEntry
  <2>3. Fits(c, t)
    BY <2>2, OpeningFits
  <2> HIDE DEF c
  <2> QED BY <2>1, <2>3, AddCallInv DEF c
<1>5. CASE Attrib(i)
  <2> DEFINE c == Opening(ELEMENTS, <<>>, "attrib", <<>>)
  <2>1. ELEMENTS \in Types \ {MSG} /\ IsOptions(ELEMENTS, <<>>)
    BY DEF Types, Lists, Groups, IsOptions, FIELDS, ELEMENTS, FILTER, VECTOR, MAP, SERIES, MSG, KEY
  <2>2. t = KEY /\ AddCall(i, c)
    BY <1>5 DEF Attrib
  <2>3. Fits(c, t)
    BY <2>1, <2>2, OpeningFits
  <2> HIDE DEF c
  <2> QED BY <2>2, <2>3, AddCallInv
<1> QED BY <1>1, <1>2, <1>3, <1>4, <1>5

\* A call that ends containers keeps it.
LEMMA EndInv ==
  ASSUME WInv, NEW i \in 1..Top, End(i)
  PROVE  WInv'
<1>1. Now' = Now /\ w' = w /\ call' = <<>> /\ ending' = i
  BY DEF End, Ready, Idle, Now
<1>2. Sane(Now')
  BY <1>1 DEF WInv
<1>3. Ok(Now)
  BY NowIs DEF End, Ready, Idle
<1>4. Len(w) \in Nat
  BY <1>3, NowIs DEF Ok, IsSeq
<1>5. Control'
  BY <1>1, <1>4 DEF Control, Top
<1> QED BY <1>2, <1>5 DEF WInv

\* Adding keeps it, once those in the way are ended.
LEMMA AddInv ==
  ASSUME WInv, NEW to \in Places, Add(to)
  PROVE  WInv'
<1> DEFINE t == Added(Now, Top, call, to)
<1>1. ending = None /\ call # <<>> /\ marks = {} /\ Become(t) /\ call' = <<>> /\ ending' = None
  BY DEF Add
<1>2. Ok(Now) /\ Sane(Now)
  BY <1>1, NowIs DEF WInv
<1>3. Fits(call, Now.w[Top].type)
  BY <1>1, NowIs DEF WInv, Control, Target
<1>4. Top = Len(Now.w) /\ Top \in Nat /\ to \in Nat
  BY <1>2, NowIs, RwfAssumption DEF Ok, IsSeq, Top
<1>5. Sane(t)
  <2> HIDE DEF t
  <2> QED BY <1>2, <1>3, <1>4, AddedSane DEF t
<1> HIDE DEF t
<1> QED BY <1>1, <1>5, Complete

\* Ending one of them keeps it.
LEMMA EndOneInv ==
  ASSUME WInv, NEW to \in Places, EndOne(to)
  PROVE  WInv'
<1> DEFINE m == MsgEnded(Now, to)
           e == Ended(Now, Top, to)
           t == IF w[Top].type = MSG THEN m ELSE e
<1>1. /\ ending # None /\ marks = {} /\ Become(t) /\ call' = call
      /\ ending' = IF Top = ending THEN None ELSE ending
  BY DEF EndOne
<1>2. Ok(Now) /\ Sane(Now)
  BY <1>1, NowIs DEF WInv
<1>3. Top = Len(Now.w) /\ Top \in Nat /\ Top >= 1 /\ to \in Nat
  BY <1>2, NowIs, RwfAssumption DEF Ok, IsSeq, Top
<1>4. After(Now, t, Top)
  <2>1. CASE w[Top].type = MSG
    <3>1. Len(Now.w) = 1 /\ Top = 1
      BY <1>2, <1>3, <2>1, MsgAlone, NowIs
    <3>2. Now.w[1].type = MSG
      BY <2>1, <3>1, NowIs
    <3> HIDE DEF m, e
    <3>3. After(Now, m, 1)
      BY <1>2, <1>3, <3>1, <3>2, MsgEndedAfter DEF m
    <3> QED BY <2>1, <3>1, <3>3
  <2>2. CASE w[Top].type # MSG
    <3> HIDE DEF m, e
    <3>1. After(Now, e, Top)
      BY <1>2, <1>3, EndedAfter DEF e
    <3> QED BY <2>2, <3>1
  <2> QED BY <2>1, <2>2
<1> HIDE DEF t
<1> QED BY <1>1, <1>4, EndedInv

\* append_*() of a list keeps it.
LEMMA AppendFieldInv ==
  ASSUME WInv, NEW f \in Fields, NEW to \in Places, AppendField(f, to)
  PROVE  WInv'
<1> DEFINE c == FieldCells(w[Top], f)
           n == Len(c)
           one == 1
           t == Item(Now, Top, n, c, f, one, to)
<1>1. marks = {} /\ Become(t) /\ call' = <<>> /\ ending' = None
  BY DEF AppendField, Called, Ready, Idle
<1>2. Ok(Now) /\ Sane(Now)
  BY <1>1, NowIs DEF WInv
<1>3. Top = Len(Now.w) /\ Top \in Nat /\ to \in Nat
  BY <1>2, NowIs, RwfAssumption DEF Ok, IsSeq, Top
<1>4. IsSeq(c) /\ n \in Nat
  BY FieldCellsIs
<1>5. one \in Nat
  OBVIOUS
<1> HIDE DEF c, n, one
<1>6. Step(Now, t)
  <2> HIDE DEF t
  <2> QED BY <1>2, <1>3, <1>4, <1>5, ItemStep DEF t
<1> HIDE DEF t
<1>7. Sane(t)
  BY <1>6 DEF Step
<1> QED BY <1>1, <1>7, Complete

\* What identifies a key keeps it.
LEMMA KeyFieldInv ==
  ASSUME WInv, NEW i \in 1..Top, NEW f \in DOMAIN KeyFlag, NEW cells \in KeyCells[f],
         NEW to \in Places, KeyField(i, f, cells, to)
  PROVE  WInv'
<1> DEFINE t == IF ~CanHave(Now, i, KeyRoom[f]) THEN Refuse(Now, i)
                ELSE IF w[i].n >= KeyFlag[f] THEN Refuse(WithSpace(Now, i, KeyRoom[f], to), i)
                ELSE Item(Now, i, KeyRoom[f], cells, <<f>> \o cells, KeyFlag[f], to)
<1>1. marks = {} /\ Become(t) /\ call' = <<>> /\ ending' = None /\ w[i].type = KEY
  BY DEF KeyField, Called, Ready, Idle
<1>2. Ok(Now) /\ Sane(Now)
  BY <1>1, NowIs DEF WInv
<1>3. i \in 1..Len(Now.w) /\ to \in Nat /\ Now.w[i].type = KEY
  BY <1>1, NowIs, RwfAssumption DEF Top
<1>4. t = IF ~CanHave(Now, i, KeyRoom[f]) THEN Refuse(Now, i)
          ELSE IF Now.w[i].n >= KeyFlag[f] THEN Refuse(WithSpace(Now, i, KeyRoom[f], to), i)
          ELSE Item(Now, i, KeyRoom[f], cells, <<f>> \o cells, KeyFlag[f], to)
  BY NowIs
<1> HIDE DEF t
<1>5. Step(Now, t)
  BY <1>2, <1>3, <1>4, KeyStep
<1>6. Sane(t)
  BY <1>5 DEF Step
<1> QED BY <1>1, <1>6, Complete

\* An entry that says what is deleted keeps it.
LEMMA AddDeleteEntryInv ==
  ASSUME WInv, NEW k \in Keys, NEW to \in Places, AddDeleteEntry(k, to)
  PROVE  WInv'
<1> DEFINE t == IF w[Top].err THEN [Now EXCEPT !.w[Top] = Lost(@)]
                ELSE Item([Now EXCEPT !.w[Top] = Counted(Entry(@))], Top, 3,
                          U8(3) \o U8(1) \o U8(k), <<3, k>>, 0, to)
<1>1. marks = {} /\ Become(t) /\ call' = <<>> /\ ending' = None /\ w[Top].type = MAP
  BY DEF AddDeleteEntry, Called, Ready, Idle
<1>2. Ok(Now) /\ Sane(Now)
  BY <1>1, NowIs DEF WInv
<1>3. Top = Len(Now.w) /\ to \in Nat /\ Now.w[Top].type = MAP
  BY <1>1, NowIs, RwfAssumption DEF Top
<1>4. t = IF Now.w[Top].err THEN [Now EXCEPT !.w[Top] = Lost(@)]
          ELSE Item([Now EXCEPT !.w[Top] = Counted(Entry(@))], Top, 3,
                    U8(3) \o U8(1) \o U8(k), <<3, k>>, 0, to)
  BY NowIs
<1> HIDE DEF t
<1>5. Step(Now, t)
  BY <1>2, <1>3, <1>4, DeleteStep
<1>6. Sane(t)
  BY <1>5 DEF Step
<1> QED BY <1>1, <1>6, Complete

\* A container encoded elsewhere keeps it.
LEMMA AddRawContainerInv ==
  ASSUME WInv, NEW to \in Places, AddRawContainer(to)
  PROVE  WInv'
<1> DEFINE t == IF w[1].ct # NoData THEN Refuse(Now, 1)
                ELSE RawAdded([Now EXCEPT !.w[1] = Begun(@, ELEMENTS, "body")], to)
<1>1. marks = {} /\ Become(t) /\ call' = <<>> /\ ending' = None /\ w[Top].type = MSG
  BY DEF AddRawContainer, Called, Ready, Idle
<1>2. Ok(Now) /\ Sane(Now)
  BY <1>1, NowIs DEF WInv
<1>3. Len(Now.w) = 1 /\ Now.w[1].type = MSG /\ to \in Nat
  <2>1. Now.w[Len(Now.w)].type = MSG
    BY <1>1, NowIs DEF Top
  <2>2. Len(Now.w) = 1
    BY <1>2, <2>1, MsgAlone
  <2> QED BY <2>1, <2>2, RwfAssumption
<1>4. t = IF Now.w[1].ct # NoData THEN Refuse(Now, 1)
          ELSE RawAdded([Now EXCEPT !.w[1] = Begun(@, ELEMENTS, "body")], to)
  BY NowIs
<1> HIDE DEF t
<1>5. Step(Now, t)
  BY <1>2, <1>3, <1>4, RawStep
<1>6. Sane(t)
  BY <1>5 DEF Step
<1> QED BY <1>1, <1>6, Complete

\* Field definitions keep it.
LEMMA AddFieldDefnInv ==
  ASSUME WInv, AddFieldDefn
  PROVE  WInv'
<1> DEFINE t == [WriteUnchecked([Now EXCEPT !.w[Top].off = SummaryOff(w[Top])], Top, DefnCells)
                   EXCEPT !.w[Top] = Defined(@)]
<1>1. marks = {} /\ Become(t) /\ call' = <<>> /\ ending' = None
  BY DEF AddFieldDefn, Called, Ready, Idle
<1>2. Ok(Now) /\ Sane(Now)
  BY <1>1, NowIs DEF WInv
<1>3. Top = Len(Now.w)
  BY NowIs DEF Top
<1>4. t = [WriteUnchecked([Now EXCEPT !.w[Top].off = SummaryOff(Now.w[Top])], Top, DefnCells)
             EXCEPT !.w[Top] = Defined(@)]
  BY NowIs
<1> HIDE DEF t
<1>5. Step(Now, t)
  BY <1>2, <1>3, <1>4, DefnStep
<1>6. Sane(t)
  BY <1>5 DEF Step
<1> QED BY <1>1, <1>6, Complete

\* Every step keeps the invariant.
LEMMA RwfNextInv ==
  ASSUME WInv, [RwfNext]_rwfvars
  PROVE  WInv'
<1>1. CASE UNCHANGED rwfvars
  BY <1>1 DEF rwfvars, WInv, Control, Target, Now, Top
<1>2. ASSUME NEW i \in 1..Top,
             AddKey(i) \/ AddBody(i) \/ AddSummary(i) \/ AddEntry(i) \/ Attrib(i)
      PROVE  WInv'
  BY <1>2, AddCallsInv
<1>3. ASSUME NEW i \in 1..Top, End(i) PROVE WInv'
  BY <1>3, EndInv
<1>4. ASSUME NEW to \in Places, Add(to) PROVE WInv'
  BY <1>4, AddInv
<1>5. ASSUME NEW to \in Places, EndOne(to) PROVE WInv'
  BY <1>5, EndOneInv
<1>6. ASSUME NEW to \in Places, AddRawContainer(to) PROVE WInv'
  BY <1>6, AddRawContainerInv
<1>7. ASSUME NEW to \in Places, NEW f \in Fields, AppendField(f, to) PROVE WInv'
  BY <1>7, AppendFieldInv
<1>8. ASSUME NEW to \in Places, NEW i \in 1..Top, NEW f \in DOMAIN KeyFlag,
             NEW cells \in KeyCells[f], KeyField(i, f, cells, to)
      PROVE  WInv'
  BY <1>8, KeyFieldInv
<1>9. ASSUME NEW to \in Places, NEW k \in Keys, AddDeleteEntry(k, to) PROVE WInv'
  BY <1>9, AddDeleteEntryInv
<1>10. CASE AddFieldDefn
  BY <1>10, AddFieldDefnInv
<1>11. CASE ResetWriter
  BY <1>11, ResetInv
<1> QED BY <1>1, <1>2, <1>3, <1>4, <1>5, <1>6, <1>7, <1>8, <1>9, <1>10, <1>11 DEF RwfNext

\* The invariant says what the properties ask.
LEMMA WInvSays ==
  ASSUME WInv
  PROVE  OpenNested /\ InBuffer
<1>1. OpenNested
  <2> SUFFICES ASSUME marks = {} PROVE OpenNested
    BY DEF OpenNested
  <2>1. Ok(Now)
    BY NowIs
  <2>2. w[1].buf = block.at + w[1].pre
    BY <2>1, NowIs DEF Ok
  <2>3. \A j \in 2..Len(w) : Child(w[j - 1], w[j])
    BY <2>1, NowIs DEF Ok
  <2>4. \A j \in 1..Len(w) : InMemory(block, w[j])
    BY <2>1, NowIs DEF Ok
  <2>5. \A j \in 2..Top : Nested(j)
    BY <2>3 DEF Child, Nested, Top
  <2>6. \A j \in 1..Top : EndsWithBlock(j)
    BY <2>4 DEF InMemory, EndsWithBlock, Top
  <2> QED BY <2>2, <2>5, <2>6 DEF OpenNested
<1>2. InBuffer
  <2> SUFFICES ASSUME "outside" \in marks, "left behind" \notin marks,
                      "unasked" \notin marks
               PROVE  FALSE
    BY DEF InBuffer
  <2>1. Sane(Now)
    BY DEF WInv
  <2>2. Ok(Now)
    BY <2>1, NowIs DEF Sane, Excused
  <2>3. marks = {}
    BY <2>2, NowIs DEF Ok
  <2> QED BY <2>3
<1> QED BY <1>1, <1>2

\* The invariant holds always.
LEMMA WriterInvariant == RwfSpec => []WInv
<1>1. RwfInit => WInv
  BY RwfInitInv
<1>2. WInv /\ [RwfNext]_rwfvars => WInv'
  BY RwfNextInv
<1> QED BY <1>1, <1>2, PTL DEF RwfSpec

\* While nothing went wrong, an open container is the rest of its parent
\* where that writes next, and all end where the memory ends (make_child(),
\* resize(), update_hdr()); for buffers, containers and calls of any number and
\* size, wherever memory is found.
THEOREM WindowsNested == RwfSpec => []OpenNested
<1>1. WInv => OpenNested
  BY WInvSays
<1> QED BY <1>1, WriterInvariant, PTL

\* No byte is written outside of the memory of the outermost writer (has_space(),
\* check_offset(), check_prefix(), update_hdr()) but by a writer that was left
\* behind when it moved, or by end_field_defn() and service_id(), which take more
\* room than they ask for.
THEOREM WritesStayInBuffer == RwfSpec => []InBuffer
<1>1. WInv => InBuffer
  BY WInvSays
<1> QED BY <1>1, WriterInvariant, PTL
=============================================================================
