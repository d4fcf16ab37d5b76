------------------------------- MODULE Registry -------------------------------
(***************************************************************************)
(* The registry of message formats of src/md_msg.cpp: a table of formats,  *)
(* in groups by the place of their magic number, a hash table of external  *)
(* type ids (hints) with linear probing, and a table by the byte of a      *)
(* type.  unpack(), is_msg_type() and get_writer() look a format up; the   *)
(* first lookup of an empty registry has md_init_auto_unpack()             *)
(* (src/glue.cpp) fill it, which one thread does while others that came    *)
(* through there wait.                                                     *)
(*                                                                         *)
(* add_match() counts a format first, from where on lookups of other       *)
(* threads do not fill the registry, and then puts it in the tables, store *)
(* by store.  Nothing orders these stores for other threads: they are seen *)
(* in any order.  A lookup reads one table after another; what it would    *)
(* read is an operator of the tables as they are, and a group's memory may *)
(* move while it holds it.                                                 *)
(*                                                                         *)
(* Assumed: a program registers formats of its own while nobody fills the  *)
(* registry or registers others (add_match() has no lock, and two of them  *)
(* would take one place); and whoever sees where a format is in            *)
(* md_match_arr[] sees the format there.                                   *)
(*                                                                         *)
(* What is_msg_type() of a format says of a message is the constant        *)
(* Accepts.  Slip_X is X with a plausible slip, for the mutants.           *)
(***************************************************************************)
EXTENDS Integers, Sequences, SequencesExt

CONSTANTS Threads,
          Formats,      \* the MDMatch records
          Auto,         \* those of md_init_auto_unpack(), in order
          Own,          \* those that programs register
          Messages,     \* memory, and the offsets where the message starts, ends
          Hints,        \* the h of calls, 0 for none
          Accepts,      \* pairs of a format and a message
          HashSize,     \* MATCH_HASH_SIZE
          NONE

Always == 0                \* the length of a magic number that is always tried
Never == 255            \* and of one that is not in the message

Format(f) == Formats[f]
IDs == DOMAIN Formats
HintCount == FoldLeft(LAMBDA n, f : n + Len(f.hint), 0, Formats)

RegistryAssumption ==
  /\ HintCount < HashSize /\ Len(Formats) < HashSize
  /\ \A f \in IDs : Format(f).len \notin {Always, Never} => Len(Format(f).buf) = Format(f).len
  /\ \A f \in IDs : 0 \notin ToSet(Format(f).hint)

VARIABLES arr,          \* md_match_arr[], md_add_cnt of them
          groups,       \* md_match_group[]: off, haslen, matches[], xoff[]
          ftypes,       \* md_match_ftype[]: 1 for the first of arr
          hashed,       \* md_match_hash[]
          claimed,      \* auto_unpack: somebody has started
          ready,        \* auto_ready: and is done
          pc,           \* of each thread
          looks,        \* it will look something up
          whole,        \* it came back from md_init_auto_unpack()
          left,         \* the stores that the last of arr lacks
          stray         \* the format that moved the memory it reads, or 0

vars == <<arr, groups, ftypes, hashed, claimed, ready, pc, looks, whole, left, stray>>
tables == <<arr, groups, ftypes, hashed, left, stray>>

-----------------------------------------------------------------------------
(* add_match() *)

\* The group for a format, one more than there are if it has none.
GroupOf(ma) ==
  LET fits(g) == IF ma.len = Always THEN groups[g].haslen = Always
                 ELSE groups[g].haslen # Always /\ groups[g].off = ma.off
      found == {g \in DOMAIN groups : fits(g)}
  IN  IF found = {} THEN Len(groups) + 1
      ELSE CHOOSE g \in found : \A h \in found : g <= h

NewGroup(ma) == [off |-> ma.off, haslen |-> ma.len, matches |-> <<>>, xoff |-> <<>>]
First(ma) == IF ma.buf = <<>> THEN 0 ELSE ma.buf[1]

Put(to, where, val) == [to |-> to, at |-> where, val |-> val]

\* MDMatchGroup::add_match() of a group that there is: at its end, where a search
\* for its first byte starts unless there is one before.
Slip_Starts(g, ma) ==          \* the start moves to the last with that byte
  {Put("xoff", g, Len(groups[g].matches) + 1)}
Starts(g, ma) ==
  IF First(ma) \in DOMAIN groups[g].xoff THEN {}
  ELSE {Put("xoff", g, Len(groups[g].matches) + 1)}
Joins(f) ==
  LET ma == Format(f)
      g  == GroupOf(ma)
  IN  IF ma.len = Never THEN {}
      ELSE IF g \in DOMAIN groups THEN {Put("match", g, f)} \cup Starts(g, ma)
      ELSE {Put("group", g, f)}

Slot(j) == j % HashSize
Busy(t, j) == t[Slot(j)].hint # 0

\* The slots that a probe from h goes through, up to the first free one.
Probe(t, h) ==
  LET end == CHOOSE n \in 0..(HashSize - 1) :
               ~ Busy(t, h + n) /\ \A m \in 0..(n - 1) : Busy(t, h + m)
  IN  [n \in 1..(end + 1) |-> Slot(h + n - 1)]

\* The stores for hints: each in the first free slot, the hint and its index.
HintStores(ma, idx) ==
  FoldLeft(LAMBDA x, h :
             LET j == Last(Probe(x.t, h))
             IN  [t |-> [x.t EXCEPT ![j].hint = h],
                  puts |-> x.puts \cup {Put("hint", j, h), Put("idx", j, idx)}],
           [t |-> hashed, puts |-> {}], ma.hint).puts

Registered(f) == f \in ToSet(arr)

\* (A format that is registered already is left alone.)
AllAuto == ToSet(Auto) \subseteq ToSet(arr)

\* The format counts, and is still to be put in the tables.
AddMatch(f) ==
  LET ma == Format(f)
  IN  /\ left = {}
      /\ arr' = Append(arr, f)
      /\ left' = (IF ma.ftype = 0 THEN {} ELSE {Put("ftype", ma.ftype, Len(arr) + 1)})
                 \cup Joins(f) \cup HintStores(ma, Len(arr))
      /\ UNCHANGED <<groups, ftypes, hashed, stray>>

\* A format joins a group: realloc() may move the memory that others are reading.
Join(s) ==
  /\ groups' = [groups EXCEPT ![s.at].matches = Append(@, s.val)]
  /\ \E T \in SUBSET {t \in Threads : pc[t] = "read"} :
       stray' = [t \in Threads |-> IF t \in T THEN s.val ELSE stray[t]]
  /\ UNCHANGED <<ftypes, hashed>>

InTables(s) ==
  \/ /\ s.to = "group"
     /\ LET ma == Format(s.val)
        IN  groups' = Append(groups, [NewGroup(ma) EXCEPT !.matches = <<s.val>>,
                                                          !.xoff = (First(ma) :> 1)])
     /\ UNCHANGED <<ftypes, hashed, stray>>
  \/ s.to = "match" /\ Join(s)
  \/ /\ s.to = "xoff"
     /\ groups' = [groups EXCEPT ![s.at].xoff = (First(Format(Last(arr))) :> s.val) @@ @]
     /\ UNCHANGED <<ftypes, hashed, stray>>
  \/ /\ s.to = "ftype"
     /\ ftypes' = [ftypes EXCEPT ![s.at] = s.val]
     /\ UNCHANGED <<groups, hashed, stray>>
  \/ /\ s.to \in {"hint", "idx"}
     /\ hashed' = [hashed EXCEPT ![s.at][s.to] = s.val]
     /\ UNCHANGED <<groups, ftypes, stray>>

-----------------------------------------------------------------------------
(* Lookups. *)

Holds(f, m) == <<f, m>> \in Accepts

\* cmp_wd() where the group looks, in bounds that leave out where the message
\* starts.
Magic(g, f, m) ==
  LET ma == Format(f)
      at == m.off + g.off
  IN  /\ g.off + ma.len <= m.end
      /\ at + ma.len <= Len(m.mem)
      /\ \A i \in 1..ma.len : m.mem[at + i] = ma.buf[i]

\* match() and match2(), is_msg_type() and is_msg_type2() of a group: from the
\* first format whose magic number starts with the byte that is there.
GroupTries(g, m) ==
  LET at == m.off + g.off
      byte == m.mem[at + 1]
      from == IF g.haslen = Always THEN 1
              ELSE IF at >= m.end \/ byte \notin DOMAIN g.xoff THEN Len(g.matches) + 1
              ELSE g.xoff[byte]
  IN  SelectSeq(SubSeq(g.matches, from, Len(g.matches)), LAMBDA f : Magic(g, f, m))

\* The formats that a lookup tries by type byte and by hint.  The index of a slot
\* is 0, that of the first format, until it is stored.
HintTries(h) ==
  IF h = 0 THEN <<>>
  ELSE (IF h < HashSize /\ ftypes[h] # 0 THEN <<arr[ftypes[h]]>> ELSE <<>>)
       \o LET hit == SelectSeq(Probe(hashed, h), LAMBDA j : hashed[j].hint = h)
          IN  [i \in DOMAIN hit |-> arr[hashed[hit[i]].idx + 1]]

FirstOf(s, m) ==
  LET ok == {i \in DOMAIN s : Holds(s[i], m)}
  IN  IF ok = {} THEN NONE ELSE s[CHOOSE i \in ok : \A j \in ok : i <= j]

\* unpack(), is_msg_type().
Unpack(m, h) ==
  FirstOf(HintTries(h) \o FlattenSeq([g \in DOMAIN groups |-> GroupTries(groups[g], m)]), m)

\* get_writer(): the first that has a writer.
GetWriter(h) ==
  Head(Append(SelectSeq(HintTries(h), LAMBDA f : Format(f).writes), NONE))

\* is_msg_type() of what was found, type_id_of_ftype().
TypeId(f) ==
  IF f = NONE THEN 0
  ELSE IF Format(f).hint # <<>> THEN Format(f).hint[1] ELSE Format(f).ftype

-----------------------------------------------------------------------------
(* The threads. *)

Init ==
  /\ arr = <<>> /\ groups = <<>>
  /\ ftypes = [b \in 1..(HashSize - 1) |-> 0]
  /\ hashed = [j \in 0..(HashSize - 1) |-> [hint |-> 0, idx |-> 0]]
  /\ claimed = FALSE /\ ready = FALSE
  /\ pc = [t \in Threads |-> "idle"]
  /\ looks = [t \in Threads |-> FALSE]
  /\ whole = [t \in Threads |-> FALSE]
  /\ left = {}
  /\ stray = [t \in Threads |-> 0]

\* md_init_auto_unpack(): the first to come fills the registry.
EnterInit(t) ==
  /\ claimed' = TRUE
  /\ pc' = [pc EXCEPT ![t] = IF claimed THEN "wait" ELSE "fill"]

\* A lookup; if no format counts it has the registry filled first.
Lookup(t) ==
  /\ pc[t] = "idle"
  /\ looks' = [looks EXCEPT ![t] = TRUE]
  /\ IF arr = <<>> THEN EnterInit(t)
     ELSE pc' = [pc EXCEPT ![t] = "look"] /\ UNCHANGED claimed
  /\ UNCHANGED <<tables, ready, whole>>

Registers(t) == pc[t] = "own"
Fills(t) == pc[t] \in {"fill", "auto"}

\* A program that calls md_init_auto_unpack() before anything else.
Prepare(t) ==
  /\ pc[t] = "idle" /\ ~ whole[t]
  /\ \A u \in Threads : ~ Registers(u)
  /\ looks' = [looks EXCEPT ![t] = FALSE]
  /\ EnterInit(t)
  /\ UNCHANGED <<tables, ready, whole>>

\* A program that registers a format of its own.
AddOwn(t, f) ==
  /\ pc[t] = "idle" /\ ~ Registered(f)
  /\ \A u \in Threads : ~ (Registers(u) \/ Fills(u))
  /\ AddMatch(f)
  /\ pc' = [pc EXCEPT ![t] = "own"]
  /\ UNCHANGED <<claimed, ready, looks, whole>>

\* The next of the init_auto_unpack() calls.
Fill(t) ==
  /\ pc[t] = "fill"
  /\ \E i \in DOMAIN Auto :
       /\ ~ Registered(Auto[i]) /\ \A j \in 1..(i - 1) : Registered(Auto[j])
       /\ AddMatch(Auto[i])
  /\ pc' = [pc EXCEPT ![t] = "auto"]
  /\ UNCHANGED <<claimed, ready, looks, whole>>

\* Another store of add_match() is seen; and it returns.
Store(t) ==
  /\ pc[t] \in {"auto", "own"}
  /\ \E s \in left : InTables(s) /\ left' = left \ {s}
  /\ UNCHANGED <<arr, claimed, ready, pc, looks, whole>>
Added(t) ==
  /\ pc[t] \in {"auto", "own"} /\ left = {}
  /\ pc' = [pc EXCEPT ![t] = IF Registers(t) THEN "idle" ELSE "fill"]
  /\ UNCHANGED <<tables, claimed, ready, looks, whole>>

Through(t) ==
  /\ whole' = [whole EXCEPT ![t] = TRUE]
  /\ pc' = [pc EXCEPT ![t] = IF looks[t] THEN "look" ELSE "idle"]

Filled(t) ==
  /\ pc[t] = "fill"
  /\ AllAuto
  /\ ready' = TRUE
  /\ Through(t)
  /\ UNCHANGED <<tables, claimed, looks>>

Wait(t) ==
  /\ pc[t] = "wait"
  /\ ready
  /\ Through(t)
  /\ UNCHANGED <<tables, claimed, ready, looks>>

\* It finds what Unpack or GetWriter say, in the groups or before, and changes
\* nothing.
Look(t) ==
  /\ pc[t] = "look"
  /\ \E to \in {"idle", "read"} : pc' = [pc EXCEPT ![t] = to]
  /\ UNCHANGED <<tables, claimed, ready, looks, whole>>
ReadGroups(t) ==
  /\ pc[t] = "read"
  /\ pc' = [pc EXCEPT ![t] = "idle"]
  /\ stray' = [stray EXCEPT ![t] = 0]
  /\ UNCHANGED <<arr, groups, ftypes, hashed, left, claimed, ready, looks, whole>>

Runs(t) == Fill(t) \/ Store(t) \/ Added(t) \/ Filled(t) \/ Wait(t) \/ Look(t) \/ ReadGroups(t)

Next == \E t \in Threads :
          Lookup(t) \/ Prepare(t) \/ Runs(t) \/ \E f \in Own : AddOwn(t, f)

Spec == Init /\ [][Next]_vars /\ \A t \in Threads : WF_vars(Runs(t))

-----------------------------------------------------------------------------
(* Properties. *)

\* What a lookup must find among the formats s, in the order they came: the
\* last with the type byte h, then those with the hint h, then those whose magic
\* number is there, by the places of magic numbers in the order they came.
InMessage(f, m) ==
  /\ m.off + Format(f).off + Format(f).len <= m.end
  /\ \A i \in 1..Format(f).len : m.mem[m.off + Format(f).off + i] = Format(f).buf[i]
Place(f) == IF Format(f).len = Always THEN -1 ELSE Format(f).off
ByType(s, h) ==
  LET typed == SelectSeq(s, LAMBDA f : h # 0 /\ Format(f).ftype = h)
  IN  IF typed = <<>> THEN <<>> ELSE <<Last(typed)>>
ByHint(s, h) == SelectSeq(s, LAMBDA f : h \in ToSet(Format(f).hint))
ByMagic(s, m) ==
  LET read == SelectSeq(s, LAMBDA f : Format(f).len # Never)
      first(i) == \A j \in 1..(i - 1) : Place(read[j]) # Place(read[i])
  IN  FlattenSeq([i \in DOMAIN read |-> SelectSeq(read, LAMBDA f :
        first(i) /\ Place(f) = Place(read[i]) /\ InMessage(f, m))])

\* The formats that are in the tables without and with the one that is being
\* added; and the hints of that one whose index has not been stored.
Registries == {arr} \cup (IF left = {} THEN {} ELSE {Front(arr)})
Unstored == {hashed[s.at].hint : s \in {s \in left : s.to = "idx"}} \ {0}

\* What a lookup by h may try of each table: it is in none by half, but that a
\* hint whose index is not there yet stands for the first format.
MayTry(h) ==
  {ByType(r, h) \o ByHint(s, h) : r, s \in Registries}
  \cup (IF h \notin Unstored THEN {}
        ELSE {ByType(r, h) \o Append(ByHint(Front(arr), h), arr[1]) : r \in Registries})

\* A lookup, whenever it comes, finds the right format among those that add_match()
\* is through with, or among them and the one that it is adding, but for the hints
\* whose index it has not stored.  Who came through md_init_auto_unpack() looks
\* among all of them, and they do not move memory that it reads.
Dispatched ==
  LET read == [m \in Messages |-> {ByMagic(r, m) : r \in Registries}]
  IN  \A h \in Hints :
        /\ GetWriter(h) \in {Head(Append(SelectSeq(s, LAMBDA f : Format(f).writes), NONE)) :
                               s \in MayTry(h)}
        /\ \A m \in Messages : Unpack(m, h) \in {FirstOf(s \o r, m) : s \in MayTry(h), r \in read[m]}
AllThere ==
  \A t \in Threads : whole[t] =>
    /\ AllAuto /\ stray[t] \notin ToSet(Auto)
    /\ left # {} => Last(arr) \notin ToSet(Auto)
FormatFound == Dispatched /\ AllThere

\* A thread that looks a format up, or waits for the registry, gets an answer.
LookupsReturn == \A t \in Threads : pc[t] # "idle" ~> pc[t] = "idle"
=============================================================================
