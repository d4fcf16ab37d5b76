--------------------------------- MODULE Dict ---------------------------------
(***************************************************************************)
(* Dictionaries of fields (src/md_dict.cpp): the build, which collects      *)
(* entries, enumerations and forms as the parsers find them and keeps two  *)
(* indexes of the entries, and the image that index_dict() makes of it, in  *)
(* which lookup() finds a field by fid and get() by name.                  *)
(*                                                                         *)
(* A name, the display text of an enumeration and the type of a field are  *)
(* opaque.  Tables of the image that are packed in bits are the sets of    *)
(* the bits that are on, so that writing one is the union, as |= is; the   *)
(* offsets of names are in the words they are aligned to.  Slip_X is X with *)
(* a plausible slip, for the mutants.                                      *)
(***************************************************************************)
EXTENDS Integers, Sequences, FiniteSets, SequencesExt, FiniteSetsExt

CONSTANTS Fids, Names,
          EntryKinds,        \* what entries are declared with: ftype, fsize, flags
          EnumMaps,     \* the enumerations: values, ascending
          NameHash,     \* dict_hash()
          TypeHash(_),  \* hash_int() of a type
          NameWords,    \* how many words a name takes in the image
          MinNames,     \* the least size of fname_index, 1024
          MinShift,     \* the first htshft of a type hash, 6
          MaxBuild,     \* bound: calls of the build
          NONE

ASSUME DictAssumption ==
  /\ Fids \subseteq Nat
  /\ EntryKinds \subseteq [ftype : STRING, fsize : Nat, flags : SUBSET STRING]
  /\ EnumMaps \in Seq(Seq(Nat))

VARIABLES entries,      \* entry_q
          byFid,        \* fid_index: its first fid and its entries, 0 for NULL
          byName,       \* fname_index, 0 for NULL
          minFid, maxFid,
          pending,      \* pending_enum_q
          enums,        \* enum_q: the numbers of the maps in it
          forms,        \* form_cnt
          dict,         \* what index_dict() made
          built         \* how many calls of the build

buildvars == <<entries, byFid, byName, minFid, maxFid, pending, enums, forms, dict, built>>

MapNums == DOMAIN EnumMaps
Building == dict = NONE
Call == Building /\ built < MaxBuild /\ built' = built + 1
EntryNo(i) == entries[i]

-----------------------------------------------------------------------------
(* The two indexes of the build. *)

Indexed == byFid.tab # <<>>
Index(es, lo, hi) ==           \* a later entry with the same fid takes its place
  [base |-> lo,
   tab  |-> [k \in 1..(hi - lo + 1) |->
               Max({0} \cup {i \in DOMAIN es : es[i].fid = lo + k - 1})]]

\* get_fid_entry(): the index it leaves, made anew when the fid is not in it.
Reindexed(f) ==
  IF f < minFid \/ f > maxFid THEN byFid
  ELSE LET k == f - minFid + 1
       IN  IF k > Len(byFid.tab) \/ byFid.tab[k] = 0
           THEN Index(entries, minFid, maxFid) ELSE byFid
\* and the entry it finds, 0 for none.
FidEntry(f) ==
  IF f < minFid \/ f > maxFid THEN 0 ELSE Reindexed(f).tab[f - minFid + 1]

NameSlot(t, n, k) == ((NameHash[n] + k) % Len(t)) + 1
FirstSlot(t, n, Stops(_)) ==
  NameSlot(t, n, CHOOSE k \in 0..(Len(t) - 1) :
    Stops(NameSlot(t, n, k)) /\ \A j \in 0..(k - 1) : ~ Stops(NameSlot(t, n, j)))

\* get_fname_entry()
NameEntry(n) ==
  IF byName = <<>> THEN 0
  ELSE byName[FirstSlot(byName, n, LAMBDA s : byName[s] = 0 \/ EntryNo(byName[s]).name = n)]

\* add_fname_entry() of the entry after es.
Slotted(t, n, i) == [t EXCEPT ![FirstSlot(t, n, LAMBDA s : t[s] = 0)] = i]
GrownNames(es, t) ==
  LET count == Len(es)
      size  == IF count * 4 < MinNames THEN MinNames ELSE count * 4
  IN  IF Len(t) > count * 2 THEN t
      ELSE FoldLeft(LAMBDA acc, i : Slotted(acc, es[i].name, i),
                    [s \in 1..size |-> 0], [i \in DOMAIN es |-> i])

-----------------------------------------------------------------------------
(* What the parsers add. *)

\* update_entry_enum() of a fid without an entry: the enumerations that wait are
\* in order of their fids, the first that came for a fid stays.
Queued(q, f, m) ==
  IF \E i \in DOMAIN q : q[i].fid = f THEN q
  ELSE LET i == Cardinality({j \in DOMAIN q : q[j].fid < f})
       IN  InsertAt(q, i + 1, [fid |-> f, map |-> m])

\* add_entry() takes what waits for an enumeration; its search stops at the
\* first that is not beyond the fid.
Slip_Awaited(f) ==
  LET at == {i \in DOMAIN pending : f <= pending[i].fid}
  IN  IF at = {} THEN 0 ELSE Min(at)
Awaited(f) ==
  LET at == {i \in DOMAIN pending : f >= pending[i].fid}
  IN  IF at = {} \/ pending[Min(at)].fid # f THEN 0 ELSE Min(at)

Declared(f, n, k, map) ==
  [fid |-> f, name |-> n, ftype |-> k.ftype, fsize |-> k.fsize, flags |-> k.flags,
   map |-> map]
Known(f, n, k) ==
  IF NameEntry(n) = 0 THEN FALSE
  ELSE LET e == EntryNo(NameEntry(n))
       IN  e.fid = f /\ e.ftype = k.ftype /\ e.fsize = k.fsize

\* add_entry() of what is declared already, MDDictEntry::update().
Redeclare(f, n, k) ==
  /\ Call /\ Known(f, n, k)
  /\ entries' = [entries EXCEPT ![NameEntry(n)].flags = @ \cup k.flags]
  /\ UNCHANGED <<byFid, byName, minFid, maxFid, pending, enums, forms, dict>>

\* add_entry() of something new; an entry with its name stays, and comes first.
Declare(f, n, k) ==
  LET w == IF k.ftype = "enum" THEN Awaited(f) ELSE 0
      t == GrownNames(entries, byName)
  IN  /\ Call /\ ~ Known(f, n, k)
      /\ entries' = Append(entries, Declared(f, n, k, IF w = 0 THEN 0 ELSE pending[w].map))
      /\ pending' = IF w = 0 THEN pending ELSE RemoveAt(pending, w)
      /\ byName' = Slotted(t, n, Len(entries) + 1)
      /\ maxFid' = IF entries = <<>> \/ f > maxFid THEN f ELSE maxFid
      /\ minFid' = IF entries = <<>> \/ f < minFid THEN f ELSE minFid
      /\ UNCHANGED <<byFid, enums, forms, dict>>

\* update_entry_enum()
UpdateEnum(f, m) ==
  LET i == FidEntry(f)
  IN  /\ Call
      /\ byFid' = Reindexed(f)
      /\ IF i = 0 THEN pending' = Queued(pending, f, m) /\ UNCHANGED entries
         ELSE /\ UNCHANGED pending
              /\ IF EntryNo(i).ftype # "enum" THEN UNCHANGED entries  \* NO_ENUM
                 ELSE entries' = [entries EXCEPT ![i].map = m]
      /\ UNCHANGED <<byName, minFid, maxFid, enums, forms, dict>>

\* add_form_build() and update_entry_form() of a record, as the parser of cfiles
\* calls them.
AddForm(f) ==
  LET i == FidEntry(f)
      m == IF forms = 0 THEN 1 ELSE forms     \* the form 0 is left empty
  IN  /\ Call
      /\ byFid' = Reindexed(f)
      /\ forms' = m + 1
      /\ IF i = 0 \/ EntryNo(i).ftype # "message" THEN UNCHANGED entries  \* NO_FORM
         ELSE entries' = [entries EXCEPT ![i].map = m]
      /\ UNCHANGED <<byName, minFid, maxFid, pending, enums, dict>>

\* add_enum_map()
AddEnumMap(m) ==
  /\ Call /\ m \notin enums
  /\ enums' = enums \cup {m}
  /\ UNCHANGED <<entries, byFid, byName, minFid, maxFid, pending, forms, dict>>

-----------------------------------------------------------------------------
(* index_dict(): the table of types. *)

\* md_dict_hash_compose()
TypeOf(e) == [ftype |-> e.ftype, fsize |-> e.fsize, flags |-> e.flags, map |-> e.map]
TypeSlot(h, t) ==
  LET size == 2 ^ h.shift
      at(k) == (TypeHash(t) + k) % size
  IN  at(CHOOSE k \in 0..(size - 1) :
           h.ht[at(k)] \in {NONE, t} /\ \A j \in 0..(k - 1) : h.ht[at(j)] \notin {NONE, t})
EmptyTypes(s) == [shift |-> s, ht |-> [j \in 0..(2 ^ s - 1) |-> NONE]]
PutType(h, t) == [h EXCEPT !.ht[TypeSlot(h, t)] = t]

\* type_hash_insert()
Typed(h, t) ==
  LET used == {j \in DOMAIN h.ht : h.ht[j] # NONE}
      old  == [j \in 1..Len(SetToSortSeq(used, <)) |-> h.ht[SetToSortSeq(used, <)[j]]]
  IN  IF Cardinality(used) < 2 ^ h.shift - 1 THEN PutType(h, t)
      ELSE PutType(FoldLeft(PutType, EmptyTypes(h.shift + 1), old), t)
TypeTable(es) == FoldLeft(LAMBDA h, e : Typed(h, TypeOf(e)), EmptyTypes(MinShift), es)

-----------------------------------------------------------------------------
(* index_dict(): the tables by fid and by name. *)

\* mkshft(), mkpow2()
ShiftFor(n) == CHOOSE s \in 1..(n + 1) : 2 ^ s >= n /\ \A r \in 1..(s - 1) : 2 ^ r < n
PowAbove(n) == 2 ^ (CHOOSE s \in 1..(n + 1) : 2 ^ s > n /\ \A r \in 1..(s - 1) : 2 ^ r <= n)

WordBits(v) == {b \in 0..15 : (v \div 2 ^ b) % 2 = 1}
Number(bs) == SumSet({2 ^ b : b \in bs})
MovedBits(bs, n) == {b + n : b \in bs}

\* Where the name of an entry starts, after a word that stays empty.
NameAt(es, i) == FoldLeft(LAMBDA n, e : n + NameWords[e.name], 1, SubSeq(es, 1, i - 1))
NameBits(es) == ShiftFor(4 * NameAt(es, Len(es) + 1)) - 2

Slip_FidWord(es, types, i) == NameAt(es, i) + TypeSlot(types, TypeOf(es[1])) * 2 ^ NameBits(es)
FidWord(es, types, i) == NameAt(es, i) + TypeSlot(types, TypeOf(es[i])) * 2 ^ NameBits(es)

\* The hash table of names holds a fid, counted from one, at the first slot free.
NameTable(es, lo) ==
  FoldLeft(LAMBDA t, e : [t EXCEPT ![FirstSlot(t, e.name, LAMBDA s : t[s] = 0)] = e.fid - lo + 1],
           [s \in 1..PowAbove(2 * Len(es)) |-> 0], es)

Image(es, lo, hi) ==
  LET types == TypeTable(es)
      width == types.shift + NameBits(es)
  IN  [min |-> lo, max |-> hi, shift |-> types.shift, tab_bits |-> width,
       fname_bits |-> NameBits(es), types |-> types.ht,
       tab |-> UNION {MovedBits(WordBits(FidWord(es, types, i)), width * (es[i].fid - lo)) :
                        i \in DOMAIN es},
       names |-> [at \in {NameAt(es, i) : i \in DOMAIN es} |->
                    es[CHOOSE i \in DOMAIN es : NameAt(es, i) = at].name],
       ht |-> NameTable(es, lo), maps |-> enums]

IndexDict ==
  /\ Building /\ entries # <<>>
  /\ dict' = Image(entries, minFid, maxFid)
  /\ UNCHANGED <<entries, byFid, byName, minFid, maxFid, pending, enums, forms, built>>

-----------------------------------------------------------------------------
(* Lookups in the image. *)

\* lookup(): the field of a fid.
Lookup(d, f) ==
  LET from == (f - d.min) * d.tab_bits
      word == Number({b - from : b \in {c \in d.tab : c >= from /\ c < from + d.tab_bits}})
      name == word % 2 ^ d.fname_bits
  IN  IF f < d.min \/ f > d.max \/ name = 0 THEN NONE
      ELSE [name |-> IF name \in DOMAIN d.names THEN d.names[name] ELSE NONE,
            type |-> d.types[word \div 2 ^ d.fname_bits]]

\* get(): the fid of a name.
Get(d, n) ==
  LET named(s) == LET l == Lookup(d, d.ht[s] + d.min - 1) IN l # NONE /\ l.name = n
      s == FirstSlot(d.ht, n, LAMBDA x : d.ht[x] = 0 \/ named(x))
  IN  IF d.ht[s] = 0 THEN NONE ELSE d.ht[s] + d.min - 1

\* get_enum_map_text(): the place in an enumeration of a value.  One that has
\* all values up to the last has them in place, another is searched.
Dense(m) == Len(EnumMaps[m]) = Last(EnumMaps[m]) + 1
Search(vals, v) ==
  LET f[k \in 0..Len(vals), size \in 0..Len(vals)] ==
        IF size = 0 THEN k
        ELSE LET piv == size \div 2
             IN  IF v <= vals[k + piv + 1] THEN f[k, piv] ELSE f[k + piv + 1, size - piv - 1]
  IN  f[0, Len(vals)]
EnumText(d, m, v) ==
  IF m \notin d.maps \/ v > Last(EnumMaps[m]) THEN NONE
  ELSE IF Dense(m) THEN v + 1
  ELSE LET k == Search(EnumMaps[m], v) + 1
       IN  IF k \in DOMAIN EnumMaps[m] /\ EnumMaps[m][k] = v THEN k ELSE NONE
\* get_enum_map_val() of a place in it.
EnumVal(d, m, k) ==
  IF m \notin d.maps THEN NONE ELSE IF Dense(m) THEN k - 1 ELSE EnumMaps[m][k]
\* get_enum_text(): by the field it is of.
FieldText(d, f, v) ==
  LET l == Lookup(d, f)
  IN  IF l = NONE \/ l.type = NONE THEN NONE
      ELSE IF l.type.ftype # "enum" THEN NONE ELSE EnumText(d, l.type.map, v)

-----------------------------------------------------------------------------
BuildInit ==
  /\ entries = <<>> /\ byFid = [base |-> 0, tab |-> <<>>] /\ byName = <<>>
  /\ minFid = 0 /\ maxFid = 0
  /\ pending = <<>> /\ enums = {} /\ forms = 0 /\ dict = NONE
  /\ built = 0

BuildNext ==
  \/ \E f \in Fids, n \in Names, k \in EntryKinds : Redeclare(f, n, k) \/ Declare(f, n, k)
  \/ \E f \in Fids, m \in MapNums : UpdateEnum(f, m)
  \/ \E f \in Fids : AddForm(f)
  \/ \E m \in MapNums : AddEnumMap(m)
  \/ IndexDict

BuildSpec == BuildInit /\ [][BuildNext]_buildvars

-----------------------------------------------------------------------------
(* Properties. *)

With(f) == {i \in DOMAIN entries : EntryNo(i).fid = f}
Alone(f) == Cardinality(With(f)) = 1
Named(n) == {i \in DOMAIN entries : EntryNo(i).name = n}

\* A field that has one entry is found by its fid with the name and the type of
\* it; a name is found at the fid of the first entry that has it.  (What is found
\* of a fid with two entries is the bits of both.)
FieldsFound == ~ Building =>
  /\ \A f \in Fids :
       /\ With(f) = {} => Lookup(dict, f) = NONE
       /\ \A i \in With(f) : Alone(f) =>
            Lookup(dict, f) = [name |-> EntryNo(i).name, type |-> TypeOf(EntryNo(i))]
  /\ (\A f \in Fids : With(f) = {} \/ Alone(f)) =>
       \A n \in Names : Get(dict, n) = IF Named(n) = {} THEN NONE ELSE EntryNo(Min(Named(n))).fid

\* A value of an enumeration is found by its text and the text by its value, at
\* the fields that have the enumeration.
EnumsFound == ~ Building =>
  \A m \in enums :
    /\ \A k \in DOMAIN EnumMaps[m] : EnumVal(dict, m, k) = EnumMaps[m][k]
    /\ \A v \in 0..(Last(EnumMaps[m]) + 1) :
         LET at == {k \in DOMAIN EnumMaps[m] : EnumMaps[m][k] = v}
         IN  /\ EnumText(dict, m, v) = IF at = {} THEN NONE ELSE Max(at)
             /\ \A i \in DOMAIN entries :
                  /\ EntryNo(i).ftype = "enum" /\ EntryNo(i).map = m /\ Alone(EntryNo(i).fid)
                  => FieldText(dict, EntryNo(i).fid, v) = EnumText(dict, m, v)

\* An enumeration or a form that is named for a fid changes no other field, and
\* nothing that waits is lost but to its own field, as long as the index starts
\* at the least fid.
Current == byFid.base = minFid \/ ~ Indexed
OwnStep ==
  /\ \A i \in DOMAIN entries :
       entries'[i].map # EntryNo(i).map =>
         \E f \in Fids : EntryNo(i).fid = f
            /\ ((\E m \in MapNums : UpdateEnum(f, m)) \/ AddForm(f))
  /\ \A i \in DOMAIN pending :
       pending[i] \notin ToSet(pending') =>
         /\ Len(entries') > Len(entries)
         /\ Last(entries').fid = pending[i].fid
         /\ Last(entries').map = pending[i].map
OwnField == [][Current => OwnStep]_buildvars

\* "index by fids" (md_dict.h): what get_fid_entry() finds has the fid.
IndexByFid == \A f \in Fids : FidEntry(f) # 0 => EntryNo(FidEntry(f)).fid = f
===============================================================================
