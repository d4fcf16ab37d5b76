----------------------------- MODULE HashTab_proofs -----------------------------
(***************************************************************************)
(* For all keys, hashes and sizes of the table: every item is found where  *)
(* it is, every search comes to an empty slot, the items are counted, and  *)
(* callers see a map (TableSound and ImplementsMap of HashTab).            *)
(*                                                                         *)
(* The argument is about what a search sees: an item is reached if no slot *)
(* is free between its home and itself.  A removal leaves a hole that cuts *)
(* off some of the items behind it.  While fill_empty_hole() runs there is *)
(* one such hole, and whatever it cuts off lies beyond the position of the *)
(* loop, with no free slot on the way: when the loop meets a free slot,    *)
(* nothing is cut off any more.                                            *)
(***************************************************************************)
EXTENDS HashTab, FiniteSetTheorems, WellFoundedInduction, TLAPS

-----------------------------------------------------------------------------
(* Distances around the table. *)

\* A distance is less than a turn.
LEMMA DistType ==
  ASSUME NEW n \in Nat \ {0}, NEW p \in Int, NEW i \in Int
  PROVE  (p - i) % n \in 0..(n - 1)
  BY SMT

\* Different slots are at different distances.
LEMMA DistDistinct ==
  ASSUME NEW n \in Nat \ {0}, NEW p \in 0..(n - 1), NEW q \in 0..(n - 1),
         NEW i \in 0..(n - 1), (p - i) % n = (q - i) % n
  PROVE  p = q
  BY SMT

\* On the way from i to q, the distance from p is what is left of it.
LEMMA DistVia ==
  ASSUME NEW n \in Nat \ {0}, NEW p \in 0..(n - 1), NEW q \in 0..(n - 1),
         NEW i \in 0..(n - 1), (p - i) % n <= (q - i) % n
  PROVE  (q - p) % n = ((q - i) % n) - ((p - i) % n)
  BY SMT

\* The next slot is one further, unless that is a whole turn.
LEMMA DistNext ==
  ASSUME NEW n \in Nat \ {0}, NEW p \in 0..(n - 1), NEW h \in 0..(n - 1)
  PROVE  /\ (p + 1) % n \in 0..(n - 1)
         /\ (p + 1) % n # h => (((p + 1) % n) - h) % n = ((p - h) % n) + 1
         /\ (p + 1) % n = h => (p - h) % n = n - 1
  BY SMT

\* Every set of distances has a least one.
LEMMA LeastDistance ==
  ASSUME NEW S \in SUBSET Nat, S # {}
  PROVE  \E x \in S : \A y \in S : x <= y
<1> DEFINE R == OpToRel(<, Nat)
<1>1. \A x, y \in Nat : y < x => <<y, x>> \in R
  BY DEF OpToRel
<1>2. IsWellFoundedOn(R, Nat)
  BY NatLessThanWellFounded
<1> HIDE DEF R
<1>3. PICK x \in S : \A y \in S : ~ (<<y, x>> \in R)
  BY <1>2, WFMin
<1>4. \A y \in S : x <= y
  <2> TAKE y \in S
  <2>1. x \in Nat /\ y \in Nat /\ ~ (y < x)
    BY <1>1, <1>3
  <2> QED BY <2>1
<1> QED BY <1>3, <1>4

-----------------------------------------------------------------------------
(* Tables. *)

Table(t) ==
  /\ Size(t) \in Nat \ {0}
  /\ t \in [0..(Size(t) - 1) -> Item \cup {NIL}]

\* How far slot p is from slot i.
Dist(t, i, p) == (p - i) % Size(t)

HomeOf(t, p) == Home(t, t[p].key)

\* No slot is free between the home of an item and the item.
Reached(t, p) == \A f \in Free(t) : Dist(t, HomeOf(t, p), p) <= Dist(t, HomeOf(t, p), f)

Distinct(t) == \A p, q \in Used(t) : t[p].key = t[q].key => p = q

Sound(t) == Table(t) /\ Distinct(t) /\ \A p \in Used(t) : Reached(t, p)

\* A search from i comes to h before it comes to p.
Ahead(t, i, h, p) == Dist(t, i, h) < Dist(t, i, p)

\* The hole h is all that cuts items off, and those are beyond i.
Hole(t, h, i) ==
  /\ h \in Free(t) /\ i \in DOMAIN t
  /\ \A q \in Used(t), f \in Free(t) :
       Ahead(t, HomeOf(t, q), f, q) => f = h /\ Ahead(t, h, i, q)

\* A table of n slots is one, and its size is n.
LEMMA TableIntro ==
  ASSUME NEW n \in Nat \ {0}, NEW t \in [0..(n - 1) -> Item \cup {NIL}]
  PROVE  Table(t) /\ Size(t) = n
<1>1. Cardinality(0..(n - 1)) = n
  BY FS_Interval
<1>2. DOMAIN t = 0..(n - 1)
  OBVIOUS
<1>3. Size(t) = n
  BY <1>1, <1>2 DEF Size
<1> QED BY <1>3 DEF Table

\* What the slots of a table hold.
LEMMA TableSlots ==
  ASSUME NEW t, Table(t)
  PROVE  /\ Size(t) \in Nat \ {0}
         /\ DOMAIN t = 0..(Size(t) - 1)
         /\ \A p \in DOMAIN t : p \in Int
         /\ \A p \in Used(t) : p \in DOMAIN t /\ t[p] \in Item /\ t[p] # NIL
         /\ \A p \in Free(t) : p \in DOMAIN t /\ t[p] = NIL
         /\ \A p \in DOMAIN t : p \in Used(t) <=> p \notin Free(t)
  BY DEF Table, Used, Free

\* Homes are slots.
LEMMA HomeType ==
  ASSUME NEW t, Table(t), NEW k \in Keys
  PROVE  Home(t, k) \in DOMAIN t
<1>1. Size(t) \in Nat \ {0} /\ DOMAIN t = 0..(Size(t) - 1)
  BY TableSlots
<1>2. Hash[k] \in Nat
  BY HashIsNat
<1>3. Hash[k] % Size(t) \in 0..(Size(t) - 1)
  BY <1>1, <1>2, SMT
<1> QED BY <1>1, <1>3 DEF Home

\* So is the home of an item.
LEMMA HomeOfType ==
  ASSUME NEW t, Table(t), NEW p \in Used(t)
  PROVE  t[p].key \in Keys /\ HomeOf(t, p) \in DOMAIN t
<1>1. t[p] \in Item
  BY TableSlots
<1>2. t[p].key \in Keys
  BY <1>1 DEF Item
<1> QED BY <1>2, HomeType DEF HomeOf

\* The facts on distances, of the slots of a table.
LEMMA DistFacts ==
  ASSUME NEW t, Table(t), NEW i \in DOMAIN t, NEW p \in DOMAIN t, NEW q \in DOMAIN t
  PROVE  /\ Dist(t, i, p) \in 0..(Size(t) - 1)
         /\ Dist(t, i, p) = Dist(t, i, q) => p = q
         /\ Dist(t, i, p) <= Dist(t, i, q) => Dist(t, p, q) = Dist(t, i, q) - Dist(t, i, p)
         /\ Dist(t, p, p) = 0
<1>1. /\ Size(t) \in Nat \ {0} /\ i \in 0..(Size(t) - 1) /\ p \in 0..(Size(t) - 1)
      /\ q \in 0..(Size(t) - 1) /\ i \in Int /\ p \in Int /\ q \in Int
  BY TableSlots
<1>2. Dist(t, i, p) \in 0..(Size(t) - 1)
  BY <1>1, DistType DEF Dist
<1>3. Dist(t, i, p) = Dist(t, i, q) => p = q
  BY <1>1, DistDistinct DEF Dist
<1>4. Dist(t, i, p) <= Dist(t, i, q) => Dist(t, p, q) = Dist(t, i, q) - Dist(t, i, p)
  BY <1>1, DistVia DEF Dist
<1>5. Dist(t, p, p) = 0
  BY <1>1, SMT DEF Dist
<1> QED BY <1>2, <1>3, <1>4, <1>5

\* Met() is the slot at the least distance.
LEMMA MetIsNearest ==
  ASSUME NEW t, Table(t), NEW i \in DOMAIN t, NEW ps \in SUBSET DOMAIN t, ps # {}
  PROVE  /\ Met(t, i, ps) \in ps
         /\ \A q \in ps : Dist(t, i, Met(t, i, ps)) <= Dist(t, i, q)
<1> DEFINE S == {Dist(t, i, q) : q \in ps}
<1>1. S \in SUBSET Nat /\ S # {}
  <2>1. Size(t) \in Nat
    BY TableSlots
  <2>2. \A q \in ps : Dist(t, i, q) \in 0..(Size(t) - 1)
    BY DistFacts
  <2> QED BY <2>1, <2>2
<1> HIDE DEF S
<1>2. PICK x \in S : \A y \in S : x <= y
  BY <1>1, LeastDistance
<1>3. PICK p \in ps : x = Dist(t, i, p)
  BY DEF S
<1>4. \A q \in ps : Dist(t, i, p) <= Dist(t, i, q)
  BY <1>2, <1>3 DEF S
<1>5. \E r \in ps : \A q \in ps : (r - i) % Size(t) <= (q - i) % Size(t)
  BY <1>4 DEF Dist
<1> QED BY <1>5 DEF Met, Dist

\* It is the only one.
LEMMA MetIs ==
  ASSUME NEW t, Table(t), NEW i \in DOMAIN t, NEW ps \in SUBSET DOMAIN t,
         NEW p \in ps, \A q \in ps : Dist(t, i, p) <= Dist(t, i, q)
  PROVE  Met(t, i, ps) = p
<1> DEFINE m == Met(t, i, ps)
<1>1. m \in ps /\ Dist(t, i, m) <= Dist(t, i, p)
  BY MetIsNearest
<1>2. Dist(t, i, p) <= Dist(t, i, m)
  BY <1>1
<1> HIDE DEF m
<1>3. Dist(t, i, m) \in Int /\ Dist(t, i, p) \in Int
  <2>1. Size(t) \in Nat
    BY TableSlots
  <2> QED BY <1>1, <2>1, DistFacts
<1>4. Dist(t, i, m) = Dist(t, i, p)
  BY <1>1, <1>2, <1>3
<1> QED BY <1>1, <1>4, DistFacts DEF m

-----------------------------------------------------------------------------
(* Searches. *)

\* In a sound table an item is found where it is.
LEMMA SoundFinds ==
  ASSUME NEW t, Sound(t), NEW p \in Used(t)
  PROVE  Locate(t, t[p].key) = p
<1> DEFINE k == t[p].key
           ps == Free(t) \cup {q \in DOMAIN t : t[q] # NIL /\ t[q].key = k}
<1>1. Table(t) /\ p \in DOMAIN t /\ k \in Keys /\ Home(t, k) \in DOMAIN t
  BY TableSlots, HomeOfType, HomeType DEF Sound
<1>2. \A q \in DOMAIN t : t[q] # NIL /\ t[q].key = k => q = p
  BY <1>1 DEF Sound, Distinct, Used, Free
<1>3. p \in ps /\ ps \in SUBSET DOMAIN t
  BY <1>1, TableSlots DEF Free
<1>4. Dist(t, Home(t, k), p) <= Dist(t, Home(t, k), p)
  <2>1. Dist(t, Home(t, k), p) \in 0..(Size(t) - 1) /\ Size(t) \in Nat
    BY <1>1, DistFacts, TableSlots
  <2> QED BY <2>1
<1>5. \A f \in Free(t) : Dist(t, Home(t, k), p) <= Dist(t, Home(t, k), f)
  BY DEF Sound, Reached, HomeOf
<1>6. \A q \in ps : Dist(t, Home(t, k), p) <= Dist(t, Home(t, k), q)
  BY <1>2, <1>4, <1>5
<1>7. Met(t, Home(t, k), ps) = p
  <2> HIDE DEF ps, k
  <2> QED BY <1>1, <1>3, <1>6, MetIs
<1> QED BY <1>7 DEF Locate

\* A search ends at the item of the key, or, if there is none, at the free slot
\* that is the nearest from the home of the key.
LEMMA LocateEnds ==
  ASSUME NEW t, Sound(t), Free(t) # {}, NEW k \in Keys
  PROVE  /\ Locate(t, k) \in DOMAIN t
         /\ t[Locate(t, k)] # NIL =>
              Locate(t, k) \in Used(t) /\ t[Locate(t, k)].key = k
         /\ t[Locate(t, k)] = NIL =>
              /\ Locate(t, k) \in Free(t)
              /\ \A q \in Used(t) : t[q].key # k
              /\ \A f \in Free(t) :
                   Dist(t, Home(t, k), Locate(t, k)) <= Dist(t, Home(t, k), f)
<1> DEFINE ps == Free(t) \cup {q \in DOMAIN t : t[q] # NIL /\ t[q].key = k}
           m == Met(t, Home(t, k), ps)
<1>1. Table(t) /\ Home(t, k) \in DOMAIN t
  BY HomeType DEF Sound
<1>2. ps \in SUBSET DOMAIN t /\ ps # {}
  BY DEF Free
<1>3. m \in ps /\ \A q \in ps : Dist(t, Home(t, k), m) <= Dist(t, Home(t, k), q)
  <2> HIDE DEF ps
  <2> QED BY <1>1, <1>2, MetIsNearest
<1>4. m = Locate(t, k)
  BY DEF Locate
<1>5. m \in DOMAIN t
  BY <1>2, <1>3
<1>6. ASSUME NEW q \in Used(t), t[q].key = k PROVE m = q
  BY <1>4, <1>6, SoundFinds
<1> HIDE DEF m
<1>7. t[m] # NIL => m \in Used(t) /\ t[m].key = k
  BY <1>3, <1>5 DEF Free, Used
<1>8. t[m] = NIL => m \in Free(t) /\ \A q \in Used(t) : t[q].key # k
  BY <1>5, <1>6 DEF Free, Used
<1>9. \A f \in Free(t) : Dist(t, Home(t, k), m) <= Dist(t, Home(t, k), f)
  BY <1>3
<1> QED BY <1>4, <1>5, <1>7, <1>8, <1>9

-----------------------------------------------------------------------------
(* Writing to a slot. *)

\* What changes when x is written to slot p.
IsWritten(t2, t, p, x) ==
  /\ Table(t2)
  /\ Size(t2) = Size(t) /\ DOMAIN t2 = DOMAIN t
  /\ t2[p] = x /\ \A q \in DOMAIN t \ {p} : t2[q] = t[q]
  /\ x = NIL => Used(t2) = Used(t) \ {p} /\ Free(t2) = Free(t) \cup {p}
  /\ x # NIL => Used(t2) = Used(t) \cup {p} /\ Free(t2) = Free(t) \ {p}
  /\ \A i, q : Dist(t2, i, q) = Dist(t, i, q)
  /\ \A q \in DOMAIN t \ {p} : HomeOf(t2, q) = HomeOf(t, q)
  /\ \A k : Home(t2, k) = Home(t, k)

\* All of that holds of an assignment.
LEMMA Written ==
  ASSUME NEW t, Table(t), NEW p \in DOMAIN t, NEW x \in Item \cup {NIL},
         NEW t2, t2 = [t EXCEPT ![p] = x]
  PROVE  IsWritten(t2, t, p, x)
<1> DEFINE n == Size(t)
<1>1. n \in Nat \ {0} /\ t \in [0..(n - 1) -> Item \cup {NIL}] /\ DOMAIN t = 0..(n - 1)
  BY TableSlots DEF Table
<1>2. t2 \in [0..(n - 1) -> Item \cup {NIL}] /\ DOMAIN t2 = DOMAIN t
  BY <1>1
<1>3. t2[p] = x /\ \A q \in DOMAIN t \ {p} : t2[q] = t[q]
  OBVIOUS
<1>4. Table(t2) /\ Size(t2) = n
  <2> HIDE DEF n
  <2> QED BY <1>1, <1>2, TableIntro
<1> HIDE DEF n
<1>5. x = NIL => Used(t2) = Used(t) \ {p} /\ Free(t2) = Free(t) \cup {p}
  BY <1>2, <1>3 DEF Used, Free
<1>6. x # NIL => Used(t2) = Used(t) \cup {p} /\ Free(t2) = Free(t) \ {p}
  BY <1>2, <1>3 DEF Used, Free
<1>7. \A i, q : Dist(t2, i, q) = Dist(t, i, q)
  BY <1>4 DEF Dist, n
<1>8. \A k : Home(t2, k) = Home(t, k)
  BY <1>4 DEF Home, n
<1>9. \A q \in DOMAIN t \ {p} : HomeOf(t2, q) = HomeOf(t, q)
  BY <1>3, <1>8 DEF HomeOf
<1> QED BY <1>2, <1>3, <1>4, <1>5, <1>6, <1>7, <1>8, <1>9 DEF n, IsWritten

\* An item with another key goes to the first free slot from its home.
LEMMA InsertSound ==
  ASSUME NEW t, Sound(t), NEW x \in Item, \A q \in Used(t) : t[q].key # x.key,
         NEW p \in Free(t),
         \A f \in Free(t) : Dist(t, Home(t, x.key), p) <= Dist(t, Home(t, x.key), f)
  PROVE  Sound([t EXCEPT ![p] = x])
<1> DEFINE t2 == [t EXCEPT ![p] = x]
<1>0. t2 = [t EXCEPT ![p] = x]
  OBVIOUS
<1> HIDE DEF t2
<1>1. Table(t) /\ p \in DOMAIN t /\ x # NIL /\ x \in Item \cup {NIL}
  BY NilIsNoItem, TableSlots DEF Sound
<1>2. IsWritten(t2, t, p, x)
  BY <1>0, <1>1, Written
<1>3. /\ Table(t2) /\ DOMAIN t2 = DOMAIN t
      /\ t2[p] = x /\ \A q \in DOMAIN t \ {p} : t2[q] = t[q]
      /\ Used(t2) = Used(t) \cup {p} /\ Free(t2) = Free(t) \ {p}
      /\ \A i, q : Dist(t2, i, q) = Dist(t, i, q)
      /\ \A q \in DOMAIN t \ {p} : HomeOf(t2, q) = HomeOf(t, q)
      /\ \A k : Home(t2, k) = Home(t, k)
  BY <1>1, <1>2 DEF IsWritten
<1>4. p \notin Used(t) /\ \A q \in Used(t) : q \in DOMAIN t
  BY <1>1, TableSlots
<1>5. Distinct(t2)
  BY <1>3, <1>4 DEF Distinct, Sound
<1>6. ASSUME NEW q \in Used(t2) PROVE Reached(t2, q)
  <2>1. CASE q = p
    BY <1>3, <2>1 DEF Reached, HomeOf
  <2>2. CASE q # p
    <3>1. q \in Used(t) /\ q \in DOMAIN t \ {p}
      BY <1>3, <1>4, <1>6, <2>2
    <3>2. Reached(t, q)
      BY <3>1 DEF Sound
    <3> QED BY <1>3, <3>1, <3>2 DEF Reached
  <2> QED BY <2>1, <2>2
<1> QED BY <1>3, <1>5, <1>6 DEF Sound, t2

\* An item takes the place of another one with its key.
LEMMA ReplaceSound ==
  ASSUME NEW t, Sound(t), NEW p \in Used(t), NEW x \in Item, t[p].key = x.key
  PROVE  Sound([t EXCEPT ![p] = x]) /\ Used([t EXCEPT ![p] = x]) = Used(t)
<1> DEFINE t2 == [t EXCEPT ![p] = x]
<1>0. t2 = [t EXCEPT ![p] = x]
  OBVIOUS
<1> HIDE DEF t2
<1>1. Table(t) /\ p \in DOMAIN t /\ x # NIL /\ x \in Item \cup {NIL}
  BY NilIsNoItem, TableSlots DEF Sound
<1>2. IsWritten(t2, t, p, x)
  BY <1>0, <1>1, Written
<1>3. /\ Table(t2) /\ DOMAIN t2 = DOMAIN t
      /\ t2[p] = x /\ \A q \in DOMAIN t \ {p} : t2[q] = t[q]
      /\ Used(t2) = Used(t) \cup {p} /\ Free(t2) = Free(t) \ {p}
      /\ \A i, q : Dist(t2, i, q) = Dist(t, i, q)
      /\ \A q \in DOMAIN t \ {p} : HomeOf(t2, q) = HomeOf(t, q)
      /\ \A k : Home(t2, k) = Home(t, k)
  BY <1>1, <1>2 DEF IsWritten
<1>4. \A q \in Used(t) : q \in DOMAIN t
  BY <1>1, TableSlots
<1>5. Used(t2) = Used(t)
  BY <1>3
<1>6. \A q \in Used(t) : t2[q].key = t[q].key /\ HomeOf(t2, q) = HomeOf(t, q)
  BY <1>3, <1>4 DEF HomeOf
<1>7. Distinct(t2)
  BY <1>5, <1>6 DEF Distinct, Sound
<1>8. \A q \in Used(t2) : Reached(t2, q)
  BY <1>3, <1>5, <1>6 DEF Reached, Sound
<1> QED BY <1>3, <1>5, <1>7, <1>8 DEF Sound, t2

-----------------------------------------------------------------------------
(* Removals. *)

Items(t) == {t[p] : p \in Used(t)}

\* The slots of a table are finitely many.
LEMMA UsedFinite ==
  ASSUME NEW t, Table(t)
  PROVE  /\ IsFiniteSet(Used(t)) /\ Cardinality(Used(t)) \in Nat
         /\ Cardinality(Used(t)) < Size(t) => Free(t) # {}
         /\ Free(t) # {} => Cardinality(Used(t)) < Size(t)
<1>1. Size(t) \in Nat \ {0} /\ DOMAIN t = 0..(Size(t) - 1)
  BY TableSlots
<1>2. IsFiniteSet(DOMAIN t) /\ Cardinality(DOMAIN t) = Size(t)
  BY <1>1, FS_Interval DEF Size
<1>3. Used(t) \in SUBSET DOMAIN t /\ (Used(t) = DOMAIN t <=> Free(t) = {})
  BY DEF Used, Free
<1>4. /\ IsFiniteSet(Used(t)) /\ Cardinality(Used(t)) <= Size(t)
      /\ Size(t) = Cardinality(Used(t)) => Used(t) = DOMAIN t
  BY <1>2, <1>3, FS_Subset
<1>5. Cardinality(Used(t)) \in Nat
  BY <1>4, FS_CardinalityType
<1>6. Used(t) = DOMAIN t => Cardinality(Used(t)) = Size(t)
  BY <1>2
<1> QED BY <1>1, <1>3, <1>4, <1>5, <1>6

\* An item is taken out of a sound table: only its slot cuts others off.
LEMMA RemoveHole ==
  ASSUME NEW t, Sound(t), NEW p \in Used(t), NEW t2, t2 = [t EXCEPT ![p] = NIL]
  PROVE  /\ Table(t2) /\ Distinct(t2) /\ Hole(t2, p, p)
         /\ Size(t2) = Size(t)
         /\ Used(t2) = Used(t) \ {p}
         /\ Cardinality(Used(t2)) = Cardinality(Used(t)) - 1
         /\ Items(t2) = Items(t) \ {t[p]}
<1>1. Table(t) /\ p \in DOMAIN t /\ NIL \in Item \cup {NIL}
  BY TableSlots DEF Sound
<1>2. IsWritten(t2, t, p, NIL)
  BY <1>1, Written
<1>3. /\ Table(t2) /\ DOMAIN t2 = DOMAIN t /\ Size(t2) = Size(t)
      /\ \A q \in DOMAIN t \ {p} : t2[q] = t[q]
      /\ Used(t2) = Used(t) \ {p} /\ Free(t2) = Free(t) \cup {p}
      /\ \A i, q : Dist(t2, i, q) = Dist(t, i, q)
      /\ \A q \in DOMAIN t \ {p} : HomeOf(t2, q) = HomeOf(t, q)
  BY <1>2 DEF IsWritten
<1>4. \A q \in Used(t2) : q \in Used(t) /\ q \in DOMAIN t \ {p} /\ t2[q] = t[q]
  BY <1>1, <1>3, TableSlots
<1>5. Distinct(t2)
  BY <1>4 DEF Distinct, Sound
<1>6. ASSUME NEW q \in Used(t2), NEW f \in Free(t2), Ahead(t2, HomeOf(t2, q), f, q)
      PROVE  f = p /\ Ahead(t2, p, p, q)
  <2>1. f = p
    <3>1. SUFFICES ASSUME f \in Free(t) PROVE FALSE
      BY <1>3
    <3>2. Dist(t, HomeOf(t, q), f) < Dist(t, HomeOf(t, q), q)
      BY <1>3, <1>4, <1>6 DEF Ahead
    <3>3. Dist(t, HomeOf(t, q), q) <= Dist(t, HomeOf(t, q), f)
      BY <1>4, <3>1 DEF Sound, Reached
    <3>4. /\ Dist(t, HomeOf(t, q), f) \in 0..(Size(t) - 1)
          /\ Dist(t, HomeOf(t, q), q) \in 0..(Size(t) - 1)
      BY <1>1, <1>4, <3>1, HomeOfType, DistFacts, TableSlots
    <3>5. Size(t) \in Nat
      BY <1>1, TableSlots
    <3> QED BY <3>2, <3>3, <3>4, <3>5
  <2>2. Dist(t, p, p) = 0 /\ Dist(t, p, q) \in 0..(Size(t) - 1) /\ Dist(t, p, q) # 0
    <3>1. q \in DOMAIN t /\ q # p
      BY <1>4
    <3>2. Dist(t, p, p) = 0 /\ Dist(t, p, q) \in 0..(Size(t) - 1)
      BY <1>1, <3>1, DistFacts
    <3>3. Dist(t, p, q) = Dist(t, p, p) => p = q
      BY <1>1, <3>1, DistFacts
    <3> QED BY <3>1, <3>2, <3>3
  <2>3. Dist(t, p, p) < Dist(t, p, q)
    <3>1. Size(t) \in Nat
      BY <1>1, TableSlots
    <3> QED BY <2>2, <3>1
  <2> QED BY <1>3, <2>1, <2>3 DEF Ahead
<1>7. Hole(t2, p, p)
  BY <1>1, <1>3, <1>6 DEF Hole
<1>8. Cardinality(Used(t2)) = Cardinality(Used(t)) - 1
  BY <1>1, <1>3, UsedFinite, FS_RemoveElement
<1>9. Items(t2) = Items(t) \ {t[p]}
  <2>1. \A q \in Used(t2) : t2[q] # t[p]
    BY <1>4 DEF Sound, Distinct
  <2>2. Items(t2) = {t[q] : q \in Used(t) \ {p}}
    <3>1. Used(t2) = Used(t) \ {p} /\ \A q \in Used(t2) : t2[q] = t[q]
      BY <1>3, <1>4
    <3> QED BY <3>1 DEF Items
  <2>3. \A q \in Used(t) \ {p} : t[q] # t[p]
    BY <1>3, <1>4, <2>1
  <2> QED BY <2>2, <2>3 DEF Items
<1> QED BY <1>3, <1>5, <1>7, <1>8, <1>9

\* What the hole cuts off lies behind it, with no free slot in between.
LEMMA CutOff ==
  ASSUME NEW t, Table(t), NEW h, NEW i, Hole(t, h, i),
         NEW q \in Used(t), NEW f \in Free(t), Ahead(t, HomeOf(t, q), f, q),
         NEW g \in DOMAIN t, Ahead(t, h, g, q), g # h
  PROVE  g \notin Free(t)
<1> DEFINE e == HomeOf(t, q)
<1>1. /\ f = h /\ h \in DOMAIN t /\ q \in DOMAIN t /\ e \in DOMAIN t
      /\ Size(t) \in Nat \ {0}
  BY TableSlots, HomeOfType DEF Hole
<1>2. /\ Dist(t, e, h) \in 0..(Size(t) - 1) /\ Dist(t, e, q) \in 0..(Size(t) - 1)
      /\ Dist(t, e, g) \in 0..(Size(t) - 1)
      /\ Dist(t, h, g) \in 0..(Size(t) - 1) /\ Dist(t, h, q) \in 0..(Size(t) - 1)
  BY <1>1, DistFacts
<1>3. Dist(t, e, h) < Dist(t, e, q)
  BY <1>1 DEF Ahead
<1>4. Dist(t, h, q) = Dist(t, e, q) - Dist(t, e, h)
  BY <1>1, <1>2, <1>3, DistFacts
<1>5. CASE Dist(t, e, h) <= Dist(t, e, g)
  <2>1. Dist(t, h, g) = Dist(t, e, g) - Dist(t, e, h)
    BY <1>1, <1>5, DistFacts
  <2>2. Dist(t, h, g) < Dist(t, h, q)
    BY DEF Ahead
  <2>3. Dist(t, e, g) < Dist(t, e, q)
    BY <1>1, <1>2, <1>4, <2>1, <2>2
  <2> QED BY <2>3 DEF Hole, Ahead
<1>6. CASE Dist(t, e, g) < Dist(t, e, h)
  <2>1. Dist(t, e, g) < Dist(t, e, q)
    BY <1>1, <1>2, <1>3, <1>6
  <2> QED BY <2>1 DEF Hole, Ahead
<1> QED BY <1>1, <1>2, <1>5, <1>6

Following(t, i) == (i + 1) % Size(t)

\* The loop has come to a free slot: nothing is cut off.
LEMMA FillEnds ==
  ASSUME NEW t, Table(t), NEW h, NEW i, Hole(t, h, i), t[Following(t, i)] = NIL,
         NEW p \in Used(t)
  PROVE  Reached(t, p)
<1> DEFINE n == Following(t, i)
<1> SUFFICES ASSUME NEW f \in Free(t), Ahead(t, HomeOf(t, p), f, p)
             PROVE  FALSE
  <2>1. Size(t) \in Nat /\ p \in DOMAIN t /\ HomeOf(t, p) \in DOMAIN t
    BY TableSlots, HomeOfType
  <2>2. \A f \in Free(t) : /\ Dist(t, HomeOf(t, p), f) \in 0..(Size(t) - 1)
                           /\ Dist(t, HomeOf(t, p), p) \in 0..(Size(t) - 1)
    BY <2>1, TableSlots, DistFacts
  <2> QED BY <2>1, <2>2 DEF Reached, Ahead
<1>1. /\ Size(t) \in Nat \ {0} /\ DOMAIN t = 0..(Size(t) - 1)
      /\ h \in DOMAIN t /\ i \in DOMAIN t /\ p \in DOMAIN t
  BY TableSlots DEF Hole
<1>2. f = h /\ Dist(t, h, i) < Dist(t, h, p)
  BY DEF Hole, Ahead
<1>3. /\ n \in DOMAIN t
      /\ n # h => Dist(t, h, n) = Dist(t, h, i) + 1
      /\ n = h => Dist(t, h, i) = Size(t) - 1
  BY <1>1, DistNext DEF Following, Dist
<1>4. Dist(t, h, i) \in 0..(Size(t) - 1) /\ Dist(t, h, p) \in 0..(Size(t) - 1)
  BY <1>1, DistFacts
<1>5. n # h
  BY <1>1, <1>2, <1>3, <1>4
<1>6. n \in Free(t) /\ n # p
  BY <1>3 DEF Free, Used
<1>7. Dist(t, h, n) # Dist(t, h, p)
  BY ZenonT(30), <1>1, <1>3, <1>6, DistFacts
<1>8. Dist(t, h, n) < Dist(t, h, p)
  BY <1>1, <1>2, <1>3, <1>4, <1>5, <1>7
<1> HIDE DEF n
<1> QED BY <1>3, <1>5, <1>6, <1>8, CutOff DEF Ahead

\* Where an item goes that is taken out and put back: to the hole if it is cut
\* off, else where it was.
LEMMA FillSlot ==
  ASSUME NEW t, Table(t), NEW h, NEW i, Hole(t, h, i), NEW n \in Used(t),
         NEW out, out = [t EXCEPT ![n] = NIL]
  PROVE  FirstFree(out, HomeOf(t, n)) = IF Ahead(t, HomeOf(t, n), h, n) THEN h ELSE n
<1> DEFINE e == HomeOf(t, n)
           s == IF Ahead(t, e, h, n) THEN h ELSE n
<1>1. /\ Size(t) \in Nat \ {0} /\ n \in DOMAIN t /\ e \in DOMAIN t /\ h \in Free(t)
      /\ NIL \in Item \cup {NIL} /\ Free(t) \in SUBSET DOMAIN t
  BY TableSlots, HomeOfType DEF Hole, Free
<1>2. IsWritten(out, t, n, NIL)
  BY <1>1, Written
<1>3. /\ Table(out) /\ DOMAIN out = DOMAIN t /\ Free(out) = Free(t) \cup {n}
      /\ \A a, b : Dist(out, a, b) = Dist(t, a, b)
  BY <1>2 DEF IsWritten
<1>4. s \in Free(out)
  BY <1>1, <1>3
<1>5. ASSUME NEW f \in Free(out) PROVE Dist(t, e, s) <= Dist(t, e, f)
  <2>1. f \in DOMAIN t /\ h \in DOMAIN t
    BY <1>1, <1>3
  <2>2. /\ Dist(t, e, f) \in 0..(Size(t) - 1) /\ Dist(t, e, h) \in 0..(Size(t) - 1)
        /\ Dist(t, e, n) \in 0..(Size(t) - 1)
    BY <1>1, <2>1, DistFacts
  <2>3. f \in Free(t) /\ Ahead(t, e, f, n) => f = h
    BY DEF Hole
  <2>4. f \in Free(t) \/ f = n
    BY <1>3
  <2>5. CASE Ahead(t, e, h, n)
    <3>1. s = h /\ Dist(t, e, h) < Dist(t, e, n)
      BY <2>5 DEF Ahead
    <3>2. f = h \/ f = n \/ ~ (Dist(t, e, f) < Dist(t, e, n))
      BY <2>3, <2>4 DEF Ahead
    <3> HIDE DEF s, e
    <3> QED BY <1>1, <2>2, <3>1, <3>2
  <2>6. CASE ~ Ahead(t, e, h, n)
    <3>1. s = n /\ ~ (Dist(t, e, h) < Dist(t, e, n))
      BY <2>6 DEF Ahead
    <3>2. f = h \/ f = n \/ ~ (Dist(t, e, f) < Dist(t, e, n))
      BY <2>3, <2>4 DEF Ahead
    <3> HIDE DEF s, e
    <3> QED BY <1>1, <2>2, <3>1, <3>2
  <2> QED BY <2>5, <2>6
<1>6. e \in DOMAIN out /\ Free(out) \in SUBSET DOMAIN out
  BY <1>1, <1>3
<1>7. \A f \in Free(out) : Dist(out, e, s) <= Dist(out, e, f)
  BY <1>3, <1>5
<1> HIDE DEF s, e
<1>8. Met(out, e, Free(out)) = s
  BY <1>3, <1>4, <1>6, <1>7, MetIs
<1> QED BY <1>8 DEF FirstFree, s, e

\* If the item at the next position is not cut off, the hole stays behind it.
LEMMA HoleStays ==
  ASSUME NEW t, Table(t), NEW h, NEW i, Hole(t, h, i), t[Following(t, i)] # NIL,
         ~ Ahead(t, HomeOf(t, Following(t, i)), h, Following(t, i))
  PROVE  Hole(t, h, Following(t, i))
<1> DEFINE n == Following(t, i)
<1>1. /\ Size(t) \in Nat \ {0} /\ DOMAIN t = 0..(Size(t) - 1)
      /\ h \in DOMAIN t /\ i \in DOMAIN t /\ h \in Free(t)
  BY TableSlots DEF Hole
<1>2. n \in DOMAIN t /\ (n # h => Dist(t, h, n) = Dist(t, h, i) + 1)
  BY <1>1, DistNext DEF Following, Dist
<1>3. n # h
  BY <1>1 DEF Free
<1>4. ASSUME NEW q \in Used(t), NEW f \in Free(t), Ahead(t, HomeOf(t, q), f, q)
      PROVE  f = h /\ Ahead(t, h, n, q)
  <2>1. f = h /\ Dist(t, h, i) < Dist(t, h, q)
    BY <1>4 DEF Hole, Ahead
  <2>2. q # n /\ q \in DOMAIN t
    BY <1>4, <2>1, TableSlots
  <2>3. /\ Dist(t, h, i) \in 0..(Size(t) - 1) /\ Dist(t, h, q) \in 0..(Size(t) - 1)
        /\ Dist(t, h, n) # Dist(t, h, q)
    BY ZenonT(30), <1>1, <1>2, <2>2, DistFacts
  <2>4. Dist(t, h, n) < Dist(t, h, q)
    BY <1>1, <1>2, <1>3, <2>1, <2>3
  <2> QED BY <2>1, <2>4 DEF Ahead
<1> HIDE DEF n
<1>5. Hole(t, h, n)
  BY <1>1, <1>2, <1>4 DEF Hole
<1> QED BY <1>5 DEF n

\* If it is, it goes to the hole and leaves one where it was.
LEMMA HoleMoves ==
  ASSUME NEW t, Table(t), Distinct(t), NEW h, NEW i, Hole(t, h, i), NEW n \in Used(t),
         Ahead(t, HomeOf(t, n), h, n),
         NEW out, IsWritten(out, t, n, NIL),
         NEW t2, IsWritten(t2, out, h, t[n])
  PROVE  /\ Table(t2) /\ Distinct(t2) /\ Hole(t2, n, n) /\ Size(t2) = Size(t)
         /\ Cardinality(Used(t2)) = Cardinality(Used(t))
         /\ Items(t2) = Items(t)
<1>1. /\ Size(t) \in Nat \ {0} /\ n \in DOMAIN t /\ h \in DOMAIN t /\ h \in Free(t)
      /\ t[n] \in Item /\ t[n] # NIL /\ h # n /\ h \notin Used(t)
  BY TableSlots DEF Hole, Free, Used
<1>2. /\ Table(out) /\ DOMAIN out = DOMAIN t /\ Size(out) = Size(t)
      /\ \A q \in DOMAIN t \ {n} : out[q] = t[q]
      /\ Used(out) = Used(t) \ {n} /\ Free(out) = Free(t) \cup {n}
      /\ \A a, b : Dist(out, a, b) = Dist(t, a, b)
      /\ \A q \in DOMAIN t \ {n} : HomeOf(out, q) = HomeOf(t, q)
      /\ \A k : Home(out, k) = Home(t, k)
  BY DEF IsWritten
<1>3. /\ Table(t2) /\ DOMAIN t2 = DOMAIN t /\ Size(t2) = Size(t)
      /\ t2[h] = t[n] /\ \A q \in DOMAIN t \ {h} : t2[q] = out[q]
      /\ Used(t2) = Used(out) \cup {h} /\ Free(t2) = Free(out) \ {h}
      /\ \A a, b : Dist(t2, a, b) = Dist(out, a, b)
      /\ \A q \in DOMAIN t \ {h} : HomeOf(t2, q) = HomeOf(out, q)
      /\ \A k : Home(t2, k) = Home(out, k)
  BY <1>1, <1>2 DEF IsWritten
<1>4. /\ Used(t2) = (Used(t) \ {n}) \cup {h} /\ Free(t2) = (Free(t) \cup {n}) \ {h}
      /\ \A a, b : Dist(t2, a, b) = Dist(t, a, b)
      /\ HomeOf(t2, h) = HomeOf(t, n)
  <2>1. Used(t2) = (Used(t) \ {n}) \cup {h} /\ Free(t2) = (Free(t) \cup {n}) \ {h}
    BY <1>2, <1>3
  <2>2. \A a, b : Dist(t2, a, b) = Dist(t, a, b)
    BY <1>2, <1>3
  <2>3. HomeOf(t2, h) = HomeOf(t, n)
    BY <1>2, <1>3 DEF HomeOf
  <2> QED BY <2>1, <2>2, <2>3
<1>5. \A q \in Used(t2) \ {h} : /\ q \in Used(t) /\ q # n /\ q \in DOMAIN t
                                /\ t2[q] = t[q] /\ HomeOf(t2, q) = HomeOf(t, q)
  BY <1>1, <1>2, <1>3, <1>4, TableSlots
<1>6. Distinct(t2)
  <2>1. SUFFICES ASSUME NEW p \in Used(t2), NEW q \in Used(t2), p # q,
                        t2[p].key = t2[q].key
                 PROVE  FALSE
    BY DEF Distinct
  <2>2. CASE p # h /\ q # h
    BY <1>5, <2>1, <2>2 DEF Distinct
  <2>3. CASE p = h
    BY <1>3, <1>5, <2>1, <2>3 DEF Distinct
  <2>4. CASE q = h
    BY <1>3, <1>5, <2>1, <2>4 DEF Distinct
  <2> QED BY <2>2, <2>3, <2>4
<1>7. ASSUME NEW q \in Used(t2), NEW f \in Free(t2), Ahead(t2, HomeOf(t2, q), f, q)
       PROVE  f = n /\ Ahead(t2, n, n, q)
  <2>1. (f \in Free(t) \/ f = n) /\ f # h
    BY <1>4
  <2>2. CASE q = h
    <3> DEFINE e == HomeOf(t, n)
    <3>1. Dist(t, e, f) < Dist(t, e, h) /\ Dist(t, e, h) < Dist(t, e, n)
      BY <1>4, <1>7, <2>2 DEF Ahead
    <3>2. e \in DOMAIN t /\ f \in DOMAIN t
      BY <1>1, <2>1, HomeOfType, TableSlots
    <3>3. /\ Dist(t, e, f) \in 0..(Size(t) - 1) /\ Dist(t, e, h) \in 0..(Size(t) - 1)
          /\ Dist(t, e, n) \in 0..(Size(t) - 1)
      BY <1>1, <3>2, DistFacts
    <3>4. Dist(t, e, f) < Dist(t, e, n)
      BY <1>1, <3>1, <3>3
    <3>5. f # n
      BY <1>1, <3>3, <3>4
    <3> QED BY <2>1, <3>4, <3>5 DEF Hole, Ahead
  <2>3. CASE q # h
    <3>1. q \in Used(t) /\ q # n /\ q \in DOMAIN t /\ Ahead(t, HomeOf(t, q), f, q)
      BY <1>4, <1>5, <1>7, <2>3 DEF Ahead
    <3>2. f = n
      BY <2>1, <3>1 DEF Hole
    <3>3. Dist(t, n, n) = 0 /\ Dist(t, n, q) \in 0..(Size(t) - 1)
      BY <1>1, <3>1, DistFacts
    <3>4. Dist(t, n, n) # Dist(t, n, q)
      BY <1>1, <3>1, DistFacts
    <3>5. Dist(t, n, n) < Dist(t, n, q)
      BY <1>1, <3>3, <3>4
    <3> QED BY <1>4, <3>2, <3>5 DEF Ahead
  <2> QED BY <2>2, <2>3
<1>8. Hole(t2, n, n)
  BY <1>1, <1>3, <1>4, <1>7 DEF Hole
<1>9. Cardinality(Used(t2)) = Cardinality(Used(t))
  <2>1. IsFiniteSet(Used(t)) /\ Cardinality(Used(t)) \in Nat
    BY UsedFinite
  <2>2. /\ IsFiniteSet(Used(t) \ {n})
        /\ Cardinality(Used(t) \ {n}) = Cardinality(Used(t)) - 1
    BY <2>1, FS_RemoveElement
  <2>3. h \notin Used(t) \ {n}
    BY <1>1
  <2>4. Cardinality((Used(t) \ {n}) \cup {h}) = Cardinality(Used(t) \ {n}) + 1
    BY <2>2, <2>3, FS_AddElement
  <2> QED BY <1>4, <2>1, <2>2, <2>4
<1>10. Items(t2) = Items(t)
  <2>1. Items(t2) \subseteq Items(t)
    BY <1>3, <1>5 DEF Items
  <2>2. ASSUME NEW q \in Used(t) PROVE t[q] \in Items(t2)
    <3>1. CASE q = n
      BY <1>3, <1>4, <3>1 DEF Items
    <3>2. CASE q # n
      <4>1. q \in Used(t2) /\ q # h
        BY <1>1, <1>4, <3>2
      <4> QED BY <1>5, <4>1 DEF Items
    <3> QED BY <3>1, <3>2
  <2> QED BY <2>1, <2>2 DEF Items
<1> QED BY <1>3, <1>6, <1>8, <1>9, <1>10

-----------------------------------------------------------------------------
(* The invariant. *)

\* The slots that resize() still has to look at, and the items it has moved.
Left == {p \in Used(tab) : p >= pos}
Moved == {tab[p] : p \in Used(tab) \ Left}

IdleInv ==
  /\ \A p \in Used(tab) : Reached(tab, p)
  /\ Cardinality(Used(tab)) = elem_count
  /\ elem_count < Size(tab)

FillInv ==
  /\ \E h \in Free(tab) : Hole(tab, h, pos)
  /\ Cardinality(Used(tab)) = elem_count - 1
  /\ elem_count < Size(tab)

ResizeInv ==
  /\ Sound(tmp)
  /\ pos \in Nat /\ count = Cardinality(Left)
  /\ Cardinality(Used(tab)) = elem_count
  /\ Cardinality(Used(tmp)) + count = elem_count
  /\ elem_count < Size(tmp)
  /\ Items(tmp) = Moved

IInv ==
  /\ Table(tab) /\ Distinct(tab)
  /\ elem_count \in Nat
  /\ \/ pc = "idle" /\ IdleInv
     \/ pc = "fill" /\ FillInv
     \/ pc = "resize" /\ ResizeInv

\* A new table is empty.
LEMMA NewTabSound ==
  ASSUME NEW n \in Nat \ {0}, NEW t, t = NewTab(n)
  PROVE  /\ Sound(t) /\ Size(t) = n /\ Used(t) = {} /\ Items(t) = {}
         /\ Cardinality(Used(t)) = 0 /\ Free(t) # {}
<1>1. t \in [0..(n - 1) -> Item \cup {NIL}] /\ DOMAIN t = 0..(n - 1)
  BY DEF NewTab
<1>2. Table(t) /\ Size(t) = n
  BY <1>1, TableIntro
<1>3. Free(t) = DOMAIN t
  BY DEF Free, NewTab
<1>4. Used(t) = {}
  BY <1>3 DEF Used
<1>5. Items(t) = {}
  BY <1>4 DEF Items
<1>6. Cardinality(Used(t)) = 0
  BY <1>4, FS_EmptySet
<1>7. 0 \in DOMAIN t
  BY <1>1
<1> QED BY <1>2, <1>3, <1>4, <1>5, <1>6, <1>7 DEF Sound, Distinct

\* resize() starts with all items left in the table.
LEMMA StartResizeInv ==
  ASSUME NEW m \in Nat \ {0}, NEW n \in Nat, StartResize(m, n), n < m,
         Table(tab'), Distinct(tab'), elem_count' = n,
         Cardinality(Used(tab')) = n
  PROVE  IInv'
<1>1. /\ Sound(tmp') /\ Size(tmp') = m /\ Items(tmp') = {}
      /\ Cardinality(Used(tmp')) = 0
  BY NewTabSound DEF StartResize
<1>2. pc' = "resize" /\ pos' = 0 /\ count' = n
  BY DEF StartResize
<1>3. Left' = Used(tab')
  <2>1. \A p \in Used(tab') : p \in DOMAIN tab' /\ p >= 0
    <3>1. DOMAIN tab' = 0..(Size(tab') - 1) /\ Size(tab') \in Nat
      BY TableSlots
    <3> QED BY <3>1, TableSlots
  <2> QED BY <1>2, <2>1 DEF Left
<1>4. Moved' = {}
  BY <1>3 DEF Moved
<1>5. 0 + n = n
  OBVIOUS
<1>6. count' = Cardinality(Left')
  BY <1>2, <1>3
<1>7. ResizeInv'
  BY <1>1, <1>2, <1>4, <1>5, <1>6 DEF ResizeInv
<1> QED BY <1>2, <1>7 DEF IInv

\* A new table satisfies the invariant.
LEMMA InitInv == Init => IInv
<1> SUFFICES ASSUME Init PROVE IInv
  OBVIOUS
<1>1. /\ Sound(tab) /\ Size(tab) = InitSize /\ Used(tab) = {}
      /\ Cardinality(Used(tab)) = 0
  BY InitIsSize, NewTabSound DEF Init
<1>2. elem_count = 0 /\ pc = "idle"
  BY DEF Init
<1>3. IdleInv
  BY <1>1, <1>2, InitIsSize DEF IdleInv
<1> QED BY <1>1, <1>2, <1>3 DEF IInv, Sound

\* Between calls the table is sound and has a free slot.
LEMMA IdleSound ==
  ASSUME IInv, pc = "idle"
  PROVE  /\ Sound(tab) /\ Free(tab) # {} /\ elem_count \in Nat
         /\ Cardinality(Used(tab)) = elem_count /\ elem_count < Size(tab)
         /\ Size(tab) \in Nat \ {0}
<1>1. IdleInv /\ Table(tab)
  BY DEF IInv
<1>2. Free(tab) # {}
  BY <1>1, UsedFinite DEF IdleInv
<1> QED BY <1>1, <1>2, TableSlots DEF IInv, IdleInv, Sound

\* upsert() of a key that is there.
LEMMA UpsertThere ==
  ASSUME IInv, NEW k \in Keys, NEW v \in Values, Upsert(k, v),
         tab[Locate(tab, k)] # NIL
  PROVE  IInv'
<1> DEFINE p == Locate(tab, k)
           x == [key |-> k, val |-> v]
<1>1. /\ Sound(tab) /\ Free(tab) # {} /\ elem_count \in Nat
      /\ Cardinality(Used(tab)) = elem_count /\ elem_count < Size(tab)
  BY IdleSound DEF Upsert
<1>2. /\ tab' = [tab EXCEPT ![p] = x]
      /\ elem_count' = elem_count /\ pc' = "idle"
  BY DEF Upsert, Rest
<1>3. p \in Used(tab) /\ tab[p].key = k /\ p \in DOMAIN tab
  BY <1>1, LocateEnds
<1>4. x \in Item /\ x.key = k
  BY DEF Item
<1> HIDE DEF p, x
<1>5. Sound(tab') /\ Used(tab') = Used(tab)
  BY <1>1, <1>2, <1>3, <1>4, ReplaceSound
<1>6. Size(tab') = Size(tab)
  BY <1>2, <1>3 DEF Size
<1>7. IdleInv'
  BY <1>1, <1>2, <1>5, <1>6 DEF IdleInv, Sound
<1> QED BY <1>1, <1>2, <1>5, <1>7 DEF IInv, Sound

\* upsert() of a new key: its item goes to a free slot, and a table that is
\* too full is then resized.
LEMMA UpsertNew ==
  ASSUME IInv, NEW k \in Keys, NEW v \in Values, Upsert(k, v),
         tab[Locate(tab, k)] = NIL
  PROVE  IInv'
<1> DEFINE p == Locate(tab, k)
           x == [key |-> k, val |-> v]
<1>1. /\ Sound(tab) /\ Table(tab) /\ Free(tab) # {} /\ elem_count \in Nat
      /\ Cardinality(Used(tab)) = elem_count /\ elem_count < Size(tab)
      /\ Size(tab) \in Nat \ {0}
  BY IdleSound DEF Upsert, Sound
<1>2. /\ tab' = [tab EXCEPT ![p] = x]
      /\ elem_count' = elem_count + 1
      /\ IF elem_count + 1 > MaxSize(tab)
         THEN StartResize(Size(tab) * 2, elem_count + 1)
         ELSE Rest
  BY DEF Upsert
<1>3. /\ p \in DOMAIN tab /\ p \in Free(tab)
      /\ \A q \in Used(tab) : tab[q].key # k
      /\ \A f \in Free(tab) : Dist(tab, Home(tab, k), p) <= Dist(tab, Home(tab, k), f)
  BY <1>1, LocateEnds
<1>4. x \in Item /\ x.key = k /\ x \in Item \cup {NIL} /\ x # NIL
  BY NilIsNoItem DEF Item
<1> HIDE DEF p, x
<1>5. Sound(tab')
  BY <1>1, <1>2, <1>3, <1>4, InsertSound
<1>6. IsWritten(tab', tab, p, x)
  BY <1>1, <1>2, <1>3, <1>4, Written
<1>7. Used(tab') = Used(tab) \cup {p} /\ Size(tab') = Size(tab)
  BY <1>4, <1>6 DEF IsWritten
<1>8. p \notin Used(tab)
  BY <1>3 DEF Used
<1>9. Cardinality(Used(tab')) = elem_count'
  BY <1>1, <1>2, <1>7, <1>8, UsedFinite, FS_AddElement
<1>10. CASE elem_count + 1 > MaxSize(tab)
  <2>1. StartResize(Size(tab) * 2, elem_count + 1)
    BY <1>2, <1>10
  <2>2. /\ elem_count + 1 < Size(tab) * 2 /\ Size(tab) * 2 \in Nat \ {0}
        /\ elem_count + 1 \in Nat
    BY <1>1, <1>2
  <2> QED BY <1>2, <1>5, <1>9, <2>1, <2>2, StartResizeInv DEF Sound
<1>11. CASE ~ (elem_count + 1 > MaxSize(tab))
  <2>1. elem_count' < Size(tab') /\ elem_count' \in Nat
    BY <1>1, <1>2, <1>7, <1>11, SMT DEF MaxSize
  <2>2. pc' = "idle"
    BY <1>2, <1>11 DEF Rest
  <2>3. IdleInv'
    BY <1>5, <1>9, <2>1 DEF IdleInv, Sound
  <2> QED BY <1>5, <2>1, <2>2, <2>3 DEF IInv, Sound
<1> QED BY <1>10, <1>11

\* remove() leaves a hole.
LEMMA RemoveInv ==
  ASSUME IInv, NEW k \in Keys, Remove(k), tab[Locate(tab, k)] # NIL
  PROVE  IInv'
<1> DEFINE p == Locate(tab, k)
<1>1. /\ Sound(tab) /\ Free(tab) # {} /\ elem_count \in Nat
      /\ Cardinality(Used(tab)) = elem_count /\ elem_count < Size(tab)
  BY IdleSound DEF Remove
<1>2. /\ tab' = [tab EXCEPT ![p] = NIL]
      /\ elem_count' = elem_count /\ pc' = "fill" /\ pos' = p
  BY DEF Remove
<1>3. p \in Used(tab)
  BY <1>1, LocateEnds
<1> HIDE DEF p
<1>4. /\ Table(tab') /\ Distinct(tab') /\ Hole(tab', p, p) /\ Size(tab') = Size(tab)
      /\ Cardinality(Used(tab')) = Cardinality(Used(tab)) - 1
  BY <1>1, <1>2, <1>3, RemoveHole
<1>5. p \in Free(tab')
  BY <1>4 DEF Hole
<1>6. FillInv'
  BY <1>1, <1>2, <1>4, <1>5 DEF FillInv
<1> QED BY <1>1, <1>2, <1>4, <1>6 DEF IInv

\* remove_slot() counts the item that is gone.
LEMMA EndRemoveInv ==
  ASSUME IInv, pc = "fill", EndRemove, \A p \in Used(tab) : Reached(tab, p)
  PROVE  IInv'
<1>1. /\ Table(tab) /\ Distinct(tab) /\ elem_count \in Nat /\ elem_count < Size(tab)
      /\ Cardinality(Used(tab)) = elem_count - 1
  BY DEF IInv, FillInv
<1>2. /\ tab' = tab /\ elem_count' = elem_count - 1
      /\ IF elem_count - 1 < MinSize(tab) /\ Size(tab) > 4
         THEN StartResize(Size(tab) \div 2, elem_count - 1)
         ELSE Rest
  BY DEF EndRemove
<1>3. elem_count' \in Nat /\ Size(tab) \in Nat \ {0}
  BY <1>1, <1>2, UsedFinite, TableSlots
<1>4. CASE elem_count - 1 < MinSize(tab) /\ Size(tab) > 4
  <2>1. Size(tab) \div 2 \in Nat \ {0} /\ elem_count' < Size(tab) \div 2
    BY <1>1, <1>2, <1>3, <1>4, SMT DEF MinSize
  <2>2. StartResize(Size(tab) \div 2, elem_count - 1)
    BY <1>2, <1>4
  <2> QED BY <1>1, <1>2, <1>3, <2>1, <2>2, StartResizeInv
<1>5. CASE ~ (elem_count - 1 < MinSize(tab) /\ Size(tab) > 4)
  <2>1. pc' = "idle"
    BY <1>2, <1>5 DEF Rest
  <2>2. elem_count' < Size(tab')
    BY <1>1, <1>2, <1>3
  <2>3. IdleInv'
    BY <1>1, <1>2, <2>2 DEF IdleInv
  <2> QED BY <1>1, <1>2, <1>3, <2>1, <2>3 DEF IInv
<1> QED BY <1>4, <1>5

\* A round of fill_empty_hole() that comes to an item: the table has the same
\* items, and one hole, which is behind the position.
LEMMA FillRound ==
  ASSUME IInv, pc = "fill", FillStep, tab[Following(tab, pos)] # NIL
  PROVE  /\ IInv' /\ Items(tab') = Items(tab) /\ ret' = ret
<1> DEFINE n == Following(tab, pos)
           e == HomeOf(tab, n)
<1>1. /\ Table(tab) /\ Distinct(tab) /\ elem_count \in Nat /\ elem_count < Size(tab)
      /\ Cardinality(Used(tab)) = elem_count - 1
  BY DEF IInv, FillInv
<1>2. PICK h \in Free(tab) : Hole(tab, h, pos)
  BY DEF IInv, FillInv
<1>3. /\ pos' = n
      /\ tab' = IF n = e THEN tab ELSE Reseat(n)
      /\ elem_count' = elem_count /\ pc' = pc /\ ret' = ret
  BY DEF FillStep, Following, HomeOf
<1>4. n \in Used(tab) /\ n \in DOMAIN tab /\ e \in DOMAIN tab /\ h \in DOMAIN tab
  <2>1. Size(tab) \in Nat \ {0} /\ pos \in DOMAIN tab /\ DOMAIN tab = 0..(Size(tab) - 1)
    BY <1>1, <1>2, TableSlots DEF Hole
  <2>2. n \in DOMAIN tab
    BY <2>1, DistNext DEF Following
  <2>3. n \in Used(tab)
    BY <2>2 DEF Used, Free
  <2> QED BY <1>1, <1>2, <2>2, <2>3, HomeOfType, TableSlots
<1>5. CASE ~ Ahead(tab, e, h, n)
  <2>1. Hole(tab, h, n)
    BY <1>1, <1>2, <1>5, HoleStays
  <2>2. Reseat(n) = tab
    <3> DEFINE out == [tab EXCEPT ![n] = NIL]
    <3>1. FirstFree(out, e) = n
      <4>1. out = [tab EXCEPT ![n] = NIL]
        OBVIOUS
      <4> HIDE DEF out
      <4> QED BY <1>1, <1>2, <1>4, <1>5, <4>1, FillSlot
    <3>2. [out EXCEPT ![n] = tab[n]] = tab
      BY <1>1, <1>4 DEF Table
    <3> QED BY <3>1, <3>2 DEF Reseat, HomeOf
  <2>3. tab' = tab
    BY <1>3, <2>2
  <2> HIDE DEF n, e
  <2>4. FillInv'
    BY <1>1, <1>2, <1>3, <2>1, <2>3 DEF FillInv
  <2> QED BY <1>1, <1>3, <2>3, <2>4 DEF IInv
<1>6. CASE Ahead(tab, e, h, n)
  <2> DEFINE out == [tab EXCEPT ![n] = NIL]
  <2>1. n # e
    <3>1. /\ Dist(tab, e, h) \in 0..(Size(tab) - 1) /\ Dist(tab, e, e) = 0
          /\ Size(tab) \in Nat
      BY <1>1, <1>4, DistFacts, TableSlots
    <3>2. ~ (Dist(tab, e, h) < Dist(tab, e, e))
      BY <3>1
    <3> QED BY <1>6, <3>2 DEF Ahead
  <2>2. FirstFree(out, e) = h
    <3>1. out = [tab EXCEPT ![n] = NIL]
      OBVIOUS
    <3> HIDE DEF out
    <3> QED BY <1>1, <1>2, <1>4, <1>6, <3>1, FillSlot
  <2>3. tab' = [out EXCEPT ![h] = tab[n]]
    BY <1>3, <2>1, <2>2 DEF Reseat, HomeOf
  <2>4. IsWritten(out, tab, n, NIL)
    BY <1>1, <1>4, Written
  <2>5. IsWritten(tab', out, h, tab[n])
    <3>1. Table(out) /\ h \in DOMAIN out /\ tab[n] \in Item \cup {NIL}
      BY <1>1, <1>4, <2>4, TableSlots DEF IsWritten
    <3> HIDE DEF out
    <3> QED BY <2>3, <3>1, Written
  <2> HIDE DEF n, e, out
  <2>6. Ahead(tab, HomeOf(tab, n), h, n)
    BY <1>6 DEF e
  <2>7. /\ Table(tab') /\ Distinct(tab') /\ Hole(tab', n, n) /\ Size(tab') = Size(tab)
        /\ Cardinality(Used(tab')) = Cardinality(Used(tab))
        /\ Items(tab') = Items(tab)
    BY <1>1, <1>2, <1>4, <2>4, <2>5, <2>6, HoleMoves
  <2>8. n \in Free(tab')
    BY <2>7 DEF Hole
  <2>9. FillInv'
    BY <1>1, <1>3, <2>7, <2>8 DEF FillInv
  <2> QED BY <1>1, <1>3, <2>7, <2>9 DEF IInv
<1> QED BY <1>5, <1>6

\* fill_empty_hole()
LEMMA FillStepInv ==
  ASSUME IInv, FillStep
  PROVE  IInv' /\ Items(tab') = Items(tab) /\ ret' = ret
<1>1. pc = "fill"
  BY DEF FillStep
<1>2. CASE tab[Following(tab, pos)] = NIL
  <2>1. EndRemove
    BY <1>2 DEF FillStep, Following
  <2>2. Table(tab) /\ \E h \in Free(tab) : Hole(tab, h, pos)
    BY <1>1 DEF IInv, FillInv
  <2>3. \A p \in Used(tab) : Reached(tab, p)
    BY <1>2, <2>2, FillEnds
  <2>4. IInv'
    BY <1>1, <2>1, <2>3, EndRemoveInv
  <2> QED BY <2>1, <2>4 DEF EndRemove
<1>3. CASE tab[Following(tab, pos)] # NIL
  BY <1>1, <1>3, FillRound
<1> QED BY <1>2, <1>3

\* resize() is done when nothing is left.
LEMMA ResizeEnds ==
  ASSUME IInv, ResizeStep, count = 0
  PROVE  IInv' /\ Items(tab') = Items(tab) /\ ret' = ret
<1>1. pc = "resize" /\ tab' = tmp /\ pc' = "idle" /\ elem_count' = elem_count /\ ret' = ret
  BY DEF ResizeStep, Rest
<1>2. ResizeInv /\ Table(tab) /\ elem_count \in Nat
  BY <1>1 DEF IInv
<1>3. Left = {}
  <2>1. Left \in SUBSET Used(tab) /\ IsFiniteSet(Used(tab))
    BY <1>2, UsedFinite DEF Left
  <2>2. IsFiniteSet(Left) /\ Cardinality(Left) = 0
    BY <1>2, <2>1, FS_Subset DEF ResizeInv
  <2> QED BY <2>2, FS_EmptySet
<1>4. Items(tab') = Items(tab)
  <2>1. Items(tmp) = Moved
    BY <1>2 DEF ResizeInv
  <2>2. Moved = Items(tab)
    BY <1>3 DEF Moved, Items
  <2> QED BY <1>1, <2>1, <2>2
<1>5. Table(tmp) /\ Cardinality(Used(tmp)) \in Nat
  BY <1>2, UsedFinite DEF ResizeInv, Sound
<1>6. Cardinality(Used(tmp)) = elem_count
  BY <1>2, <1>5 DEF ResizeInv
<1>7. IdleInv'
  BY <1>1, <1>2, <1>6 DEF IdleInv, ResizeInv, Sound
<1>8. Distinct(tmp)
  BY <1>2 DEF ResizeInv, Sound
<1> QED BY <1>1, <1>2, <1>4, <1>5, <1>7, <1>8 DEF IInv

\* While something is left, the position is one of the table.
LEMMA LeftSlots ==
  ASSUME IInv, pc = "resize"
  PROVE  /\ IsFiniteSet(Left) /\ Cardinality(Left) = count /\ count \in Nat
         /\ \A p \in Left : p \in Used(tab) /\ p \in Nat /\ pos <= p
         /\ count # 0 => pos \in DOMAIN tab
<1>1. ResizeInv /\ Table(tab) /\ pos \in Nat
  BY DEF IInv, ResizeInv
<1>2. /\ Size(tab) \in Nat \ {0} /\ DOMAIN tab = 0..(Size(tab) - 1)
      /\ \A p \in Used(tab) : p \in DOMAIN tab
  BY <1>1, TableSlots
<1>3. Left \in SUBSET Used(tab) /\ IsFiniteSet(Used(tab))
  BY <1>1, UsedFinite DEF Left
<1>4. IsFiniteSet(Left) /\ Cardinality(Left) = count /\ count \in Nat
  BY <1>1, <1>3, FS_Subset, FS_CardinalityType DEF ResizeInv
<1>5. \A p \in Left : p \in Used(tab) /\ p \in Nat /\ pos <= p
  BY <1>1, <1>2 DEF Left
<1>6. count # 0 => pos \in DOMAIN tab
  <2>1. SUFFICES ASSUME count # 0 PROVE pos \in DOMAIN tab
    OBVIOUS
  <2>2. PICK p \in Left : TRUE
    BY <1>4, <2>1, FS_EmptySet
  <2>3. p \in 0..(Size(tab) - 1) /\ pos <= p
    BY <1>2, <1>5, <2>2
  <2> QED BY <1>1, <1>2, <2>3
<1> QED BY <1>4, <1>5, <1>6

\* A round of resize() over an empty slot.
LEMMA ResizeSkips ==
  ASSUME IInv, ResizeStep, count # 0, tab[pos] = NIL
  PROVE  IInv'
<1>1. /\ pc = "resize" /\ pc' = "resize" /\ pos' = pos + 1
      /\ tab' = tab /\ tmp' = tmp /\ count' = count /\ elem_count' = elem_count
  BY DEF ResizeStep
<1>2. ResizeInv /\ Table(tab) /\ pos \in Nat
  BY <1>1 DEF IInv, ResizeInv
<1>3. Left' = Left
  <2>1. \A p \in Used(tab) : p \in Int /\ p # pos
    BY <1>2, TableSlots
  <2>2. \A p \in Used(tab) : p >= pos + 1 <=> p >= pos
    BY <1>2, <2>1
  <2>3. Left' = {p \in Used(tab) : p >= pos + 1}
    BY <1>1 DEF Left
  <2> QED BY <2>2, <2>3 DEF Left
<1>4. Moved' = Moved
  BY <1>1, <1>3 DEF Moved
<1>5. pos' \in Nat
  BY <1>1, <1>2
<1>6. ResizeInv'
  BY <1>1, <1>2, <1>3, <1>4, <1>5 DEF ResizeInv
<1> QED BY <1>1, <1>2, <1>6 DEF IInv

\* A round of resize() that moves an item.
LEMMA ResizeMoves ==
  ASSUME IInv, ResizeStep, count # 0, tab[pos] # NIL
  PROVE  IInv'
<1> DEFINE x == tab[pos]
           s == FirstFree(tmp, Home(tmp, x.key))
<1>1. /\ pc = "resize" /\ pc' = "resize" /\ pos' = pos + 1
      /\ tab' = tab /\ count' = count - 1 /\ elem_count' = elem_count
      /\ tmp' = [tmp EXCEPT ![s] = x]
  BY DEF ResizeStep
<1>2. /\ ResizeInv /\ Table(tab) /\ Distinct(tab) /\ pos \in Nat /\ Sound(tmp)
      /\ elem_count \in Nat /\ Table(tmp) /\ Items(tmp) = Moved
      /\ Cardinality(Used(tmp)) + count = elem_count /\ elem_count < Size(tmp)
  BY <1>1 DEF IInv, ResizeInv, Sound
<1>3. /\ IsFiniteSet(Left) /\ Cardinality(Left) = count /\ count \in Nat
      /\ pos \in DOMAIN tab /\ pos \in Used(tab) /\ pos \in Left
  <2>1. pos \in DOMAIN tab
    BY <1>1, LeftSlots
  <2>2. pos \in Used(tab)
    BY <2>1 DEF Used, Free
  <2>3. pos \in Left
    BY <1>2, <2>2 DEF Left
  <2> QED BY <1>1, <2>1, <2>2, <2>3, LeftSlots
<1>4. /\ x \in Item /\ x.key \in Keys /\ x # NIL /\ x \in Item \cup {NIL}
      /\ Home(tmp, x.key) \in DOMAIN tmp
  BY <1>2, <1>3, TableSlots, HomeOfType, HomeType
<1>5. Cardinality(Used(tmp)) \in Nat /\ IsFiniteSet(Used(tmp)) /\ Free(tmp) # {}
  <2>1. Cardinality(Used(tmp)) \in Nat /\ IsFiniteSet(Used(tmp))
    BY <1>2, UsedFinite
  <2>2. Size(tmp) \in Nat
    BY <1>2, TableSlots
  <2>3. Cardinality(Used(tmp)) < Size(tmp)
    BY <1>2, <1>3, <2>1, <2>2
  <2> QED BY <1>2, <2>1, <2>3, UsedFinite
<1>6. \A q \in Used(tmp) : tmp[q].key # x.key
  <2>1. SUFFICES ASSUME NEW q \in Used(tmp), tmp[q].key = x.key PROVE FALSE
    OBVIOUS
  <2>2. tmp[q] \in Moved
    BY <1>2 DEF Items
  <2>3. PICK p \in Used(tab) \ Left : tmp[q] = tab[p]
    BY <2>2 DEF Moved
  <2>4. p = pos
    BY <1>2, <1>3, <2>1, <2>3 DEF Distinct
  <2> QED BY <1>3, <2>3, <2>4
<1>7. /\ s \in Free(tmp) /\ s \in DOMAIN tmp
      /\ \A f \in Free(tmp) : Dist(tmp, Home(tmp, x.key), s) <= Dist(tmp, Home(tmp, x.key), f)
  <2>1. Free(tmp) \in SUBSET DOMAIN tmp
    BY DEF Free
  <2> QED BY <1>2, <1>4, <1>5, <2>1, MetIsNearest DEF FirstFree
<1> HIDE DEF s
<1>8. Sound(tmp')
  <2> HIDE DEF x
  <2> QED BY <1>1, <1>2, <1>4, <1>6, <1>7, InsertSound
<1>9. IsWritten(tmp', tmp, s, x)
  <2> HIDE DEF x
  <2> QED BY <1>1, <1>2, <1>4, <1>7, Written
<1>10. /\ Used(tmp') = Used(tmp) \cup {s} /\ Size(tmp') = Size(tmp)
       /\ tmp'[s] = x /\ \A q \in DOMAIN tmp \ {s} : tmp'[q] = tmp[q]
  BY <1>4, <1>9 DEF IsWritten
<1>11. s \notin Used(tmp) /\ \A q \in Used(tmp) : q \in DOMAIN tmp
  BY <1>7 DEF Used
<1>12. Cardinality(Used(tmp')) = Cardinality(Used(tmp)) + 1
  BY <1>5, <1>10, <1>11, FS_AddElement
<1>13. Left' = Left \ {pos}
  <2>1. \A p \in Used(tab) : p \in Int
    BY <1>2, TableSlots
  <2>2. \A p \in Used(tab) : p >= pos + 1 <=> p >= pos /\ p # pos
    BY <1>2, <2>1
  <2>3. Left' = {p \in Used(tab) : p >= pos + 1}
    BY <1>1 DEF Left
  <2> QED BY <2>2, <2>3 DEF Left
<1>14. Cardinality(Left') = count'
  BY <1>1, <1>3, <1>13, FS_RemoveElement
<1>15. Items(tmp') = Items(tmp) \cup {x}
  <2>1. \A q \in Used(tmp) : tmp'[q] = tmp[q]
    BY <1>10, <1>11
  <2> HIDE DEF x
  <2> QED BY <1>10, <2>1 DEF Items
<1>16. Moved' = Moved \cup {x}
  <2>1. Used(tab') \ Left' = (Used(tab) \ Left) \cup {pos}
    BY <1>1, <1>3, <1>13
  <2>2. Moved' = {tab[p] : p \in (Used(tab) \ Left) \cup {pos}}
    BY <1>1, <2>1 DEF Moved
  <2> QED BY <2>2 DEF Moved
<1>17. pos' \in Nat /\ Cardinality(Used(tmp')) + count' = elem_count
  BY <1>1, <1>2, <1>3, <1>5, <1>12
<1>18. Cardinality(Used(tab')) = elem_count'
  BY <1>1, <1>2 DEF ResizeInv
<1>19. ResizeInv'
  BY <1>1, <1>2, <1>8, <1>10, <1>14, <1>15, <1>16, <1>17, <1>18 DEF ResizeInv
<1> QED BY <1>1, <1>2, <1>19 DEF IInv

\* resize()
LEMMA ResizeStepInv ==
  ASSUME IInv, ResizeStep
  PROVE  IInv' /\ Items(tab') = Items(tab) /\ ret' = ret
<1>1. CASE count = 0
  BY <1>1, ResizeEnds
<1>2. CASE count # 0
  <2>1. tab' = tab /\ ret' = ret
    BY <1>2 DEF ResizeStep
  <2> QED BY <1>2, <2>1, ResizeSkips, ResizeMoves
<1> QED BY <1>1, <1>2

-----------------------------------------------------------------------------
(* The theorems. *)

\* Every step preserves the invariant.
LEMMA NextInv == IInv /\ [Next]_vars => IInv'
<1> SUFFICES ASSUME IInv, [Next]_vars PROVE IInv'
  OBVIOUS
<1>1. ASSUME NEW k \in Keys, Find(k) PROVE IInv'
  <2>1. UNCHANGED <<tab, elem_count, pc, pos, tmp, count>>
    BY <1>1 DEF Find
  <2> QED BY <2>1 DEF IInv, IdleInv, FillInv, ResizeInv, Left, Moved
<1>2. ASSUME NEW k \in Keys, Remove(k) PROVE IInv'
  <2>1. CASE tab[Locate(tab, k)] # NIL
    BY <1>2, <2>1, RemoveInv
  <2>2. CASE tab[Locate(tab, k)] = NIL
    <3>1. UNCHANGED <<tab, elem_count, pc, pos, tmp, count>>
      BY <1>2, <2>2 DEF Remove
    <3> QED BY <3>1 DEF IInv, IdleInv, FillInv, ResizeInv, Left, Moved
  <2> QED BY <2>1, <2>2
<1>3. ASSUME NEW k \in Keys, NEW v \in Values, Upsert(k, v) PROVE IInv'
  BY <1>3, UpsertThere, UpsertNew
<1>4. CASE FillStep
  BY <1>4, FillStepInv
<1>5. CASE ResizeStep
  BY <1>5, ResizeStepInv
<1>6. CASE UNCHANGED vars
  BY <1>6 DEF vars, IInv, IdleInv, FillInv, ResizeInv, Left, Moved
<1> QED BY <1>1, <1>2, <1>3, <1>4, <1>5, <1>6 DEF Next, Loop

\* The invariant holds throughout.
LEMMA Invariant == Spec => []IInv
  BY InitInv, NextInv, PTL DEF Spec

\* What it says of the table.
LEMMA InvTableSound == IInv => TableSound
<1> SUFFICES ASSUME IInv PROVE TableSound
  OBVIOUS
<1>1. Table(tab) /\ Distinct(tab) /\ elem_count \in Nat
  BY DEF IInv
<1>2. CASE pc = "idle"
  <2>1. Sound(tab) /\ Free(tab) # {} /\ Cardinality(Used(tab)) = elem_count
    BY <1>2, IdleSound
  <2>2. AllFound(tab)
    BY <2>1, SoundFinds DEF AllFound
  <2> QED BY <1>1, <1>2, <2>1, <2>2 DEF TableSound, Counted, SearchesEnd, Found
<1>3. CASE pc = "fill"
  <2>1. Free(tab) # {} /\ Cardinality(Used(tab)) = elem_count - 1
    BY <1>3 DEF IInv, FillInv
  <2> QED BY <1>1, <1>3, <2>1 DEF TableSound, Counted, SearchesEnd, Found
<1>4. CASE pc = "resize"
  <2>1. ResizeInv
    BY <1>4 DEF IInv
  <2>2. Sound(tmp) /\ Table(tmp) /\ elem_count < Size(tmp)
    BY <2>1 DEF ResizeInv, Sound
  <2>3. AllFound(tmp)
    BY <2>2, SoundFinds DEF AllFound
  <2>4. /\ Cardinality(Used(tab)) = elem_count /\ count = Cardinality(Left)
        /\ Cardinality(Used(tmp)) + count = elem_count
    BY <2>1 DEF ResizeInv
  <2>5. Free(tmp) # {}
    <3>1. Cardinality(Used(tmp)) \in Nat /\ count \in Nat /\ Size(tmp) \in Nat
      BY <1>4, <2>2, UsedFinite, LeftSlots, TableSlots
    <3>2. Cardinality(Used(tmp)) < Size(tmp)
      BY <2>2, <2>4, <3>1
    <3> QED BY <2>2, <3>2, UsedFinite
  <2>6. Counted
    BY <1>1, <1>4, <2>4 DEF Counted, Left
  <2> QED BY <1>4, <2>3, <2>5, <2>6 DEF TableSound, SearchesEnd, Found
<1> QED BY <1>2, <1>3, <1>4 DEF IInv

\* Whatever the keys hash to and however the callers put, find and remove: the
\* count is that of the items, every search comes to an empty slot, and every
\* item is found where it is, also in the middle of a resize.
THEOREM TableCorrect == Spec => []TableSound
  BY Invariant, InvTableSound, PTL

-----------------------------------------------------------------------------
(* The map that callers see. *)

MapOf(its) == [k \in {x.key : x \in its} |-> (CHOOSE x \in its : x.key = k).val]

\* The map at a key is the value of the only item that has it.
LEMMA MapAt ==
  ASSUME NEW its, \A x, y \in its : x.key = y.key => x = y, NEW x \in its
  PROVE  x.key \in DOMAIN MapOf(its) /\ MapOf(its)[x.key] = x.val
<1>1. (CHOOSE y \in its : y.key = x.key) = x
  OBVIOUS
<1> QED BY <1>1 DEF MapOf

\* The items of a table have different keys.
LEMMA ItemsDistinct ==
  ASSUME NEW t, Distinct(t)
  PROVE  \A x, y \in Items(t) : x.key = y.key => x = y
  BY DEF Distinct, Items

Put(m, k, v) == [key \in DOMAIN m \cup {k} |-> IF key = k THEN v ELSE m[key]]
Drop(m, k) == [key \in DOMAIN m \ {k} |-> m[key]]

\* An item is put into a set of items with different keys, in the place of the
\* one with its key if there is one.
LEMMA MapPut ==
  ASSUME NEW its, \A y, z \in its : y.key = z.key => y = z, NEW x, NEW its2,
         its2 = {y \in its : y.key # x.key} \cup {x}
  PROVE  MapOf(its2) = Put(MapOf(its), x.key, x.val)
<1> DEFINE M == MapOf(its)
           K == {y.key : y \in its}
           N == [key \in DOMAIN M \cup {x.key} |-> IF key = x.key THEN x.val ELSE M[key]]
<1>1. DOMAIN M = K
  BY DEF MapOf
<1>2. {y.key : y \in its2} = K \cup {x.key}
  OBVIOUS
<1>3. \A y, z \in its2 : y.key = z.key => y = z
  OBVIOUS
<1>4. DOMAIN MapOf(its2) = K \cup {x.key}
  BY <1>2 DEF MapOf
<1>5. ASSUME NEW key \in K \cup {x.key} PROVE MapOf(its2)[key] = N[key]
  <2>1. PICK y \in its2 : y.key = key
    BY <1>2
  <2>2. MapOf(its2)[key] = y.val
    <3> HIDE DEF K, M, N
    <3> QED BY <1>3, <2>1, MapAt
  <2>3. CASE key = x.key
    BY <1>1, <1>3, <2>1, <2>2, <2>3
  <2>4. CASE key # x.key
    <3>1. y \in its
      BY <2>1, <2>4
    <3>2. M[key] = y.val
      BY <2>1, <3>1, MapAt
    <3> HIDE DEF K, M
    <3>3. N[key] = M[key]
      BY <1>1, <2>4
    <3> QED BY <2>2, <3>2, <3>3
  <2> QED BY <2>3, <2>4
<1>6. MapOf(its2) = [key \in DOMAIN MapOf(its2) |-> MapOf(its2)[key]]
  BY DEF MapOf
<1>7. N = [key \in K \cup {x.key} |-> N[key]]
  <2> HIDE DEF M, K
  <2> QED BY <1>1
<1> HIDE DEF N, M, K
<1>8. MapOf(its2) = N
  BY <1>4, <1>5, <1>6, <1>7
<1> QED BY <1>8 DEF N, M, Put

\* The item with key k is taken out, if there is one.
LEMMA MapDrop ==
  ASSUME NEW its, \A y, z \in its : y.key = z.key => y = z, NEW k, NEW its2,
         its2 = {y \in its : y.key # k}
  PROVE  MapOf(its2) = Drop(MapOf(its), k)
<1> DEFINE M == MapOf(its)
           K == {y.key : y \in its}
           N == [key \in DOMAIN M \ {k} |-> M[key]]
<1>1. DOMAIN M = K
  BY DEF MapOf
<1>2. {y.key : y \in its2} = K \ {k}
  OBVIOUS
<1>3. \A y, z \in its2 : y.key = z.key => y = z
  OBVIOUS
<1>4. DOMAIN MapOf(its2) = K \ {k}
  BY <1>2 DEF MapOf
<1>5. ASSUME NEW key \in K \ {k} PROVE MapOf(its2)[key] = N[key]
  <2>1. PICK y \in its2 : y.key = key
    BY <1>2
  <2>2. y \in its
    BY <2>1
  <2>3. MapOf(its2)[key] = y.val
    <3> HIDE DEF K, M, N
    <3> QED BY <1>3, <2>1, MapAt
  <2>4. M[key] = y.val
    BY <2>1, <2>2, MapAt
  <2> HIDE DEF K, M
  <2>5. N[key] = M[key]
    BY <1>1
  <2> QED BY <2>3, <2>4, <2>5
<1>6. MapOf(its2) = [key \in DOMAIN MapOf(its2) |-> MapOf(its2)[key]]
  BY DEF MapOf
<1>7. N = [key \in K \ {k} |-> N[key]]
  <2> HIDE DEF M, K
  <2> QED BY <1>1
<1> HIDE DEF N, M, K
<1>8. MapOf(its2) = N
  BY <1>4, <1>5, <1>6, <1>7
<1> QED BY <1>8 DEF N, M, Drop

\* What a search returns is what the map has at the key.
LEMMA FoundInMap ==
  ASSUME NEW t, Sound(t), Free(t) # {}, NEW k \in Keys
  PROVE  ValueAt(t, Locate(t, k)) =
           IF k \in DOMAIN MapOf(Items(t)) THEN MapOf(Items(t))[k] ELSE NIL
<1> DEFINE p == Locate(t, k)
<1>1. \A x, y \in Items(t) : x.key = y.key => x = y
  BY ItemsDistinct DEF Sound
<1>2. CASE t[p] # NIL
  <2>1. p \in Used(t) /\ t[p].key = k
    BY <1>2, LocateEnds
  <2>2. t[p] \in Items(t)
    BY <2>1 DEF Items
  <2> HIDE DEF p
  <2>3. k \in DOMAIN MapOf(Items(t)) /\ MapOf(Items(t))[k] = t[p].val
    BY <1>1, <2>1, <2>2, MapAt
  <2> QED BY <1>2, <2>3 DEF ValueAt, p
<1>3. CASE t[p] = NIL
  <2>1. \A q \in Used(t) : t[q].key # k
    BY <1>3, LocateEnds
  <2>2. k \notin DOMAIN MapOf(Items(t))
    BY <2>1 DEF MapOf, Items
  <2> QED BY <1>3, <2>2 DEF ValueAt
<1> QED BY <1>2, <1>3

\* The items after an item was written to where a search for its key ends.
LEMMA ItemsPut ==
  ASSUME NEW t, Sound(t), NEW p \in DOMAIN t, NEW x \in Item,
         NEW t2, IsWritten(t2, t, p, x),
         t[p] # NIL => t[p].key = x.key,
         t[p] = NIL => \A q \in Used(t) : t[q].key # x.key
  PROVE  Items(t2) = {y \in Items(t) : y.key # x.key} \cup {x}
<1>1. /\ x # NIL /\ t2[p] = x /\ Used(t2) = Used(t) \cup {p}
      /\ \A q \in DOMAIN t \ {p} : t2[q] = t[q]
  BY NilIsNoItem DEF IsWritten
<1>2. \A q \in Used(t) : q \in DOMAIN t
  BY TableSlots DEF Sound
<1>3. \A q \in Used(t) \ {p} : t2[q] = t[q] /\ t[q].key # x.key
  <2> TAKE q \in Used(t) \ {p}
  <2>1. t2[q] = t[q]
    BY <1>1, <1>2
  <2>2. CASE t[p] = NIL
    BY <2>1, <2>2
  <2>3. CASE t[p] # NIL
    <3>1. p \in Used(t)
      BY <2>3 DEF Used, Free
    <3> QED BY <2>1, <2>3, <3>1 DEF Sound, Distinct
  <2> QED BY <2>2, <2>3
<1>4. Items(t2) = {t[q] : q \in Used(t) \ {p}} \cup {x}
  BY <1>1, <1>3 DEF Items
<1>5. \A q \in Used(t) : t[q].key # x.key => q # p
  BY DEF Used, Free
<1> QED BY <1>3, <1>4, <1>5 DEF Items

\* The mapping of the refinement.
LEMMA AbstractMap == AMap = MapOf(Items(tab)) /\ AMap' = MapOf(Items(tab'))
  BY DEF AMap, Content, Items, MapOf

\* A new table is an empty map.
LEMMA InitMap == Init => AInit
<1> SUFFICES ASSUME Init PROVE AInit
  OBVIOUS
<1>1. Items(tab) = {}
  BY InitIsSize, NewTabSound DEF Init
<1>2. MapOf({}) = <<>>
  BY DEF MapOf
<1>3. MapOf(Items(tab)) = <<>> /\ ret = NIL
  BY <1>1, <1>2 DEF Init
<1> QED BY <1>3, AbstractMap DEF AInit

\* find() returns what the map has at the key.
LEMMA FindMap ==
  ASSUME IInv, NEW k \in Keys, Find(k)
  PROVE  AFind(k)
<1>1. Sound(tab) /\ Free(tab) # {}
  BY IdleSound DEF Find
<1>2. ret' = ValueAt(tab, Locate(tab, k)) /\ tab' = tab
  BY DEF Find
<1> DEFINE M == MapOf(Items(tab))
<1>3. ret' = IF k \in DOMAIN M THEN M[k] ELSE NIL
  BY <1>1, <1>2, FoundInMap
<1>4. MapOf(Items(tab')) = M
  BY <1>2
<1> QED BY <1>3, <1>4, AbstractMap DEF AFind, AAt

\* upsert() puts the value there and returns the one that was.
LEMMA UpsertMap ==
  ASSUME IInv, NEW k \in Keys, NEW v \in Values, Upsert(k, v)
  PROVE  AUpsert(k, v)
<1> DEFINE p == Locate(tab, k)
           x == [key |-> k, val |-> v]
           M == MapOf(Items(tab))
<1>1. Sound(tab) /\ Free(tab) # {} /\ Table(tab) /\ Distinct(tab)
  BY IdleSound DEF Upsert, Sound
<1>2. tab' = [tab EXCEPT ![p] = x] /\ ret' = ValueAt(tab, p)
  BY DEF Upsert
<1>3. ret' = IF k \in DOMAIN M THEN M[k] ELSE NIL
  BY <1>1, <1>2, FoundInMap
<1>4. /\ p \in DOMAIN tab
      /\ tab[p] # NIL => tab[p].key = k
      /\ tab[p] = NIL => \A q \in Used(tab) : tab[q].key # k
  BY <1>1, LocateEnds
<1>5. x \in Item /\ x \in Item \cup {NIL} /\ x.key = k /\ x.val = v
  BY DEF Item
<1> HIDE DEF p, x
<1>6. IsWritten(tab', tab, p, x)
  BY <1>1, <1>2, <1>4, <1>5, Written
<1>7. Items(tab') = {y \in Items(tab) : y.key # x.key} \cup {x}
  BY <1>1, <1>4, <1>5, <1>6, ItemsPut
<1>8. MapOf(Items(tab')) = Put(M, x.key, x.val)
  <2>1. \A y, z \in Items(tab) : y.key = z.key => y = z
    BY <1>1, ItemsDistinct
  <2> QED BY <1>7, <2>1, MapPut
<1> HIDE DEF M
<1>9. MapOf(Items(tab')) = [key \in DOMAIN M \cup {k} |-> IF key = k THEN v ELSE M[key]]
  BY <1>5, <1>8 DEF Put
<1> QED BY <1>3, <1>9, AbstractMap DEF AUpsert, AAt, M

\* remove() takes the key out of it.
LEMMA RemoveMap ==
  ASSUME IInv, NEW k \in Keys, Remove(k)
  PROVE  ARemove(k)
<1> DEFINE p == Locate(tab, k)
           M == MapOf(Items(tab))
<1>1. Sound(tab) /\ Free(tab) # {} /\ Table(tab) /\ Distinct(tab)
  BY IdleSound DEF Remove, Sound
<1>2. /\ ret' = ValueAt(tab, p)
      /\ tab' = IF tab[p] = NIL THEN tab ELSE [tab EXCEPT ![p] = NIL]
  BY DEF Remove
<1>3. ret' = IF k \in DOMAIN M THEN M[k] ELSE NIL
  BY <1>1, <1>2, FoundInMap
<1>4. Items(tab') = {y \in Items(tab) : y.key # k}
  <2>1. CASE tab[p] = NIL
    <3>1. \A q \in Used(tab) : tab[q].key # k
      BY <1>1, <2>1, LocateEnds
    <3> QED BY <1>2, <2>1, <3>1 DEF Items
  <2>2. CASE tab[p] # NIL
    <3>1. p \in Used(tab) /\ tab[p].key = k
      BY <1>1, <2>2, LocateEnds
    <3> HIDE DEF p
    <3>2. Items(tab') = Items(tab) \ {tab[p]}
      BY <1>1, <1>2, <2>2, <3>1, RemoveHole
    <3>3. \A y \in Items(tab) : y.key = k <=> y = tab[p]
      BY <1>1, <3>1 DEF Distinct, Items
    <3> QED BY <3>2, <3>3
  <2> QED BY <2>1, <2>2
<1>5. MapOf(Items(tab')) = Drop(M, k)
  <2>1. \A y, z \in Items(tab) : y.key = z.key => y = z
    BY <1>1, ItemsDistinct
  <2> QED BY <1>4, <2>1, MapDrop
<1> HIDE DEF M
<1>6. MapOf(Items(tab')) = [key \in DOMAIN M \ {k} |-> M[key]]
  BY <1>5 DEF Drop
<1> QED BY <1>3, <1>6, AbstractMap DEF ARemove, AAt, M

\* Every step is one of the map, or none.
LEMMA NextMap == IInv /\ [Next]_vars => [ANext]_avars
<1> SUFFICES ASSUME IInv, [Next]_vars PROVE [ANext]_avars
  OBVIOUS
<1>1. ASSUME NEW k \in Keys, Find(k) PROVE ANext
  BY <1>1, FindMap DEF ANext
<1>2. ASSUME NEW k \in Keys, Remove(k) PROVE ANext
  BY <1>2, RemoveMap DEF ANext
<1>3. ASSUME NEW k \in Keys, NEW v \in Values, Upsert(k, v) PROVE ANext
  BY <1>3, UpsertMap DEF ANext
<1>4. ASSUME Items(tab') = Items(tab), ret' = ret PROVE UNCHANGED avars
  BY <1>4, AbstractMap DEF avars
<1>5. CASE Loop
  BY <1>4, <1>5, FillStepInv, ResizeStepInv DEF Loop
<1>6. CASE UNCHANGED vars
  BY <1>4, <1>6 DEF vars
<1> QED BY <1>1, <1>2, <1>3, <1>5, <1>6 DEF Next

\* A caller cannot tell the table from a map, for all keys, hashes and sizes:
\* closing gaps and moving the items to another table are not seen.
THEOREM MapImplemented == Spec => ImplementsMap
<1>1. Spec => AInit /\ [][ANext]_avars
  BY InitMap, NextMap, Invariant, PTL DEF Spec
<1> QED BY <1>1 DEF ImplementsMap

=============================================================================
