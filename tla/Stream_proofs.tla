---------------------------- MODULE Stream_proofs ----------------------------
(***************************************************************************)
(* For all ids, groups, consumers and claims and lists of any length: the  *)
(* searches find what a search from the start would, what is pending is    *)
(* that of a group which was given it, nothing is given twice, and a       *)
(* group does not go back (SearchExact, PendingOwned, DeliveredOnce and    *)
(* NeverBack of Stream); and callers see what StreamSpec says              *)
(* (ImplementsStream).                                                     *)
(*                                                                         *)
(* The argument: entries are added by the clock, so the stream is in       *)
(* order, and each round of a search keeps what is below on the left of    *)
(* its window and what is above on the right.  A group has one record, in  *)
(* the list or with the caller who has to repeat its update.  What is      *)
(* pending is not after the last id of its group, so the entry a group is  *)
(* given next, the one the search finds after that id, is pending nowhere  *)
(* in the group, and the group moves on to it.  Callers see the elements   *)
(* of the lists and not their order: a step appends one, replaces one or   *)
(* drops some, and so does what they see.                                  *)
(***************************************************************************)
EXTENDS Stream, SequenceTheorems, FunctionTheorems, FiniteSetTheorems,
        WellFoundedInduction, TLAPS

-----------------------------------------------------------------------------
(* Induction, of sets of numbers. *)

\* A set that has every number whose predecessors it has is that of all.
LEMMA Induction ==
  ASSUME NEW S \in SUBSET Nat,
         \A n \in Nat : (\A m \in 0..(n - 1) : m \in S) => n \in S
  PROVE  S = Nat
<1> DEFINE R == OpToRel(<, Nat)
<1>1. \A x, y \in Nat : y < x => <<y, x>> \in R
  BY DEF OpToRel
<1>2. IsWellFoundedOn(R, Nat)
  BY NatLessThanWellFounded
<1> HIDE DEF R
<1>3. SUFFICES ASSUME Nat \ S # {} PROVE FALSE
  OBVIOUS
<1>4. PICK x \in Nat \ S : \A y \in Nat \ S : ~ (<<y, x>> \in R)
  BY <1>2, <1>3, WFMin
<1>5. \A m \in 0..(x - 1) : m \in S
  <2> TAKE m \in 0..(x - 1)
  <2>1. m \in Nat /\ m < x /\ x \in Nat
    BY <1>4
  <2>2. <<m, x>> \in R
    BY <1>1, <2>1
  <2> QED BY <1>4, <2>1, <2>2
<1> QED BY <1>4, <1>5

-----------------------------------------------------------------------------
(* Ids. *)

\* A text of one number or of two is a number.
LEMMA NumberParts ==
  ASSUME NEW a \in NumberIds
  PROVE  /\ NumberOf(a) \in Nat \X Nat
         /\ IsNumber(a) /\ a # Lowest /\ a # Highest
<1>1. a[1] \in Nat
  BY DEF NumberIds
<1>2. NumberOf(a) \in Nat \X Nat
  <2>1. CASE Len(a) = 1
    BY <1>1, <2>1 DEF NumberOf
  <2>2. CASE Len(a) = 2
    <3> DEFINE b == <<a[1], a[2]>>
    <3>1. a \in Seq(Nat)
      BY DEF NumberIds
    <3>2. a[2] \in Nat
      BY SMTT(30), <2>2, <3>1, ElementOfSeq
    <3>3. b \in Seq(Nat) /\ Len(b) = 2 /\ b[1] = a[1] /\ b[2] = a[2]
      BY <1>1, <3>2
    <3>4. b \in Nat \X Nat
      BY <1>1, <3>2
    <3> HIDE DEF b
    <3>5. a = b
      BY SMTT(30), <2>2, <3>1, <3>3, SeqEqual
    <3> QED BY <2>2, <3>4, <3>5 DEF NumberOf
  <2> QED BY <2>1, <2>2 DEF NumberIds
<1>3. IsNumber(a)
  BY DEF IsNumber, NumberIds, BadId
<1>4. a # Lowest /\ a # Highest
  BY <1>1 DEF Lowest, Highest
<1> QED BY <1>2, <1>3, <1>4

\* So are the ids that entries are given.
LEMMA EntryNumber ==
  ASSUME NEW a \in Nat \X Nat
  PROVE  a \in NumberIds /\ NumberOf(a) = a
<1>1. a = <<a[1], a[2]>> /\ a[1] \in Nat /\ a[2] \in Nat
  OBVIOUS
<1>2. <<a[1], a[2]>> \in Seq(Nat) /\ Len(<<a[1], a[2]>>) = 2
  BY <1>1
<1>3. a \in Seq(Nat) /\ Len(a) = 2
  BY <1>1, <1>2
<1> QED BY <1>3 DEF NumberIds, NumberOf

\* "0", where a group starts at the first entry.
LEMMA ZeroNumber == << 0 >> \in NumberIds
<1>1. << 0 >> \in Seq(Nat) /\ Len(<< 0 >>) = 1
  OBVIOUS
<1> QED BY <1>1 DEF NumberIds

\* "-", "+" and what is no number are not numbers.
LEMMA OthersAreNone == ~ IsNumber(Lowest) /\ ~ IsNumber(Highest) /\ ~ IsNumber(BadId)
  BY DEF IsNumber, Lowest, Highest, BadId

\* The numbers that callers search for.
LEMMA NumbersType == Numbers \subseteq NumberIds
  BY OthersAreNone, SearchesAreTexts DEF Numbers

\* Numbers are in order.
LEMMA Order ==
  ASSUME NEW a \in NumberIds, NEW b \in NumberIds
  PROVE  /\ ~ Before(a, a)
         /\ Before(a, b) => ~ Before(b, a)
         /\ Before(a, b) \/ Before(b, a) \/ NumberOf(a) = NumberOf(b)
         /\ NumberOf(a) = NumberOf(b) => ~ Before(a, b)
<1>1. NumberOf(a) \in Nat \X Nat /\ NumberOf(b) \in Nat \X Nat
  BY NumberParts
<1> QED BY <1>1 DEF Before

\* The order is transitive, also through equal numbers.
LEMMA OrderTransitive ==
  ASSUME NEW a \in NumberIds, NEW b \in NumberIds, NEW c \in NumberIds
  PROVE  /\ Before(a, b) /\ Before(b, c) => Before(a, c)
         /\ Before(a, b) /\ ~ Before(c, b) => Before(a, c)
         /\ ~ Before(b, a) /\ Before(b, c) => Before(a, c)
<1>1. NumberOf(a) \in Nat \X Nat /\ NumberOf(b) \in Nat \X Nat /\ NumberOf(c) \in Nat \X Nat
  BY NumberParts
<1> QED BY <1>1 DEF Before

\* Numbers that are equal are before and behind the same ones.
LEMMA OrderEqual ==
  ASSUME NEW a \in NumberIds, NEW b \in NumberIds, NEW c \in NumberIds,
         NumberOf(a) = NumberOf(b)
  PROVE  (Before(a, c) <=> Before(b, c)) /\ (Before(c, a) <=> Before(c, b))
  BY DEF Before

\* compare() is this order.
LEMMA CompareIs ==
  ASSUME NEW a \in NumberIds, NEW b \in NumberIds
  PROVE  LET c == Compare(NumberOf(a), NumberOf(b))
         IN  /\ c \in {-1, 0, 1}
             /\ c = 0 <=> NumberOf(a) = NumberOf(b)
             /\ c = 1 <=> Before(b, a)
             /\ c = -1 <=> Before(a, b)
<1>1. NumberOf(a) \in Nat \X Nat /\ NumberOf(b) \in Nat \X Nat
  BY NumberParts
<1> QED BY <1>1 DEF Before, Compare

-----------------------------------------------------------------------------
(* Searches. *)

Sorted(s) == /\ s \in Seq(Nat \X Nat)
             /\ \A i, k \in 1..Len(s) : i < k => Before(s[i], s[k])

\* What is before pos is smaller than id, what is size entries on is larger.
Within(lst, id, pos, size) ==
  /\ \A i \in 1..pos : Before(lst[i], id)
  /\ \A i \in (pos + size + 1)..Len(lst) : Before(id, lst[i])

\* The first r entries are those before id; with gt, those up to it.
Divides(lst, id, gt, r) ==
  /\ r \in 0..Len(lst)
  /\ \A i \in 1..Len(lst) :
       i <= r <=> IF gt THEN ~ Before(id, lst[i]) ELSE Before(lst[i], id)

\* The rounds of bsearch_str() and of bsearch_eq() with size entries left.
StrRound(lst, id, gt, f, size) ==
  [pos \in 0..(Len(lst) - size) |->
     IF size = 0 THEN pos
     ELSE LET piv == size \div 2
          IN  CASE CompareAt(lst, NumberOf(id), pos + piv) = 0 ->
                     pos + piv + (IF gt THEN 1 ELSE 0)
                [] CompareAt(lst, NumberOf(id), pos + piv) = 1 ->
                     f[size - (piv + 1)][pos + piv + 1]
                [] OTHER -> f[piv][pos]]

EqRound(lst, id, f, size) ==
  [pos \in 0..(Len(lst) - size) |->
     LET piv == size \div 2
     IN  IF pos + piv >= Len(lst) THEN -1
         ELSE IF CompareAt(lst, NumberOf(id), pos + piv) = 0 THEN pos + piv
         ELSE IF size = 0 THEN -1
         ELSE IF CompareAt(lst, NumberOf(id), pos + piv) = 1
              THEN f[size - (piv + 1)][pos + piv + 1]
         ELSE f[piv][pos]]

\* A half of what is left is less.
LEMMA Halves ==
  ASSUME NEW size \in Nat \ {0}
  PROVE  /\ size \div 2 \in 0..(size - 1)
         /\ size - ((size \div 2) + 1) \in 0..(size - 1)
  BY SMT

\* The rounds of bsearch_str() are those of a function of the size.
LEMMA StrRoundsEnd ==
  ASSUME NEW lst, NEW id, NEW gt, NEW N \in Nat
  PROVE  \E f : f = [size \in 0..N |-> StrRound(lst, id, gt, f, size)]
<1> DEFINE F(n, f) == f = [size \in 0..(n - 1) |-> StrRound(lst, id, gt, f, size)]
           S == {n \in Nat : \E f : F(n, f)}
<1>1. ASSUME NEW n \in Nat, \A m \in 0..(n - 1) : m \in S
      PROVE  n \in S
  <2>1. CASE n = 0
    <3>1. F(0, [size \in 0..(0 - 1) |-> 0])
      OBVIOUS
    <3> QED BY <2>1, <3>1
  <2>2. CASE n # 0
    <3>1. n - 1 \in 0..(n - 1)
      BY <2>2
    <3>2. n - 1 \in S
      BY <1>1, <3>1
    <3>3. PICK f : F(n - 1, f)
      BY <3>2
    <3> DEFINE g == [size \in 0..(n - 1) |->
                       IF size < n - 1 THEN f[size] ELSE StrRound(lst, id, gt, f, size)]
    <3>4. \A size \in 0..(n - 2) : g[size] = f[size] /\ f[size] = StrRound(lst, id, gt, f, size)
      BY <3>3
    <3>5. \A size \in 0..(n - 1) : StrRound(lst, id, gt, f, size) = StrRound(lst, id, gt, g, size)
      <4> TAKE size \in 0..(n - 1)
      <4>1. size # 0 => /\ g[size \div 2] = f[size \div 2]
                        /\ g[size - ((size \div 2) + 1)] = f[size - ((size \div 2) + 1)]
        <5> HIDE DEF g
        <5> QED BY <3>4, Halves
      <4> HIDE DEF g
      <4> QED BY <4>1 DEF StrRound
    <3>6. \A size \in 0..(n - 1) : g[size] = StrRound(lst, id, gt, g, size)
      <4> TAKE size \in 0..(n - 1)
      <4>1. CASE size < n - 1
        <5>1. size \in 0..(n - 2)
          BY <4>1
        <5> HIDE DEF g
        <5> QED BY <3>4, <3>5, <5>1
      <4>2. CASE ~ (size < n - 1)
        <5>1. g[size] = StrRound(lst, id, gt, f, size)
          BY <4>2
        <5> HIDE DEF g
        <5> QED BY <3>5, <5>1
      <4> QED BY <4>1, <4>2
    <3>7. F(n, g)
      BY <3>6
    <3> QED BY <3>7
  <2> QED BY <2>1, <2>2
<1>2. S = Nat
  <2> HIDE DEF S
  <2>1. S \in SUBSET Nat
    BY DEF S
  <2> QED BY <1>1, <2>1, Induction
<1>3. N + 1 \in S
  <2> HIDE DEF S
  <2> QED BY <1>2
<1>4. PICK f : F(N + 1, f)
  BY <1>3
<1>5. N + 1 - 1 = N
  OBVIOUS
<1> QED BY <1>4, <1>5

\* The rounds of bsearch_eq() are those of a function of the size.
LEMMA EqRoundsEnd ==
  ASSUME NEW lst, NEW id, NEW N \in Nat
  PROVE  \E f : f = [size \in 0..N |-> EqRound(lst, id, f, size)]
<1> DEFINE F(n, f) == f = [size \in 0..(n - 1) |-> EqRound(lst, id, f, size)]
           S == {n \in Nat : \E f : F(n, f)}
<1>1. ASSUME NEW n \in Nat, \A m \in 0..(n - 1) : m \in S
      PROVE  n \in S
  <2>1. CASE n = 0
    <3>1. F(0, [size \in 0..(0 - 1) |-> 0])
      OBVIOUS
    <3> QED BY <2>1, <3>1
  <2>2. CASE n # 0
    <3>1. n - 1 \in 0..(n - 1)
      BY <2>2
    <3>2. n - 1 \in S
      BY <1>1, <3>1
    <3>3. PICK f : F(n - 1, f)
      BY <3>2
    <3> DEFINE g == [size \in 0..(n - 1) |->
                       IF size < n - 1 THEN f[size] ELSE EqRound(lst, id, f, size)]
    <3>4. \A size \in 0..(n - 2) : g[size] = f[size] /\ f[size] = EqRound(lst, id, f, size)
      BY <3>3
    <3>5. \A size \in 0..(n - 1) : EqRound(lst, id, f, size) = EqRound(lst, id, g, size)
      <4> TAKE size \in 0..(n - 1)
      <4>1. size # 0 => /\ g[size \div 2] = f[size \div 2]
                        /\ g[size - ((size \div 2) + 1)] = f[size - ((size \div 2) + 1)]
        <5> HIDE DEF g
        <5> QED BY <3>4, Halves
      <4> HIDE DEF g
      <4> QED BY <4>1 DEF EqRound
    <3>6. \A size \in 0..(n - 1) : g[size] = EqRound(lst, id, g, size)
      <4> TAKE size \in 0..(n - 1)
      <4>1. CASE size < n - 1
        <5>1. size \in 0..(n - 2)
          BY <4>1
        <5> HIDE DEF g
        <5> QED BY <3>4, <3>5, <5>1
      <4>2. CASE ~ (size < n - 1)
        <5>1. g[size] = EqRound(lst, id, f, size)
          BY <4>2
        <5> HIDE DEF g
        <5> QED BY <3>5, <5>1
      <4> QED BY <4>1, <4>2
    <3>7. F(n, g)
      BY <3>6
    <3> QED BY <3>7
  <2> QED BY <2>1, <2>2
<1>2. S = Nat
  <2> HIDE DEF S
  <2>1. S \in SUBSET Nat
    BY DEF S
  <2> QED BY <1>1, <2>1, Induction
<1>3. N + 1 \in S
  <2> HIDE DEF S
  <2> QED BY <1>2
<1>4. PICK f : F(N + 1, f)
  BY <1>3
<1>5. N + 1 - 1 = N
  OBVIOUS
<1> QED BY <1>4, <1>5

\* What an entry says of the entries beside it.
LEMMA Beside ==
  ASSUME NEW lst, Sorted(lst), NEW id \in NumberIds, NEW m \in 1..Len(lst)
  PROVE  /\ lst[m] \in Nat \X Nat /\ lst[m] \in NumberIds
         /\ NumberOf(id) = NumberOf(lst[m]) =>
              /\ ~ Before(id, lst[m]) /\ ~ Before(lst[m], id)
              /\ \A i \in 1..Len(lst) : (i < m => Before(lst[i], id)) /\ (m < i => Before(id, lst[i]))
         /\ Before(lst[m], id) => \A i \in 1..m : Before(lst[i], id)
         /\ Before(id, lst[m]) => \A i \in m..Len(lst) : Before(id, lst[i])
<1>1. lst \in Seq(Nat \X Nat) /\ Len(lst) \in Nat
  BY DEF Sorted
<1>2. \A i \in 1..Len(lst) : lst[i] \in Nat \X Nat /\ lst[i] \in NumberIds
  BY <1>1, ElementOfSeq, EntryNumber
<1>3. \A i, k \in 1..Len(lst) : i < k => Before(lst[i], lst[k])
  BY DEF Sorted
<1>4. ASSUME NumberOf(id) = NumberOf(lst[m])
      PROVE  /\ ~ Before(id, lst[m]) /\ ~ Before(lst[m], id)
             /\ \A i \in 1..Len(lst) : (i < m => Before(lst[i], id)) /\ (m < i => Before(id, lst[i]))
  <2>1. ~ Before(id, lst[m]) /\ ~ Before(lst[m], id)
    BY <1>2, <1>4, Order
  <2>2. \A i \in 1..Len(lst) : (i < m => Before(lst[i], id)) /\ (m < i => Before(id, lst[i]))
    BY <1>2, <1>3, <1>4, OrderEqual
  <2> QED BY <2>1, <2>2
<1>5. ASSUME Before(lst[m], id)
      PROVE  \A i \in 1..m : Before(lst[i], id)
  <2> TAKE i \in 1..m
  <2>1. i \in 1..Len(lst) /\ (i = m \/ Before(lst[i], lst[m]))
    BY <1>1, <1>3
  <2> QED BY <1>2, <1>5, <2>1, OrderTransitive
<1>6. ASSUME Before(id, lst[m])
      PROVE  \A i \in m..Len(lst) : Before(id, lst[i])
  <2> TAKE i \in m..Len(lst)
  <2>1. i \in 1..Len(lst) /\ (i = m \/ Before(lst[m], lst[i]))
    BY <1>1, <1>3
  <2> QED BY <1>2, <1>6, <2>1, OrderTransitive
<1> QED BY <1>2, <1>4, <1>5, <1>6

\* An entry is smaller, equal or larger than what is searched for, and
\* what remains to be searched lies between its bounds again.
LEMMA Narrows ==
  ASSUME NEW lst, Sorted(lst), NEW id \in NumberIds,
         NEW size \in Nat, NEW pos \in Nat, pos + size <= Len(lst), Within(lst, id, pos, size),
         NEW piv \in 0..(size - 1)
  PROVE  LET c == CompareAt(lst, NumberOf(id), pos + piv)
         IN  /\ c \in {-1, 0, 1}
             /\ c = 0 <=> NumberOf(id) = NumberOf(lst[pos + piv + 1])
             /\ c = 1 => Within(lst, id, pos + piv + 1, size - (piv + 1))
             /\ c = -1 => Within(lst, id, pos, piv)
<1> DEFINE m == pos + piv + 1
<1>1. m \in 1..Len(lst) /\ Len(lst) \in Nat
  BY DEF Sorted
<1> HIDE DEF m
<1>2. lst[m] \in NumberIds
  BY <1>1, Beside
<1>3. CompareAt(lst, NumberOf(id), pos + piv) = Compare(NumberOf(id), NumberOf(lst[m]))
  BY DEF CompareAt, m
<1>4. ASSUME Before(lst[m], id)
      PROVE  Within(lst, id, pos + piv + 1, size - (piv + 1))
  <2>1. \A i \in 1..m : Before(lst[i], id)
    BY <1>1, <1>4, Beside
  <2>2. pos + piv + 1 + (size - (piv + 1)) + 1 = pos + size + 1
    OBVIOUS
  <2> QED BY <2>1, <2>2 DEF Within, m
<1>5. ASSUME Before(id, lst[m])
      PROVE  Within(lst, id, pos, piv)
  <2>1. \A i \in m..Len(lst) : Before(id, lst[i])
    BY <1>1, <1>5, Beside
  <2> QED BY <2>1 DEF Within, m
<1>6. LET c == Compare(NumberOf(id), NumberOf(lst[m]))
      IN  /\ c \in {-1, 0, 1}
          /\ c = 0 <=> NumberOf(id) = NumberOf(lst[m])
          /\ c = 1 <=> Before(lst[m], id)
          /\ c = -1 <=> Before(id, lst[m])
  BY <1>2, CompareIs
<1> QED BY <1>3, <1>4, <1>5, <1>6 DEF m

\* bsearch_str() divides a list in order.
LEMMA StrRoundsRight ==
  ASSUME NEW lst, Sorted(lst), NEW id \in NumberIds, NEW gt \in BOOLEAN,
         NEW f, f = [size \in 0..Len(lst) |-> StrRound(lst, id, gt, f, size)]
  PROVE  \A size \in 0..Len(lst) : \A pos \in 0..(Len(lst) - size) :
           Within(lst, id, pos, size) => Divides(lst, id, gt, f[size][pos])
<1> DEFINE Right(size) == \A pos \in 0..(Len(lst) - size) :
                            Within(lst, id, pos, size) => Divides(lst, id, gt, f[size][pos])
           S == {size \in Nat : size <= Len(lst) => Right(size)}
<1>1. Len(lst) \in Nat
  BY DEF Sorted
<1>2. ASSUME NEW size \in Nat, \A n \in 0..(size - 1) : n \in S, size <= Len(lst),
             NEW pos \in 0..(Len(lst) - size), Within(lst, id, pos, size)
      PROVE  Divides(lst, id, gt, f[size][pos])
  <2>1. f[size] = StrRound(lst, id, gt, f, size)
    BY <1>1, <1>2
  <2>2. CASE size = 0
    <3>1. f[size][pos] = pos
      BY <2>1, <2>2 DEF StrRound
    <3>2. \A i \in 1..Len(lst) : lst[i] \in NumberIds
      BY Beside
    <3>3. \A i \in 1..Len(lst) : /\ i <= pos => Before(lst[i], id) /\ ~ Before(id, lst[i])
                                 /\ ~ (i <= pos) => Before(id, lst[i]) /\ ~ Before(lst[i], id)
      <4> TAKE i \in 1..Len(lst)
      <4>1. i <= pos => Before(lst[i], id)
        BY <1>2 DEF Within
      <4>2. ~ (i <= pos) => Before(id, lst[i])
        BY <1>2, <2>2 DEF Within
      <4> QED BY <3>2, <4>1, <4>2, Order
    <3> QED BY <1>1, <2>2, <3>1, <3>3 DEF Divides
  <2>3. CASE size # 0
    <3> DEFINE piv == size \div 2
               m == pos + piv + 1
    <3>1. piv \in 0..(size - 1) /\ size - (piv + 1) \in 0..(size - 1)
      BY <2>3, Halves
    <3>2. f[size][pos] = CASE CompareAt(lst, NumberOf(id), pos + piv) = 0 ->
                                pos + piv + (IF gt THEN 1 ELSE 0)
                           [] CompareAt(lst, NumberOf(id), pos + piv) = 1 ->
                                f[size - (piv + 1)][pos + piv + 1]
                           [] OTHER -> f[piv][pos]
      BY <2>1, <2>3 DEF StrRound
    <3> HIDE DEF piv
    <3>3. m \in 1..Len(lst) /\ pos + size <= Len(lst) /\ pos \in Nat
      BY <1>1, <1>2, <3>1
    <3>4. LET c == CompareAt(lst, NumberOf(id), pos + piv)
          IN  /\ c \in {-1, 0, 1}
              /\ c = 0 <=> NumberOf(id) = NumberOf(lst[m])
              /\ c = 1 => Within(lst, id, pos + piv + 1, size - (piv + 1))
              /\ c = -1 => Within(lst, id, pos, piv)
      BY <1>2, <3>1, <3>3, Narrows
    <3>5. CASE CompareAt(lst, NumberOf(id), pos + piv) = 0
      <4>1. f[size][pos] = pos + piv + (IF gt THEN 1 ELSE 0)
        BY <3>2, <3>5
      <4>2. /\ ~ Before(id, lst[m]) /\ ~ Before(lst[m], id)
            /\ \A i \in 1..Len(lst) : (i < m => Before(lst[i], id)) /\ (m < i => Before(id, lst[i]))
        BY <3>3, <3>4, <3>5, Beside
      <4>3. \A i \in 1..Len(lst) : lst[i] \in NumberIds
        BY Beside
      <4>4. \A i \in 1..Len(lst) : /\ i < m => Before(lst[i], id) /\ ~ Before(id, lst[i])
                                   /\ m < i => Before(id, lst[i]) /\ ~ Before(lst[i], id)
        BY <4>2, <4>3, Order
      <4> QED BY <1>1, <3>1, <3>3, <4>1, <4>2, <4>4 DEF Divides
    <3>6. CASE CompareAt(lst, NumberOf(id), pos + piv) = 1
      <4>1. f[size][pos] = f[size - (piv + 1)][pos + piv + 1]
        BY <3>2, <3>6
      <4>2. Right(size - (piv + 1))
        <5>1. size - (piv + 1) \in S
          BY <1>2, <3>1
        <5>2. size - (piv + 1) <= Len(lst)
          BY <1>1, <1>2, <3>1
        <5> HIDE DEF Right
        <5> QED BY <5>1, <5>2
      <4>3. pos + piv + 1 \in 0..(Len(lst) - (size - (piv + 1)))
        BY <1>1, <1>2, <3>1
      <4> QED BY <3>4, <3>6, <4>1, <4>2, <4>3
    <3>7. CASE CompareAt(lst, NumberOf(id), pos + piv) = -1
      <4>1. f[size][pos] = f[piv][pos]
        BY <3>2, <3>7
      <4>2. Right(piv)
        <5>1. piv \in S
          BY <1>2, <3>1
        <5>2. piv <= Len(lst)
          BY <1>1, <1>2, <3>1
        <5> HIDE DEF Right
        <5> QED BY <5>1, <5>2
      <4>3. pos \in 0..(Len(lst) - piv)
        BY <1>1, <1>2, <3>1
      <4> QED BY <3>4, <3>7, <4>1, <4>2, <4>3
    <3> QED BY <3>4, <3>5, <3>6, <3>7
  <2> QED BY <2>2, <2>3
<1>3. S = Nat
  <2>1. \A size \in Nat : (\A n \in 0..(size - 1) : n \in S) => size \in S
    BY <1>2
  <2>2. S \in SUBSET Nat
    OBVIOUS
  <2> HIDE DEF S
  <2> QED BY <2>1, <2>2, Induction
<1>4. \A size \in 0..Len(lst) : size \in Nat /\ size <= Len(lst)
  BY <1>1
<1> QED BY <1>3, <1>4

\* Where bsearch_str() says that id is or would be.
LEMMA BSearchStrRight ==
  ASSUME NEW lst, Sorted(lst), NEW id \in NumberIds, NEW gt \in BOOLEAN
  PROVE  Divides(lst, id, gt, BSearchStr(lst, id, gt))
<1> DEFINE f == CHOOSE f : f = [size \in 0..Len(lst) |-> StrRound(lst, id, gt, f, size)]
<1>1. Len(lst) \in Nat
  BY DEF Sorted
<1>2. f = [size \in 0..Len(lst) |-> StrRound(lst, id, gt, f, size)]
  <2>1. \E g : g = [size \in 0..Len(lst) |-> StrRound(lst, id, gt, g, size)]
    BY <1>1, StrRoundsEnd
  <2> QED BY <2>1, Zenon
<1>3. CASE lst = <<>>
  <2>1. BSearchStr(lst, id, gt) = 0 /\ Len(lst) = 0
    BY <1>3 DEF BSearchStr
  <2> QED BY <2>1 DEF Divides
<1>4. CASE lst # <<>>
  <2>1. IsNumber(id) /\ id # Lowest /\ id # Highest
    BY NumberParts
  <2>2. BSearchStr(lst, id, gt) = f[Len(lst)][0]
    BY <1>4, <2>1 DEF BSearchStr, StrRound
  <2> HIDE DEF f
  <2>3. Within(lst, id, 0, Len(lst))
    BY <1>1 DEF Within
  <2>4. Len(lst) \in 0..Len(lst) /\ 0 \in 0..(Len(lst) - Len(lst))
    BY <1>1
  <2> QED BY <1>2, <2>2, <2>3, <2>4, StrRoundsRight
<1> QED BY <1>3, <1>4

\* A place with the number id, or none if there is no such place.
PlaceOf(lst, id, r) ==
  \/ r = -1 /\ \A i \in 1..Len(lst) : NumberOf(lst[i]) # NumberOf(id)
  \/ r \in 0..(Len(lst) - 1) /\ NumberOf(lst[r + 1]) = NumberOf(id)

\* bsearch_eq() finds what a list in order has.
LEMMA EqRoundsRight ==
  ASSUME NEW lst, Sorted(lst), NEW id \in NumberIds,
         NEW f, f = [size \in 0..Len(lst) |-> EqRound(lst, id, f, size)]
  PROVE  \A size \in 0..Len(lst) : \A pos \in 0..(Len(lst) - size) :
           Within(lst, id, pos, size) => PlaceOf(lst, id, f[size][pos])
<1> DEFINE Right(size) == \A pos \in 0..(Len(lst) - size) :
                            Within(lst, id, pos, size) => PlaceOf(lst, id, f[size][pos])
           S == {size \in Nat : size <= Len(lst) => Right(size)}
<1>1. Len(lst) \in Nat
  BY DEF Sorted
<1>2. ASSUME NEW size \in Nat, \A n \in 0..(size - 1) : n \in S, size <= Len(lst),
             NEW pos \in 0..(Len(lst) - size), Within(lst, id, pos, size)
      PROVE  PlaceOf(lst, id, f[size][pos])
  <2>1. f[size] = EqRound(lst, id, f, size)
    BY <1>1, <1>2
  <2> DEFINE piv == size \div 2
             m == pos + piv + 1
  <2>2. f[size][pos] =
          IF pos + piv >= Len(lst) THEN -1
          ELSE IF CompareAt(lst, NumberOf(id), pos + piv) = 0 THEN pos + piv
          ELSE IF size = 0 THEN -1
          ELSE IF CompareAt(lst, NumberOf(id), pos + piv) = 1
               THEN f[size - (piv + 1)][pos + piv + 1]
          ELSE f[piv][pos]
    BY <2>1 DEF EqRound
  <2>3. /\ size # 0 => piv \in 0..(size - 1) /\ size - (piv + 1) \in 0..(size - 1)
        /\ size = 0 => piv = 0
    BY Halves
  <2> HIDE DEF piv
  <2>4. CASE size = 0
    <3>1. \A i \in 1..Len(lst) : lst[i] \in NumberIds
      BY Beside
    <3>2. \A i \in 1..Len(lst) : NumberOf(lst[i]) # NumberOf(id)
      <4> TAKE i \in 1..Len(lst)
      <4>1. Before(lst[i], id) \/ Before(id, lst[i])
        BY <1>1, <1>2, <2>4 DEF Within
      <4> QED BY <3>1, <4>1, Order
    <3>3. f[size][pos] = -1 \/ (pos < Len(lst) /\ f[size][pos] = pos
                               /\ CompareAt(lst, NumberOf(id), pos) = 0)
      BY <1>1, <2>2, <2>3, <2>4
    <3>4. ~ (pos < Len(lst) /\ CompareAt(lst, NumberOf(id), pos) = 0)
      <4>1. SUFFICES ASSUME pos < Len(lst) PROVE CompareAt(lst, NumberOf(id), pos) # 0
        OBVIOUS
      <4>2. pos + 1 \in 1..Len(lst)
        BY <1>1, <4>1
      <4> QED BY <3>1, <3>2, <4>2, CompareIs DEF CompareAt
    <3> QED BY <3>2, <3>3, <3>4 DEF PlaceOf
  <2>5. CASE size # 0
    <3>1. piv \in 0..(size - 1) /\ size - (piv + 1) \in 0..(size - 1)
      BY <2>3, <2>5
    <3>2. m \in 1..Len(lst) /\ pos + size <= Len(lst) /\ pos \in Nat /\ ~ (pos + piv >= Len(lst))
      BY <1>1, <1>2, <3>1
    <3>3. LET c == CompareAt(lst, NumberOf(id), pos + piv)
          IN  /\ c \in {-1, 0, 1}
              /\ c = 0 <=> NumberOf(id) = NumberOf(lst[m])
              /\ c = 1 => Within(lst, id, pos + piv + 1, size - (piv + 1))
              /\ c = -1 => Within(lst, id, pos, piv)
      BY <1>2, <3>1, <3>2, Narrows
    <3>4. CASE CompareAt(lst, NumberOf(id), pos + piv) = 0
      <4>1. f[size][pos] = pos + piv /\ pos + piv \in 0..(Len(lst) - 1)
        BY <1>1, <2>2, <3>1, <3>2, <3>4
      <4>2. NumberOf(lst[pos + piv + 1]) = NumberOf(id)
        BY <3>3, <3>4
      <4> QED BY <4>1, <4>2 DEF PlaceOf
    <3>5. CASE CompareAt(lst, NumberOf(id), pos + piv) = 1
      <4>1. f[size][pos] = f[size - (piv + 1)][pos + piv + 1]
        BY <2>2, <2>5, <3>2, <3>5
      <4>2. Right(size - (piv + 1))
        <5>1. size - (piv + 1) \in S
          BY <1>2, <3>1
        <5>2. size - (piv + 1) <= Len(lst)
          BY <1>1, <1>2, <3>1
        <5> HIDE DEF Right
        <5> QED BY <5>1, <5>2
      <4>3. pos + piv + 1 \in 0..(Len(lst) - (size - (piv + 1)))
        BY <1>1, <1>2, <3>1
      <4> QED BY <3>3, <3>5, <4>1, <4>2, <4>3
    <3>6. CASE CompareAt(lst, NumberOf(id), pos + piv) = -1
      <4>1. f[size][pos] = f[piv][pos]
        BY <2>2, <2>5, <3>2, <3>6
      <4>2. Right(piv)
        <5>1. piv \in S
          BY <1>2, <3>1
        <5>2. piv <= Len(lst)
          BY <1>1, <1>2, <3>1
        <5> HIDE DEF Right
        <5> QED BY <5>1, <5>2
      <4>3. pos \in 0..(Len(lst) - piv)
        BY <1>1, <1>2, <3>1
      <4> QED BY <3>3, <3>6, <4>1, <4>2, <4>3
    <3> QED BY <3>3, <3>4, <3>5, <3>6
  <2> QED BY <2>4, <2>5
<1>3. S = Nat
  <2>1. \A size \in Nat : (\A n \in 0..(size - 1) : n \in S) => size \in S
    BY <1>2
  <2>2. S \in SUBSET Nat
    OBVIOUS
  <2> HIDE DEF S
  <2> QED BY <2>1, <2>2, Induction
<1>4. \A size \in 0..Len(lst) : size \in Nat /\ size <= Len(lst)
  BY <1>1
<1> QED BY <1>3, <1>4

\* So does a search that starts with the whole list.
LEMMA BSearchEqRight ==
  ASSUME NEW lst, Sorted(lst), NEW id \in NumberIds
  PROVE  PlaceOf(lst, id, BSearchEq(lst, id))
<1> DEFINE f == CHOOSE f : f = [size \in 0..Len(lst) |-> EqRound(lst, id, f, size)]
<1>1. Len(lst) \in Nat
  BY DEF Sorted
<1>2. f = [size \in 0..Len(lst) |-> EqRound(lst, id, f, size)]
  <2>1. \E g : g = [size \in 0..Len(lst) |-> EqRound(lst, id, g, size)]
    BY <1>1, EqRoundsEnd
  <2> QED BY <2>1, Zenon
<1>3. CASE lst = <<>>
  <2>1. BSearchEq(lst, id) = -1 /\ Len(lst) = 0
    BY <1>3 DEF BSearchEq
  <2> QED BY <2>1 DEF PlaceOf
<1>4. CASE lst # <<>>
  <2>1. IsNumber(id) /\ id # Lowest /\ id # Highest
    BY NumberParts
  <2>2. BSearchEq(lst, id) = f[Len(lst)][0]
    <3>1. BSearchEq(lst, id) = IF lst = <<>> THEN -1
                               ELSE CASE id = Lowest  -> 0
                                      [] id = Highest -> Len(lst) - 1
                                      [] IsNumber(id) -> f[Len(lst)][0]
                                      [] OTHER        -> -1
      BY Zenon DEF BSearchEq, EqRound
    <3> HIDE DEF f
    <3> QED BY <1>4, <2>1, <3>1
  <2> HIDE DEF f
  <2>3. Within(lst, id, 0, Len(lst))
    BY <1>1 DEF Within
  <2>4. Len(lst) \in 0..Len(lst) /\ 0 \in 0..(Len(lst) - Len(lst))
    BY <1>1
  <2> QED BY <1>2, <2>2, <2>3, <2>4, EqRoundsRight
<1> QED BY <1>3, <1>4

\* The largest of the first r numbers.
LEMMA LargestIs ==
  ASSUME NEW L \in Nat, NEW r \in 0..L, NEW S, S = {i \in 1..L : i <= r}
  PROVE  (IF S = {} THEN 0 ELSE CHOOSE n \in S : \A k \in S : k <= n) = r
<1>1. CASE r = 0
  BY <1>1
<1>2. CASE r # 0
  <2>1. r \in S /\ \A k \in S : k <= r
    BY <1>2
  <2>2. \A n \in S : (\A k \in S : k <= n) => n = r
    BY <2>1
  <2>3. (CHOOSE n \in S : \A k \in S : k <= n) = r
    BY <2>1, <2>2
  <2> QED BY <2>1, <2>3
<1> QED BY <1>1, <1>2

\* In a stream in order the positions found are those of a search from the start.
LEMMA SortedExact ==
  ASSUME Sorted(stream)
  PROVE  SearchExact
<1>1. stream \in Seq(Nat \X Nat) /\ Len(stream) \in Nat /\ DOMAIN stream = 1..Len(stream)
  BY DEF Sorted
<1>2. ASSUME NEW id \in Numbers
      PROVE  LET less == {i \in DOMAIN stream : Before(stream[i], id)}
                 same == {i \in DOMAIN stream : NumberOf(stream[i]) = NumberOf(id)}
                 N(s) == IF s = {} THEN 0 ELSE CHOOSE n \in s : \A k \in s : k <= n
             IN  /\ BSearchStr(stream, id, FALSE) = N(less)
                 /\ BSearchStr(stream, id, TRUE) = N(less \cup same)
                 /\ BSearchEq(stream, id) = IF same = {} THEN -1 ELSE N(same) - 1
  <2> DEFINE less == {i \in DOMAIN stream : Before(stream[i], id)}
             same == {i \in DOMAIN stream : NumberOf(stream[i]) = NumberOf(id)}
             N(s) == IF s = {} THEN 0 ELSE CHOOSE n \in s : \A k \in s : k <= n
             a == BSearchStr(stream, id, FALSE)
             b == BSearchStr(stream, id, TRUE)
             e == BSearchEq(stream, id)
  <2>1. id \in NumberIds
    BY NumbersType
  <2>2. Divides(stream, id, FALSE, a) /\ Divides(stream, id, TRUE, b) /\ PlaceOf(stream, id, e)
    BY <2>1, BSearchStrRight, BSearchEqRight
  <2> HIDE DEF a, b, e
  <2>3. less = {i \in 1..Len(stream) : i <= a}
    BY <1>1, <2>2 DEF Divides
  <2>4. less \cup same = {i \in 1..Len(stream) : i <= b}
    <3>1. \A i \in 1..Len(stream) : (i \in less \/ i \in same) <=> ~ Before(id, stream[i])
      <4> TAKE i \in 1..Len(stream)
      <4>1. stream[i] \in NumberIds
        BY Beside, <2>1
      <4>2. /\ Before(stream[i], id) => ~ Before(id, stream[i])
            /\ Before(stream[i], id) \/ Before(id, stream[i]) \/ NumberOf(stream[i]) = NumberOf(id)
            /\ NumberOf(stream[i]) = NumberOf(id) => ~ Before(id, stream[i])
        BY <2>1, <4>1, Order
      <4>3. /\ i \in less <=> Before(stream[i], id)
            /\ i \in same <=> NumberOf(stream[i]) = NumberOf(id)
        BY <1>1
      <4> QED BY <4>2, <4>3
    <3>2. \A i \in 1..Len(stream) : i <= b <=> ~ Before(id, stream[i])
      BY <2>2 DEF Divides
    <3> QED BY <1>1, <3>1, <3>2
  <2>5. N(less) = a
    <3>1. a \in 0..Len(stream)
      BY <2>2 DEF Divides
    <3> HIDE DEF less
    <3> QED BY SMTT(30), <1>1, <2>3, <3>1, LargestIs
  <2>6. N(less \cup same) = b
    <3>1. b \in 0..Len(stream)
      BY <2>2 DEF Divides
    <3> HIDE DEF less, same
    <3> QED BY <1>1, <2>4, <3>1, LargestIs
  <2>7. e = IF same = {} THEN -1 ELSE N(same) - 1
    <3>1. CASE e = -1
      <4>1. same = {}
        BY <1>1, <2>2, <3>1 DEF PlaceOf
      <4> HIDE DEF N, same
      <4> QED BY <3>1, <4>1
    <3>2. CASE e # -1
      <4>1. e \in Int /\ e + 1 \in 1..Len(stream) /\ NumberOf(stream[e + 1]) = NumberOf(id)
        BY <1>1, <2>2, <3>2 DEF PlaceOf
      <4>2. same = {e + 1}
        <5>1. \A i \in 1..Len(stream) : i # e + 1 => Before(stream[i], id) \/ Before(id, stream[i])
          <6>1. e + 1 \in 1..Len(stream) /\ NumberOf(id) = NumberOf(stream[e + 1])
            BY <4>1
          <6>2. \A i \in 1..Len(stream) : /\ i < e + 1 => Before(stream[i], id)
                                          /\ e + 1 < i => Before(id, stream[i])
            BY <2>1, <6>1, Beside
          <6> QED BY <1>1, <6>1, <6>2
        <5>2. \A i \in 1..Len(stream) : i # e + 1 => NumberOf(stream[i]) # NumberOf(id)
          BY <2>1, <5>1, Beside, Order
        <5> QED BY <1>1, <4>1, <5>2
      <4>3. N({e + 1}) = e + 1
        BY <4>1
      <4>4. same # {}
        BY <4>2
      <4> HIDE DEF same, N
      <4> QED BY <4>1, <4>2, <4>3, <4>4
    <3> QED BY <3>1, <3>2
  <2> QED BY <2>5, <2>6, <2>7 DEF a, b, e
<1> QED BY <1>2 DEF SearchExact

-----------------------------------------------------------------------------
(* Lists. *)

\* A list without the element after the first pos.
LEMMA WithoutIs ==
  ASSUME NEW T, NEW s \in Seq(T), NEW pos \in 0..(Len(s) - 1)
  PROVE  /\ Without(s, pos) \in Seq(T)
         /\ Len(Without(s, pos)) = Len(s) - 1
         /\ \A i \in 1..(Len(s) - 1) :
              Without(s, pos)[i] = IF i <= pos THEN s[i] ELSE s[i + 1]
<1> DEFINE a == SubSeq(s, 1, pos)
           b == SubSeq(s, pos + 2, Len(s))
<1>1. Len(s) \in Nat /\ pos \in Nat /\ pos < Len(s)
  OBVIOUS
<1>2. \A i \in 1..Len(s) : s[i] \in T
  BY ElementOfSeq
<1>3. a \in Seq(T) /\ Len(a) = pos /\ \A i \in 1..pos : a[i] = s[i]
  BY <1>1, <1>2
<1>4. b \in Seq(T) /\ Len(b) = Len(s) - pos - 1
      /\ \A i \in 1..(Len(s) - pos - 1) : b[i] = s[pos + 1 + i]
  BY <1>1, <1>2
<1> HIDE DEF a, b
<1>5. /\ a \o b \in Seq(T)
      /\ Len(a \o b) = Len(s) - 1
      /\ \A i \in 1..(Len(s) - 1) : (a \o b)[i] = IF i <= pos THEN a[i] ELSE b[i - pos]
  <2>1. /\ a \o b \in Seq(T)
        /\ Len(a \o b) = Len(a) + Len(b)
        /\ \A i \in 1..(Len(a) + Len(b)) : (a \o b)[i] = IF i <= Len(a) THEN a[i] ELSE b[i - Len(a)]
    BY <1>3, <1>4, ConcatProperties
  <2>2. Len(a) + Len(b) = Len(s) - 1
    BY <1>1, <1>3, <1>4
  <2> QED BY <1>3, <2>1, <2>2
<1>6. \A i \in 1..(Len(s) - 1) : (a \o b)[i] = IF i <= pos THEN s[i] ELSE s[i + 1]
  <2> TAKE i \in 1..(Len(s) - 1)
  <2>1. CASE i <= pos
    BY <1>1, <1>3, <1>5, <2>1
  <2>2. CASE ~ (i <= pos)
    <3>1. i - pos \in 1..(Len(s) - pos - 1) /\ pos + 1 + (i - pos) = i + 1
      BY <1>1, <2>2
    <3> QED BY <1>4, <1>5, <2>2, <3>1
  <2> QED BY <2>1, <2>2
<1>7. Without(s, pos) = a \o b
  BY DEF Without, a, b
<1> QED BY <1>5, <1>6, <1>7

\* The elements of a list and of the list with one more.
LEMMA ElementsAppend ==
  ASSUME NEW T, NEW s \in Seq(T), NEW x \in T
  PROVE  Elements(Append(s, x)) = Elements(s) \cup {x}
<1>1. /\ Append(s, x) \in Seq(T) /\ Len(Append(s, x)) = Len(s) + 1 /\ Len(s) \in Nat
      /\ DOMAIN s = 1..Len(s) /\ DOMAIN Append(s, x) = 1..(Len(s) + 1)
      /\ \A i \in 1..Len(s) : Append(s, x)[i] = s[i]
      /\ Append(s, x)[Len(s) + 1] = x
  BY AppendProperties
<1> DEFINE r == Append(s, x)
<1> HIDE DEF r
<1>2. \A i \in 1..(Len(s) + 1) : i \in 1..Len(s) \/ i = Len(s) + 1
  BY <1>1
<1>3. Elements(r) = Elements(s) \cup {x}
  BY <1>1, <1>2 DEF Elements, r
<1> QED BY <1>3 DEF r

\* The elements of a list without one of them, if no other is the same.
LEMMA ElementsWithout ==
  ASSUME NEW T, NEW s \in Seq(T), NEW pos \in 0..(Len(s) - 1),
         \A i \in 1..Len(s) : s[i] = s[pos + 1] => i = pos + 1
  PROVE  Elements(Without(s, pos)) = Elements(s) \ {s[pos + 1]}
<1> DEFINE r == Without(s, pos)
<1>1. /\ Len(s) \in Nat /\ pos \in Nat /\ pos < Len(s) /\ DOMAIN s = 1..Len(s)
      /\ r \in Seq(T) /\ Len(r) = Len(s) - 1 /\ DOMAIN r = 1..(Len(s) - 1)
      /\ \A i \in 1..(Len(s) - 1) : r[i] = IF i <= pos THEN s[i] ELSE s[i + 1]
  BY WithoutIs
<1> HIDE DEF r
<1>2. ASSUME NEW i \in 1..(Len(s) - 1) PROVE r[i] \in Elements(s) \ {s[pos + 1]}
  <2>1. CASE i <= pos
    <3>1. r[i] = s[i] /\ i \in 1..Len(s) /\ i # pos + 1
      BY <1>1, <2>1
    <3> QED BY <1>1, <3>1 DEF Elements
  <2>2. CASE ~ (i <= pos)
    <3>1. r[i] = s[i + 1] /\ i + 1 \in 1..Len(s) /\ i + 1 # pos + 1
      BY <1>1, <2>2
    <3> QED BY <1>1, <3>1 DEF Elements
  <2> QED BY <2>1, <2>2
<1>3. ASSUME NEW i \in 1..Len(s), i # pos + 1 PROVE s[i] \in Elements(r)
  <2>1. CASE i <= pos
    <3>1. r[i] = s[i] /\ i \in 1..(Len(s) - 1)
      BY <1>1, <2>1
    <3> QED BY <1>1, <3>1 DEF Elements
  <2>2. CASE ~ (i <= pos)
    <3>1. r[i - 1] = s[i] /\ i - 1 \in 1..(Len(s) - 1)
      BY <1>1, <1>3, <2>2
    <3> QED BY <1>1, <3>1 DEF Elements
  <2> QED BY <2>1, <2>2
<1>4. Elements(r) \subseteq Elements(s) \ {s[pos + 1]}
  BY <1>1, <1>2 DEF Elements
<1>5. Elements(s) \ {s[pos + 1]} \subseteq Elements(r)
  BY <1>1, <1>3 DEF Elements
<1> QED BY <1>4, <1>5 DEF r

\* r is what the first n elements of s leave of it, in their order: m says where each was.
KeepsAt(s, kept, n, r, m) ==
  /\ m \in [1..Len(r) -> 1..n]
  /\ \A i \in 1..Len(r) : r[i] = s[m[i]] /\ s[m[i]] \in kept
  /\ \A i, k \in 1..Len(r) : i < k => m[i] < m[k]
  /\ \A j \in 1..n : s[j] \in kept => \E i \in 1..Len(r) : m[i] = j

Keeps(T, s, kept, n, r) == r \in Seq(T) /\ \E m : KeepsAt(s, kept, n, r, m)

\* One more element is kept or not.
LEMMA KeepsNext ==
  ASSUME NEW T, NEW s \in Seq(T), NEW kept, NEW n \in Nat, n < Len(s),
         NEW r, Keeps(T, s, kept, n, r)
  PROVE  Keeps(T, s, kept, n + 1, IF s[n + 1] \in kept THEN Append(r, s[n + 1]) ELSE r)
<1>1. r \in Seq(T) /\ Len(r) \in Nat
  BY DEF Keeps
<1>2. PICK m : KeepsAt(s, kept, n, r, m)
  BY DEF Keeps
<1>3. /\ m \in [1..Len(r) -> 1..n]
      /\ \A i \in 1..Len(r) : r[i] = s[m[i]] /\ s[m[i]] \in kept
      /\ \A i, k \in 1..Len(r) : i < k => m[i] < m[k]
      /\ \A j \in 1..n : s[j] \in kept => \E i \in 1..Len(r) : m[i] = j
  BY <1>2 DEF KeepsAt
<1>4. CASE s[n + 1] \notin kept
  <2>1. m \in [1..Len(r) -> 1..(n + 1)]
    BY <1>3
  <2>2. \A j \in 1..(n + 1) : s[j] \in kept => \E i \in 1..Len(r) : m[i] = j
    BY <1>3, <1>4
  <2>3. KeepsAt(s, kept, n + 1, r, m)
    BY <1>3, <2>1, <2>2 DEF KeepsAt
  <2> QED BY <1>1, <1>4, <2>3 DEF Keeps
<1>5. CASE s[n + 1] \in kept
  <2> DEFINE L == Len(r)
             q == Append(r, s[n + 1])
             p == [i \in 1..(L + 1) |-> IF i = L + 1 THEN n + 1 ELSE m[i]]
  <2>1. s[n + 1] \in T
    BY ElementOfSeq
  <2>2. /\ q \in Seq(T) /\ Len(q) = L + 1
        /\ \A i \in 1..L : q[i] = r[i]
        /\ q[L + 1] = s[n + 1]
    BY <1>1, <2>1, AppendProperties
  <2>3. /\ p \in [1..(L + 1) -> 1..(n + 1)]
        /\ p[L + 1] = n + 1
        /\ \A i \in 1..L : p[i] = m[i] /\ m[i] \in 1..n
    <3>1. L + 1 \in 1..(L + 1) /\ \A i \in 1..L : i \in 1..(L + 1) /\ i # L + 1
      BY <1>1
    <3>2. \A i \in 1..L : m[i] \in 1..n
      BY <1>3
    <3>3. p[L + 1] = n + 1
      BY <3>1
    <3>4. \A i \in 1..L : p[i] = m[i]
      BY <3>1
    <3>5. \A i \in 1..(L + 1) : (IF i = L + 1 THEN n + 1 ELSE m[i]) \in 1..(n + 1)
      BY <1>1, <3>2
    <3> QED BY <3>2, <3>3, <3>4, <3>5
  <2>4. \A i \in 1..(L + 1) : i \in 1..L \/ i = L + 1
    BY <1>1
  <2> HIDE DEF q, p
  <2>5. \A i \in 1..(L + 1) : q[i] = s[p[i]] /\ s[p[i]] \in kept
    BY <1>3, <1>5, <2>2, <2>3, <2>4
  <2>6. \A i, k \in 1..(L + 1) : i < k => p[i] < p[k]
    <3> TAKE i, k \in 1..(L + 1)
    <3>1. i < k => i \in 1..L
      BY <1>1
    <3> QED BY <1>1, <1>3, <2>3, <2>4, <3>1
  <2>7. \A j \in 1..(n + 1) : s[j] \in kept => \E i \in 1..(L + 1) : p[i] = j
    <3> TAKE j \in 1..(n + 1)
    <3>1. CASE j = n + 1
      BY <1>1, <2>3, <3>1
    <3>2. CASE j # n + 1
      <4>1. s[j] \in kept => \E i \in 1..L : m[i] = j
        BY <1>3, <3>2
      <4>2. \A i \in 1..L : i \in 1..(L + 1)
        BY <1>1
      <4> QED BY <2>3, <4>1, <4>2
    <3> QED BY <3>1, <3>2
  <2>8. KeepsAt(s, kept, n + 1, q, p)
    BY <2>2, <2>3, <2>5, <2>6, <2>7 DEF KeepsAt
  <2>9. Keeps(T, s, kept, n + 1, q)
    BY <2>2, <2>8 DEF Keeps
  <2> QED BY <1>5, <2>9 DEF q
<1> QED BY <1>4, <1>5

\* A round of the loop over a list.
KeptRound(s, kept, f, n) ==
  IF n = 0 THEN <<>>
  ELSE IF s[n] \in kept THEN Append(f[n - 1], s[n]) ELSE f[n - 1]

\* The rounds are those of a function of the elements seen.
LEMMA KeptRoundsEnd ==
  ASSUME NEW s, NEW kept, NEW N \in Nat
  PROVE  \E f : f = [n \in 0..N |-> KeptRound(s, kept, f, n)]
<1> DEFINE F(n, f) == f = [k \in 0..n |-> KeptRound(s, kept, f, k)]
           S == {n \in Nat : \E f : F(n, f)}
<1>1. ASSUME NEW n \in Nat, \A m \in 0..(n - 1) : m \in S
      PROVE  n \in S
  <2>1. CASE n = 0
    <3> DEFINE g == [k \in 0..0 |-> <<>>]
    <3>1. \A k \in 0..0 : g[k] = KeptRound(s, kept, g, k)
      BY DEF KeptRound
    <3>2. F(0, g)
      BY <3>1
    <3> QED BY <2>1, <3>2
  <2>2. CASE n # 0
    <3>1. n - 1 \in 0..(n - 1)
      BY <2>2
    <3>2. n - 1 \in S
      BY <1>1, <3>1
    <3>3. PICK f : F(n - 1, f)
      BY <3>2
    <3> DEFINE g == [k \in 0..n |-> IF k < n THEN f[k] ELSE KeptRound(s, kept, f, k)]
    <3>4. \A k \in 0..(n - 1) : g[k] = f[k] /\ f[k] = KeptRound(s, kept, f, k)
      BY <3>3
    <3>5. \A k \in 0..n : KeptRound(s, kept, f, k) = KeptRound(s, kept, g, k)
      <4> HIDE DEF g
      <4> TAKE k \in 0..n
      <4>1. k # 0 => k - 1 \in 0..(n - 1)
        OBVIOUS
      <4> QED BY <3>4, <4>1 DEF KeptRound
    <3>6. g[n] = KeptRound(s, kept, f, n)
      OBVIOUS
    <3>7. \A k \in 0..n : g[k] = KeptRound(s, kept, g, k)
      <4> HIDE DEF g
      <4> TAKE k \in 0..n
      <4>1. k = n \/ k \in 0..(n - 1)
        OBVIOUS
      <4> QED BY <3>4, <3>5, <3>6, <4>1
    <3>8. F(n, g)
      BY <3>7
    <3> QED BY <3>8
  <2> QED BY <2>1, <2>2
<1>2. S = Nat
  <2> HIDE DEF S
  <2>1. S \in SUBSET Nat
    BY DEF S
  <2> QED BY <1>1, <2>1, Induction
<1>3. N \in S
  <2> HIDE DEF S
  <2> QED BY <1>2
<1> QED BY <1>3

\* The loop keeps what it should, in order.
LEMMA KeptOfKeeps ==
  ASSUME NEW T, NEW s \in Seq(T), NEW kept
  PROVE  Keeps(T, s, kept, Len(s), KeptOf(s, kept))
<1> DEFINE f == CHOOSE f : f = [n \in 0..Len(s) |-> KeptRound(s, kept, f, n)]
           S == {n \in Nat : n <= Len(s) => Keeps(T, s, kept, n, f[n])}
<1>1. Len(s) \in Nat
  OBVIOUS
<1>2. f = [n \in 0..Len(s) |-> KeptRound(s, kept, f, n)]
  <2>1. \E g : g = [n \in 0..Len(s) |-> KeptRound(s, kept, g, n)]
    BY <1>1, KeptRoundsEnd
  <2> QED BY <2>1, Zenon
<1>3. KeptOf(s, kept) = f[Len(s)]
  BY DEF KeptOf, KeptRound
<1> HIDE DEF f
<1>4. ASSUME NEW n \in Nat, \A m \in 0..(n - 1) : m \in S, n <= Len(s)
      PROVE  Keeps(T, s, kept, n, f[n])
  <2>1. f[n] = KeptRound(s, kept, f, n)
    BY <1>1, <1>2, <1>4
  <2>2. CASE n = 0
    <3>1. f[n] = <<>>
      BY <2>1, <2>2 DEF KeptRound
    <3>2. KeepsAt(s, kept, 0, <<>>, <<>>)
      BY DEF KeepsAt
    <3> QED BY <2>2, <3>1, <3>2 DEF Keeps
  <2>3. CASE n # 0
    <3>1. n - 1 \in S
      BY <1>4, <2>3
    <3>2. n - 1 \in Nat /\ n - 1 < Len(s) /\ n - 1 + 1 = n
      BY <1>1, <1>4, <2>3
    <3>3. Keeps(T, s, kept, n - 1, f[n - 1])
      BY <1>1, <3>1, <3>2
    <3>4. Keeps(T, s, kept, n - 1 + 1,
                IF s[n - 1 + 1] \in kept THEN Append(f[n - 1], s[n - 1 + 1]) ELSE f[n - 1])
      BY <3>2, <3>3, KeepsNext
    <3> QED BY <2>1, <2>3, <3>2, <3>4 DEF KeptRound
  <2> QED BY <2>2, <2>3
<1>5. S = Nat
  <2>1. \A n \in Nat : (\A m \in 0..(n - 1) : m \in S) => n \in S
    BY <1>4
  <2>2. S \in SUBSET Nat
    OBVIOUS
  <2> HIDE DEF S
  <2> QED BY <2>1, <2>2, Induction
<1> QED BY <1>1, <1>3, <1>5

\* What is kept are elements of the list, and two of them only if they were.
LEMMA KeptOfIs ==
  ASSUME NEW T, NEW s \in Seq(T), NEW kept
  PROVE  LET r == KeptOf(s, kept)
         IN  /\ r \in Seq(T)
             /\ \E m : KeepsAt(s, kept, Len(s), r, m)
             /\ Elements(r) = Elements(s) \cap kept
<1> DEFINE r == KeptOf(s, kept)
<1>1. r \in Seq(T) /\ \E m : KeepsAt(s, kept, Len(s), r, m)
  BY KeptOfKeeps DEF Keeps
<1> HIDE DEF r
<1>2. PICK m : KeepsAt(s, kept, Len(s), r, m)
  BY <1>1
<1>3. DOMAIN s = 1..Len(s) /\ DOMAIN r = 1..Len(r)
  BY <1>1
<1>4. Elements(r) = Elements(s) \cap kept
  BY <1>2, <1>3 DEF KeepsAt, Elements
<1> QED BY <1>1, <1>4 DEF r

\* Every set of numbers has a least one.
LEMMA Least ==
  ASSUME NEW S \in SUBSET Nat, S # {}
  PROVE  \E x \in S : \A y \in S : x <= y
<1> DEFINE R == Nat \ S
<1>1. SUFFICES ASSUME ~ \E x \in S : \A y \in S : x <= y PROVE FALSE
  OBVIOUS
<1>2. ASSUME NEW n \in Nat, \A m \in 0..(n - 1) : m \in R PROVE n \in R
  <2>1. SUFFICES ASSUME n \in S PROVE FALSE
    OBVIOUS
  <2>2. \A y \in S : n <= y
    <3> TAKE y \in S
    <3>1. y \in Nat /\ y \notin 0..(n - 1)
      BY <1>2
    <3> QED BY <3>1
  <2> QED BY <1>1, <2>1, <2>2
<1>3. R = Nat
  <2>1. R \in SUBSET Nat
    OBVIOUS
  <2> HIDE DEF R
  <2> QED BY <1>2, <2>1, Induction
<1> QED BY <1>3

\* The record of a group is found if it has one.
LEMMA GroupAtIs ==
  ASSUME NEW T, group \in Seq(T), NEW gname
  PROVE  \/ /\ GroupAt(gname) = -1
            /\ \A k \in 1..Len(group) : ~ (group[k].gname = gname)
         \/ /\ GroupAt(gname) \in 0..(Len(group) - 1)
            /\ group[GroupAt(gname) + 1].gname = gname
<1> DEFINE M == {i \in DOMAIN group : group[i].gname = gname}
           F(i) == /\ group[i].gname = gname
                   /\ \A k \in 1..(i - 1) : ~ (group[k].gname = gname)
<1>1. DOMAIN group = 1..Len(group) /\ Len(group) \in Nat
  OBVIOUS
<1>2. CASE M = {}
  <2>1. GroupAt(gname) = -1
    BY <1>2 DEF GroupAt, FirstOf
  <2> QED BY <1>1, <1>2, <2>1
<1>3. CASE M # {}
  <2>1. PICK i \in M : \A k \in M : i <= k
    <3>1. M \in SUBSET Nat
      BY <1>1
    <3> HIDE DEF M
    <3> QED BY <1>3, <3>1, Least
  <2>2. i \in DOMAIN group /\ F(i)
    BY <1>1, <2>1
  <2> DEFINE j == CHOOSE n \in DOMAIN group : F(n)
  <2>3. j \in DOMAIN group /\ F(j)
    BY <2>2
  <2>4. GroupAt(gname) = j - 1
    BY <1>3 DEF GroupAt, FirstOf
  <2> HIDE DEF j
  <2>5. j - 1 \in 0..(Len(group) - 1) /\ j - 1 + 1 = j
    BY <1>1, <2>3
  <2> QED BY <2>3, <2>4, <2>5
<1> QED BY <1>2, <1>3

\* So is what is pending.
LEMMA PendingAtIs ==
  ASSUME NEW T, pending \in Seq(T), NEW gname, NEW id
  PROVE  \/ /\ PendingAt(gname, id) = -1
            /\ \A k \in 1..Len(pending) : ~ (pending[k].id = id /\ pending[k].gname = gname)
         \/ /\ PendingAt(gname, id) \in 0..(Len(pending) - 1)
            /\ pending[PendingAt(gname, id) + 1].id = id /\ pending[PendingAt(gname, id) + 1].gname = gname
<1> DEFINE M == {i \in DOMAIN pending : pending[i].id = id /\ pending[i].gname = gname}
           F(i) == /\ pending[i].id = id /\ pending[i].gname = gname
                   /\ \A k \in 1..(i - 1) : ~ (pending[k].id = id /\ pending[k].gname = gname)
<1>1. DOMAIN pending = 1..Len(pending) /\ Len(pending) \in Nat
  OBVIOUS
<1>2. CASE M = {}
  <2>1. PendingAt(gname, id) = -1
    BY <1>2 DEF PendingAt, FirstOf
  <2> QED BY <1>1, <1>2, <2>1
<1>3. CASE M # {}
  <2>1. PICK i \in M : \A k \in M : i <= k
    <3>1. M \in SUBSET Nat
      BY <1>1
    <3> HIDE DEF M
    <3> QED BY <1>3, <3>1, Least
  <2>2. i \in DOMAIN pending /\ F(i)
    BY <1>1, <2>1
  <2> DEFINE j == CHOOSE n \in DOMAIN pending : F(n)
  <2>3. j \in DOMAIN pending /\ F(j)
    BY <2>2
  <2>4. PendingAt(gname, id) = j - 1
    BY <1>3 DEF PendingAt, FirstOf
  <2> HIDE DEF j
  <2>5. j - 1 \in 0..(Len(pending) - 1) /\ j - 1 + 1 = j
    BY <1>1, <2>3
  <2> QED BY <2>3, <2>4, <2>5
<1> QED BY <1>2, <1>3

-----------------------------------------------------------------------------
(* The invariant. *)

GroupRecs == [gname : Groups, id : NumberIds]

DeliveryRecs == [id : Nat \X Nat, gname : Groups, cname : Consumers, ns : Int, cnt : Nat \ {0}]

TypeInv ==
  /\ stream \in Seq(Nat \X Nat)
  /\ group \in Seq(GroupRecs)
  /\ pending \in Seq(DeliveryRecs)
  /\ newest \in Nat \X Nat
  /\ again \in GroupRecs \cup {NoUpdate}

\* A group has one record in the list g, or it waits to have it back.
NamesOnce(g, a) ==
  /\ \A i, k \in 1..Len(g) : g[i].gname = g[k].gname => i = k
  /\ \A k \in 1..Len(g) : g[k].gname # a.gname

\* The groups that there are.
HeldIn(g, a) == (Elements(g) \cup {a}) \ {NoUpdate}

\* No entry is newer than the clock.
Latest == \A i \in 1..Len(stream) : ~ Before(newest, stream[i])

\* What is pending in p was given to one of the groups in held.
Owned(p, held) ==
  \A i \in 1..Len(p) : \E h \in held : h.gname = p[i].gname /\ ~ Before(h.id, p[i].id)

\* Nothing is pending twice in p.
Once(p) == \A i, k \in 1..Len(p) : p[i].id = p[k].id /\ p[i].gname = p[k].gname => i = k

IInv ==
  /\ TypeInv
  /\ Sorted(stream) /\ Latest
  /\ NamesOnce(group, again)
  /\ Owned(pending, HeldIn(group, again))
  /\ Once(pending)

-----------------------------------------------------------------------------
(* Groups. *)

\* A record of a group is not that of no update.
LEMMA NoUpdateIsNone ==
  ASSUME NEW r \in GroupRecs
  PROVE  r # NoUpdate /\ r.gname # NoUpdate.gname
<1>1. r.gname \in Groups
  BY DEF GroupRecs
<1> QED BY <1>1, GroupsAreNamed

\* A list of records without that of gname.
LEMMA RestIs ==
  ASSUME group \in Seq(GroupRecs), NamesOnce(group, again), NEW gname \in Groups,
         NEW off, off = GroupAt(gname),
         NEW rest, rest = IF off = -1 THEN group ELSE Without(group, off)
  PROVE  /\ rest \in Seq(GroupRecs)
         /\ \A i, k \in 1..Len(rest) : rest[i].gname = rest[k].gname => i = k
         /\ \A k \in 1..Len(rest) : rest[k].gname # gname
         /\ Elements(rest) = {r \in Elements(group) : r.gname # gname}
<1>1. \A i, k \in 1..Len(group) : group[i].gname = group[k].gname => i = k
  BY DEF NamesOnce
<1>2. DOMAIN group = 1..Len(group) /\ Len(group) \in Nat
  OBVIOUS
<1>5. \/ off = -1 /\ \A k \in 1..Len(group) : ~ (group[k].gname = gname)
      \/ off \in 0..(Len(group) - 1) /\ group[off + 1].gname = gname
  BY GroupAtIs
<1>3. CASE off = -1
  <2>1. \A k \in 1..Len(group) : group[k].gname # gname
    BY <1>3, <1>5
  <2>2. Elements(group) = {r \in Elements(group) : r.gname # gname}
    BY <1>2, <2>1 DEF Elements
  <2> QED BY <1>1, <1>3, <2>1, <2>2
<1>4. CASE off # -1
  <2>1. off \in 0..(Len(group) - 1) /\ group[off + 1].gname = gname
    BY <1>4, <1>5
  <2>2. rest = Without(group, off)
    BY <1>4
  <2>3. /\ rest \in Seq(GroupRecs) /\ Len(rest) = Len(group) - 1
        /\ \A i \in 1..(Len(group) - 1) : rest[i] = IF i <= off THEN group[i] ELSE group[i + 1]
    BY <2>1, <2>2, WithoutIs
  <2> DEFINE at(i) == IF i <= off THEN i ELSE i + 1
  <2>4. \A i \in 1..Len(rest) : rest[i] = group[at(i)] /\ at(i) \in 1..Len(group) /\ at(i) # off + 1
    <3> TAKE i \in 1..Len(rest)
    <3>1. i \in 1..(Len(group) - 1) /\ off \in Int
      BY <2>1, <2>3
    <3>2. CASE i <= off
      <4>1. at(i) = i
        BY <3>2
      <4>2. rest[i] = group[i]
        BY <2>3, <3>1, <3>2
      <4>3. i \in 1..Len(group) /\ i # off + 1
        BY <1>2, <3>1, <3>2
      <4> HIDE DEF at
      <4> QED BY <4>1, <4>2, <4>3
    <3>3. CASE ~ (i <= off)
      <4>1. at(i) = i + 1
        BY <3>3
      <4>2. rest[i] = group[i + 1]
        BY <2>3, <3>1, <3>3
      <4>3. i + 1 \in 1..Len(group) /\ i + 1 # off + 1
        BY <1>2, <3>1, <3>3
      <4> HIDE DEF at
      <4> QED BY <4>1, <4>2, <4>3
    <3> QED BY <3>2, <3>3
  <2>5. \A i, k \in 1..Len(rest) : at(i) = at(k) => i = k
    <3> TAKE i, k \in 1..Len(rest)
    <3>1. i \in Int /\ k \in Int /\ off \in Int
      BY <2>1, <2>3
    <3> QED BY <3>1
  <2>6. off + 1 \in 1..Len(group)
    BY <1>2, <2>1
  <2> HIDE DEF at
  <2>7. \A i, k \in 1..Len(rest) : rest[i].gname = rest[k].gname => i = k
    BY <1>1, <2>4, <2>5
  <2>8. \A k \in 1..Len(rest) : rest[k].gname # gname
    BY <1>1, <2>1, <2>4, <2>6
  <2>9. Elements(rest) = Elements(group) \ {group[off + 1]}
    <3>1. \A i \in 1..Len(group) : group[i] = group[off + 1] => i = off + 1
      BY <1>1, <2>6
    <3> QED BY <2>1, <2>2, <3>1, ElementsWithout
  <2>10. \A k \in 1..Len(group) : group[k].gname # gname <=> group[k] # group[off + 1]
    BY <1>1, <2>1, <2>6
  <2>11. Elements(group) \ {group[off + 1]} = {r \in Elements(group) : r.gname # gname}
    BY <1>2, <2>10 DEF Elements
  <2> QED BY <2>3, <2>7, <2>8, <2>9, <2>11
<1> QED BY <1>3, <1>4

\* What a list of groups is after the record of gname has got the id.
IsUpdate(g, a, gname, id, g2, a2) ==
  /\ g2 \in Seq(GroupRecs)
  /\ a2 \in GroupRecs \cup {NoUpdate}
  /\ NamesOnce(g2, a2)
  /\ HeldIn(g2, a2) = {r \in HeldIn(g, a) : r.gname # gname} \cup {[gname |-> gname, id |-> id]}

\* update_group() in place.
LEMMA UpdatedInPlace ==
  ASSUME group \in Seq(GroupRecs), again = NoUpdate, NamesOnce(group, again),
         NEW gname \in Groups, NEW id \in NumberIds, GroupAt(gname) # -1
  PROVE  IsUpdate(group, again, gname, id, [group EXCEPT ![GroupAt(gname) + 1].id = id], NoUpdate)
<1> DEFINE k0 == GroupAt(gname) + 1
           new == [gname |-> gname, id |-> id]
           g2 == [group EXCEPT ![GroupAt(gname) + 1].id = id]
<1>1. DOMAIN group = 1..Len(group) /\ Len(group) \in Nat
  OBVIOUS
<1>2. k0 \in 1..Len(group) /\ group[k0].gname = gname
  BY <1>1, GroupAtIs
<1>3. \A k \in 1..Len(group) : group[k] \in GroupRecs
  BY ElementOfSeq
<1>4. new \in GroupRecs
  BY DEF GroupRecs
<1>5. [group[k0] EXCEPT !.id = id] = new
  BY <1>2, <1>3 DEF GroupRecs
<1>6. g2 = [group EXCEPT ![k0] = new]
  BY <1>5
<1>7. /\ g2 \in Seq(GroupRecs) /\ Len(g2) = Len(group)
      /\ \A k \in 1..Len(group) : g2[k] = IF k = k0 THEN new ELSE group[k]
  BY <1>2, <1>4, <1>6, ExceptSeq
<1>8. \A i, k \in 1..Len(group) : group[i].gname = group[k].gname => i = k
  BY DEF NamesOnce
<1> HIDE DEF g2, k0
<1>9. \A k \in 1..Len(group) : g2[k].gname = group[k].gname
  BY <1>2, <1>7
<1>10. NamesOnce(g2, NoUpdate)
  BY <1>7, <1>8, <1>9 DEF NamesOnce
<1>11. \A k \in 1..Len(group) : k # k0 <=> group[k].gname # gname
  BY <1>2, <1>8
<1>12. Elements(g2) = {r \in Elements(group) : r.gname # gname} \cup {new}
  <2>1. DOMAIN g2 = 1..Len(group)
    BY <1>7
  <2> HIDE DEF new
  <2>2. \A k \in 1..Len(group) : g2[k] \in {r \in Elements(group) : r.gname # gname} \cup {new}
    BY <1>1, <1>7, <1>11 DEF Elements
  <2>3. \A k \in 1..Len(group) : group[k].gname # gname => group[k] \in Elements(g2)
    BY <1>7, <1>11, <2>1 DEF Elements
  <2>4. new \in Elements(g2)
    BY <1>2, <1>7, <2>1 DEF Elements
  <2>5. \A r \in Elements(group) : \E k \in 1..Len(group) : r = group[k]
    BY <1>1 DEF Elements
  <2>6. \A r \in Elements(g2) : \E k \in 1..Len(group) : r = g2[k]
    BY <2>1 DEF Elements
  <2> QED BY <2>2, <2>3, <2>4, <2>5, <2>6
<1>13. HeldIn(g2, NoUpdate) = {r \in HeldIn(group, again) : r.gname # gname} \cup {new}
  <2>1. new # NoUpdate
    BY <1>4, NoUpdateIsNone
  <2> HIDE DEF new
  <2> QED BY <1>12, <2>1 DEF HeldIn
<1> QED BY <1>7, <1>10, <1>13 DEF IsUpdate, g2

\* update_group() by a new record, or refused after the old one was removed.
LEMMA UpdatedByAppend ==
  ASSUME group \in Seq(GroupRecs), again \in GroupRecs \cup {NoUpdate}, NamesOnce(group, again),
         NEW gname \in Groups, NEW id \in NumberIds, Ready \/ again.gname = gname,
         NEW rest, rest = IF GroupAt(gname) = -1 THEN group ELSE Without(group, GroupAt(gname)),
         NEW new, new = [gname |-> gname, id |-> id]
  PROVE  /\ IsUpdate(group, again, gname, id, Append(rest, new), NoUpdate)
         /\ IsUpdate(group, again, gname, id, rest, new)
<1>1. /\ rest \in Seq(GroupRecs)
      /\ \A i, k \in 1..Len(rest) : rest[i].gname = rest[k].gname => i = k
      /\ \A k \in 1..Len(rest) : rest[k].gname # gname
      /\ Elements(rest) = {r \in Elements(group) : r.gname # gname}
  BY RestIs
<1>2. new \in GroupRecs /\ new.gname = gname /\ new # NoUpdate
  <2>1. new \in GroupRecs /\ new.gname = gname
    BY DEF GroupRecs
  <2> QED BY <2>1, NoUpdateIsNone
<1>3. {r \in HeldIn(group, again) : r.gname # gname} = {r \in Elements(group) : r.gname # gname}
  <2>1. NoUpdate \notin Elements(group)
    <3>1. \A k \in DOMAIN group : group[k] \in GroupRecs
      OBVIOUS
    <3> QED BY <3>1, NoUpdateIsNone DEF Elements
  <2> QED BY <2>1 DEF HeldIn, Ready
<1>4. IsUpdate(group, again, gname, id, rest, new)
  <2>1. NamesOnce(rest, new)
    BY <1>1, <1>2 DEF NamesOnce
  <2>2. HeldIn(rest, new) = Elements(rest) \cup {new}
    <3>1. \A k \in DOMAIN rest : rest[k] \in GroupRecs
      BY <1>1
    <3>2. NoUpdate \notin Elements(rest)
      BY <3>1, NoUpdateIsNone DEF Elements
    <3> QED BY <1>2, <3>2 DEF HeldIn
  <2> QED BY <1>1, <1>2, <1>3, <2>1, <2>2 DEF IsUpdate
<1>5. IsUpdate(group, again, gname, id, Append(rest, new), NoUpdate)
  <2> DEFINE q == Append(rest, new)
  <2>1. /\ q \in Seq(GroupRecs) /\ Len(q) = Len(rest) + 1 /\ Len(rest) \in Nat
        /\ \A i \in 1..Len(rest) : q[i] = rest[i]
        /\ q[Len(rest) + 1] = new
    BY <1>1, <1>2, AppendProperties
  <2>2. Elements(q) = Elements(rest) \cup {new}
    BY <1>1, <1>2, ElementsAppend
  <2> HIDE DEF q
  <2>3. \A k \in 1..Len(q) : k \in 1..Len(rest) \/ k = Len(rest) + 1
    BY <2>1
  <2>4. \A k \in 1..Len(q) : q[k] \in GroupRecs
    BY <2>1, ElementOfSeq
  <2>5. NamesOnce(q, NoUpdate)
    <3>1. \A k \in 1..Len(q) : q[k].gname # NoUpdate.gname
      BY <2>4, NoUpdateIsNone
    <3>2. \A i, k \in 1..Len(q) : q[i].gname = q[k].gname => i = k
      BY SMTT(30), <1>1, <1>2, <2>1, <2>3
    <3> QED BY <3>1, <3>2 DEF NamesOnce
  <2>6. HeldIn(q, NoUpdate) = Elements(q)
    <3>1. DOMAIN q = 1..Len(q)
      BY <2>1
    <3>2. NoUpdate \notin Elements(q)
      BY <2>4, <3>1, NoUpdateIsNone DEF Elements
    <3> QED BY <3>2 DEF HeldIn
  <2>7. IsUpdate(group, again, gname, id, q, NoUpdate)
    BY <1>1, <1>3, <2>1, <2>2, <2>5, <2>6 DEF IsUpdate
  <2> QED BY <2>7 DEF q
<1> QED BY <1>4, <1>5

\* Whatever becomes of it, update_group() leaves the groups with the record.
LEMMA UpdateGroupIs ==
  ASSUME TypeInv, NamesOnce(group, again),
         NEW gname \in Groups, NEW id \in NumberIds, Ready \/ again.gname = gname,
         UpdateGroup(gname, id)
  PROVE  IsUpdate(group, again, gname, id, group', again')
<1> DEFINE off == GroupAt(gname)
           rest == IF off = -1 THEN group ELSE Without(group, off)
           new == [gname |-> gname, id |-> id]
<1>1. group \in Seq(GroupRecs) /\ again \in GroupRecs \cup {NoUpdate}
  BY DEF TypeInv
<1>2. CASE /\ off # -1
           /\ group' = [group EXCEPT ![off + 1].id = id]
           /\ again' = NoUpdate
  <2>1. again = NoUpdate
    <3>1. off + 1 \in 1..Len(group) /\ group[off + 1].gname = gname
      BY <1>1, <1>2, GroupAtIs
    <3>2. again.gname # gname
      BY <3>1 DEF NamesOnce
    <3> QED BY <3>2 DEF Ready
  <2> QED BY <1>1, <1>2, <2>1, UpdatedInPlace
<1>3. CASE group' = Append(rest, new) /\ again' = NoUpdate
  BY <1>1, <1>3, UpdatedByAppend
<1>4. CASE group' = rest /\ again' = new
  BY <1>1, <1>4, UpdatedByAppend
<1> QED BY <1>2, <1>3, <1>4 DEF UpdateGroup

\* A group has one record.
LEMMA HeldIs ==
  ASSUME NEW g \in Seq(GroupRecs), NEW a \in GroupRecs \cup {NoUpdate}, NamesOnce(g, a)
  PROVE  /\ HeldIn(g, a) \subseteq GroupRecs
         /\ \A h, r \in HeldIn(g, a) : h.gname = r.gname => h = r
<1>1. DOMAIN g = 1..Len(g)
  OBVIOUS
<1>2. \A h \in Elements(g) : h \in GroupRecs /\ \E k \in 1..Len(g) : h = g[k]
  BY <1>1, ElementOfSeq DEF Elements
<1> QED BY <1>2 DEF HeldIn, NamesOnce

\* The record that GroupAt() finds.
LEMMA GroupHeld ==
  ASSUME TypeInv, NEW gname \in Groups, GroupAt(gname) # -1,
         NEW r, r = group[GroupAt(gname) + 1]
  PROVE  r \in GroupRecs /\ r \in HeldIn(group, again) /\ r.gname = gname
<1>1. group \in Seq(GroupRecs) /\ DOMAIN group = 1..Len(group) /\ Len(group) \in Nat
  BY DEF TypeInv
<1>2. GroupAt(gname) + 1 \in 1..Len(group) /\ r.gname = gname
  BY <1>1, GroupAtIs
<1>3. r \in GroupRecs
  BY <1>1, <1>2, ElementOfSeq
<1>4. r \in Elements(group)
  BY <1>1, <1>2 DEF Elements
<1> QED BY <1>2, <1>3, <1>4, NoUpdateIsNone DEF HeldIn

\* A group without a record that waits for none does not exist.
LEMMA GroupNotHeld ==
  ASSUME TypeInv, Ready, NEW gname \in Groups, GroupAt(gname) = -1
  PROVE  \A h \in HeldIn(group, again) : h.gname # gname
<1>1. group \in Seq(GroupRecs) /\ DOMAIN group = 1..Len(group) /\ Len(group) \in Nat
  BY DEF TypeInv
<1>2. \A k \in 1..Len(group) : group[k].gname # gname
  BY <1>1, GroupAtIs
<1> QED BY <1>1, <1>2 DEF HeldIn, Ready, Elements

-----------------------------------------------------------------------------
(* What the operations preserve. *)

\* A stream in order stays so with a newer entry.
LEMMA SortedAppend ==
  ASSUME NEW s, Sorted(s), NEW id \in Nat \X Nat, \A i \in 1..Len(s) : Before(s[i], id)
  PROVE  Sorted(Append(s, id))
<1> DEFINE q == Append(s, id)
<1>1. s \in Seq(Nat \X Nat) /\ Len(s) \in Nat /\ \A i, k \in 1..Len(s) : i < k => Before(s[i], s[k])
  BY DEF Sorted
<1>2. /\ q \in Seq(Nat \X Nat) /\ Len(q) = Len(s) + 1
      /\ \A i \in 1..Len(s) : q[i] = s[i]
      /\ q[Len(s) + 1] = id
  BY <1>1, AppendProperties
<1> HIDE DEF q
<1>3. \A i, k \in 1..Len(q) : i < k => i \in 1..Len(s) /\ (k \in 1..Len(s) \/ k = Len(s) + 1)
  <2> TAKE i, k \in 1..Len(q)
  <2>1. i \in 1..(Len(s) + 1) /\ k \in 1..(Len(s) + 1) /\ Len(s) \in Nat
    BY <1>1, <1>2
  <2> QED BY <2>1
<1>4. \A i, k \in 1..Len(q) : i < k => Before(q[i], q[k])
  <2> SUFFICES ASSUME NEW i \in 1..Len(q), NEW k \in 1..Len(q), i < k
               PROVE  Before(q[i], q[k])
    OBVIOUS
  <2>1. i \in 1..Len(s) /\ q[i] = s[i]
    BY <1>2, <1>3
  <2>2. CASE k \in 1..Len(s)
    BY <1>1, <1>2, <2>1, <2>2
  <2>3. CASE k = Len(s) + 1
    BY <1>2, <2>1, <2>3
  <2> QED BY <1>3, <2>2, <2>3
<1>5. Sorted(q)
  BY <1>2, <1>4 DEF Sorted
<1> QED BY <1>5 DEF q

\* Without an element, a list has elements of before, in their order.
LEMMA WithoutFrom ==
  ASSUME NEW T, NEW s \in Seq(T), NEW pos \in 0..(Len(s) - 1)
  PROVE  \A i, k \in 1..Len(Without(s, pos)) :
           \E j, l \in 1..Len(s) : /\ Without(s, pos)[i] = s[j] /\ Without(s, pos)[k] = s[l]
                                 /\ (i < k <=> j < l) /\ (j = l => i = k)
<1> DEFINE r == Without(s, pos)
           at(i) == IF i <= pos THEN i ELSE i + 1
<1>1. /\ r \in Seq(T) /\ Len(r) = Len(s) - 1 /\ Len(s) \in Nat /\ pos \in Nat
      /\ \A i \in 1..(Len(s) - 1) : r[i] = IF i <= pos THEN s[i] ELSE s[i + 1]
  BY WithoutIs
<1> HIDE DEF r
<1>2. \A i \in 1..Len(r) : at(i) \in 1..Len(s) /\ r[i] = s[at(i)]
  <2> TAKE i \in 1..Len(r)
  <2>1. i \in 1..(Len(s) - 1)
    BY <1>1
  <2>2. CASE i <= pos
    BY <1>1, <2>1, <2>2
  <2>3. CASE ~ (i <= pos)
    BY <1>1, <2>1, <2>3
  <2> QED BY <2>2, <2>3
<1>3. \A i, k \in 1..Len(r) : (i < k <=> at(i) < at(k)) /\ (at(i) = at(k) => i = k)
  <2> TAKE i, k \in 1..Len(r)
  <2>1. i \in Int /\ k \in Int
    BY <1>1
  <2> QED BY <1>1, <2>1
<1> HIDE DEF at
<1>4. \A i, k \in 1..Len(r) : \E j, l \in 1..Len(s) :
        r[i] = s[j] /\ r[k] = s[l] /\ (i < k <=> j < l) /\ (j = l => i = k)
  BY <1>2, <1>3
<1> QED BY <1>4 DEF r

\* A stream in order stays so without an entry.
LEMMA SortedWithout ==
  ASSUME NEW s, Sorted(s), NEW pos \in 0..(Len(s) - 1)
  PROVE  Sorted(Without(s, pos))
<1>1. s \in Seq(Nat \X Nat) /\ \A i, k \in 1..Len(s) : i < k => Before(s[i], s[k])
  BY DEF Sorted
<1>2. Without(s, pos) \in Seq(Nat \X Nat)
  BY <1>1, WithoutIs
<1>3. \A i, k \in 1..Len(Without(s, pos)) : i < k => Before(Without(s, pos)[i], Without(s, pos)[k])
  <2> DEFINE r == Without(s, pos)
  <2>1. \A i, k \in 1..Len(r) :
          \E j, l \in 1..Len(s) : /\ r[i] = s[j] /\ r[k] = s[l]
                                /\ (i < k <=> j < l) /\ (j = l => i = k)
    <3> DEFINE T == Nat \X Nat
    <3>1. s \in Seq(T)
      BY <1>1
    <3> HIDE DEF T
    <3> QED BY <3>1, WithoutFrom
  <2> HIDE DEF r
  <2>2. ASSUME NEW i \in 1..Len(r), NEW k \in 1..Len(r), i < k
        PROVE  Before(r[i], r[k])
    <3>1. PICK j \in 1..Len(s), l \in 1..Len(s) :
            /\ r[i] = s[j] /\ r[k] = s[l]
            /\ (i < k <=> j < l) /\ (j = l => i = k)
      BY ONLY <2>1, i \in 1..Len(r), k \in 1..Len(r)
    <3>2. j < l
      BY <2>2, <3>1
    <3> QED BY <1>1, <3>1, <3>2
  <2> QED BY <2>2 DEF r
<1> QED BY <1>2, <1>3 DEF Sorted

\* What is pending stays with its groups and pending once when some of it goes.
LEMMA PendingWithoutOne ==
  ASSUME NEW p \in Seq(DeliveryRecs), NEW held, Owned(p, held), Once(p), NEW pos \in 0..(Len(p) - 1)
  PROVE  /\ Without(p, pos) \in Seq(DeliveryRecs)
         /\ Owned(Without(p, pos), held) /\ Once(Without(p, pos))
<1>1. Without(p, pos) \in Seq(DeliveryRecs)
  BY WithoutIs
<1>2. \A i, k \in 1..Len(Without(p, pos)) :
        \E j, l \in 1..Len(p) : /\ Without(p, pos)[i] = p[j] /\ Without(p, pos)[k] = p[l]
                              /\ (j = l => i = k)
  BY WithoutFrom
<1> DEFINE r == Without(p, pos)
<1> HIDE DEF r
<1>3. \A i, k \in 1..Len(r) :
        \E j, l \in 1..Len(p) : r[i] = p[j] /\ r[k] = p[l] /\ (j = l => i = k)
  BY <1>2 DEF r
<1>4. Owned(r, held)
  <2> SUFFICES ASSUME NEW i \in 1..Len(r)
               PROVE  \E h \in held : h.gname = r[i].gname /\ ~ Before(h.id, r[i].id)
    BY DEF Owned
  <2>1. PICK j \in 1..Len(p) : r[i] = p[j]
    BY <1>3
  <2> QED BY <2>1 DEF Owned
<1>5. Once(r)
  <2> SUFFICES ASSUME NEW i \in 1..Len(r), NEW k \in 1..Len(r),
                      r[i].id = r[k].id, r[i].gname = r[k].gname
               PROVE  i = k
    BY DEF Once
  <2>1. PICK j \in 1..Len(p), l \in 1..Len(p) : r[i] = p[j] /\ r[k] = p[l] /\ (j = l => i = k)
    BY <1>3
  <2> QED BY <2>1 DEF Once
<1> QED BY <1>1, <1>4, <1>5 DEF r

\* So it does when a loop drops some.
LEMMA PendingKept ==
  ASSUME NEW p \in Seq(DeliveryRecs), NEW held, Owned(p, held), Once(p), NEW kept
  PROVE  /\ KeptOf(p, kept) \in Seq(DeliveryRecs)
         /\ Owned(KeptOf(p, kept), held) /\ Once(KeptOf(p, kept))
         /\ \A i \in 1..Len(KeptOf(p, kept)) : KeptOf(p, kept)[i] \in kept
<1> DEFINE r == KeptOf(p, kept)
<1>1. r \in Seq(DeliveryRecs) /\ Len(r) \in Nat /\ \E m : KeepsAt(p, kept, Len(p), r, m)
  BY KeptOfIs
<1> HIDE DEF r
<1>2. PICK m : KeepsAt(p, kept, Len(p), r, m)
  BY <1>1
<1>3. /\ m \in [1..Len(r) -> 1..Len(p)]
      /\ \A i \in 1..Len(r) : r[i] = p[m[i]] /\ p[m[i]] \in kept
      /\ \A i, k \in 1..Len(r) : i < k => m[i] < m[k]
  BY <1>2 DEF KeepsAt
<1>4. \A i, k \in 1..Len(r) : m[i] = m[k] => i = k
  <2> TAKE i, k \in 1..Len(r)
  <2>1. i \in Int /\ k \in Int /\ m[i] \in Int /\ m[k] \in Int
    BY <1>1, <1>3
  <2> QED BY <1>3, <2>1
<1>5. Owned(r, held)
  BY <1>3 DEF Owned
<1>6. Once(r)
  <2> SUFFICES ASSUME NEW i \in 1..Len(r), NEW k \in 1..Len(r),
                      r[i].id = r[k].id, r[i].gname = r[k].gname
               PROVE  i = k
    BY DEF Once
  <2>1. m[i] \in 1..Len(p) /\ m[k] \in 1..Len(p) /\ r[i] = p[m[i]] /\ r[k] = p[m[k]]
    BY <1>3
  <2>2. m[i] = m[k]
    BY <2>1 DEF Once
  <2> QED BY <1>4, <2>2
<1> QED BY <1>1, <1>3, <1>5, <1>6 DEF r

\* What is pending stays with the groups when one of them moves, but not back.
LEMMA OwnedByMoved ==
  ASSUME NEW p \in Seq(DeliveryRecs), NEW held \in SUBSET GroupRecs, Owned(p, held),
         NEW new \in GroupRecs,
         \A h \in held : h.gname = new.gname => ~ Before(new.id, h.id)
  PROVE  Owned(p, {h \in held : h.gname # new.gname} \cup {new})
<1>1. ASSUME NEW i \in 1..Len(p)
      PROVE  \E h \in {h \in held : h.gname # new.gname} \cup {new} :
               h.gname = p[i].gname /\ ~ Before(h.id, p[i].id)
  <2>1. PICK h \in held : h.gname = p[i].gname /\ ~ Before(h.id, p[i].id)
    BY DEF Owned
  <2>2. CASE h.gname # new.gname
    BY <2>1, <2>2
  <2>3. CASE h.gname = new.gname
    <3>1. p[i].id \in NumberIds /\ h.id \in NumberIds /\ new.id \in NumberIds
      <4>1. p[i] \in DeliveryRecs
        BY ElementOfSeq
      <4>2. p[i].id \in Nat \X Nat
        BY <4>1 DEF DeliveryRecs
      <4> QED BY <4>2, EntryNumber DEF GroupRecs
    <3>2. ~ Before(new.id, p[i].id)
      BY <2>1, <2>3, <3>1, OrderTransitive
    <3> QED BY <2>1, <2>3, <3>2
  <2> QED BY <2>2, <2>3
<1> QED BY <1>1 DEF Owned

-----------------------------------------------------------------------------
(* Every step preserves the invariant. *)

\* It holds of no entries and no groups.
LEMMA InitInv == Init => IInv
<1> SUFFICES ASSUME Init PROVE IInv
  OBVIOUS
<1>1. /\ stream = <<>> /\ group = <<>> /\ pending = <<>>
      /\ newest = <<0, 0>> /\ again = NoUpdate
  BY DEF Init
<1>2. Len(stream) = 0 /\ Len(group) = 0 /\ Len(pending) = 0
  BY <1>1
<1>3. TypeInv
  BY <1>1 DEF TypeInv
<1> QED BY <1>2, <1>3 DEF IInv, TypeInv, Sorted, Latest, NamesOnce, Owned, Once

\* add()
LEMMA AddInv ==
  ASSUME IInv, NEW id \in EntryIds, Add(id)
  PROVE  IInv'
<1>1. id \in Nat \X Nat /\ id \in NumberIds /\ NumberOf(id) = id
  BY IdsAreNumbers, EntryNumber
<1>2. newest \in Nat \X Nat /\ newest \in NumberIds /\ NumberOf(newest) = newest
  BY EntryNumber DEF IInv, TypeInv
<1>3. newest' = id /\ UNCHANGED <<group, pending, again>> /\ Before(newest, id)
  BY <1>1, <1>2, CompareIs DEF Add
<1>4. stream \in Seq(Nat \X Nat) /\ Len(stream) \in Nat /\ Sorted(stream)
  BY DEF IInv, TypeInv
<1>5. \A i \in 1..Len(stream) : stream[i] \in NumberIds /\ Before(stream[i], id)
  <2> TAKE i \in 1..Len(stream)
  <2>1. stream[i] \in NumberIds
    BY <1>1, <1>4, Beside
  <2>2. ~ Before(newest, stream[i])
    BY DEF IInv, Latest
  <2> QED BY <1>1, <1>2, <1>3, <2>1, <2>2, OrderTransitive
<1>6. Sorted(stream') /\ Latest'
  <2>1. CASE stream' = stream
    <3>1. \A i \in 1..Len(stream) : ~ Before(id, stream[i])
      BY <1>1, <1>5, Order
    <3> QED BY <1>3, <1>4, <2>1, <3>1 DEF Latest
  <2>2. CASE stream' = Append(stream, id)
    <3>1. Sorted(Append(stream, id))
      BY <1>1, <1>4, <1>5, SortedAppend
    <3>2. \A i \in 1..Len(stream') : ~ Before(id, stream'[i])
      <4> DEFINE q == Append(stream, id)
      <4>1. /\ Len(q) = Len(stream) + 1 /\ q[Len(stream) + 1] = id
            /\ \A i \in 1..Len(stream) : q[i] = stream[i]
        BY <1>1, <1>4, AppendProperties
      <4> HIDE DEF q
      <4> SUFFICES ASSUME NEW i \in 1..Len(q) PROVE ~ Before(id, q[i])
        BY <2>2 DEF q
      <4>2. i \in 1..Len(stream) \/ i = Len(stream) + 1
        BY <1>4, <4>1
      <4> QED BY <1>1, <1>5, <4>1, <4>2, Order
    <3> QED BY <1>3, <2>2, <3>1, <3>2 DEF Latest
  <2> QED BY <2>1, <2>2 DEF Add
<1>7. TypeInv'
  BY <1>1, <1>3, <1>6 DEF IInv, TypeInv, Sorted
<1> QED BY <1>3, <1>6, <1>7 DEF IInv

\* What bsearch_eq() returns is a place in the list or none.
LEMMA BSearchEqPlace ==
  ASSUME NEW lst, Sorted(lst), NEW id \in NumberIds \cup {Lowest, Highest, BadId}
  PROVE  BSearchEq(lst, id) = -1 \/ BSearchEq(lst, id) \in 0..(Len(lst) - 1)
<1>1. lst \in Seq(Nat \X Nat) /\ Len(lst) \in Nat /\ (lst # <<>> => Len(lst) # 0)
  BY EmptySeq DEF Sorted
<1>2. CASE id \in NumberIds
  BY <1>2, BSearchEqRight DEF PlaceOf
<1>3. Lowest # Highest /\ Lowest # BadId /\ Highest # BadId
  BY DEF Lowest, Highest, BadId
<1>4. CASE id = Lowest
  <2>1. BSearchEq(lst, id) = IF lst = <<>> THEN -1 ELSE 0
    BY <1>3, <1>4, OthersAreNone DEF BSearchEq
  <2> QED BY <1>1, <2>1
<1>5. CASE id = Highest
  <2>1. BSearchEq(lst, id) = IF lst = <<>> THEN -1 ELSE Len(lst) - 1
    BY <1>3, <1>5, OthersAreNone DEF BSearchEq
  <2> QED BY <1>1, <2>1
<1>6. CASE id = BadId
  <2>1. BSearchEq(lst, id) = -1
    BY <1>3, <1>6, OthersAreNone DEF BSearchEq
  <2> QED BY <2>1
<1> QED BY <1>2, <1>4, <1>5, <1>6

\* The removal of an entry.
LEMMA DeleteInv ==
  ASSUME IInv, NEW id \in SearchIds, Delete(id)
  PROVE  IInv'
<1> DEFINE pos == BSearchEq(stream, id)
<1>1. stream \in Seq(Nat \X Nat) /\ Sorted(stream)
  BY DEF IInv, TypeInv
<1>2. pos = -1 \/ pos \in 0..(Len(stream) - 1)
  BY <1>1, SearchesAreTexts, BSearchEqPlace
<1>3. CASE pos = -1
  <2>1. UNCHANGED <<stream, group, pending, newest, again>>
    BY <1>3 DEF Delete, Answer
  <2> QED BY <2>1 DEF IInv, TypeInv, Latest
<1>4. CASE pos # -1
  <2>1. stream' = Without(stream, pos) /\ UNCHANGED <<group, pending, newest, again>>
    BY <1>4 DEF Delete
  <2>2. pos \in 0..(Len(stream) - 1)
    BY <1>2, <1>4
  <2> HIDE DEF pos
  <2>3. Sorted(stream')
    BY <1>1, <2>1, <2>2, SortedWithout
  <2>4. Latest'
    <3>1. \A i, k \in 1..Len(Without(stream, pos)) :
            \E j, l \in 1..Len(stream) : /\ Without(stream, pos)[i] = stream[j]
                                       /\ Without(stream, pos)[k] = stream[l]
                                       /\ (i < k <=> j < l) /\ (j = l => i = k)
      BY SMTT(30), <1>1, <2>2, WithoutFrom
    <3>2. \A j \in 1..Len(stream) : ~ Before(newest, stream[j])
      BY DEF IInv, Latest
    <3>3. \A i \in 1..Len(Without(stream, pos)) : ~ Before(newest, Without(stream, pos)[i])
      BY <3>1, <3>2
    <3> QED BY <2>1, <3>3 DEF Latest
  <2>5. TypeInv'
    BY <2>1, <2>3 DEF IInv, TypeInv, Sorted
  <2> QED BY <2>1, <2>3, <2>4, <2>5 DEF IInv
<1> QED BY <1>3, <1>4

\* What is pending stays with its groups, and no group goes back, when a
\* record of a group is updated that holds no later id.
LEMMA GroupMoves ==
  ASSUME IInv, NEW gname \in Groups, NEW id \in NumberIds,
         \A h \in HeldIn(group, again) : h.gname = gname => ~ Before(id, h.id),
         IsUpdate(group, again, gname, id, group', again')
  PROVE  /\ group' \in Seq(GroupRecs) /\ again' \in GroupRecs \cup {NoUpdate}
         /\ NamesOnce(group', again')
         /\ Owned(pending, HeldIn(group', again'))
         /\ [gname |-> gname, id |-> id] \in HeldIn(group', again')
<1> DEFINE new == [gname |-> gname, id |-> id]
           held == HeldIn(group, again)
<1>1. /\ group' \in Seq(GroupRecs) /\ again' \in GroupRecs \cup {NoUpdate}
      /\ NamesOnce(group', again')
      /\ HeldIn(group', again') = {r \in held : r.gname # gname} \cup {new}
  BY DEF IsUpdate
<1>2. new \in GroupRecs /\ new.gname = gname /\ new.id = id
  BY DEF GroupRecs
<1>3. held \in SUBSET GroupRecs /\ Owned(pending, held) /\ pending \in Seq(DeliveryRecs)
  BY HeldIs DEF IInv, TypeInv
<1>4. \A h \in held : h.gname = new.gname => ~ Before(new.id, h.id)
  BY <1>2
<1> HIDE DEF new, held
<1>5. Owned(pending, {h \in held : h.gname # new.gname} \cup {new})
  BY <1>2, <1>3, <1>4, OwnedByMoved
<1>6. new \in HeldIn(group', again') /\ Owned(pending, HeldIn(group', again'))
  BY <1>1, <1>2, <1>5
<1> QED BY <1>1, <1>6 DEF new

\* A group that a caller makes.
LEMMA CreateGroupInv ==
  ASSUME IInv, NEW gname \in Groups, NEW id \in {<< 0 >>} \cup EntryIds, CreateGroup(gname, id)
  PROVE  IInv'
<1>1. id \in NumberIds
  BY IdsAreNumbers, EntryNumber, ZeroNumber
<1>2. Ready /\ GroupAt(gname) = -1 /\ UpdateGroup(gname, id) /\ UNCHANGED <<stream, pending, newest>>
  BY DEF CreateGroup
<1>3. IsUpdate(group, again, gname, id, group', again')
  BY <1>1, <1>2, UpdateGroupIs DEF IInv
<1>4. \A h \in HeldIn(group, again) : h.gname = gname => ~ Before(id, h.id)
  BY <1>2, GroupNotHeld DEF IInv
<1>5. /\ group' \in Seq(GroupRecs) /\ again' \in GroupRecs \cup {NoUpdate}
      /\ NamesOnce(group', again')
      /\ Owned(pending, HeldIn(group', again'))
  BY <1>1, <1>3, <1>4, GroupMoves
<1> QED BY <1>2, <1>5 DEF IInv, TypeInv, Latest

\* The group that waits for its update.
LEMMA AgainHeld ==
  ASSUME IInv, ~ Ready
  PROVE  /\ again.gname \in Groups /\ again.id \in NumberIds /\ again \in HeldIn(group, again)
         /\ \A h \in HeldIn(group, again) : h.gname = again.gname => h = again
<1>1. again \in GroupRecs /\ again # NoUpdate
  BY DEF IInv, TypeInv, Ready
<1>2. again.gname \in Groups /\ again.id \in NumberIds
  BY <1>1 DEF GroupRecs
<1>3. again \in HeldIn(group, again)
  BY <1>1 DEF HeldIn
<1>4. group \in Seq(GroupRecs) /\ NamesOnce(group, again)
  BY DEF IInv, TypeInv
<1> QED BY <1>1, <1>2, <1>3, <1>4, HeldIs

\* A refused update that is made once more.
LEMMA UpdateAgainInv ==
  ASSUME IInv, UpdateAgain
  PROVE  IInv'
<1>1. ~ Ready /\ UpdateGroup(again.gname, again.id) /\ UNCHANGED <<stream, pending, newest>>
  BY DEF UpdateAgain
<1>2. /\ again.gname \in Groups /\ again.id \in NumberIds
      /\ \A h \in HeldIn(group, again) : h.gname = again.gname => h = again
  BY <1>1, AgainHeld
<1>3. IsUpdate(group, again, again.gname, again.id, group', again')
  BY <1>1, <1>2, UpdateGroupIs DEF IInv
<1>4. \A h \in HeldIn(group, again) : h.gname = again.gname => ~ Before(again.id, h.id)
  BY <1>2, Order
<1>5. /\ group' \in Seq(GroupRecs) /\ again' \in GroupRecs \cup {NoUpdate}
      /\ NamesOnce(group', again')
      /\ Owned(pending, HeldIn(group', again'))
  BY <1>2, <1>3, <1>4, GroupMoves
<1> QED BY <1>1, <1>5 DEF IInv, TypeInv, Latest

\* remove_group() leaves the other groups, and what is pending in them.
LEMMA RemovedGroupIs ==
  ASSUME IInv, Ready, NEW gname \in Groups, GroupAt(gname) # -1
  PROVE  LET rest == Without(group, GroupAt(gname))
         IN  /\ rest \in Seq(GroupRecs)
             /\ NamesOnce(rest, again)
             /\ HeldIn(rest, again) = {r \in HeldIn(group, again) : r.gname # gname}
<1> DEFINE rest == Without(group, GroupAt(gname))
<1>1. group \in Seq(GroupRecs) /\ NamesOnce(group, again) /\ again = NoUpdate
  BY DEF IInv, TypeInv, Ready
<1>2. rest = IF GroupAt(gname) = -1 THEN group ELSE Without(group, GroupAt(gname))
  OBVIOUS
<1> HIDE DEF rest
<1>3. /\ rest \in Seq(GroupRecs)
      /\ \A i, k \in 1..Len(rest) : rest[i].gname = rest[k].gname => i = k
      /\ \A k \in 1..Len(rest) : rest[k].gname # gname
      /\ Elements(rest) = {r \in Elements(group) : r.gname # gname}
  BY <1>1, <1>2, RestIs
<1>4. \A k \in 1..Len(rest) : rest[k] \in GroupRecs
  BY <1>3, ElementOfSeq
<1>5. NamesOnce(rest, again)
  BY <1>1, <1>3, <1>4, NoUpdateIsNone DEF NamesOnce
<1>6. HeldIn(rest, again) = {r \in HeldIn(group, again) : r.gname # gname}
  BY <1>1, <1>3 DEF HeldIn
<1> QED BY <1>3, <1>5, <1>6 DEF rest

\* remove_group()
LEMMA RemoveGroupInv ==
  ASSUME IInv, NEW gname \in Groups, RemoveGroup(gname)
  PROVE  IInv'
<1>1. CASE GroupAt(gname) = -1
  <2>1. UNCHANGED <<stream, group, pending, newest, again>>
    BY <1>1 DEF RemoveGroup, Answer
  <2> QED BY <2>1 DEF IInv, TypeInv, Latest
<1>2. CASE GroupAt(gname) # -1
  <2> DEFINE kept == {p \in Elements(pending) : p.gname = gname => p.cname \notin Consumers}
  <2>1. /\ Ready
        /\ group' = Without(group, GroupAt(gname))
        /\ pending' = KeptOf(pending, kept)
        /\ UNCHANGED <<stream, newest, again>>
    BY <1>2 DEF RemoveGroup, PendingWithout
  <2>2. /\ group' \in Seq(GroupRecs)
        /\ NamesOnce(group', again)
        /\ HeldIn(group', again) = {r \in HeldIn(group, again) : r.gname # gname}
    BY <1>2, <2>1, RemovedGroupIs
  <2>3. /\ pending \in Seq(DeliveryRecs) /\ Owned(pending, HeldIn(group, again)) /\ Once(pending)
    BY DEF IInv, TypeInv
  <2> HIDE DEF kept
  <2>4. /\ pending' \in Seq(DeliveryRecs)
        /\ Owned(pending', HeldIn(group, again)) /\ Once(pending')
        /\ \A i \in 1..Len(pending') : pending'[i] \in kept
    BY <2>1, <2>3, PendingKept
  <2>5. \A i \in 1..Len(pending') : pending'[i].gname # gname
    <3> TAKE i \in 1..Len(pending')
    <3>1. pending'[i] \in DeliveryRecs
      BY <2>4, ElementOfSeq
    <3>2. pending'[i].cname \in Consumers
      BY <3>1 DEF DeliveryRecs
    <3> QED BY <2>4, <3>2 DEF kept
  <2>6. Owned(pending', HeldIn(group', again))
    BY <2>2, <2>4, <2>5 DEF Owned
  <2> QED BY <2>1, <2>2, <2>4, <2>6 DEF IInv, TypeInv, Latest
<1> QED BY <1>1, <1>2

\* remove_pending() of one consumer.
LEMMA RemoveConsumerInv ==
  ASSUME IInv, NEW gname \in Groups, NEW cname \in Consumers, RemoveConsumer(gname, cname)
  PROVE  IInv'
<1> DEFINE kept == {p \in Elements(pending) : p.gname = gname => p.cname \notin {cname}}
<1>1. pending' = KeptOf(pending, kept) /\ UNCHANGED <<stream, group, newest, again>>
  BY DEF RemoveConsumer, PendingWithout
<1>2. /\ pending \in Seq(DeliveryRecs) /\ Owned(pending, HeldIn(group, again)) /\ Once(pending)
  BY DEF IInv, TypeInv
<1> HIDE DEF kept
<1>3. /\ pending' \in Seq(DeliveryRecs)
      /\ Owned(pending', HeldIn(group, again)) /\ Once(pending')
  BY <1>1, <1>2, PendingKept
<1> QED BY <1>1, <1>3 DEF IInv, TypeInv, Latest

\* The next entry for a group comes after all that the group was given.
LEMMA NextIsLater ==
  ASSUME IInv, NEW gname \in Groups, GroupAt(gname) # -1, NextFor(gname) < Len(stream),
         NEW id, id = stream[NextFor(gname) + 1]
  PROVE  /\ NextFor(gname) \in 0..(Len(stream) - 1)
         /\ id \in Nat \X Nat /\ id \in NumberIds
         /\ \A h \in HeldIn(group, again) : h.gname = gname => Before(h.id, id)
         /\ \A i \in 1..Len(pending) : pending[i].gname = gname => pending[i].id # id
<1> DEFINE r == group[GroupAt(gname) + 1]
           next == NextFor(gname)
<1>1. /\ Sorted(stream) /\ Len(stream) \in Nat /\ TypeInv
      /\ Owned(pending, HeldIn(group, again))
      /\ group \in Seq(GroupRecs) /\ again \in GroupRecs \cup {NoUpdate}
      /\ pending \in Seq(DeliveryRecs) /\ NamesOnce(group, again)
  BY DEF IInv, TypeInv
<1>2. r \in GroupRecs /\ r \in HeldIn(group, again) /\ r.gname = gname
  BY <1>1, GroupHeld
<1>3. r.id \in NumberIds
  BY <1>2 DEF GroupRecs
<1>4. Divides(stream, r.id, TRUE, next)
  BY <1>1, <1>3, BSearchStrRight DEF NextFor
<1> HIDE DEF r, next
<1>5. next \in 0..(Len(stream) - 1) /\ next + 1 \in 1..Len(stream)
  BY <1>1, <1>4 DEF Divides, next
<1>6. id \in Nat \X Nat /\ id \in NumberIds
  BY <1>1, <1>3, <1>5, Beside DEF next
<1>7. Before(r.id, id)
  <2>1. ~ (next + 1 <= next)
    BY <1>5
  <2> QED BY <1>4, <1>5, <2>1 DEF Divides, next
<1>8. \A h \in HeldIn(group, again) : h.gname = gname => h = r
  BY <1>1, <1>2, HeldIs
<1>9. \A i \in 1..Len(pending) : pending[i].gname = gname => pending[i].id # id
  BY <1>1, <1>7, <1>8 DEF Owned
<1> QED BY <1>5, <1>6, <1>7, <1>8, <1>9 DEF next

\* One more is pending, of a group that was given its id or a later one.
LEMMA PendingAppend ==
  ASSUME NEW p \in Seq(DeliveryRecs), NEW held, Owned(p, held), Once(p), NEW d \in DeliveryRecs,
         \E h \in held : h.gname = d.gname /\ ~ Before(h.id, d.id),
         \A i \in 1..Len(p) : p[i].gname = d.gname => p[i].id # d.id
  PROVE  /\ Append(p, d) \in Seq(DeliveryRecs)
         /\ Owned(Append(p, d), held) /\ Once(Append(p, d))
<1> DEFINE q == Append(p, d)
<1>1. /\ q \in Seq(DeliveryRecs) /\ Len(q) = Len(p) + 1 /\ Len(p) \in Nat
      /\ \A i \in 1..Len(p) : q[i] = p[i]
      /\ q[Len(p) + 1] = d
  BY AppendProperties
<1> HIDE DEF q
<1>2. \A i \in 1..Len(q) : i \in 1..Len(p) \/ i = Len(p) + 1
  BY <1>1
<1>3. Owned(q, held)
  BY <1>1, <1>2 DEF Owned
<1>4. Once(q)
  BY <1>1, <1>2 DEF Once
<1> QED BY <1>1, <1>3, <1>4 DEF q

\* What a read that gives an entry does: the entry is the next one of the
\* stream, and the group moves on to it.
Gives(gname, cname, ns, id) ==
  /\ Ready /\ GroupAt(gname) # -1 /\ NextFor(gname) < Len(stream)
  /\ NextFor(gname) \in 0..(Len(stream) - 1)
  /\ id = stream[NextFor(gname) + 1]
  /\ id \in Nat \X Nat /\ id \in NumberIds
  /\ \A h \in HeldIn(group, again) : h.gname = gname => Before(h.id, id) /\ ~ Before(id, h.id)
  /\ \A i \in 1..Len(pending) : pending[i].gname = gname => pending[i].id # id
  /\ IsUpdate(group, again, gname, id, group', again')
  /\ UpdateGroup(gname, id)
  /\ pending' = Append(pending, Delivery(id, gname, cname, ns, 0))
  /\ UNCHANGED <<stream, newest>>

\* What it is if there is none for the group.
NoEntry(gname) ==
  \/ GroupAt(gname) = -1 /\ Answer(STRM_NOT_FOUND, <<>>)
  \/ GroupAt(gname) # -1 /\ NextFor(gname) >= Len(stream) /\ Answer(STRM_OK, <<>>)
  \/ GroupAt(gname) # -1 /\ ~ (NextFor(gname) >= Len(stream)) /\ Answer(STRM_FULL, <<>>)

\* A read gives an entry or changes nothing.
LEMMA ReadGives ==
  ASSUME IInv, NEW gname \in Groups, NEW cname \in Consumers, NEW ns \in Times,
         Read(gname, cname, ns)
  PROVE  \/ NoEntry(gname)
         \/ Gives(gname, cname, ns, stream[NextFor(gname) + 1])
<1> DEFINE id == stream[NextFor(gname) + 1]
           d == Delivery(id, gname, cname, ns, 0)
<1>1. CASE /\ GroupAt(gname) # -1 /\ ~ (NextFor(gname) >= Len(stream))
           /\ Ready
           /\ pending' = Append(pending, d)
           /\ UpdateGroup(gname, id)
           /\ UNCHANGED <<stream, newest>>
  <2>1. Len(stream) \in Nat /\ Sorted(stream) /\ TypeInv /\ NamesOnce(group, again)
    BY DEF IInv, TypeInv
  <2>2. NextFor(gname) < Len(stream)
    <3>1. group[GroupAt(gname) + 1] \in GroupRecs
      BY <1>1, <2>1, GroupHeld
    <3>2. group[GroupAt(gname) + 1].id \in NumberIds
      BY <3>1 DEF GroupRecs
    <3>3. Divides(stream, group[GroupAt(gname) + 1].id, TRUE, NextFor(gname))
      BY <2>1, <3>2, BSearchStrRight DEF NextFor
    <3>4. NextFor(gname) \in Int
      BY <3>3 DEF Divides
    <3> QED BY <1>1, <2>1, <3>4
  <2>3. /\ NextFor(gname) \in 0..(Len(stream) - 1)
        /\ id \in Nat \X Nat /\ id \in NumberIds
        /\ \A h \in HeldIn(group, again) : h.gname = gname => Before(h.id, id)
        /\ \A i \in 1..Len(pending) : pending[i].gname = gname => pending[i].id # id
    BY <1>1, <2>2, NextIsLater
  <2> HIDE DEF id
  <2>4. IsUpdate(group, again, gname, id, group', again')
    BY <1>1, <2>1, <2>3, UpdateGroupIs
  <2>5. \A h \in HeldIn(group, again) : h.gname = gname => Before(h.id, id) /\ ~ Before(id, h.id)
    <3>1. \A h \in HeldIn(group, again) : h.id \in NumberIds
      BY <2>1, HeldIs DEF TypeInv, GroupRecs
    <3> QED BY <2>3, <3>1, Order
  <2>6. Gives(gname, cname, ns, id)
    BY <1>1, <2>2, <2>3, <2>4, <2>5 DEF Gives, id
  <2> QED BY <2>6 DEF id
<1> QED BY <1>1 DEF Read, NoEntry

\* A consumer that reads the next entry.
LEMMA ReadInv ==
  ASSUME IInv, NEW gname \in Groups, NEW cname \in Consumers, NEW ns \in Times,
         Read(gname, cname, ns)
  PROVE  IInv'
<1>1. CASE UNCHANGED <<stream, group, pending, newest, again>>
  BY <1>1 DEF IInv, TypeInv, Latest
<1>2. ASSUME NEW id, Gives(gname, cname, ns, id)
      PROVE  IInv'
  <2> DEFINE d == Delivery(id, gname, cname, ns, 0)
  <2>1. /\ id \in Nat \X Nat /\ id \in NumberIds
        /\ \A h \in HeldIn(group, again) : h.gname = gname => ~ Before(id, h.id)
        /\ \A i \in 1..Len(pending) : pending[i].gname = gname => pending[i].id # id
        /\ IsUpdate(group, again, gname, id, group', again')
        /\ pending' = Append(pending, d)
        /\ UNCHANGED <<stream, newest>>
    BY <1>2 DEF Gives
  <2>2. /\ group' \in Seq(GroupRecs) /\ again' \in GroupRecs \cup {NoUpdate}
        /\ NamesOnce(group', again')
        /\ Owned(pending, HeldIn(group', again'))
        /\ [gname |-> gname, id |-> id] \in HeldIn(group', again')
    BY <2>1, GroupMoves
  <2>3. d \in DeliveryRecs /\ d.id = id /\ d.gname = gname
    BY <2>1, TimesAreNumbers DEF Delivery, DeliveryRecs
  <2> HIDE DEF d
  <2>4. \E h \in HeldIn(group', again') : h.gname = d.gname /\ ~ Before(h.id, d.id)
    BY <2>1, <2>2, <2>3, Order
  <2>5. pending \in Seq(DeliveryRecs) /\ Once(pending)
    BY DEF IInv, TypeInv
  <2>6. /\ pending' \in Seq(DeliveryRecs)
        /\ Owned(pending', HeldIn(group', again')) /\ Once(pending')
    BY <2>1, <2>2, <2>3, <2>4, <2>5, PendingAppend
  <2> QED BY <2>1, <2>2, <2>6 DEF IInv, TypeInv, Latest
<1> QED BY <1>1, <1>2, ReadGives DEF NoEntry, Answer

\* ack()
LEMMA AckInv ==
  ASSUME IInv, NEW gname \in Groups, NEW id \in Numbers, Ack(gname, id)
  PROVE  IInv'
<1> DEFINE pos == PendingAt(gname, id)
<1>1. pending \in Seq(DeliveryRecs) /\ Owned(pending, HeldIn(group, again)) /\ Once(pending)
  BY DEF IInv, TypeInv
<1>2. CASE pos = -1
  <2>1. UNCHANGED <<stream, group, pending, newest, again>>
    BY <1>2 DEF Ack, Answer
  <2> QED BY <2>1 DEF IInv, TypeInv, Latest
<1>3. CASE pos # -1
  <2>1. pending' = Without(pending, pos) /\ UNCHANGED <<stream, group, newest, again>>
    BY <1>3 DEF Ack
  <2>2. pos \in 0..(Len(pending) - 1)
    BY <1>1, <1>3, PendingAtIs
  <2> HIDE DEF pos
  <2>3. pending' \in Seq(DeliveryRecs) /\ Owned(pending', HeldIn(group, again)) /\ Once(pending')
    BY <1>1, <2>1, <2>2, PendingWithoutOne
  <2> QED BY <2>1, <2>3 DEF IInv, TypeInv, Latest
<1> QED BY <1>2, <1>3

\* A claim leaves what is pending its id and its group.
LEMMA ClaimedIs ==
  ASSUME NEW p \in DeliveryRecs, NEW cname \in Consumers, NEW cl \in Claims
  PROVE  /\ Claimed(p, cname, cl) \in DeliveryRecs
         /\ Claimed(p, cname, cl).id = p.id /\ Claimed(p, cname, cl).gname = p.gname
<1>1. /\ cl.time \in Nat /\ cl.cur \in Nat /\ cl.idle \in Nat /\ cl.retrycount \in Nat
      /\ NsPerMs \in Nat
  BY ClaimsAreRecords, TenthsOfMs
<1>2. p.cnt \in Nat /\ p.id \in Nat \X Nat /\ p.gname \in Groups
  BY DEF DeliveryRecs
<1> DEFINE ns == IF cl.time # 0 THEN cl.time * NsPerMs ELSE cl.cur - cl.idle * IdleUnit
           cnt == IF cl.retrycount # 0 THEN cl.retrycount
                  ELSE p.cnt + (IF cl.justid THEN 0 ELSE 1)
<1>3. ns \in Int /\ cnt \in Nat
  <2>1. cl.time * NsPerMs \in Int /\ IdleUnit \in Int
    BY <1>1, TenthsOfMs DEF IdleUnit
  <2>2. cl.idle * IdleUnit \in Int
    BY <1>1, <2>1
  <2> QED BY <1>1, <1>2, <2>1, <2>2
<1>4. Claimed(p, cname, cl) = Delivery(p.id, p.gname, cname, ns, cnt)
  BY DEF Claimed
<1> HIDE DEF ns, cnt
<1> QED BY <1>2, <1>3, <1>4 DEF Delivery, DeliveryRecs

\* claim()
LEMMA ClaimInv ==
  ASSUME IInv, NEW gname \in Groups, NEW cname \in Consumers,
         NEW id \in Numbers, NEW cl \in Claims, Claim(gname, cname, id, cl)
  PROVE  IInv'
<1> DEFINE pos == PendingAt(gname, id)
           new == Claimed(pending[pos + 1], cname, cl)
<1>1. /\ pending \in Seq(DeliveryRecs) /\ Len(pending) \in Nat
      /\ Owned(pending, HeldIn(group, again)) /\ Once(pending)
  BY DEF IInv, TypeInv
<1>2. CASE UNCHANGED <<stream, group, pending, newest, again>>
  BY <1>2 DEF IInv, TypeInv, Latest
<1>3. CASE /\ pos # -1
           /\ pending' = [pending EXCEPT ![pos + 1] = new]
           /\ UNCHANGED <<stream, group, newest, again>>
  <2>1. pos + 1 \in 1..Len(pending)
    BY <1>1, <1>3, PendingAtIs
  <2>2. pending[pos + 1] \in DeliveryRecs
    BY <1>1, <2>1, ElementOfSeq
  <2>3. new \in DeliveryRecs /\ new.id = pending[pos + 1].id /\ new.gname = pending[pos + 1].gname
    BY <2>2, ClaimedIs
  <2> HIDE DEF pos, new
  <2>4. /\ pending' \in Seq(DeliveryRecs) /\ Len(pending') = Len(pending)
        /\ \A j \in 1..Len(pending) : pending'[j] = IF j = pos + 1 THEN new ELSE pending[j]
    BY <1>1, <1>3, <2>1, <2>3, ExceptSeq
  <2>5. \A j \in 1..Len(pending) : /\ pending'[j].id = pending[j].id
                                  /\ pending'[j].gname = pending[j].gname
    BY <2>3, <2>4
  <2>6. Owned(pending', HeldIn(group, again)) /\ Once(pending')
    BY <1>1, <2>4, <2>5 DEF Owned, Once
  <2> QED BY <1>3, <2>4, <2>6 DEF IInv, TypeInv, Latest
<1> QED BY <1>2, <1>3 DEF Claim, Answer

\* Every step.
LEMMA NextInv == IInv /\ [Next]_vars => IInv'
<1> SUFFICES ASSUME IInv, [Next]_vars PROVE IInv'
  OBVIOUS
<1>1. ASSUME NEW id \in EntryIds, Add(id) PROVE IInv'
  BY <1>1, AddInv
<1>2. ASSUME NEW id \in SearchIds, Delete(id) PROVE IInv'
  BY <1>2, DeleteInv
<1>3. CASE UpdateAgain
  BY <1>3, UpdateAgainInv
<1>4. ASSUME NEW gname \in Groups, NEW id \in {<< 0 >>} \cup EntryIds, CreateGroup(gname, id)
      PROVE  IInv'
  BY <1>4, CreateGroupInv
<1>5. ASSUME NEW gname \in Groups, RemoveGroup(gname) PROVE IInv'
  BY <1>5, RemoveGroupInv
<1>6. ASSUME NEW gname \in Groups, NEW id \in Numbers, Ack(gname, id) PROVE IInv'
  BY <1>6, AckInv
<1>7. ASSUME NEW gname \in Groups, NEW cname \in Consumers, RemoveConsumer(gname, cname)
      PROVE  IInv'
  BY <1>7, RemoveConsumerInv
<1>8. ASSUME NEW gname \in Groups, NEW cname \in Consumers, NEW ns \in Times,
             Read(gname, cname, ns)
      PROVE  IInv'
  BY <1>8, ReadInv
<1>9. ASSUME NEW gname \in Groups, NEW cname \in Consumers, NEW id \in SearchIds,
             Unacknowledged(gname, cname, id)
      PROVE  IInv'
  <2>1. UNCHANGED <<stream, group, pending, newest, again>>
    BY <1>9 DEF Unacknowledged, Answer
  <2> QED BY <2>1 DEF IInv, TypeInv, Latest
<1>10. ASSUME NEW gname \in Groups, NEW cname \in Consumers, NEW id \in Numbers,
              NEW cl \in Claims, Claim(gname, cname, id, cl)
       PROVE  IInv'
  BY <1>10, ClaimInv
<1>11. CASE UNCHANGED vars
  BY <1>11 DEF vars, IInv, TypeInv, Latest
<1> QED BY <1>1, <1>2, <1>3, <1>4, <1>5, <1>6, <1>7, <1>8, <1>9, <1>10, <1>11 DEF Next

\* So it is an invariant.
LEMMA Invariant == Spec => []IInv
  BY InitInv, NextInv, PTL DEF Spec

-----------------------------------------------------------------------------
(* The properties. *)

\* In every state a search by halves finds what a search from the start
\* does: bsearch_str() and bsearch_eq() on the streams that add() and lrem()
\* leave.
THEOREM SearchesExact == Spec => []SearchExact
<1>1. IInv => SearchExact
  BY SortedExact DEF IInv
<1> QED BY <1>1, Invariant, PTL

\* What is pending belongs to a group, also between an update_group() that
\* is refused and the one that repeats it, and is not ahead of its group.
THEOREM PendingHasGroup == Spec => []PendingOwned
<1>1. IInv => PendingOwned
  <2> SUFFICES ASSUME IInv PROVE PendingOwned
    OBVIOUS
  <2>1. DOMAIN pending = 1..Len(pending) /\ Owned(pending, HeldIn(group, again))
    BY DEF IInv, TypeInv
  <2>2. HeldIn(group, again) \subseteq Elements(group) \cup {again}
    BY DEF HeldIn
  <2> QED BY <2>1, <2>2 DEF Owned, PendingOwned
<1> QED BY <1>1, Invariant, PTL

\* No entry is pending twice in a group: group_query() goes on after the last
\* id of the group, and all that is pending is up to it.
THEOREM NeverTwice == Spec => []DeliveredOnce
<1>1. IInv => DeliveredOnce
  <2> SUFFICES ASSUME IInv PROVE DeliveredOnce
    OBVIOUS
  <2>1. DOMAIN pending = 1..Len(pending) /\ Once(pending)
    BY DEF IInv, TypeInv
  <2> QED BY <2>1 DEF Once, DeliveredOnce
<1> QED BY <1>1, Invariant, PTL

\* The last id of gname, of the records in g and a.
LastIn(g, a, gname) == LET r == CHOOSE r \in Elements(g) \cup {a} : r.gname = gname
                       IN  r.id

\* It is that of the one record of the group.
LEMMA LastInIs ==
  ASSUME NEW g \in Seq(GroupRecs), NEW a \in GroupRecs \cup {NoUpdate}, NamesOnce(g, a),
         NEW gname \in Groups, gname \in {g[k].gname : k \in DOMAIN g} \cup {a.gname}
  PROVE  \E h \in HeldIn(g, a) : h.gname = gname /\ h.id = LastIn(g, a, gname)
<1> DEFINE all == Elements(g) \cup {a}
<1>1. \E r \in all : r.gname = gname
  BY DEF Elements
<1>2. PICK h \in all : h.gname = gname /\ h = CHOOSE r \in all : r.gname = gname
  BY <1>1
<1>3. h # NoUpdate
  BY <1>2, GroupsAreNamed
<1> QED BY <1>2, <1>3 DEF LastIn, HeldIn

\* No group that stays has an earlier id than before.
NoneBack ==
  \A h \in HeldIn(group, again), k \in HeldIn(group', again') :
    h.gname = k.gname => ~ Before(k.id, h.id)

\* An update to an id that is not earlier takes no group back.
LEMMA UpdateNotBack ==
  ASSUME IInv, NEW gname \in Groups, NEW id \in NumberIds,
         \A h \in HeldIn(group, again) : h.gname = gname => ~ Before(id, h.id),
         IsUpdate(group, again, gname, id, group', again')
  PROVE  NoneBack
<1>1. /\ HeldIn(group, again) \subseteq GroupRecs
      /\ \A h, r \in HeldIn(group, again) : h.gname = r.gname => h = r
  BY HeldIs DEF IInv, TypeInv
<1>2. \A h \in HeldIn(group, again) : ~ Before(h.id, h.id)
  BY <1>1, Order DEF GroupRecs
<1>3. HeldIn(group', again') =
        {r \in HeldIn(group, again) : r.gname # gname} \cup {[gname |-> gname, id |-> id]}
  BY DEF IsUpdate
<1> QED BY <1>1, <1>2, <1>3 DEF NoneBack

\* Groups that are those of before go nowhere.
LEMMA SameNotBack ==
  ASSUME IInv, HeldIn(group', again') \subseteq HeldIn(group, again)
  PROVE  NoneBack
<1>1. /\ HeldIn(group, again) \subseteq GroupRecs
      /\ \A h, r \in HeldIn(group, again) : h.gname = r.gname => h = r
  BY HeldIs DEF IInv, TypeInv
<1>2. \A h \in HeldIn(group, again) : ~ Before(h.id, h.id)
  BY <1>1, Order DEF GroupRecs
<1> QED BY <1>1, <1>2 DEF NoneBack

\* No step takes a group back.
LEMMA NextNotBack == IInv /\ [Next]_vars => NoneBack
<1> SUFFICES ASSUME IInv, [Next]_vars PROVE NoneBack
  OBVIOUS
<1>1. CASE UNCHANGED <<group, again>>
  BY <1>1, SameNotBack
<1>2. ASSUME NEW gname \in Groups, NEW id \in {<< 0 >>} \cup EntryIds, CreateGroup(gname, id)
      PROVE  NoneBack
  <2>1. id \in NumberIds
    BY IdsAreNumbers, EntryNumber, ZeroNumber
  <2>2. Ready /\ GroupAt(gname) = -1 /\ UpdateGroup(gname, id)
    BY <1>2 DEF CreateGroup
  <2>3. IsUpdate(group, again, gname, id, group', again')
    BY <2>1, <2>2, UpdateGroupIs DEF IInv
  <2>4. \A h \in HeldIn(group, again) : h.gname = gname => ~ Before(id, h.id)
    BY <2>2, GroupNotHeld DEF IInv
  <2> QED BY <2>1, <2>3, <2>4, UpdateNotBack
<1>3. CASE UpdateAgain
  <2>1. ~ Ready /\ UpdateGroup(again.gname, again.id)
    BY <1>3 DEF UpdateAgain
  <2>2. /\ again.gname \in Groups /\ again.id \in NumberIds
        /\ \A h \in HeldIn(group, again) : h.gname = again.gname => h = again
    BY <2>1, AgainHeld
  <2>3. IsUpdate(group, again, again.gname, again.id, group', again')
    BY <2>1, <2>2, UpdateGroupIs DEF IInv
  <2>4. \A h \in HeldIn(group, again) : h.gname = again.gname => ~ Before(again.id, h.id)
    BY <2>2, Order
  <2> QED BY <2>2, <2>3, <2>4, UpdateNotBack
<1>4. ASSUME NEW gname \in Groups, RemoveGroup(gname) PROVE NoneBack
  <2>1. CASE GroupAt(gname) = -1
    BY <1>1, <1>4, <2>1 DEF RemoveGroup, Answer
  <2>2. CASE GroupAt(gname) # -1
    <3>1. Ready /\ group' = Without(group, GroupAt(gname)) /\ again' = again
      BY <1>4, <2>2 DEF RemoveGroup
    <3>2. HeldIn(group', again') = {r \in HeldIn(group, again) : r.gname # gname}
      BY <2>2, <3>1, RemovedGroupIs
    <3> QED BY <3>2, SameNotBack
  <2> QED BY <2>1, <2>2
<1>5. ASSUME NEW gname \in Groups, NEW cname \in Consumers, NEW ns \in Times,
             Read(gname, cname, ns)
      PROVE  NoneBack
  <2>1. CASE UNCHANGED <<stream, group, pending, newest, again>>
    BY <1>1, <2>1
  <2>2. ASSUME NEW id, Gives(gname, cname, ns, id) PROVE NoneBack
    BY <2>2, UpdateNotBack DEF Gives
  <2> QED BY <1>5, <2>1, <2>2, ReadGives DEF NoEntry, Answer
<1>6. ASSUME NEW id \in EntryIds, Add(id) PROVE NoneBack
  BY <1>1, <1>6 DEF Add
<1>7. ASSUME NEW id \in SearchIds, Delete(id) PROVE NoneBack
  BY <1>1, <1>7 DEF Delete, Answer
<1>8. ASSUME NEW gname \in Groups, NEW id \in Numbers, Ack(gname, id) PROVE NoneBack
  BY <1>1, <1>8 DEF Ack, Answer
<1>9. ASSUME NEW gname \in Groups, NEW cname \in Consumers, RemoveConsumer(gname, cname)
      PROVE  NoneBack
  BY <1>1, <1>9 DEF RemoveConsumer
<1>10. ASSUME NEW gname \in Groups, NEW cname \in Consumers, NEW id \in SearchIds,
              Unacknowledged(gname, cname, id)
       PROVE  NoneBack
  BY <1>1, <1>10 DEF Unacknowledged, Answer
<1>11. ASSUME NEW gname \in Groups, NEW cname \in Consumers, NEW id \in Numbers,
              NEW cl \in Claims, Claim(gname, cname, id, cl)
       PROVE  NoneBack
  BY <1>1, <1>11 DEF Claim, Answer
<1>12. CASE UNCHANGED vars
  BY <1>1, <1>12 DEF vars
<1> QED BY <1>2, <1>3, <1>4, <1>5, <1>6, <1>7, <1>8, <1>9, <1>10, <1>11, <1>12 DEF Next

\* The last id of a group that stays does not go back, whatever update_group()
\* makes of its record and whether or not it has to be repeated.
THEOREM GroupsGoOn == Spec => NeverBack
<1> DEFINE A == \A gname \in Groups : gname \in GroupNames /\ gname \in GroupNames' =>
                                     ~ Before(LastOf(gname)', LastOf(gname))
<1>1. IInv /\ IInv' /\ NoneBack => A
  <2> SUFFICES ASSUME IInv, IInv', NoneBack,
                      NEW gname \in Groups, gname \in GroupNames, gname \in GroupNames'
               PROVE  ~ Before(LastOf(gname)', LastOf(gname))
    OBVIOUS
  <2>1. /\ group \in Seq(GroupRecs) /\ again \in GroupRecs \cup {NoUpdate}
        /\ NamesOnce(group, again)
        /\ group' \in Seq(GroupRecs) /\ again' \in GroupRecs \cup {NoUpdate}
        /\ NamesOnce(group', again')
    BY DEF IInv, TypeInv
  <2>2. /\ LastOf(gname) = LastIn(group, again, gname)
        /\ LastOf(gname)' = LastIn(group', again', gname)
    BY DEF LastOf, LastIn
  <2>3. PICK h \in HeldIn(group, again) : h.gname = gname /\ h.id = LastIn(group, again, gname)
    BY <2>1, LastInIs DEF GroupNames
  <2>4. PICK k \in HeldIn(group', again') : k.gname = gname /\ k.id = LastIn(group', again', gname)
    BY <2>1, LastInIs DEF GroupNames
  <2> QED BY <2>2, <2>3, <2>4 DEF NoneBack
<1>2. IInv /\ IInv' /\ [Next]_vars => [A]_vars
  BY <1>1, NextNotBack
<1> QED BY <1>2, Invariant, PTL DEF Spec, NeverBack

-----------------------------------------------------------------------------
(* What callers see. *)

\* Functions with one more argument, and with fewer.
Put(f, k, v) == [x \in DOMAIN f \cup {k} |-> IF x = k THEN v ELSE f[x]]
Less(f, ks) == [x \in DOMAIN f \ ks |-> f[x]]

\* The last ids of the groups in held, and of what is in p who has it.
LastIds(held) == [gname \in {h.gname : h \in held} |-> (CHOOSE h \in held : h.gname = gname).id]

KeyOf(p) == <<p.gname, p.id>>
ShareOf(p) == [cname |-> p.cname, ns |-> p.ns, cnt |-> p.cnt]
Shares(ps) == [k \in {KeyOf(p) : p \in ps} |-> ShareOf(CHOOSE p \in ps : KeyOf(p) = k)]

OneEach(held) == \A h, r \in held : h.gname = r.gname => h = r
OneKey(ps) == \A p, q \in ps : KeyOf(p) = KeyOf(q) => p = q

\* The positions are those of the groups that there are.
LEMMA PositionsAre ==
  ASSUME NEW g \in Seq(GroupRecs), NEW a \in GroupRecs \cup {NoUpdate}, NamesOnce(g, a)
  PROVE  /\ OneEach(HeldIn(g, a))
         /\ [gname \in ({g[k].gname : k \in DOMAIN g} \cup {a.gname}) \cap Groups |-> LastIn(g, a, gname)]
              = LastIds(HeldIn(g, a))
<1> DEFINE names == ({g[k].gname : k \in DOMAIN g} \cup {a.gname}) \cap Groups
           held == HeldIn(g, a)
<1>1. held \subseteq GroupRecs /\ OneEach(held)
  BY HeldIs DEF OneEach
<1>2. names = {h.gname : h \in held}
  <2>1. \A gname \in names : \E h \in held : h.gname = gname
    BY LastInIs
  <2>2. \A h \in held : h.gname \in names
    <3>1. \A h \in held : h.gname \in Groups
      BY <1>1 DEF GroupRecs
    <3>2. \A h \in held : h \in Elements(g) \/ h = a
      BY DEF HeldIn
    <3> QED BY <3>1, <3>2 DEF Elements
  <2> QED BY <2>1, <2>2
<1>3. \A gname \in names : LastIn(g, a, gname) = (CHOOSE h \in held : h.gname = gname).id
  <2> TAKE gname \in names
  <2>1. PICK h \in held : h.gname = gname /\ h.id = LastIn(g, a, gname)
    BY LastInIs
  <2>2. h = CHOOSE r \in held : r.gname = gname
    <3> HIDE DEF held
    <3> QED BY <1>1, <2>1 DEF OneEach
  <2> QED BY <2>1, <2>2
<1> HIDE DEF names, held
<1>4. [gname \in names |-> LastIn(g, a, gname)] = LastIds(held)
  BY <1>2, <1>3 DEF LastIds
<1> QED BY <1>1, <1>4 DEF names, held

\* The mapping of the refinement, before a step.
LEMMA PositionsMap ==
  ASSUME IInv
  PROVE  Positions = LastIds(HeldIn(group, again)) /\ OneEach(HeldIn(group, again))
<1>1. Positions = [gname \in ({group[k].gname : k \in DOMAIN group} \cup {again.gname}) \cap Groups |->
                     LastIn(group, again, gname)]
  BY DEF Positions, GroupNames, LastOf, LastIn
<1> QED BY <1>1, PositionsAre DEF IInv, TypeInv

\* The same after it.
LEMMA PositionsMapNext ==
  ASSUME IInv'
  PROVE  Positions' = LastIds(HeldIn(group', again')) /\ OneEach(HeldIn(group', again'))
<1>1. Positions' = [gname \in ({group'[k].gname : k \in DOMAIN group'} \cup {again'.gname}) \cap Groups |->
                      LastIn(group', again', gname)]
  BY DEF Positions, GroupNames, LastOf, LastIn
<1> QED BY <1>1, PositionsAre DEF IInv, TypeInv

\* What is pending, with its keys.
LEMMA DeliveriesMap ==
  /\ Deliveries = Shares(Elements(pending))
  /\ Deliveries' = Shares(Elements(pending'))
  BY DEF Deliveries, Shares, KeyOf, ShareOf

\* An element that is pending has its key alone.
LEMMA KeysAre ==
  ASSUME NEW p \in Seq(DeliveryRecs), Once(p)
  PROVE  Elements(p) \subseteq DeliveryRecs /\ OneKey(Elements(p))
<1>1. DOMAIN p = 1..Len(p)
  OBVIOUS
<1>2. \A x \in Elements(p) : \E i \in 1..Len(p) : x = p[i] /\ x \in DeliveryRecs
  BY <1>1, ElementOfSeq DEF Elements
<1>3. ASSUME NEW x \in Elements(p), NEW y \in Elements(p), KeyOf(x) = KeyOf(y)
      PROVE  x = y
  <2>1. x.gname = y.gname /\ x.id = y.id
    BY <1>3 DEF KeyOf
  <2> QED BY <1>2, <2>1 DEF Once
<1> QED BY <1>2, <1>3 DEF OneKey

\* The last ids after one group was given another.
LEMMA LastIdsPut ==
  ASSUME NEW held, OneEach(held), NEW gname, NEW id
  PROVE  LastIds({h \in held : h.gname # gname} \cup {[gname |-> gname, id |-> id]})
           = Put(LastIds(held), gname, id)
<1> DEFINE new == [gname |-> gname, id |-> id]
           held2 == {h \in held : h.gname # gname} \cup {new}
<1>1. new.gname = gname /\ new.id = id
  OBVIOUS
<1> HIDE DEF new
<1>2. {h.gname : h \in held2} = {h.gname : h \in held} \cup {gname}
  BY <1>1
<1>3. (CHOOSE h \in held2 : h.gname = gname) = new
  BY <1>1
<1>4. ASSUME NEW x \in {h.gname : h \in held}, x # gname
      PROVE  (CHOOSE h \in held2 : h.gname = x) = (CHOOSE h \in held : h.gname = x)
  <2>1. PICK h \in held : h.gname = x
    OBVIOUS
  <2>2. h \in held2 /\ \A r \in held2 : r.gname = x => r = h
    BY <1>1, <1>4, <2>1 DEF OneEach
  <2>3. \A r \in held : r.gname = x => r = h
    BY <2>1 DEF OneEach
  <2> HIDE DEF held2
  <2>4. (CHOOSE r \in held2 : r.gname = x) = h
    BY <2>1, <2>2
  <2>5. (CHOOSE r \in held : r.gname = x) = h
    BY <2>1, <2>3
  <2> QED BY <2>4, <2>5
<1> HIDE DEF held2
<1> DEFINE names == {h.gname : h \in held}
           At(x) == (CHOOSE h \in held : h.gname = x).id
           At2(x) == (CHOOSE h \in held2 : h.gname = x).id
<1>5. \A x \in names \cup {gname} : At2(x) = IF x = gname THEN id ELSE At(x)
  <2>1. At2(gname) = id
    BY <1>1, <1>3
  <2>2. ASSUME NEW x \in names, x # gname PROVE At2(x) = At(x)
    BY <1>4, <2>2
  <2> HIDE DEF At, At2, names
  <2> QED BY <2>1, <2>2
<1>6. /\ LastIds(held) = [x \in names |-> At(x)]
      /\ LastIds(held2) = [x \in names \cup {gname} |-> At2(x)]
  BY <1>2 DEF LastIds
<1> HIDE DEF names, At, At2
<1>7. LastIds(held2) = Put(LastIds(held), gname, id)
  BY <1>5, <1>6 DEF Put
<1> QED BY <1>7 DEF held2, new

\* The last ids without that of a group.
LEMMA LastIdsLess ==
  ASSUME NEW held, OneEach(held), NEW gname
  PROVE  LastIds({h \in held : h.gname # gname}) = Less(LastIds(held), {gname})
<1> DEFINE held2 == {h \in held : h.gname # gname}
<1>1. {h.gname : h \in held2} = {h.gname : h \in held} \ {gname}
  OBVIOUS
<1>2. ASSUME NEW x \in {h.gname : h \in held}, x # gname
      PROVE  (CHOOSE h \in held2 : h.gname = x) = (CHOOSE h \in held : h.gname = x)
  <2>1. PICK h \in held : h.gname = x
    OBVIOUS
  <2>2. h \in held2 /\ \A r \in held2 : r.gname = x => r = h
    BY <1>2, <2>1 DEF OneEach
  <2>3. \A r \in held : r.gname = x => r = h
    BY <2>1 DEF OneEach
  <2> HIDE DEF held2
  <2>4. (CHOOSE r \in held2 : r.gname = x) = h
    BY <2>1, <2>2
  <2>5. (CHOOSE r \in held : r.gname = x) = h
    BY <2>1, <2>3
  <2> QED BY <2>4, <2>5
<1> HIDE DEF held2
<1> DEFINE names == {h.gname : h \in held}
           At(x) == (CHOOSE h \in held : h.gname = x).id
           At2(x) == (CHOOSE h \in held2 : h.gname = x).id
<1>3. \A x \in names \ {gname} : At2(x) = At(x)
  <2> TAKE x \in names \ {gname}
  <2> QED BY <1>2
<1>4. /\ LastIds(held) = [x \in names |-> At(x)]
      /\ LastIds(held2) = [x \in names \ {gname} |-> At2(x)]
  BY <1>1 DEF LastIds
<1> HIDE DEF names, At, At2
<1>5. LastIds(held2) = Less(LastIds(held), {gname})
  BY <1>3, <1>4 DEF Less
<1> QED BY <1>5 DEF held2

\* What is pending with one more, or another in the place of one.
LEMMA SharesPut ==
  ASSUME NEW ps, OneKey(ps), NEW d
  PROVE  Shares({p \in ps : KeyOf(p) # KeyOf(d)} \cup {d}) = Put(Shares(ps), KeyOf(d), ShareOf(d))
<1> DEFINE ps2 == {p \in ps : KeyOf(p) # KeyOf(d)} \cup {d}
<1>1. {KeyOf(p) : p \in ps2} = {KeyOf(p) : p \in ps} \cup {KeyOf(d)}
  OBVIOUS
<1>2. (CHOOSE p \in ps2 : KeyOf(p) = KeyOf(d)) = d
  OBVIOUS
<1>3. ASSUME NEW x \in {KeyOf(p) : p \in ps}, x # KeyOf(d)
      PROVE  (CHOOSE p \in ps2 : KeyOf(p) = x) = (CHOOSE p \in ps : KeyOf(p) = x)
  <2>1. PICK p \in ps : KeyOf(p) = x
    OBVIOUS
  <2>2. p \in ps2 /\ \A q \in ps2 : KeyOf(q) = x => q = p
    BY <1>3, <2>1 DEF OneKey
  <2>3. \A q \in ps : KeyOf(q) = x => q = p
    BY <2>1 DEF OneKey
  <2> HIDE DEF ps2
  <2>4. (CHOOSE q \in ps2 : KeyOf(q) = x) = p
    BY <2>1, <2>2
  <2>5. (CHOOSE q \in ps : KeyOf(q) = x) = p
    BY <2>1, <2>3
  <2> QED BY <2>4, <2>5
<1> HIDE DEF ps2
<1> DEFINE keys == {KeyOf(p) : p \in ps}
           key == KeyOf(d)
           At(x) == ShareOf(CHOOSE p \in ps : KeyOf(p) = x)
           At2(x) == ShareOf(CHOOSE p \in ps2 : KeyOf(p) = x)
<1>4. \A x \in keys \cup {key} : At2(x) = IF x = key THEN ShareOf(d) ELSE At(x)
  <2>1. At2(key) = ShareOf(d)
    BY <1>2
  <2>2. ASSUME NEW x \in keys, x # key PROVE At2(x) = At(x)
    BY <1>3, <2>2
  <2> HIDE DEF At, At2, keys, key
  <2> QED BY <2>1, <2>2
<1>5. /\ Shares(ps) = [x \in keys |-> At(x)]
      /\ Shares(ps2) = [x \in keys \cup {key} |-> At2(x)]
  BY <1>1 DEF Shares
<1> HIDE DEF keys, key, At, At2
<1>6. Shares(ps2) = Put(Shares(ps), key, ShareOf(d))
  BY <1>4, <1>5 DEF Put
<1> QED BY <1>6 DEF ps2, key

\* What is pending without some of it.
LEMMA SharesLess ==
  ASSUME NEW ps, OneKey(ps), NEW ps2 \in SUBSET ps,
         NEW keys, keys = {KeyOf(p) : p \in ps \ ps2}
  PROVE  Shares(ps2) = Less(Shares(ps), keys)
<1>1. {KeyOf(p) : p \in ps2} = {KeyOf(p) : p \in ps} \ keys
  BY DEF OneKey
<1>2. ASSUME NEW x \in {KeyOf(p) : p \in ps2}
      PROVE  (CHOOSE p \in ps2 : KeyOf(p) = x) = (CHOOSE p \in ps : KeyOf(p) = x)
  <2>1. PICK p \in ps2 : KeyOf(p) = x
    OBVIOUS
  <2>2. \A q \in ps : KeyOf(q) = x => q = p
    BY <2>1 DEF OneKey
  <2>3. (CHOOSE q \in ps2 : KeyOf(q) = x) = p
    BY <2>1, <2>2
  <2>4. (CHOOSE q \in ps : KeyOf(q) = x) = p
    BY <2>1, <2>2
  <2> QED BY <2>3, <2>4
<1> DEFINE names == {KeyOf(p) : p \in ps}
           At(x) == ShareOf(CHOOSE p \in ps : KeyOf(p) = x)
           At2(x) == ShareOf(CHOOSE p \in ps2 : KeyOf(p) = x)
<1>3. \A x \in names \ keys : At2(x) = At(x)
  <2> TAKE x \in names \ keys
  <2> QED BY <1>1, <1>2
<1>4. /\ Shares(ps) = [x \in names |-> At(x)]
      /\ Shares(ps2) = [x \in names \ keys |-> At2(x)]
  BY <1>1 DEF Shares
<1> HIDE DEF names, At, At2
<1> QED BY <1>3, <1>4 DEF Less

-----------------------------------------------------------------------------
(* Entries. *)

\* Callers order ids, and tell numbers from other texts, as the searches do.
LEMMA SameOrder ==
  /\ \A a, b : Abstract!Before(a, b) <=> Before(a, b)
  /\ Abstract!Numbers = Numbers
<1>1. \A a, b : Abstract!Before(a, b) <=> Before(a, b)
  BY DEF Abstract!Before, Abstract!Parts, Before, NumberOf
<1>2. ASSUME NEW id \in SearchIds
      PROVE  IsNumber(id) <=> id \notin {Lowest, Highest, BadId}
  <2>1. CASE id \in NumberIds
    <3>1. IsNumber(id) /\ id # Lowest /\ id # Highest
      BY <2>1, NumberParts
    <3> QED BY <3>1 DEF IsNumber
  <2>2. CASE id \in {Lowest, Highest, BadId}
    BY <2>2, OthersAreNone
  <2> QED BY <2>1, <2>2, SearchesAreTexts
<1>3. Numbers = SearchIds \ {Lowest, Highest, BadId}
  BY <1>2 DEF Numbers
<1>4. Abstract!Numbers = SearchIds \ {Lowest, Highest, BadId}
  BY DEF Abstract!Numbers, Abstract!Lowest, Abstract!Highest, Abstract!BadId, Lowest, Highest, BadId
<1> QED BY <1>1, <1>3, <1>4

\* Ids of entries are the same if neither is before the other.
LEMMA EntryOrder ==
  ASSUME NEW a \in Nat \X Nat, NEW b \in Nat \X Nat
  PROVE  Before(a, b) \/ Before(b, a) \/ a = b
  BY EntryNumber, Order

\* The first and the last of some ids.
LEMMA EndsAre ==
  ASSUME NEW ids \in SUBSET (Nat \X Nat), NEW e \in ids
  PROVE  /\ (\A f \in ids : ~ Before(f, e)) => Abstract!First(ids) = e
         /\ (\A f \in ids : ~ Before(e, f)) => Abstract!LastIn(ids) = e
<1>1. \A f \in ids : f \in NumberIds
  BY EntryNumber
<1>2. ASSUME \A f \in ids : ~ Before(f, e) PROVE Abstract!First(ids) = e
  <2>1. ASSUME NEW x \in ids, \A f \in ids : ~ Before(f, x)
        PROVE  x = e
    BY <1>2, <2>1, EntryOrder
  <2>2. (CHOOSE x \in ids : \A f \in ids : ~ Before(f, x)) = e
    BY <1>2, <2>1
  <2> QED BY <2>2, SameOrder DEF Abstract!First
<1>3. ASSUME \A f \in ids : ~ Before(e, f) PROVE Abstract!LastIn(ids) = e
  <2>1. ASSUME NEW x \in ids, \A f \in ids : ~ Before(x, f)
        PROVE  x = e
    BY <1>3, <2>1, EntryOrder
  <2>2. (CHOOSE x \in ids : \A f \in ids : ~ Before(x, f)) = e
    BY <1>3, <2>1
  <2> QED BY <2>2, SameOrder DEF Abstract!LastIn
<1> QED BY <1>2, <1>3

\* What is in a list in order.
LEMMA InOrder ==
  ASSUME NEW s, Sorted(s)
  PROVE  /\ Len(s) \in Nat
         /\ \A i \in 1..Len(s) : s[i] \in Nat \X Nat /\ s[i] \in NumberIds /\ s[i] \in Elements(s)
         /\ \A e \in Elements(s) : \E i \in 1..Len(s) : e = s[i]
         /\ Elements(s) \subseteq Nat \X Nat
         /\ \A i, k \in 1..Len(s) : /\ s[i] = s[k] => i = k
                                   /\ ~ Before(s[k], s[i]) <=> i <= k
<1>1. Len(s) \in Nat /\ DOMAIN s = 1..Len(s) /\ s \in Seq(Nat \X Nat)
  BY DEF Sorted
<1>2. \A i \in 1..Len(s) : s[i] \in Nat \X Nat
  BY <1>1, ElementOfSeq
<1>3. \A i \in 1..Len(s) : s[i] \in NumberIds
  BY <1>2, EntryNumber
<1>4. ASSUME NEW i \in 1..Len(s), NEW k \in 1..Len(s)
      PROVE  (s[i] = s[k] => i = k) /\ (~ Before(s[k], s[i]) <=> i <= k)
  <2>1. /\ i < k => Before(s[i], s[k])
        /\ k < i => Before(s[k], s[i])
    BY DEF Sorted
  <2>2. /\ ~ Before(s[i], s[i]) /\ ~ Before(s[k], s[k])
        /\ Before(s[i], s[k]) => ~ Before(s[k], s[i])
    BY <1>3, Order
  <2>3. i \in Nat /\ k \in Nat
    OBVIOUS
  <2>4. CASE i < k
    BY <2>1, <2>2, <2>3, <2>4
  <2>5. CASE k < i
    BY <2>1, <2>2, <2>3, <2>5
  <2>6. CASE i = k
    BY <2>2, <2>3, <2>6
  <2> QED BY <2>3, <2>4, <2>5, <2>6
<1>5. \A e \in Elements(s) : \E i \in 1..Len(s) : e = s[i]
  BY <1>1 DEF Elements
<1>6. \A i \in 1..Len(s) : s[i] \in Elements(s)
  BY <1>1 DEF Elements
<1> QED BY <1>1, <1>2, <1>3, <1>4, <1>5, <1>6

\* An entry is as far in as there are entries before it.
LEMMA RankIs ==
  ASSUME NEW s, Sorted(s), NEW i \in 1..Len(s)
  PROVE  Cardinality({e \in Elements(s) : Before(e, s[i])}) = i - 1
<1> DEFINE below == {e \in Elements(s) : Before(e, s[i])}
           f == [k \in 1..(i - 1) |-> s[k]]
<1>1. Len(s) \in Nat /\ i \in Nat /\ i - 1 \in Nat /\ \A k \in 1..(i - 1) : k \in 1..Len(s)
  BY InOrder
<1>2. \A k \in 1..Len(s) : Before(s[k], s[i]) <=> k < i
  <2> TAKE k \in 1..Len(s)
  <2>1. ~ Before(s[k], s[i]) <=> i <= k
    BY InOrder
  <2> QED BY <1>1, <2>1
<1>3. \A k \in 1..(i - 1) : f[k] \in below
  <2> TAKE k \in 1..(i - 1)
  <2>1. s[k] \in Elements(s) /\ k < i
    BY <1>1, InOrder
  <2> QED BY <1>1, <1>2, <2>1
<1>4. \A k, l \in 1..(i - 1) : f[k] = f[l] => k = l
  <2> TAKE k, l \in 1..(i - 1)
  <2>1. k \in 1..Len(s) /\ l \in 1..Len(s)
    BY <1>1
  <2>2. s[k] = s[l] => k = l
    BY <2>1, InOrder
  <2> QED BY <2>2
<1>5. \A e \in below : \E k \in 1..(i - 1) : f[k] = e
  <2> TAKE e \in below
  <2>1. PICK k \in 1..Len(s) : e = s[k]
    BY InOrder
  <2>2. k \in 1..(i - 1)
    BY <1>1, <1>2, <2>1
  <2> QED BY <2>1, <2>2
<1>6. f \in [1..(i - 1) -> below]
  BY <1>3
<1> HIDE DEF f, below
<1>7. f \in Bijection(1..(i - 1), below)
  BY <1>4, <1>5, <1>6, Fun_IsBij
<1>8. ExistsBijection(1..(i - 1), below)
  BY <1>7 DEF ExistsBijection
<1>9. IsFiniteSet(1..(i - 1)) /\ Cardinality(1..(i - 1)) = i - 1
  <2>1. 1 \in Int /\ i - 1 \in Int
    BY <1>1
  <2>2. /\ IsFiniteSet(1..(i - 1))
        /\ Cardinality(1..(i - 1)) = IF 1 > i - 1 THEN 0 ELSE (i - 1) - 1 + 1
    BY <2>1, FS_Interval
  <2> QED BY <1>1, <2>2
<1>10. Cardinality(below) = i - 1
  BY <1>8, <1>9, FS_Bijection
<1> QED BY <1>10 DEF below

-----------------------------------------------------------------------------
(* Steps. *)

\* What callers see of a status, and of what a step leaves alone.
LEMMA SeenIs ==
  /\ \A s : ret' = Status(s) => Answered' = [status |-> s, val |-> {}]
  /\ \A s, v : ret' = [status |-> s, val |-> v] => Answered' = [status |-> s, val |-> Elements(v)]
  /\ UNCHANGED stream => Elements(stream)' = Elements(stream)
  /\ UNCHANGED <<group, again>> => Positions' = Positions
  /\ UNCHANGED pending => Deliveries' = Deliveries
  /\ Elements(<<>>) = {}
<1>1. \A s : ret' = Status(s) => Answered' = [status |-> s, val |-> {}]
  BY DEF Answered, Status, Elements
<1>2. \A s, v : ret' = [status |-> s, val |-> v] => Answered' = [status |-> s, val |-> Elements(v)]
  BY DEF Answered, Elements
<1>3. UNCHANGED stream => Elements(stream)' = Elements(stream)
  BY DEF Elements
<1>4. UNCHANGED <<group, again>> => Positions' = Positions
  BY DEF Positions, GroupNames, LastOf, Elements
<1>5. UNCHANGED pending => Deliveries' = Deliveries
  BY DEF Deliveries, Elements
<1>6. Elements(<<>>) = {}
  BY DEF Elements
<1> QED BY <1>1, <1>2, <1>3, <1>4, <1>5, <1>6

\* An answer that changes nothing.
LEMMA AnswerMap ==
  ASSUME NEW s, NEW v, Answer(s, v)
  PROVE  Abstract!Answer(s, Elements(v))
  BY SeenIs DEF Answer, Abstract!Answer

\* The same without values.
LEMMA AnswerNone ==
  ASSUME NEW s, Answer(s, <<>>)
  PROVE  Abstract!Answer(s, {})
<1>1. Abstract!Answer(s, Elements(<<>>))
  BY AnswerMap
<1> QED BY <1>1, SeenIs

\* In the beginning there is nothing.
LEMMA InitMap == Init => Abstract!Init
<1> SUFFICES ASSUME Init PROVE Abstract!Init
  OBVIOUS
<1>1. /\ stream = <<>> /\ group = <<>> /\ pending = <<>> /\ newest = << 0, 0 >>
      /\ again = NoUpdate /\ ret = Status(STRM_OK)
  BY DEF Init
<1>2. Elements(stream) = {} /\ Elements(pending) = {}
  BY <1>1 DEF Elements
<1>3. GroupNames \cap Groups = {}
  BY <1>1, GroupsAreNamed DEF GroupNames
<1>4. Positions = <<>>
  BY <1>3 DEF Positions
<1>5. Deliveries = <<>>
  BY <1>2 DEF Deliveries
<1>6. Answered = [status |-> "STRM_OK", val |-> {}]
  <2>1. ret.status = "STRM_OK" /\ ret.val = <<>>
    BY <1>1 DEF Status, STRM_OK
  <2> QED BY <2>1, SeenIs DEF Answered
<1> QED BY <1>1, <1>2, <1>4, <1>5, <1>6 DEF Abstract!Init

\* An entry that is added.
LEMMA AddMap ==
  ASSUME IInv, NEW id \in EntryIds, Add(id)
  PROVE  Abstract!Add(id)
<1>1. newest \in Nat \X Nat /\ id \in Nat \X Nat /\ stream \in Seq(Nat \X Nat)
  BY IdsAreNumbers DEF IInv, TypeInv
<1>2. Before(newest, id)
  <2>1. newest \in NumberIds /\ id \in NumberIds /\ NumberOf(newest) = newest /\ NumberOf(id) = id
    BY <1>1, EntryNumber
  <2>2. Compare(NumberOf(newest), NumberOf(id)) = -1
    BY <2>1 DEF Add
  <2> QED BY <2>1, <2>2, CompareIs
<1>3. Elements(Append(stream, id)) = Elements(stream) \cup {id}
  BY <1>1, ElementsAppend
<1>4. \/ Elements(stream)' = Elements(stream) \cup {id} /\ Answered' = [status |-> "STRM_OK", val |-> {}]
      \/ Elements(stream)' = Elements(stream) /\ Answered' = [status |-> "STRM_FULL", val |-> {}]
  <2>1. CASE stream' = Append(stream, id) /\ ret' = Status(STRM_OK)
    BY <1>3, <2>1, SeenIs DEF STRM_OK
  <2>2. CASE UNCHANGED stream /\ ret' = Status(STRM_FULL)
    BY <2>2, SeenIs DEF STRM_FULL
  <2> QED BY <2>1, <2>2 DEF Add
<1>5. newest' = id /\ Positions' = Positions /\ Deliveries' = Deliveries
  BY SeenIs DEF Add
<1> QED BY <1>2, <1>4, <1>5, SameOrder DEF Abstract!Add, Abstract!Done

\* The entry at a position is removed.
LEMMA RemoveMap ==
  ASSUME IInv, NEW pos \in 0..(Len(stream) - 1),
         stream' = Without(stream, pos), ret' = Status(STRM_OK),
         UNCHANGED <<group, pending, newest, again>>
  PROVE  Abstract!Remove(stream[pos + 1])
<1>1. Sorted(stream) /\ stream \in Seq(Nat \X Nat) /\ Len(stream) \in Nat
  BY InOrder DEF IInv, Sorted
<1>2. pos + 1 \in 1..Len(stream)
  BY <1>1
<1>3. \A i \in 1..Len(stream) : stream[i] = stream[pos + 1] => i = pos + 1
  <2> TAKE i \in 1..Len(stream)
  <2> QED BY <1>1, <1>2, InOrder
<1>4. Elements(Without(stream, pos)) = Elements(stream) \ {stream[pos + 1]}
  BY <1>1, <1>3, ElementsWithout
<1>5. Elements(stream)' = Elements(stream) \ {stream[pos + 1]}
  BY <1>4 
<1>6. Answered' = [status |-> "STRM_OK", val |-> {}]
  BY SeenIs DEF STRM_OK
<1> QED BY <1>5, <1>6, SeenIs DEF Abstract!Remove, Abstract!Done

\* The ends of a list in order are the first and the last of its entries.
LEMMA StreamEnds ==
  ASSUME NEW s, Sorted(s), Len(s) > 0
  PROVE  /\ Elements(s) # {}
         /\ Abstract!First(Elements(s)) = s[1]
         /\ Abstract!LastIn(Elements(s)) = s[Len(s)]
<1>1. /\ Len(s) \in Nat /\ 1 \in 1..Len(s) /\ Len(s) \in 1..Len(s)
      /\ Elements(s) \in SUBSET (Nat \X Nat)
      /\ s[1] \in Elements(s) /\ s[Len(s)] \in Elements(s)
  BY InOrder
<1>2. \A f \in Elements(s) : ~ Before(f, s[1])
  <2> TAKE f \in Elements(s)
  <2>1. PICK k \in 1..Len(s) : f = s[k]
    BY InOrder
  <2>2. 1 <= k
    OBVIOUS
  <2> QED BY <1>1, <2>1, <2>2, InOrder
<1>3. \A f \in Elements(s) : ~ Before(s[Len(s)], f)
  <2> TAKE f \in Elements(s)
  <2>1. PICK k \in 1..Len(s) : f = s[k]
    BY InOrder
  <2>2. k <= Len(s)
    BY <1>1
  <2> QED BY <1>1, <2>1, <2>2, InOrder
<1> QED BY <1>1, <1>2, <1>3, EndsAre

\* Callers remove what they search for.
LEMMA DeleteMap ==
  ASSUME IInv, NEW id \in SearchIds, Delete(id)
  PROVE  Abstract!Delete(id)
<1> DEFINE pos == BSearchEq(stream, id)
<1>1. Sorted(stream) /\ Len(stream) \in Nat
  BY InOrder DEF IInv
<1>9. stream # <<>> => Len(stream) > 0
  BY <1>1, EmptySeq DEF Sorted
<1>2. ASSUME pos = -1, Elements(stream) = {} \/ id = BadId \/ (id \in Numbers /\ Abstract!UpTo(id) = Abstract!Below(id))
      PROVE  Abstract!Delete(id)
  <2>1. Abstract!Answer("STRM_NOT_FOUND", {})
    BY <1>2, AnswerNone DEF Delete, STRM_NOT_FOUND
  <2> QED BY <1>2, <2>1, SameOrder DEF Abstract!Delete, BadId, Abstract!BadId
<1>3. ASSUME pos \in 0..(Len(stream) - 1)
      PROVE  Abstract!Remove(stream[pos + 1])
  <2>1. pos # -1
    BY <1>3
  <2>2. stream' = Without(stream, pos) /\ ret' = Status(STRM_OK) /\ UNCHANGED <<group, pending, newest, again>>
    BY <2>1 DEF Delete
  <2> HIDE DEF pos
  <2> QED BY <1>3, <2>2, RemoveMap
<1>4. CASE stream = <<>>
  <2>1. pos = -1 /\ Elements(stream) = {}
    BY <1>4, SeenIs DEF BSearchEq
  <2> QED BY <1>2, <2>1
<1>5. CASE stream # <<>> /\ id = Lowest
  <2>1. pos = 0 /\ Len(stream) > 0
    <3>1. id # Highest /\ id # BadId
      BY <1>5 DEF Lowest, Highest, BadId
    <3>2. BSearchEq(stream, id) = IF stream = <<>> THEN -1 ELSE 0
      BY <1>5, <3>1, OthersAreNone DEF BSearchEq
    <3> QED BY <1>5, <1>9, <3>2
  <2>2. 0 \in 0..(Len(stream) - 1)
    BY <1>1, <2>1
  <2>3. Abstract!Remove(stream[1])
    BY <1>3, <2>1, <2>2
  <2>4. Elements(stream) # {} /\ Abstract!First(Elements(stream)) = stream[1]
    BY <1>1, <2>1, StreamEnds
  <2> QED BY <1>5, <2>3, <2>4 DEF Abstract!Delete, Lowest, Abstract!Lowest
<1>6. CASE stream # <<>> /\ id = Highest
  <2>1. pos = Len(stream) - 1 /\ Len(stream) > 0
    <3>1. id # Lowest /\ id # BadId
      BY <1>6 DEF Lowest, Highest, BadId
    <3>2. BSearchEq(stream, id) = IF stream = <<>> THEN -1 ELSE Len(stream) - 1
      BY <1>6, <3>1, OthersAreNone DEF BSearchEq
    <3> QED BY <1>6, <1>9, <3>2
  <2>2. pos \in 0..(Len(stream) - 1) /\ pos + 1 = Len(stream)
    BY <1>1, <2>1
  <2>3. Abstract!Remove(stream[Len(stream)])
    BY <1>3, <2>2
  <2>4. Elements(stream) # {} /\ Abstract!LastIn(Elements(stream)) = stream[Len(stream)]
    BY <1>1, <2>1, StreamEnds
  <2> QED BY <1>6, <2>3, <2>4 DEF Abstract!Delete, Highest, Abstract!Highest
<1>7. CASE stream # <<>> /\ id = BadId
  <2>1. id # Lowest /\ id # Highest /\ ~ IsNumber(id)
    BY <1>7, OthersAreNone DEF BadId, Lowest, Highest
  <2>2. pos = -1
    BY <1>7, <2>1 DEF BSearchEq
  <2> QED BY <1>2, <1>7, <2>2
<1>8. CASE id \in NumberIds
  <2>1. id \in Numbers
    BY <1>8, NumberParts DEF Numbers
  <2>2. PlaceOf(stream, id, pos)
    BY <1>1, <1>8, BSearchEqRight
  <2>3. \A e \in Elements(stream) :
          /\ e \in NumberIds
          /\ e \in Abstract!UpTo(id) <=> ~ Before(id, e)
          /\ e \in Abstract!Below(id) <=> Before(e, id)
    BY <1>1, InOrder, SameOrder DEF Abstract!UpTo, Abstract!Below
  <2>4. \A e \in Elements(stream) :
          e \in Abstract!UpTo(id) \ Abstract!Below(id) <=> NumberOf(e) = NumberOf(id)
    BY <1>8, <2>3, Order
  <2>5. Abstract!UpTo(id) \subseteq Elements(stream) /\ Abstract!Below(id) \subseteq Abstract!UpTo(id)
    <3>1. Abstract!UpTo(id) \subseteq Elements(stream) /\ Abstract!Below(id) \subseteq Elements(stream)
      BY DEF Abstract!UpTo, Abstract!Below
    <3> QED BY <1>8, <2>3, <3>1, Order
  <2>6. CASE pos = -1 /\ \A i \in 1..Len(stream) : NumberOf(stream[i]) # NumberOf(id)
    <3>1. \A e \in Elements(stream) : NumberOf(e) # NumberOf(id)
      BY <1>1, <2>6, InOrder
    <3>2. Abstract!UpTo(id) = Abstract!Below(id)
      BY <2>4, <2>5, <3>1
    <3> QED BY <1>2, <2>1, <2>6, <3>2
  <2>7. CASE pos \in 0..(Len(stream) - 1) /\ NumberOf(stream[pos + 1]) = NumberOf(id)
    <3>1. stream[pos + 1] \in Elements(stream)
      <4>1. pos + 1 \in 1..Len(stream)
        BY <1>1, <2>7
      <4> HIDE DEF pos
      <4> QED BY <1>1, <4>1, InOrder
    <3>2. stream[pos + 1] \in Abstract!UpTo(id) \ Abstract!Below(id)
      BY <2>4, <2>7, <3>1
    <3>3. Abstract!Remove(stream[pos + 1])
      BY <1>3, <2>7
    <3> HIDE DEF pos
    <3> QED BY <2>1, <3>2, <3>3, SameOrder DEF Abstract!Delete
  <2> QED BY <2>2, <2>6, <2>7 DEF PlaceOf
<1> QED BY <1>4, <1>5, <1>6, <1>7, <1>8, SearchesAreTexts

\* The position of a group is in its record.
LEMMA PositionIs ==
  ASSUME IInv
  PROVE  /\ DOMAIN Positions = {h.gname : h \in HeldIn(group, again)}
         /\ \A h \in HeldIn(group, again) : Positions[h.gname] = h.id
         /\ Positions = [gname \in DOMAIN Positions |-> Positions[gname]]
<1> DEFINE held == HeldIn(group, again)
<1>1. Positions = LastIds(held) /\ OneEach(held)
  BY PositionsMap
<1> HIDE DEF held
<1>2. ASSUME NEW h \in held PROVE LastIds(held)[h.gname] = h.id
  <2>1. (CHOOSE r \in held : r.gname = h.gname) = h
    BY <1>1 DEF OneEach
  <2> QED BY <2>1 DEF LastIds
<1>3. /\ DOMAIN LastIds(held) = {h.gname : h \in held}
      /\ LastIds(held) = [gname \in DOMAIN LastIds(held) |-> LastIds(held)[gname]]
  BY DEF LastIds
<1> QED BY <1>1, <1>2, <1>3 DEF held

\* What is pending is found by its group and its id.
LEMMA DeliveryIs ==
  ASSUME IInv
  PROVE  /\ OneKey(Elements(pending)) /\ Elements(pending) \subseteq DeliveryRecs
         /\ DOMAIN Deliveries = {KeyOf(p) : p \in Elements(pending)}
         /\ \A p \in Elements(pending) : Deliveries[KeyOf(p)] = ShareOf(p)
<1> DEFINE ps == Elements(pending)
<1>1. pending \in Seq(DeliveryRecs) /\ Once(pending)
  BY DEF IInv, TypeInv
<1>2. ps \subseteq DeliveryRecs /\ OneKey(ps)
  BY <1>1, KeysAre
<1>3. Deliveries = Shares(ps)
  BY DeliveriesMap
<1> HIDE DEF ps
<1>4. ASSUME NEW p \in ps PROVE Shares(ps)[KeyOf(p)] = ShareOf(p)
  <2> DEFINE key == KeyOf(p)
  <2>1. (CHOOSE q \in ps : KeyOf(q) = key) = p
    BY <1>2 DEF OneKey
  <2>2. key \in {KeyOf(q) : q \in ps}
    OBVIOUS
  <2> HIDE DEF key
  <2>3. Shares(ps)[key] = ShareOf(CHOOSE q \in ps : KeyOf(q) = key)
    BY <2>2 DEF Shares
  <2> QED BY <2>1, <2>3 DEF key
<1>5. DOMAIN Shares(ps) = {KeyOf(p) : p \in ps}
  BY DEF Shares
<1> QED BY <1>2, <1>3, <1>4, <1>5 DEF ps

\* A group is there for callers if a search finds its record.
LEMMA ExistsIs ==
  ASSUME IInv, Ready, NEW gname \in Groups
  PROVE  Abstract!Exists(gname) <=> GroupAt(gname) # -1
<1>1. TypeInv /\ DOMAIN Positions = {h.gname : h \in HeldIn(group, again)}
  BY PositionIs DEF IInv
<1>2. CASE GroupAt(gname) = -1
  <2>1. \A h \in HeldIn(group, again) : h.gname # gname
    BY <1>1, <1>2, GroupNotHeld
  <2> QED BY <1>1, <1>2, <2>1 DEF Abstract!Exists
<1>3. CASE GroupAt(gname) # -1
  <2> DEFINE r == group[GroupAt(gname) + 1]
  <2>1. r \in HeldIn(group, again) /\ r.gname = gname
    BY <1>1, <1>3, GroupHeld
  <2> HIDE DEF r
  <2> QED BY <1>1, <1>3, <2>1 DEF Abstract!Exists
<1> QED BY <1>2, <1>3

\* An update moves the position of one group.
LEMMA UpdateMap ==
  ASSUME IInv, IInv', NEW gname, NEW id,
         IsUpdate(group, again, gname, id, group', again')
  PROVE  Abstract!Update(gname, id)
<1> DEFINE held == HeldIn(group, again)
           held2 == HeldIn(group', again')
<1>1. Positions = LastIds(held) /\ OneEach(held)
  BY PositionsMap
<1>2. Positions' = LastIds(held2)
  BY PositionsMapNext
<1>3. held2 = {r \in held : r.gname # gname} \cup {[gname |-> gname, id |-> id]}
  BY DEF IsUpdate
<1> HIDE DEF held, held2
<1>4. LastIds(held2) = Put(LastIds(held), gname, id)
  BY <1>1, <1>3, LastIdsPut
<1>5. Positions' = Put(Positions, gname, id)
  BY <1>1, <1>2, <1>4
<1> QED BY <1>5 DEF Put, Abstract!Update

\* What update_group() answers.
LEMMA UpdateAnswers ==
  ASSUME NEW gname, NEW id, UpdateGroup(gname, id)
  PROVE  Abstract!Done("STRM_OK") \/ Abstract!Done("STRM_FULL")
<1>1. ret' = Status(STRM_OK) \/ ret' = Status(STRM_FULL)
  BY DEF UpdateGroup
<1> QED BY <1>1, SeenIs DEF Abstract!Done, STRM_OK, STRM_FULL

\* A group that a caller makes.
LEMMA CreateGroupMap ==
  ASSUME IInv, IInv', NEW gname \in Groups, NEW id \in {<< 0 >>} \cup EntryIds, CreateGroup(gname, id)
  PROVE  Abstract!CreateGroup(gname, id)
<1>1. id \in NumberIds
  BY IdsAreNumbers, EntryNumber, ZeroNumber
<1>2. Ready /\ GroupAt(gname) = -1 /\ UpdateGroup(gname, id) /\ UNCHANGED <<stream, pending, newest>>
  BY DEF CreateGroup
<1>3. IsUpdate(group, again, gname, id, group', again')
  BY <1>1, <1>2, UpdateGroupIs DEF IInv
<1>4. id = << 0 >> \/ (Elements(stream) # {} /\ id = Abstract!LastIn(Elements(stream)))
  <2>1. id = << 0 >> \/ (stream # <<>> /\ id = stream[Len(stream)])
    BY DEF CreateGroup, LastId
  <2>2. Sorted(stream) /\ (stream # <<>> => Len(stream) > 0)
    BY InOrder, EmptySeq DEF IInv, TypeInv
  <2> QED BY <2>1, <2>2, StreamEnds
<1>5. ~ Abstract!Exists(gname)
  BY <1>2, ExistsIs
<1>6. Abstract!Update(gname, id)
  BY <1>3, UpdateMap
<1>7. Abstract!Done("STRM_OK") \/ Abstract!Done("STRM_FULL")
  BY <1>2, UpdateAnswers
<1> QED BY <1>2, <1>4, <1>5, <1>6, <1>7, SeenIs DEF Abstract!CreateGroup

\* A refused update that is repeated changes nothing that callers see.
LEMMA UpdateAgainMap ==
  ASSUME IInv, IInv', ~ Ready => ret.status = STRM_FULL, UpdateAgain
  PROVE  Abstract!Repeat
<1> DEFINE gname == again.gname
           id == again.id
<1>1. /\ gname \in Groups /\ id \in NumberIds /\ again \in HeldIn(group, again)
      /\ ret.status = STRM_FULL
  BY AgainHeld DEF UpdateAgain
<1>2. UpdateGroup(gname, id) /\ UNCHANGED <<stream, pending, newest>>
  BY DEF UpdateAgain
<1>3. IsUpdate(group, again, gname, id, group', again')
  BY <1>1, <1>2, UpdateGroupIs DEF IInv
<1>4. Positions' = Positions
  <2>1. Positions' = [g \in DOMAIN Positions \cup {gname} |-> IF g = gname THEN id ELSE Positions[g]]
    <3>1. Abstract!Update(gname, id)
      <4> HIDE DEF gname, id
      <4> QED BY <1>3, UpdateMap
    <3> QED BY <3>1 DEF Abstract!Update
  <2>2. gname \in DOMAIN Positions /\ Positions[gname] = id
    BY <1>1, PositionIs
  <2>3. Positions = [g \in DOMAIN Positions |-> Positions[g]]
    BY PositionIs
  <2> HIDE DEF gname, id
  <2> QED BY <2>1, <2>2, <2>3
<1>5. Abstract!Done("STRM_OK") \/ Abstract!Done("STRM_FULL")
  BY <1>2, UpdateAnswers
<1>6. Elements(stream)' = Elements(stream) /\ Deliveries' = Deliveries /\ newest' = newest
  BY <1>2, SeenIs
<1>7. Answered.status = "STRM_FULL"
  BY <1>1 DEF Answered, STRM_FULL
<1> QED BY <1>4, <1>5, <1>6, <1>7 DEF Abstract!Repeat, Abstract!Answer, Abstract!Done

\* What is pending is kept but for some of it.
LEMMA ForgetMap ==
  ASSUME IInv, NEW kept, Elements(pending') = Elements(pending) \cap kept,
         NEW keys, keys = {KeyOf(p) : p \in Elements(pending) \ kept}
  PROVE  Abstract!Forget(keys)
<1> DEFINE ps == Elements(pending)
           ps2 == Elements(pending')
<1>1. OneKey(ps) /\ Deliveries = Shares(ps) /\ Deliveries' = Shares(ps2)
  BY DeliveryIs, DeliveriesMap
<1>2. ps2 \in SUBSET ps /\ ps \ ps2 = ps \ kept
  OBVIOUS
<1> HIDE DEF ps, ps2
<1>3. Shares(ps2) = Less(Shares(ps), keys)
  <2>1. keys = {KeyOf(p) : p \in ps \ ps2}
    BY <1>2 DEF ps
  <2> QED BY <1>1, <1>2, <2>1, SharesLess
<1> QED BY <1>1, <1>3 DEF Less, Abstract!Forget

\* What remove_pending() keeps.
LEMMA PendingWithoutIs ==
  ASSUME IInv, NEW gname, NEW cnames
  PROVE  Elements(PendingWithout(gname, cnames))
           = Elements(pending) \cap {p \in Elements(pending) : p.gname = gname => p.cname \notin cnames}
  BY KeptOfIs DEF IInv, TypeInv, PendingWithout

\* A group that is removed takes along what is pending for it.
LEMMA RemoveGroupMap ==
  ASSUME IInv, IInv', NEW gname \in Groups, RemoveGroup(gname)
  PROVE  Abstract!RemoveGroup(gname)
<1>1. Ready
  BY DEF RemoveGroup
<1>2. CASE GroupAt(gname) = -1
  <2>1. Abstract!Answer(STRM_OK, Elements(<< 0 >>))
    BY <1>2, AnswerMap DEF RemoveGroup
  <2>2. Elements(<< 0 >>) = {0}
    BY DEF Elements
  <2>3. ~ Abstract!Exists(gname)
    BY <1>1, <1>2, ExistsIs
  <2> QED BY <2>1, <2>2, <2>3 DEF Abstract!RemoveGroup, STRM_OK
<1>3. CASE GroupAt(gname) # -1
  <2>1. /\ group' = Without(group, GroupAt(gname))
        /\ pending' = PendingWithout(gname, Consumers)
        /\ ret' = [status |-> STRM_OK, val |-> << 1 >>]
        /\ UNCHANGED <<stream, newest, again>>
    BY <1>3 DEF RemoveGroup
  <2>2. Positions' = Less(Positions, {gname})
    <3> DEFINE held == HeldIn(group, again)
               held2 == HeldIn(group', again')
    <3>1. Positions = LastIds(held) /\ OneEach(held) /\ Positions' = LastIds(held2)
      BY PositionsMap, PositionsMapNext
    <3>2. held2 = {r \in held : r.gname # gname}
      BY <1>1, <1>3, <2>1, RemovedGroupIs
    <3> HIDE DEF held, held2
    <3> QED BY <3>1, <3>2, LastIdsLess
  <2>3. Abstract!Forget({k \in DOMAIN Deliveries : k[1] = gname})
    <3> DEFINE ps == Elements(pending)
               kept == {p \in ps : p.gname = gname => p.cname \notin Consumers}
               keys == {k \in DOMAIN Deliveries : k[1] = gname}
    <3>1. Elements(pending') = ps \cap kept
      BY <2>1, PendingWithoutIs
    <3>2. ps \subseteq DeliveryRecs /\ DOMAIN Deliveries = {KeyOf(p) : p \in ps}
      BY DeliveryIs
    <3>3. \A p \in ps : p.cname \in Consumers /\ KeyOf(p)[1] = p.gname
      BY <3>2 DEF DeliveryRecs, KeyOf
    <3>4. ps \ kept = {p \in ps : p.gname = gname}
      BY <3>3
    <3>5. keys = {KeyOf(p) : p \in ps \ kept}
      <4> HIDE DEF ps, kept
      <4> QED BY <3>2, <3>3, <3>4
    <3> HIDE DEF kept, keys
    <3>6. Abstract!Forget(keys)
      BY <3>1, <3>5, ForgetMap DEF ps
    <3> QED BY <3>6 DEF keys
  <2>4. Abstract!Exists(gname)
    BY <1>1, <1>3, ExistsIs
  <2>5. Answered' = [status |-> "STRM_OK", val |-> {1}]
    <3>1. Answered' = [status |-> STRM_OK, val |-> Elements(<< 1 >>)]
      BY <2>1, SeenIs
    <3>2. Elements(<< 1 >>) = {1}
      BY DEF Elements
    <3> QED BY <3>1, <3>2 DEF STRM_OK
  <2> QED BY <2>1, <2>2, <2>3, <2>4, <2>5, SeenIs DEF Less, Abstract!RemoveGroup
<1> QED BY <1>2, <1>3

\* As many elements are dropped as the list is shorter.
LEMMA DroppedAre ==
  ASSUME NEW s \in Seq(DeliveryRecs), Once(s), NEW kept
  PROVE  Cardinality({KeyOf(p) : p \in Elements(s) \ kept}) = Len(s) - Len(KeptOf(s, kept))
<1> DEFINE n == Len(s)
           r == KeptOf(s, kept)
           K == {i \in 1..n : s[i] \in kept}
           D == {i \in 1..n : s[i] \notin kept}
           keys == {KeyOf(p) : p \in Elements(s) \ kept}
<1>1. n \in Nat /\ DOMAIN s = 1..n
  OBVIOUS
<1>2. r \in Seq(DeliveryRecs) /\ \E m : KeepsAt(s, kept, n, r, m)
  BY KeptOfIs
<1> HIDE DEF r
<1>3. PICK m : KeepsAt(s, kept, n, r, m)
  BY <1>2
<1>4. Len(r) \in Nat
  BY <1>2
<1>5. IsFiniteSet(1..n) /\ Cardinality(1..n) = n /\ Cardinality(1..Len(r)) = Len(r) /\ IsFiniteSet(1..Len(r))
  <2>1. \A k \in Nat : IsFiniteSet(1..k) /\ Cardinality(1..k) = k
    <3> TAKE k \in Nat
    <3>1. IsFiniteSet(1..k) /\ Cardinality(1..k) = IF 1 > k THEN 0 ELSE k - 1 + 1
      BY FS_Interval
    <3> QED BY <3>1
  <2> QED BY <1>1, <1>4, <2>1
<1>6. m \in Bijection(1..Len(r), K)
  <2>1. /\ m \in [1..Len(r) -> 1..n]
        /\ \A i \in 1..Len(r) : s[m[i]] \in kept
        /\ \A i, k \in 1..Len(r) : i < k => m[i] < m[k]
        /\ \A j \in 1..n : s[j] \in kept => \E i \in 1..Len(r) : m[i] = j
    BY <1>3 DEF KeepsAt
  <2> HIDE DEF n
  <2>2. m \in [1..Len(r) -> K]
    BY <2>1
  <2>3. \A i, k \in 1..Len(r) : m[i] = m[k] => i = k
    <3> TAKE i, k \in 1..Len(r)
    <3>1. i \in Nat /\ k \in Nat /\ m[i] \in Nat /\ m[k] \in Nat
      BY <2>1
    <3>2. (i < k => m[i] < m[k]) /\ (k < i => m[k] < m[i])
      BY <2>1
    <3> QED BY <3>1, <3>2
  <2>4. \A j \in K : \E i \in 1..Len(r) : m[i] = j
    BY <2>1
  <2> HIDE DEF K
  <2> QED BY <2>2, <2>3, <2>4, Fun_IsBij
<1>7. Cardinality(K) = Len(r)
  <2>1. ExistsBijection(1..Len(r), K)
    BY <1>6 DEF ExistsBijection
  <2> HIDE DEF K
  <2> QED BY <1>5, <2>1, FS_Bijection
<1>8. Cardinality(D) = n - Len(r) /\ IsFiniteSet(D)
  <2>1. D = (1..n) \ K /\ K \subseteq 1..n /\ (1..n) \cap K = K
    OBVIOUS
  <2> HIDE DEF D, K, n
  <2>2. /\ IsFiniteSet((1..n) \ K)
        /\ Cardinality((1..n) \ K) = Cardinality(1..n) - Cardinality((1..n) \cap K)
    BY <1>5, FS_Difference
  <2> QED BY <1>5, <1>7, <2>1, <2>2
<1>9. ExistsBijection(D, keys)
  <2> DEFINE f == [i \in D |-> KeyOf(s[i])]
  <2>1. \A i \in D : s[i] \in Elements(s) \ kept
    BY <1>1 DEF Elements
  <2>2. f \in [D -> keys]
    BY <2>1
  <2>3. \A i, k \in D : f[i] = f[k] => i = k
    <3> TAKE i, k \in D
    <3>1. f[i] = f[k] => s[i].id = s[k].id /\ s[i].gname = s[k].gname
      BY DEF KeyOf
    <3> QED BY <3>1 DEF Once
  <2>4. \A x \in keys : \E i \in D : f[i] = x
    <3> TAKE x \in keys
    <3>1. PICK p \in Elements(s) \ kept : x = KeyOf(p)
      OBVIOUS
    <3>2. PICK i \in 1..n : p = s[i]
      BY <1>1, <3>1 DEF Elements
    <3> QED BY <3>1, <3>2
  <2> HIDE DEF f, D, keys
  <2>5. f \in Bijection(D, keys)
    BY <2>2, <2>3, <2>4, Fun_IsBij
  <2> QED BY <2>5 DEF ExistsBijection
<1>10. Cardinality(keys) = n - Len(r)
  <2> HIDE DEF D, keys, n
  <2> QED BY <1>8, <1>9, FS_Bijection
<1> QED BY <1>10 DEF r

\* Callers count as the model does.
LEMMA SameCount == \A S : Abstract!Cardinality(S) = Cardinality(S)
  BY DEF Abstract!Cardinality, Cardinality, Abstract!IsFiniteSet, IsFiniteSet

\* A consumer that is removed takes along what is pending for it, which is counted.
LEMMA RemoveConsumerMap ==
  ASSUME IInv, NEW gname \in Groups, NEW cname \in Consumers, RemoveConsumer(gname, cname)
  PROVE  Abstract!RemoveConsumer(gname, cname)
<1> DEFINE ps == Elements(pending)
           kept == {p \in ps : p.gname = gname => p.cname \notin {cname}}
           keys == {KeyOf(p) : p \in ps \ kept}
           n == Len(pending) - Len(KeptOf(pending, kept))
<1>1. /\ pending' = KeptOf(pending, kept)
      /\ ret' = [status |-> STRM_OK, val |-> << n >>]
      /\ UNCHANGED <<stream, group, newest, again>>
  BY DEF RemoveConsumer, PendingWithout
<1>2. Elements(pending') = ps \cap kept
  BY PendingWithoutIs DEF RemoveConsumer
<1>3. /\ DOMAIN Deliveries = {KeyOf(p) : p \in ps}
      /\ \A p \in ps : Deliveries[KeyOf(p)] = ShareOf(p)
  BY DeliveryIs
<1>4. keys = Abstract!Of(gname, cname)
  <2>1. Abstract!Of(gname, cname) = {k \in DOMAIN Deliveries : k[1] = gname /\ Deliveries[k].cname = cname}
    BY DEF Abstract!Of
  <2>2. \A p \in ps : KeyOf(p)[1] = p.gname /\ Deliveries[KeyOf(p)].cname = p.cname
    <3>1. \A p \in ps : KeyOf(p)[1] = p.gname /\ ShareOf(p).cname = p.cname
      BY DEF KeyOf, ShareOf
    <3> HIDE DEF ps
    <3> QED BY <1>3, <3>1
  <2>3. ps \ kept = {p \in ps : p.gname = gname /\ p.cname = cname}
    OBVIOUS
  <2> HIDE DEF ps, kept
  <2> QED BY <1>3, <2>1, <2>2, <2>3
<1>5. pending \in Seq(DeliveryRecs) /\ Once(pending)
  BY DEF IInv, TypeInv
<1>6. Cardinality(keys) = n
  <2> HIDE DEF kept
  <2> QED BY <1>5, DroppedAre
<1> HIDE DEF kept, n
<1>7. Abstract!Forget(keys)
  BY <1>2, ForgetMap
<1> HIDE DEF keys
<1>8. Answered' = [status |-> "STRM_OK", val |-> {Cardinality(keys)}]
  <2>1. Answered' = [status |-> STRM_OK, val |-> Elements(<< n >>)]
    BY <1>1, SeenIs
  <2>2. Elements(<< n >>) = {n}
    BY DEF Elements
  <2> QED BY <1>6, <2>1, <2>2 DEF STRM_OK
<1> QED BY <1>1, <1>4, <1>7, <1>8, SameCount, SeenIs DEF Abstract!RemoveConsumer

\* The entries that are new to a group are those from the position found on.
LEMMA NewIs ==
  ASSUME IInv, NEW gname \in Groups, GroupAt(gname) # -1,
         NEW new, new = Elements(stream) \ Abstract!UpTo(Positions[gname])
  PROVE  /\ NextFor(gname) \in 0..Len(stream)
         /\ NextFor(gname) >= Len(stream) => new = {}
         /\ NextFor(gname) < Len(stream) =>
              new # {} /\ Abstract!First(new) = stream[NextFor(gname) + 1]
<1> DEFINE r == group[GroupAt(gname) + 1]
           gid == r.id
           next == NextFor(gname)
<1>1. r \in GroupRecs /\ r \in HeldIn(group, again) /\ r.gname = gname
  BY GroupHeld DEF IInv
<1>2. gid \in NumberIds /\ Positions[gname] = gid
  <2> HIDE DEF r
  <2> QED BY <1>1, PositionIs DEF GroupRecs
<1>3. Sorted(stream) /\ Len(stream) \in Nat
  BY InOrder DEF IInv
<1>4. Divides(stream, gid, TRUE, next)
  BY <1>2, <1>3, BSearchStrRight DEF NextFor
<1>5. /\ next \in 0..Len(stream)
      /\ \A i \in 1..Len(stream) : i <= next <=> ~ Before(gid, stream[i])
  BY <1>4 DEF Divides
<1> HIDE DEF gid, next
<1>6. new = {e \in Elements(stream) : Before(gid, e)}
  BY <1>2, SameOrder DEF Abstract!UpTo
<1>7. ASSUME next >= Len(stream) PROVE new = {}
  <2>1. \A i \in 1..Len(stream) : ~ Before(gid, stream[i])
    BY <1>3, <1>5, <1>7
  <2> QED BY <1>3, <1>6, <2>1, InOrder
<1>8. ASSUME next < Len(stream)
      PROVE  new # {} /\ Abstract!First(new) = stream[next + 1]
  <2> DEFINE e == stream[next + 1]
  <2>1. next + 1 \in 1..Len(stream) /\ ~ (next + 1 <= next)
    BY <1>3, <1>5, <1>8
  <2>2. e \in Elements(stream) /\ e \in new
    BY <1>3, <1>5, <1>6, <2>1, InOrder
  <2>3. new \in SUBSET (Nat \X Nat)
    BY <1>3, <1>6, InOrder
  <2>4. \A f \in new : ~ Before(f, e)
    <3> TAKE f \in new
    <3>1. PICK k \in 1..Len(stream) : f = stream[k]
      BY <1>3, <1>6, InOrder
    <3>2. ~ (k <= next)
      BY <1>5, <1>6, <3>1
    <3>3. next + 1 <= k
      BY <1>5, <3>2
    <3> QED BY <1>3, <2>1, <3>1, <3>3, InOrder
  <2> HIDE DEF e
  <2>5. Abstract!First(new) = e
    BY <2>2, <2>3, <2>4, EndsAre
  <2> QED BY <2>2, <2>5 DEF e
<1> QED BY <1>5, <1>7, <1>8 DEF next

\* A consumer reads the first entry that is new to the group.
LEMMA ReadMap ==
  ASSUME IInv, IInv', NEW gname \in Groups, NEW cname \in Consumers, NEW ns \in Times,
         Read(gname, cname, ns)
  PROVE  Abstract!Read(gname, cname, ns)
<1> DEFINE next == NextFor(gname)
           id == stream[next + 1]
           new == Elements(stream) \ Abstract!UpTo(Positions[gname])
           d == Delivery(id, gname, cname, ns, 0)
<1>1. Ready /\ Len(stream) \in Nat
  BY InOrder DEF Read, IInv
<1>2. Abstract!Exists(gname) <=> GroupAt(gname) # -1
  BY <1>1, ExistsIs
<1>3. GroupAt(gname) # -1 =>
        /\ next \in 0..Len(stream)
        /\ next >= Len(stream) => new = {}
        /\ next < Len(stream) => new # {} /\ Abstract!First(new) = id
  BY NewIs
<1>4. CASE GroupAt(gname) = -1
  <2>1. Abstract!Answer("STRM_NOT_FOUND", {})
    BY <1>4, AnswerNone DEF Read, STRM_NOT_FOUND
  <2> QED BY <1>2, <1>4, <2>1 DEF Abstract!Read
<1>5. CASE GroupAt(gname) # -1 /\ next >= Len(stream)
  <2>1. Abstract!Answer("STRM_OK", {})
    BY <1>5, AnswerNone DEF Read, STRM_OK
  <2> QED BY <1>2, <1>3, <1>5, <2>1 DEF Abstract!Read
<1>6. CASE GroupAt(gname) # -1 /\ ~ (next >= Len(stream)) /\ Answer(STRM_FULL, <<>>)
  <2>1. Abstract!Answer("STRM_FULL", {})
    BY <1>6, AnswerNone DEF STRM_FULL
  <2>2. new # {}
    BY <1>1, <1>3, <1>6
  <2> QED BY <1>2, <1>6, <2>1, <2>2 DEF Abstract!Read
<1>7. CASE Gives(gname, cname, ns, id)
  <2>1. /\ GroupAt(gname) # -1 /\ next < Len(stream)
        /\ \A i \in 1..Len(pending) : pending[i].gname = gname => pending[i].id # id
        /\ IsUpdate(group, again, gname, id, group', again')
        /\ UpdateGroup(gname, id)
        /\ pending' = Append(pending, d)
        /\ id \in Nat \X Nat
        /\ UNCHANGED <<stream, newest>>
    BY <1>7 DEF Gives
  <2>2. new # {} /\ Abstract!First(new) = id
    BY <1>3, <2>1
  <2>3. /\ d \in DeliveryRecs /\ KeyOf(d) = <<gname, id>>
        /\ ShareOf(d) = [cname |-> cname, ns |-> ns, cnt |-> 1]
    BY <2>1, TimesAreNumbers DEF Delivery, DeliveryRecs, KeyOf, ShareOf
  <2> HIDE DEF new, d, id, next
  <2>4. Abstract!Give(gname, id, [cname |-> cname, ns |-> ns, cnt |-> 1])
    <3> DEFINE ps == Elements(pending)
    <3>1. pending \in Seq(DeliveryRecs) /\ DOMAIN pending = 1..Len(pending)
      BY DEF IInv, TypeInv
    <3>2. Elements(pending') = ps \cup {d}
      BY <2>1, <2>3, <3>1, ElementsAppend
    <3>3. {p \in ps : KeyOf(p) # KeyOf(d)} = ps
      <4>1. \A p \in ps : ~ (p.gname = gname /\ p.id = id)
        BY <2>1, <3>1 DEF Elements
      <4> QED BY <2>3, <4>1 DEF KeyOf
    <3>4. OneKey(ps) /\ Deliveries = Shares(ps) /\ Deliveries' = Shares(Elements(pending'))
      BY DeliveryIs, DeliveriesMap
    <3> HIDE DEF ps
    <3>5. Shares(ps \cup {d}) = Put(Shares(ps), KeyOf(d), ShareOf(d))
      BY <3>3, <3>4, SharesPut
    <3>6. Deliveries' = Put(Deliveries, <<gname, id>>, [cname |-> cname, ns |-> ns, cnt |-> 1])
      BY <2>3, <3>2, <3>4, <3>5
    <3> QED BY <3>6 DEF Put, Abstract!Give
  <2>5. Abstract!Update(gname, id)
    BY <2>1, UpdateMap
  <2>6. Abstract!Done("STRM_OK") \/ Abstract!Done("STRM_FULL")
    BY <2>1, UpdateAnswers
  <2>7. Abstract!Exists(gname) /\ Elements(stream)' = Elements(stream) /\ newest' = newest
    BY <1>2, <2>1, SeenIs
  <2> QED BY <2>2, <2>4, <2>5, <2>6, <2>7 DEF Abstract!Read, new
<1> QED BY <1>4, <1>5, <1>6, <1>7, ReadGives DEF NoEntry

\* A search finds an entry of the stream, and as many before it as there are.
LEMMA EntryAt ==
  ASSUME IInv, NEW id \in Nat \X Nat
  PROVE  /\ BSearchEq(stream, id) # -1 <=> id \in Elements(stream)
         /\ id \in Elements(stream) => BSearchEq(stream, id) = Abstract!Rank(id)
<1> DEFINE r == BSearchEq(stream, id)
<1>1. Sorted(stream) /\ Len(stream) \in Nat /\ id \in NumberIds /\ NumberOf(id) = id
  BY InOrder, EntryNumber DEF IInv
<1>2. PlaceOf(stream, id, r)
  BY <1>1, BSearchEqRight
<1> HIDE DEF r
<1>3. \A i \in 1..Len(stream) : NumberOf(stream[i]) = stream[i]
  <2> TAKE i \in 1..Len(stream)
  <2>1. stream[i] \in Nat \X Nat
    BY <1>1, InOrder
  <2> QED BY <2>1, EntryNumber
<1>4. CASE r = -1 /\ \A i \in 1..Len(stream) : NumberOf(stream[i]) # NumberOf(id)
  <2>1. \A i \in 1..Len(stream) : stream[i] # id
    BY <1>1, <1>3, <1>4
  <2>2. id \notin Elements(stream)
    BY <1>1, <2>1, InOrder
  <2> QED BY <1>4, <2>2 DEF r
<1>5. CASE r \in 0..(Len(stream) - 1) /\ NumberOf(stream[r + 1]) = NumberOf(id)
  <2>1. r + 1 \in 1..Len(stream) /\ r # -1 /\ (r + 1) - 1 = r
    BY <1>1, <1>5
  <2>2. stream[r + 1] = id /\ id \in Elements(stream)
    BY <1>1, <1>3, <1>5, <2>1, InOrder
  <2>3. Cardinality({e \in Elements(stream) : Before(e, id)}) = (r + 1) - 1
    BY <1>1, <2>1, <2>2, RankIs
  <2>4. Abstract!Rank(id) = Cardinality({e \in Elements(stream) : Before(e, id)})
    BY SameCount, SameOrder DEF Abstract!Rank, Abstract!Below
  <2> QED BY <2>1, <2>2, <2>3, <2>4 DEF r
<1> QED BY <1>2, <1>4, <1>5 DEF PlaceOf

\* A consumer is given the places of the entries it has not acknowledged.
LEMMA UnacknowledgedMap ==
  ASSUME IInv, NEW gname \in Groups, NEW cname \in Consumers, NEW id \in SearchIds,
         Unacknowledged(gname, cname, id)
  PROVE  Abstract!Unacknowledged(gname, cname, id)
<1>1. Abstract!Exists(gname) <=> GroupAt(gname) # -1
  BY ExistsIs DEF Unacknowledged
<1>2. IsNumber(id) <=> id \in Abstract!Numbers
  BY SameOrder DEF Numbers
<1>3. CASE GroupAt(gname) = -1
  <2>1. Abstract!Answer("STRM_NOT_FOUND", {})
    BY <1>3, AnswerNone DEF Unacknowledged, STRM_NOT_FOUND
  <2> QED BY <1>1, <1>3, <2>1 DEF Abstract!Unacknowledged
<1>4. CASE GroupAt(gname) # -1 /\ ~ IsNumber(id)
  <2>1. Abstract!Answer("STRM_BAD_ID", {})
    BY <1>4, AnswerNone DEF Unacknowledged, STRM_BAD_ID
  <2> QED BY <1>1, <1>2, <1>4, <2>1 DEF Abstract!Unacknowledged
<1>5. CASE GroupAt(gname) # -1 /\ IsNumber(id)
  <2> DEFINE ps == Elements(pending)
             kept == {p \in ps : /\ p.gname = gname /\ p.cname = cname
                                 /\ Compare(NumberOf(id), NumberOf(p.id)) <= 0
                                 /\ BSearchEq(stream, p.id) # -1}
             mine == KeptOf(pending, kept)
             answer == [k \in DOMAIN mine |-> BSearchEq(stream, mine[k].id)]
             theirs == {k \in Abstract!Of(gname, cname) : k[2] \in Elements(stream) /\ ~ Before(k[2], id)}
  <2>1. Answer(STRM_OK, answer)
    BY <1>5 DEF Unacknowledged
  <2>2. Elements(mine) = kept
    <3> HIDE DEF kept
    <3>1. Elements(mine) = Elements(pending) \cap kept
      BY KeptOfIs DEF IInv, TypeInv
    <3> QED BY <3>1 DEF kept
  <2>3. /\ ps \subseteq DeliveryRecs
        /\ DOMAIN Deliveries = {KeyOf(p) : p \in ps}
        /\ \A p \in ps : Deliveries[KeyOf(p)] = ShareOf(p)
    BY DeliveryIs
  <2>4. ASSUME NEW p \in ps
        PROVE  /\ BSearchEq(stream, p.id) # -1 <=> p.id \in Elements(stream)
               /\ p.id \in Elements(stream) => BSearchEq(stream, p.id) = Abstract!Rank(p.id)
               /\ Compare(NumberOf(id), NumberOf(p.id)) <= 0 <=> ~ Before(p.id, id)
               /\ KeyOf(p)[1] = p.gname /\ KeyOf(p)[2] = p.id /\ ShareOf(p).cname = p.cname
    <3>1. p.id \in Nat \X Nat /\ p.id \in NumberIds
      BY <2>3, EntryNumber DEF DeliveryRecs
    <3>2. id \in NumberIds
      BY <1>5, NumbersType DEF Numbers
    <3>3. LET c == Compare(NumberOf(id), NumberOf(p.id))
          IN  c \in {-1, 0, 1} /\ (c = 1 <=> Before(p.id, id))
      BY <3>1, <3>2, CompareIs
    <3>4. Compare(NumberOf(id), NumberOf(p.id)) <= 0 <=> ~ Before(p.id, id)
      BY <3>3
    <3>5. KeyOf(p)[1] = p.gname /\ KeyOf(p)[2] = p.id /\ ShareOf(p).cname = p.cname
      BY DEF KeyOf, ShareOf
    <3> QED BY <3>1, <3>4, <3>5, EntryAt
  <2>5. Elements(answer) = {BSearchEq(stream, p.id) : p \in Elements(mine)}
    <3> HIDE DEF mine
    <3>1. DOMAIN answer = DOMAIN mine
      OBVIOUS
    <3> QED BY <3>1 DEF Elements
  <2>6. theirs = {KeyOf(p) : p \in kept}
    <3>1. Abstract!Of(gname, cname) = {k \in DOMAIN Deliveries : k[1] = gname /\ Deliveries[k].cname = cname}
      BY DEF Abstract!Of
    <3>2. \A p \in ps : p \in kept <=> KeyOf(p) \in theirs
      <4> TAKE p \in ps
      <4>1. KeyOf(p) \in DOMAIN Deliveries /\ Deliveries[KeyOf(p)].cname = p.cname
        BY <2>3, <2>4
      <4> QED BY <2>4, <3>1, <4>1
    <3>3. \A k \in theirs : \E p \in ps : k = KeyOf(p)
      BY <2>3, <3>1
    <3>4. kept \subseteq ps
      OBVIOUS
    <3> HIDE DEF ps, kept, theirs
    <3> QED BY <3>2, <3>3, <3>4
  <2>7. {BSearchEq(stream, p.id) : p \in kept} = {Abstract!Rank(k[2]) : k \in theirs}
    <3>1. \A p \in kept : BSearchEq(stream, p.id) = Abstract!Rank(KeyOf(p)[2])
      <4> TAKE p \in kept
      <4>1. p \in ps /\ BSearchEq(stream, p.id) # -1
        OBVIOUS
      <4> HIDE DEF ps, kept
      <4> QED BY <2>4, <4>1
    <3> HIDE DEF kept, theirs
    <3> QED BY <2>6, <3>1
  <2>8. Abstract!Answer("STRM_OK", Elements(answer))
    <3> HIDE DEF answer
    <3> QED BY <2>1, AnswerMap DEF STRM_OK
  <2>9. Elements(answer) = {Abstract!Rank(k[2]) : k \in theirs}
    <3> HIDE DEF answer, mine, kept, theirs
    <3> QED BY <2>2, <2>5, <2>7
  <2>10. theirs = {k \in Abstract!Of(gname, cname) :
                     k[2] \in Elements(stream) /\ ~ Abstract!Before(k[2], id)}
    BY SameOrder
  <2> HIDE DEF answer, theirs
  <2> QED BY <1>1, <1>2, <1>5, <2>8, <2>9, <2>10 DEF Abstract!Unacknowledged
<1> QED BY <1>3, <1>4, <1>5

\* What is pending of a group with an id is at one position.
FoundAt(pos, gname, id) ==
  /\ pos \in 0..(Len(pending) - 1)
  /\ pending[pos + 1] \in Elements(pending)
  /\ pending[pos + 1] \in DeliveryRecs
  /\ KeyOf(pending[pos + 1]) = <<gname, id>>
  /\ pending[pos + 1].gname = gname /\ pending[pos + 1].id = id
  /\ \A i \in 1..Len(pending) : KeyOf(pending[i]) = <<gname, id>> => i = pos + 1

\* A search finds it there.
LEMMA DeliveryAt ==
  ASSUME IInv, NEW gname, NEW id
  PROVE  /\ PendingAt(gname, id) = -1 <=> <<gname, id>> \notin DOMAIN Deliveries
         /\ PendingAt(gname, id) # -1 => FoundAt(PendingAt(gname, id), gname, id)
<1> DEFINE pos == PendingAt(gname, id)
<1>1. pending \in Seq(DeliveryRecs) /\ Len(pending) \in Nat /\ DOMAIN pending = 1..Len(pending) /\ Once(pending)
  BY DEF IInv, TypeInv
<1>2. /\ Elements(pending) \subseteq DeliveryRecs
      /\ DOMAIN Deliveries = {KeyOf(p) : p \in Elements(pending)}
  BY DeliveryIs
<1>3. CASE pos = -1 /\ \A k \in 1..Len(pending) : ~ (pending[k].id = id /\ pending[k].gname = gname)
  <2>1. \A p \in Elements(pending) : KeyOf(p) # <<gname, id>>
    BY <1>1, <1>3 DEF Elements, KeyOf
  <2> QED BY <1>2, <1>3, <2>1
<1>4. CASE /\ pos \in 0..(Len(pending) - 1)
           /\ pending[pos + 1].id = id /\ pending[pos + 1].gname = gname
  <2> DEFINE x == pending[pos + 1]
  <2>1. pos + 1 \in 1..Len(pending) /\ pos # -1
    BY <1>1, <1>4
  <2>2. x \in Elements(pending) /\ x \in DeliveryRecs
    BY <1>1, <1>2, <2>1 DEF Elements
  <2>3. KeyOf(x) = <<gname, id>>
    BY <1>4 DEF KeyOf
  <2>4. ASSUME NEW i \in 1..Len(pending), KeyOf(pending[i]) = <<gname, id>> PROVE i = pos + 1
    <3>1. pending[i].gname = gname /\ pending[i].id = id
      BY <2>4 DEF KeyOf
    <3> QED BY <1>1, <1>4, <2>1, <3>1 DEF Once
  <2>5. <<gname, id>> \in DOMAIN Deliveries
    <3> HIDE DEF x
    <3> QED BY <1>2, <2>2, <2>3
  <2>6. FoundAt(pos, gname, id)
    <3> HIDE DEF pos
    <3> QED BY <1>4, <2>1, <2>2, <2>3, <2>4 DEF FoundAt
  <2> QED BY <2>1, <2>5, <2>6
<1> QED BY <1>1, <1>3, <1>4, PendingAtIs

\* What is acknowledged is not pending any more.
LEMMA AckMap ==
  ASSUME IInv, NEW gname \in Groups, NEW id \in Numbers, Ack(gname, id)
  PROVE  Abstract!Ack(gname, id)
<1> DEFINE pos == PendingAt(gname, id)
           key == <<gname, id>>
           x == pending[pos + 1]
<1>1. pos = -1 <=> key \notin DOMAIN Deliveries
  BY DeliveryAt
<1>2. CASE pos = -1
  <2>1. Abstract!Answer("STRM_NOT_FOUND", {})
    BY <1>2, AnswerNone DEF Ack, STRM_NOT_FOUND
  <2> QED BY <1>1, <1>2, <2>1 DEF Abstract!Ack
<1>3. CASE pos # -1
  <2>1. pending' = Without(pending, pos) /\ ret' = Status(STRM_OK) /\ UNCHANGED <<stream, group, newest, again>>
    BY <1>3 DEF Ack
  <2>2. /\ pos \in 0..(Len(pending) - 1) /\ x \in Elements(pending) /\ KeyOf(x) = key
        /\ \A i \in 1..Len(pending) : KeyOf(pending[i]) = key => i = pos + 1
    <3>1. FoundAt(pos, gname, id)
      BY <1>3, DeliveryAt
    <3> HIDE DEF pos
    <3> QED BY <3>1 DEF FoundAt
  <2> HIDE DEF pos, key
  <2>3. \A i \in 1..Len(pending) : pending[i] = x => i = pos + 1
    BY <2>2
  <2>4. Elements(pending') = Elements(pending) \ {x}
    BY <2>1, <2>2, <2>3, ElementsWithout DEF IInv, TypeInv
  <2> HIDE DEF x
  <2> DEFINE kept == Elements(pending) \ {x}
  <2>5. {key} = {KeyOf(p) : p \in Elements(pending) \ kept}
    BY <2>2
  <2>6. Elements(pending') = Elements(pending) \cap kept
    BY <2>4
  <2> HIDE DEF kept
  <2>7. Abstract!Forget({key})
    BY <2>5, <2>6, ForgetMap
  <2>8. Answered' = [status |-> "STRM_OK", val |-> {}]
    BY <2>1, SeenIs DEF STRM_OK
  <2> QED BY <1>1, <1>3, <2>1, <2>7, <2>8, SeenIs DEF Abstract!Ack, Abstract!Done, key
<1> QED BY <1>2, <1>3

\* An idle time counts for no more than it is documented to.
LEMMA IdleCounts ==
  ASSUME NEW cur \in Nat, NEW idle \in Nat
  PROVE  cur - idle * IdleUnit \in (cur - idle * NsPerMs)..cur
<1>1. /\ IdleUnit \in Nat /\ NsPerMs \in Nat /\ IdleUnit <= NsPerMs
  BY TenthsOfMs DEF IdleUnit
<1>2. /\ idle * IdleUnit \in Nat /\ idle * NsPerMs \in Nat
      /\ idle * IdleUnit <= idle * NsPerMs
  <2>1. PICK k \in Nat : NsPerMs = IdleUnit + k
    <3>1. NsPerMs - IdleUnit \in Nat /\ NsPerMs = IdleUnit + (NsPerMs - IdleUnit)
      BY <1>1
    <3> QED BY <3>1
  <2>2. idle * NsPerMs = idle * IdleUnit + idle * k
    BY <1>1, <2>1
  <2>3. idle * IdleUnit \in Nat /\ idle * k \in Nat
    BY <1>1, <2>1
  <2> QED BY <2>2, <2>3
<1> DEFINE a == idle * IdleUnit
           b == idle * NsPerMs
<1> HIDE DEF a, b
<1>3. a \in Nat /\ b \in Nat /\ a <= b
  BY <1>2 DEF a, b
<1>4. cur - a \in (cur - b)..cur
  BY <1>3
<1> QED BY <1>4 DEF a, b

\* A claim gives what is pending to another consumer.
LEMMA ClaimMap ==
  ASSUME IInv, NEW gname \in Groups, NEW cname \in Consumers,
         NEW id \in Numbers, NEW cl \in Claims, Claim(gname, cname, id, cl)
  PROVE  Abstract!Claim(gname, cname, id, cl)
<1> DEFINE pos == PendingAt(gname, id)
           key == <<gname, id>>
           x == pending[pos + 1]
           d == Claimed(x, cname, cl)
           old == Deliveries[key]
           recent == cl.min_idle # 0 /\ cl.cur - old.ns <= cl.min_idle * NsPerMs
           since == IF cl.time # 0 THEN {cl.time * NsPerMs}
                    ELSE (cl.cur - cl.idle * NsPerMs)..cl.cur
           time == IF cl.time # 0 THEN cl.time * NsPerMs ELSE cl.cur - cl.idle * IdleUnit
           given == [cname |-> cname,
                     ns    |-> time,
                     cnt   |-> IF cl.retrycount # 0 THEN cl.retrycount
                               ELSE IF cl.justid THEN old.cnt ELSE old.cnt + 1]
<1>1. pos = -1 <=> key \notin DOMAIN Deliveries
  BY DeliveryAt
<1>2. CASE pos = -1
  <2>1. Abstract!Answer("STRM_NOT_FOUND", {})
    BY <1>2, AnswerNone DEF Claim, STRM_NOT_FOUND
  <2> QED BY <1>1, <1>2, <2>1 DEF Abstract!Claim
<1>3. CASE pos # -1
  <2>1. FoundAt(pos, gname, id)
    BY <1>3, DeliveryAt
  <2> HIDE DEF pos
  <2>2. /\ pos \in 0..(Len(pending) - 1) /\ x \in Elements(pending) /\ x \in DeliveryRecs
        /\ KeyOf(x) = key /\ x.gname = gname /\ x.id = id
        /\ \A i \in 1..Len(pending) : KeyOf(pending[i]) = key => i = pos + 1
    BY <2>1 DEF FoundAt
  <2>3. /\ cl.time \in Nat /\ cl.cur \in Nat /\ cl.idle \in Nat /\ cl.retrycount \in Nat
        /\ cl.min_idle \in Nat /\ cl.justid \in BOOLEAN /\ NsPerMs \in Nat
    BY ClaimsAreRecords, TenthsOfMs
  <2> HIDE DEF x, key
  <2>4. x.ns \in Int /\ x.cnt \in Nat \ {0}
    BY <2>2 DEF DeliveryRecs
  <2>5. old.cname = x.cname /\ old.ns = x.ns /\ old.cnt = x.cnt
    <3>1. old = ShareOf(x)
      BY <2>2, DeliveryIs
    <3> QED BY <3>1 DEF ShareOf
  <2> HIDE DEF old
  <2>6. recent <=> cl.min_idle # 0 /\ cl.min_idle * NsPerMs + x.ns >= cl.cur
    <3> DEFINE least == cl.min_idle * NsPerMs
    <3>1. least \in Int
      BY <2>3
    <3> HIDE DEF least
    <3> QED BY <2>3, <2>4, <2>5, <3>1 DEF least
  <2>7. CASE recent
    <3>1. Abstract!Answer("STRM_NOT_FOUND", {})
      BY <1>3, <2>6, <2>7, AnswerNone DEF Claim, STRM_NOT_FOUND, x, pos
    <3> QED BY <2>7, <3>1 DEF Abstract!Claim, old, key
  <2>8. CASE ~ recent /\ Answer(STRM_FULL, <<>>)
    <3>1. Abstract!Answer("STRM_FULL", {})
      BY <2>8, AnswerNone DEF STRM_FULL
    <3> QED BY <1>1, <1>3, <2>8, <3>1 DEF Abstract!Claim, old, key
  <2>9. CASE /\ ~ recent
             /\ pending' = [pending EXCEPT ![pos + 1] = d]
             /\ ret' = Status(STRM_OK)
             /\ UNCHANGED <<stream, group, newest, again>>
    <3>1. KeyOf(d) = key /\ ShareOf(d) = given /\ d \in DeliveryRecs
      <4>1. d \in DeliveryRecs /\ d.id = x.id /\ d.gname = x.gname
        BY <2>2, ClaimedIs
      <4>2. KeyOf(d) = key
        BY <2>2, <4>1 DEF KeyOf
      <4> DEFINE cnt == IF cl.retrycount # 0 THEN cl.retrycount
                        ELSE x.cnt + (IF cl.justid THEN 0 ELSE 1)
                 ns == IF cl.time # 0 THEN cl.time * NsPerMs
                       ELSE cl.cur - cl.idle * IdleUnit
      <4>4. d = Delivery(x.id, x.gname, cname, ns, cnt)
        BY DEF Claimed
      <4>5. cnt # 0 /\ cnt = given.cnt
        BY <2>3, <2>4, <2>5
      <4>6. ns = given.ns /\ cname = given.cname
        OBVIOUS
      <4>7. given = [cname |-> given.cname, ns |-> given.ns, cnt |-> given.cnt]
        OBVIOUS
      <4> HIDE DEF cnt, ns, d, given
      <4>8. d.cname = cname /\ d.ns = ns /\ d.cnt = cnt
        BY <4>4, <4>5 DEF Delivery
      <4> QED BY <4>1, <4>2, <4>5, <4>6, <4>7, <4>8 DEF ShareOf
    <3>2. Elements(pending') = {p \in Elements(pending) : KeyOf(p) # KeyOf(d)} \cup {d}
      <4>1. pending \in Seq(DeliveryRecs) /\ DOMAIN pending = 1..Len(pending) /\ Len(pending) \in Nat
        BY DEF IInv, TypeInv
      <4>2. pos + 1 \in 1..Len(pending)
        BY <2>2, <4>1
      <4> HIDE DEF d
      <4>3. /\ DOMAIN pending' = 1..Len(pending)
            /\ \A i \in 1..Len(pending) : pending'[i] = IF i = pos + 1 THEN d ELSE pending[i]
        BY <2>9, <4>1, <4>2
      <4>4. \A p \in Elements(pending') : p = d \/ (p \in Elements(pending) /\ KeyOf(p) # key)
        <5> TAKE p \in Elements(pending')
        <5>1. PICK i \in 1..Len(pending) : p = pending'[i]
          BY <4>3 DEF Elements
        <5>2. CASE i = pos + 1
          BY <4>3, <5>1, <5>2
        <5>3. CASE i # pos + 1
          <6>1. p = pending[i]
            BY <4>3, <5>1, <5>3
          <6> QED BY <2>2, <4>1, <5>3, <6>1 DEF Elements
        <5> QED BY <5>2, <5>3
      <4>5. d \in Elements(pending')
        BY <4>2, <4>3 DEF Elements
      <4>6. ASSUME NEW p \in Elements(pending), KeyOf(p) # key
            PROVE  p \in Elements(pending')
        <5>1. PICK i \in 1..Len(pending) : p = pending[i]
          BY <4>1 DEF Elements
        <5>2. i # pos + 1
          BY <2>2, <4>6, <5>1 DEF x
        <5> QED BY <4>3, <5>1, <5>2 DEF Elements
      <4> QED BY <3>1, <4>4, <4>5, <4>6
    <3> HIDE DEF d, given
    <3>3. Deliveries' = Put(Deliveries, key, given)
      <4> DEFINE ps == Elements(pending)
      <4>1. OneKey(ps) /\ Deliveries = Shares(ps) /\ Deliveries' = Shares(Elements(pending'))
        BY DeliveryIs, DeliveriesMap
      <4> HIDE DEF ps
      <4>2. Shares({p \in ps : KeyOf(p) # KeyOf(d)} \cup {d}) = Put(Shares(ps), KeyOf(d), ShareOf(d))
        BY <4>1, SharesPut
      <4> QED BY <3>1, <3>2, <4>1, <4>2 DEF ps
    <3>4. Abstract!Give(gname, id, given)
      BY <3>3 DEF Put, Abstract!Give, key
    <3>5. Abstract!Done("STRM_OK") /\ UNCHANGED <<Elements(stream), Positions, newest>>
      BY <2>9, SeenIs DEF Abstract!Done, STRM_OK
    <3>6. time \in since
      BY <2>3, IdleCounts
    <3> HIDE DEF since, time
    <3> QED BY <1>1, <1>3, <2>9, <3>4, <3>5, <3>6 DEF Abstract!Claim, old, key, given, since
  <2> QED BY <1>3, <2>6, <2>7, <2>8, <2>9 DEF Claim, x, pos
<1> QED BY <1>2, <1>3

-----------------------------------------------------------------------------
(* The refinement. *)

\* A caller has an update to repeat only if it was the last that was refused.
Refused == ~ Ready => ret.status = STRM_FULL

\* Nothing comes between a refused update and its repetition.
LEMMA AlwaysRefused == Spec => []Refused
<1>1. Init => Refused
  BY DEF Init, Refused, Ready
<1>2. ASSUME NEW gname, NEW id, UpdateGroup(gname, id) PROVE Refused'
  BY <1>2 DEF UpdateGroup, Refused, Ready, Status
<1>3. ASSUME Ready, again' = again PROVE Refused'
  BY <1>3 DEF Refused, Ready
<1>4. Refused /\ [Next]_vars => Refused'
  <2> SUFFICES ASSUME Refused, [Next]_vars PROVE Refused'
    OBVIOUS
  <2>1. CASE UNCHANGED vars
    BY <2>1 DEF vars, Refused, Ready
  <2>2. ASSUME NEW id \in EntryIds, Add(id) PROVE Refused'
    BY <1>3, <2>2 DEF Add
  <2>3. ASSUME NEW id \in SearchIds, Delete(id) PROVE Refused'
    BY <1>3, <2>3 DEF Delete, Answer
  <2>4. CASE UpdateAgain
    BY <1>2, <2>4 DEF UpdateAgain
  <2>5. ASSUME NEW gname \in Groups, NEW id, CreateGroup(gname, id) PROVE Refused'
    BY <1>2, <2>5 DEF CreateGroup
  <2>6. ASSUME NEW gname \in Groups, RemoveGroup(gname) PROVE Refused'
    BY <1>3, <2>6 DEF RemoveGroup, Answer
  <2>7. ASSUME NEW gname \in Groups, NEW id, Ack(gname, id) PROVE Refused'
    BY <1>3, <2>7 DEF Ack, Answer
  <2>8. ASSUME NEW gname, NEW cname, RemoveConsumer(gname, cname) PROVE Refused'
    BY <1>3, <2>8 DEF RemoveConsumer
  <2>9. ASSUME NEW gname, NEW cname, NEW ns, Read(gname, cname, ns) PROVE Refused'
    BY <1>2, <1>3, <2>9 DEF Read, Answer
  <2>10. ASSUME NEW gname, NEW cname, NEW id, Unacknowledged(gname, cname, id) PROVE Refused'
    BY <1>3, <2>10 DEF Unacknowledged, Answer
  <2>11. ASSUME NEW gname, NEW cname, NEW id, NEW cl, Claim(gname, cname, id, cl) PROVE Refused'
    BY <1>3, <2>11 DEF Claim, Answer
  <2> QED BY <2>1, <2>2, <2>3, <2>4, <2>5, <2>6, <2>7, <2>8, <2>9, <2>10, <2>11 DEF Next
<1> QED BY <1>1, <1>4, PTL DEF Spec

\* Every step is one that callers are promised, or none.
LEMMA NextMap == IInv /\ IInv' /\ Refused /\ [Next]_vars => [Abstract!Next]_(Abstract!vars)
<1> SUFFICES ASSUME IInv, IInv', Refused, [Next]_vars PROVE [Abstract!Next]_(Abstract!vars)
  OBVIOUS
<1>1. CASE UNCHANGED vars
  <2>1. Answered' = Answered
    BY <1>1 DEF vars, Answered, Elements
  <2> QED BY <1>1, <2>1, SeenIs DEF vars, Abstract!vars
<1>2. ASSUME NEW id \in EntryIds, Add(id) PROVE Abstract!Next
  BY <1>2, AddMap DEF Abstract!Next
<1>3. ASSUME NEW id \in SearchIds, Delete(id) PROVE Abstract!Next
  BY <1>3, DeleteMap DEF Abstract!Next
<1>4. CASE UpdateAgain
  BY <1>4, UpdateAgainMap DEF Abstract!Next, Refused
<1>5. ASSUME NEW gname \in Groups, NEW id \in {<< 0 >>} \cup EntryIds, CreateGroup(gname, id)
      PROVE  Abstract!Next
  BY <1>5, CreateGroupMap DEF Abstract!Next
<1>6. ASSUME NEW gname \in Groups, RemoveGroup(gname) PROVE Abstract!Next
  BY <1>6, RemoveGroupMap DEF Abstract!Next
<1>7. ASSUME NEW gname \in Groups, NEW id \in Numbers, Ack(gname, id) PROVE Abstract!Next
  BY <1>7, AckMap, SameOrder DEF Abstract!Next
<1>8. ASSUME NEW gname \in Groups, NEW cname \in Consumers, RemoveConsumer(gname, cname)
      PROVE  Abstract!Next
  BY <1>8, RemoveConsumerMap DEF Abstract!Next
<1>9. ASSUME NEW gname \in Groups, NEW cname \in Consumers, NEW ns \in Times,
             Read(gname, cname, ns)
      PROVE  Abstract!Next
  BY <1>9, ReadMap DEF Abstract!Next
<1>10. ASSUME NEW gname \in Groups, NEW cname \in Consumers, NEW id \in SearchIds,
              Unacknowledged(gname, cname, id)
       PROVE  Abstract!Next
  BY <1>10, UnacknowledgedMap DEF Abstract!Next
<1>11. ASSUME NEW gname \in Groups, NEW cname \in Consumers, NEW id \in Numbers,
              NEW cl \in Claims, Claim(gname, cname, id, cl)
       PROVE  Abstract!Next
  BY <1>11, ClaimMap, SameOrder DEF Abstract!Next
<1> QED BY <1>1, <1>2, <1>3, <1>4, <1>5, <1>6, <1>7, <1>8, <1>9, <1>10, <1>11 DEF Next

\* Callers see a set of entries, groups that each pass over it once, and what is
\* pending, for lists of any length and whatever is refused: the three lists, the
\* searches and the update that removes before it appends do as StreamSpec says.
THEOREM StreamImplemented == Spec => ImplementsStream
<1>1. Spec => Abstract!Init /\ [][Abstract!Next]_(Abstract!vars)
  BY InitMap, NextMap, Invariant, AlwaysRefused, PTL DEF Spec
<1>2. [Abstract!Next]_(Abstract!vars) => [vars' # vars => Abstract!Next]_(Abstract!vars)
  OBVIOUS
<1> QED BY <1>1, <1>2, PTL DEF ImplementsStream

=============================================================================
