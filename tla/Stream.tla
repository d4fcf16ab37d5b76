------------------------------- MODULE Stream -------------------------------
(***************************************************************************)
(* raimd's stream, StreamData of include/raimd/md_stream.h: three lists of *)
(* lists.  stream holds the entries in the order of their ids, group the   *)
(* consumer groups with the last id each was given, pending what was given *)
(* to a consumer and not acknowledged.  A list is a sequence here; whether *)
(* the next write still fits its ring is a choice.                         *)
(*                                                                         *)
(* An id is text of one or two numbers, "5" or "5-0": <<5>> or <<5, 0>>.   *)
(* Searches compare the numbers, ack() and claim() compare the text.       *)
(*                                                                         *)
(* The caller makes the calls of test/test_stream.cpp: it adds entries by  *)
(* the clock, and a consumer that asks for what is new makes it pending    *)
(* and then moves its group on.  ASSUMED of it, and not what that test     *)
(* does, which looks at no status: it does not move a group on when        *)
(* pending refused the entry, and what update_group() refuses it makes     *)
(* again, with nothing in between, after a copy to larger lists.  (The     *)
(* group is gone until then: a caller that goes on loses where it was.)    *)
(***************************************************************************)
EXTENDS Integers, Sequences

CONSTANTS EntryIds,     \* the ids that entries are given, of two numbers
          SearchIds,    \* the texts that callers search for
          Groups, Consumers,
          Times,        \* readings of the clock, in nanoseconds
          Claims,       \* what claims ask for: records of StreamClaim
          NsPerMs,      \* nanoseconds in a millisecond (1000000 in the code)
          MaxEntries, MaxPending, MaxCount   \* bound the lists, and the claims of an entry

ASSUME IdsAreNumbers == \A id \in EntryIds : id \in Nat \X Nat
ASSUME TimesAreNumbers == \A ns \in Times : ns \in Nat
ASSUME ClaimsAreRecords ==
  \A cl \in Claims : cl \in [cur : Nat, min_idle : Nat, idle : Nat, time : Nat,
                             retrycount : Nat, justid : BOOLEAN]
ASSUME TenthsOfMs == NsPerMs \in Nat /\ NsPerMs % 10 = 0

\* What claim() takes `idle` for: tenths of a millisecond.
IdleUnit == NsPerMs \div 10

VARIABLES stream,    \* ids of the entries; their fields are left out
          group,     \* records [gname, id]
          pending,   \* records [id, gname, cname, ns, cnt]
          newest,    \* the last id the caller's clock gave
          again,     \* the group update the caller has to repeat, or NoUpdate
          ret

vars == <<stream, group, pending, newest, again, ret>>

STRM_OK == "STRM_OK"
STRM_NOT_FOUND == "STRM_NOT_FOUND"
STRM_FULL == "STRM_FULL"
STRM_BAD_ID == "STRM_BAD_ID"

Lowest  == <<-1>>     \* "-"
Highest == <<-2>>     \* "+", "$" or ">"
BadId   == <<>>       \* no number

\* Texts of one number or of two.
NumberIds == {id \in Seq(Nat) : Len(id) \in 1..2}

ASSUME SearchesAreTexts == SearchIds \subseteq NumberIds \cup {Lowest, Highest, BadId}

NoUpdate == [gname |-> "", id |-> BadId]

\* No group has the empty name.
ASSUME GroupsAreNamed == NoUpdate.gname \notin Groups

Ready == again = NoUpdate

Status(s) == [status |-> s, val |-> <<>>]
Answer(s, v) == /\ ret' = [status |-> s, val |-> v]
                /\ UNCHANGED <<stream, group, pending, newest, again>>

\* ListStorage::lrem()
Without(s, pos) == SubSeq(s, 1, pos) \o SubSeq(s, pos + 2, Len(s))

-----------------------------------------------------------------------------
(* Ids.  Positions count from 0, -1 is none. *)

\* StreamId::str_to_id(): one number has the serial zero.
NumberOf(id) == IF Len(id) = 1 THEN <<id[1], 0>> ELSE id
IsNumber(id) == id # BadId /\ \A i \in DOMAIN id : id[i] >= 0

Slip_Compare(a, b) == \* the serial first
  IF a[2] = b[2] THEN IF a[1] = b[1] THEN 0 ELSE IF a[1] < b[1] THEN -1 ELSE 1
  ELSE IF a[2] < b[2] THEN -1 ELSE 1

\* StreamId::compare()
Compare(a, b) ==
  IF a[1] = b[1] THEN IF a[2] = b[2] THEN 0 ELSE IF a[2] < b[2] THEN -1 ELSE 1
  ELSE IF a[1] < b[1] THEN -1 ELSE 1

CompareAt(lst, srch, pos) == Compare(srch, NumberOf(lst[pos + 1]))

Slip_BSearchStr(lst, id, gt) == \* the upper half from the pivot on
  LET f[size \in 0..Len(lst)] == [pos \in 0..(Len(lst) - size) |->
        IF size <= 1 THEN IF size = 1 /\ CompareAt(lst, NumberOf(id), pos) >= 0
                          THEN pos + 1 ELSE pos
        ELSE CASE CompareAt(lst, NumberOf(id), pos + size \div 2) = 0 ->
                    pos + size \div 2 + (IF gt THEN 1 ELSE 0)
               [] CompareAt(lst, NumberOf(id), pos + size \div 2) = 1 ->
                    f[size - size \div 2][pos + size \div 2]
               [] OTHER -> f[size \div 2][pos]]
  IN  IF lst = <<>> THEN 0
      ELSE CASE id = Lowest  -> IF gt THEN 1 ELSE 0
             [] id = Highest -> Len(lst) - (IF gt THEN 0 ELSE 1)
             [] IsNumber(id) -> f[Len(lst)][0]
             [] OTHER        -> -1

\* bsearch_str(): where id is or would be; with gt, the end of it.
BSearchStr(lst, id, gt) ==
  LET f[size \in 0..Len(lst)] == [pos \in 0..(Len(lst) - size) |->
        IF size = 0 THEN pos
        ELSE LET piv == size \div 2
             IN  CASE CompareAt(lst, NumberOf(id), pos + piv) = 0 ->
                        pos + piv + (IF gt THEN 1 ELSE 0)
                   [] CompareAt(lst, NumberOf(id), pos + piv) = 1 ->
                        f[size - (piv + 1)][pos + piv + 1]
                   [] OTHER -> f[piv][pos]]
  IN  IF lst = <<>> THEN 0
      ELSE CASE id = Lowest  -> IF gt THEN 1 ELSE 0
             [] id = Highest -> Len(lst) - (IF gt THEN 0 ELSE 1)
             [] IsNumber(id) -> f[Len(lst)][0]
             [] OTHER        -> -1

\* bsearch_eq(): looks once more when nothing is left, which may be past the end.
BSearchEq(lst, id) ==
  LET f[size \in 0..Len(lst)] == [pos \in 0..(Len(lst) - size) |->
        LET piv == size \div 2
        IN  IF pos + piv >= Len(lst) THEN -1
            ELSE IF CompareAt(lst, NumberOf(id), pos + piv) = 0 THEN pos + piv
            ELSE IF size = 0 THEN -1
            ELSE IF CompareAt(lst, NumberOf(id), pos + piv) = 1
                 THEN f[size - (piv + 1)][pos + piv + 1]
            ELSE f[piv][pos]]
  IN  IF lst = <<>> THEN -1
      ELSE CASE id = Lowest  -> 0
             [] id = Highest -> Len(lst) - 1
             [] IsNumber(id) -> f[Len(lst)][0]
             [] OTHER        -> -1

\* sindex_id_last(): "0" of an empty list.
LastId(lst) == IF lst = <<>> THEN <<0>> ELSE lst[Len(lst)]

Elements(s) == {s[i] : i \in DOMAIN s}

\* A loop over s that keeps what is in kept.
KeptOf(s, kept) ==
  LET f[n \in 0..Len(s)] == IF n = 0 THEN <<>>
                             ELSE IF s[n] \in kept THEN Append(f[n - 1], s[n]) ELSE f[n - 1]
  IN  f[Len(s)]

\* The first place in s with Match, from 0, or -1.
FirstOf(s, Match(_)) ==
  IF \E i \in DOMAIN s : Match(s[i])
  THEN (CHOOSE i \in DOMAIN s : Match(s[i]) /\ \A k \in 1..(i - 1) : ~ Match(s[k])) - 1
  ELSE -1

\* scan()
GroupAt(gname) == FirstOf(group, LAMBDA g : g.gname = gname)

\* ack() and claim() look for the text of the id.
PendingAt(gname, id) == FirstOf(pending, LAMBDA p : p.id = id /\ p.gname = gname)

-----------------------------------------------------------------------------
Init ==
  /\ stream = <<>> /\ group = <<>> /\ pending = <<>>
  /\ newest = <<0, 0>>
  /\ again = NoUpdate
  /\ ret = Status(STRM_OK)

\* new_id() and add()
Add(id) ==
  /\ Ready
  /\ Len(stream) < MaxEntries
  /\ Compare(newest, id) = -1
  /\ newest' = id
  /\ \/ stream' = Append(stream, id) /\ ret' = Status(STRM_OK)
     \/ UNCHANGED stream /\ ret' = Status(STRM_FULL)
  /\ UNCHANGED <<group, pending, again>>

\* Callers remove the entry at the position found.
Delete(id) ==
  LET pos == BSearchEq(stream, id)
  IN  /\ Ready
      /\ IF pos = -1 THEN Answer(STRM_NOT_FOUND, <<>>)
         ELSE /\ stream' = Without(stream, pos)
              /\ ret' = Status(STRM_OK)
              /\ UNCHANGED <<group, pending, newest, again>>

-----------------------------------------------------------------------------
(* Groups. *)

Slip_UpdateGroup(gname, id) == \* added without a search
  \/ /\ group' = Append(group, [gname |-> gname, id |-> id])
     /\ ret' = Status(STRM_OK) /\ again' = NoUpdate
  \/ /\ UNCHANGED group
     /\ ret' = Status(STRM_FULL) /\ again' = [gname |-> gname, id |-> id]

\* update_group(): in place if the record is not split by the end of the ring
\* and the id fits into it; else it is removed and appended, or not appended.
UpdateGroup(gname, id) ==
  LET off  == GroupAt(gname)
      rest == IF off = -1 THEN group ELSE Without(group, off)
  IN  \/ /\ off # -1
         /\ group' = [group EXCEPT ![off + 1].id = id]
         /\ ret' = Status(STRM_OK) /\ again' = NoUpdate
      \/ /\ group' = Append(rest, [gname |-> gname, id |-> id])
         /\ ret' = Status(STRM_OK) /\ again' = NoUpdate
      \/ /\ group' = rest
         /\ ret' = Status(STRM_FULL)
         /\ again' = [gname |-> gname, id |-> id]

\* A caller makes a group that starts at the first entry, or after the last.
CreateGroup(gname, id) ==
  /\ Ready
  /\ GroupAt(gname) = -1
  /\ id \in {<<0>>, LastId(stream)}
  /\ UpdateGroup(gname, id)
  /\ UNCHANGED <<stream, pending, newest>>

\* copy() to larger lists, and the refused update once more: the assumed caller
\* does nothing else before.
UpdateAgain ==
  /\ ~ Ready
  /\ UpdateGroup(again.gname, again.id)
  /\ UNCHANGED <<stream, pending, newest>>

\* remove_pending(): no consumer stands for all.
PendingWithout(gname, cnames) ==
  KeptOf(pending, {p \in Elements(pending) : p.gname = gname => p.cname \notin cnames})

Slip_RemoveGroup(gname) == \* what is pending is kept
  /\ Ready
  /\ IF GroupAt(gname) = -1 THEN Answer(STRM_OK, <<0>>)
     ELSE /\ group' = Without(group, GroupAt(gname))
          /\ ret' = [status |-> STRM_OK, val |-> <<1>>]
          /\ UNCHANGED <<stream, pending, newest, again>>

\* remove_group(), called with no consumer.
RemoveGroup(gname) ==
  /\ Ready
  /\ IF GroupAt(gname) = -1 THEN Answer(STRM_OK, <<0>>)
     ELSE /\ group' = Without(group, GroupAt(gname))
          /\ pending' = PendingWithout(gname, Consumers)
          /\ ret' = [status |-> STRM_OK, val |-> <<1>>]
          /\ UNCHANGED <<stream, newest, again>>

RemoveConsumer(gname, cname) ==
  LET rest == PendingWithout(gname, {cname})
  IN  /\ Ready
      /\ pending' = rest
      /\ ret' = [status |-> STRM_OK, val |-> <<Len(pending) - Len(rest)>>]
      /\ UNCHANGED <<stream, group, newest, again>>

-----------------------------------------------------------------------------
(* Consumers. *)

\* group_query() for what is new: the position after the group's last id.
NextFor(gname) == BSearchStr(stream, group[GroupAt(gname) + 1].id, TRUE)

\* construct_pending(): a count of zero is one.
Delivery(id, gname, cname, ns, cnt) ==
  [id |-> id, gname |-> gname, cname |-> cname, ns |-> ns,
   cnt |-> IF cnt = 0 THEN 1 ELSE cnt]

\* A consumer reads the next entry: group_query(), pending.rpush(), and
\* update_group() with its id, which only the assumed caller leaves out when
\* rpush() is refused.
Read(gname, cname, ns) ==
  LET next == NextFor(gname)
      id   == stream[next + 1]
  IN  /\ Ready
      /\ IF GroupAt(gname) = -1 THEN Answer(STRM_NOT_FOUND, <<>>)
         ELSE IF next >= Len(stream) THEN Answer(STRM_OK, <<>>)
         ELSE \/ Answer(STRM_FULL, <<>>)
              \/ /\ Len(pending) < MaxPending
                 /\ pending' = Append(pending, Delivery(id, gname, cname, ns, 0))
                 /\ UpdateGroup(gname, id)
                 /\ UNCHANGED <<stream, newest>>

\* group_query() for what a consumer has not acknowledged from id on: the
\* entries in the stream, in the order of their delivery.
Unacknowledged(gname, cname, id) ==
  LET mine == KeptOf(pending, {p \in Elements(pending) :
                                 /\ p.gname = gname /\ p.cname = cname
                                 /\ Compare(NumberOf(id), NumberOf(p.id)) <= 0
                                 /\ BSearchEq(stream, p.id) # -1})
  IN  /\ Ready
      /\ IF GroupAt(gname) = -1 THEN Answer(STRM_NOT_FOUND, <<>>)
         ELSE IF ~ IsNumber(id) THEN Answer(STRM_BAD_ID, <<>>)
         ELSE Answer(STRM_OK, [k \in DOMAIN mine |-> BSearchEq(stream, mine[k].id)])

Ack(gname, id) ==
  LET pos == PendingAt(gname, id)
  IN  /\ Ready
      /\ IF pos = -1 THEN Answer(STRM_NOT_FOUND, <<>>)
         ELSE /\ pending' = Without(pending, pos)
              /\ ret' = Status(STRM_OK)
              /\ UNCHANGED <<stream, group, newest, again>>

Slip_Claimed(p, cname, cl) == \* counted when only the id is asked for
  Delivery(p.id, p.gname, cname, cl.cur - cl.idle * IdleUnit, p.cnt + 1)

\* The record that claim() puts in the place of p.
Claimed(p, cname, cl) ==
  Delivery(p.id, p.gname, cname,
           IF cl.time # 0 THEN cl.time * NsPerMs
           ELSE cl.cur - cl.idle * IdleUnit,
           IF cl.retrycount # 0 THEN cl.retrycount
           ELSE p.cnt + (IF cl.justid THEN 0 ELSE 1))

Claim(gname, cname, id, cl) ==
  LET pos == PendingAt(gname, id)
      new == Claimed(pending[pos + 1], cname, cl)
  IN  /\ Ready
      /\ IF pos = -1 THEN Answer(STRM_NOT_FOUND, <<>>)
         ELSE IF cl.min_idle # 0 /\ cl.min_idle * NsPerMs + pending[pos + 1].ns >= cl.cur
         THEN Answer(STRM_NOT_FOUND, <<>>)
         ELSE \/ Answer(STRM_FULL, <<>>)
              \/ /\ new.cnt <= MaxCount
                 /\ pending' = [pending EXCEPT ![pos + 1] = new]
                 /\ ret' = Status(STRM_OK)
                 /\ UNCHANGED <<stream, group, newest, again>>

-----------------------------------------------------------------------------
Numbers == {id \in SearchIds : IsNumber(id)}

Next ==
  \/ \E id \in EntryIds : Add(id)
  \/ \E id \in SearchIds : Delete(id)
  \/ UpdateAgain
  \/ \E gname \in Groups :
       \/ \E id \in {<<0>>} \cup EntryIds : CreateGroup(gname, id)
       \/ RemoveGroup(gname)
       \/ \E id \in Numbers : Ack(gname, id)
       \/ \E cname \in Consumers :
            \/ RemoveConsumer(gname, cname)
            \/ \E ns \in Times : Read(gname, cname, ns)
            \/ \E id \in SearchIds : Unacknowledged(gname, cname, id)
            \/ \E id \in Numbers, cl \in Claims : Claim(gname, cname, id, cl)

Spec == Init /\ [][Next]_vars

-----------------------------------------------------------------------------
(* Properties. *)

Before(a, b) == LET x == NumberOf(a) y == NumberOf(b)
                IN  x[1] < y[1] \/ (x[1] = y[1] /\ x[2] < y[2])

\* The positions found are those of a search from the start, in every stream
\* that additions and removals leave.
SearchExact ==
  \A id \in Numbers :
    LET less == {i \in DOMAIN stream : Before(stream[i], id)}
        same == {i \in DOMAIN stream : NumberOf(stream[i]) = NumberOf(id)}
        N(s) == IF s = {} THEN 0 ELSE CHOOSE n \in s : \A k \in s : k <= n
    IN  /\ BSearchStr(stream, id, FALSE) = N(less)
        /\ BSearchStr(stream, id, TRUE) = N(less \cup same)
        /\ BSearchEq(stream, id) = IF same = {} THEN -1 ELSE N(same) - 1

\* "a pending element belongs to a group", and to what that group was given:
\* also while the group waits for its update.
PendingOwned ==
  \A i \in DOMAIN pending :
    \E g \in Elements(group) \cup {again} :
      g.gname = pending[i].gname /\ ~ Before(g.id, pending[i].id)

\* No entry is given twice to the consumers of a group.
DeliveredOnce ==
  \A i, k \in DOMAIN pending :
    pending[i].id = pending[k].id /\ pending[i].gname = pending[k].gname => i = k

\* The last id of a group that stays does not go back.
LastOf(gname) == LET g == CHOOSE g \in Elements(group) \cup {again} :
                            g.gname = gname
                 IN  g.id
GroupNames == {group[k].gname : k \in DOMAIN group} \cup {again.gname}
NeverBack ==
  [][\A gname \in Groups : gname \in GroupNames /\ gname \in GroupNames' =>
       ~ Before(LastOf(gname)', LastOf(gname))]_vars

\* Callers see a set of entries, positions of groups and what is pending.
Positions == [gname \in GroupNames \cap Groups |-> LastOf(gname)]

Deliveries == [k \in {<<p.gname, p.id>> : p \in Elements(pending)} |->
                 LET p == CHOOSE p \in Elements(pending) : <<p.gname, p.id>> = k
                 IN  [cname |-> p.cname, ns |-> p.ns, cnt |-> p.cnt]]

Answered == [status |-> ret.status, val |-> Elements(ret.val)]

Abstract == INSTANCE StreamSpec WITH
  entries <- Elements(stream), last <- Positions, pend <- Deliveries, ret <- Answered
\* A step that leaves the lists alone is one of callers that see nothing.
ImplementsStream ==
  Abstract!Init /\ [][vars' # vars => Abstract!Next]_(Abstract!vars)
=============================================================================
