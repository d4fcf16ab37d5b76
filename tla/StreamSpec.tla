----------------------------- MODULE StreamSpec -----------------------------
(***************************************************************************)
(* What StreamData of include/raimd/md_stream.h promises its callers: a    *)
(* set of entries in the order of their ids; groups that each pass over it *)
(* once; and what was given to a consumer and is not acknowledged, at most *)
(* once for each group.  Any write may be refused; a group update that was *)
(* refused counts as made, since the caller repeats it.                    *)
(***************************************************************************)
EXTENDS Integers, Sequences, FiniteSets

CONSTANTS EntryIds, SearchIds, Groups, Consumers, Times, Claims,
          NsPerMs    \* nanoseconds in a millisecond

VARIABLES entries,   \* the ids
          last,      \* the last id each group was given
          pend,      \* of a group and an id: consumer, time and number of deliveries
          newest,
          ret        \* a status, and a set of values

vars == <<entries, last, pend, newest, ret>>

Answer(s, v) == ret' = [status |-> s, val |-> v] /\ UNCHANGED <<entries, last, pend, newest>>
Done(s) == ret' = [status |-> s, val |-> {}]

Parts(id) == IF Len(id) = 1 THEN <<id[1], 0>> ELSE id

Before(a, b) == \/ Parts(a)[1] < Parts(b)[1]
                \/ Parts(a)[1] = Parts(b)[1] /\ Parts(a)[2] < Parts(b)[2]

Below(id)   == {e \in entries : Before(e, id)}
UpTo(id)    == {e \in entries : ~ Before(id, e)}
Rank(id)    == Cardinality(Below(id))
First(ids)  == CHOOSE e \in ids : \A f \in ids : ~ Before(f, e)
LastIn(ids) == CHOOSE e \in ids : \A f \in ids : ~ Before(e, f)

\* "-", "+" and what is no number; the other ids of a search.
Lowest  == <<-1>>
Highest == <<-2>>
BadId   == <<>>
Numbers == SearchIds \ {Lowest, Highest, BadId}

-----------------------------------------------------------------------------
Init == /\ entries = {} /\ last = <<>> /\ pend = <<>>
        /\ newest = <<0, 0>>
        /\ ret = [status |-> "STRM_OK", val |-> {}]

Add(id) ==
  /\ Before(newest, id)
  /\ newest' = id
  /\ \/ entries' = entries \cup {id} /\ Done("STRM_OK")
     \/ UNCHANGED entries /\ Done("STRM_FULL")
  /\ UNCHANGED <<last, pend>>

Remove(e) == /\ entries' = entries \ {e}
             /\ Done("STRM_OK")
             /\ UNCHANGED <<last, pend, newest>>

Delete(id) ==
  \/ entries # {} /\ id = Lowest  /\ Remove(First(entries))
  \/ entries # {} /\ id = Highest /\ Remove(LastIn(entries))
  \/ id \in Numbers /\ \E e \in UpTo(id) \ Below(id) : Remove(e)
  \/ /\ entries = {} \/ id = BadId \/ (id \in Numbers /\ UpTo(id) = Below(id))
     /\ Answer("STRM_NOT_FOUND", {})

-----------------------------------------------------------------------------
Exists(gname) == gname \in DOMAIN last
Update(gname, id) ==
  last' = [g \in DOMAIN last \cup {gname} |-> IF g = gname THEN id ELSE last[g]]

CreateGroup(gname, id) ==
  /\ ~ Exists(gname)
  /\ id = <<0>> \/ (entries # {} /\ id = LastIn(entries))
  /\ Update(gname, id)
  /\ Done("STRM_OK") \/ Done("STRM_FULL")
  /\ UNCHANGED <<entries, pend, newest>>

\* The refused update that the caller repeats.
Repeat == ret.status = "STRM_FULL" /\ (Answer("STRM_OK", {}) \/ Answer("STRM_FULL", {}))

Forget(keys) == pend' = [k \in DOMAIN pend \ keys |-> pend[k]]

RemoveGroup(gname) ==
  \/ ~ Exists(gname) /\ Answer("STRM_OK", {0})
  \/ /\ Exists(gname)
     /\ last' = [g \in DOMAIN last \ {gname} |-> last[g]]
     /\ Forget({k \in DOMAIN pend : k[1] = gname})
     /\ ret' = [status |-> "STRM_OK", val |-> {1}]
     /\ UNCHANGED <<entries, newest>>

Of(gname, cname) == {k \in DOMAIN pend : k[1] = gname /\ pend[k].cname = cname}

RemoveConsumer(gname, cname) ==
  /\ Forget(Of(gname, cname))
  /\ ret' = [status |-> "STRM_OK", val |-> {Cardinality(Of(gname, cname))}]
  /\ UNCHANGED <<entries, last, newest>>

-----------------------------------------------------------------------------
Give(gname, id, p) ==
  pend' = [k \in DOMAIN pend \cup {<<gname, id>>} |->
             IF k = <<gname, id>> THEN p ELSE pend[k]]

Read(gname, cname, ns) ==
  LET new == entries \ UpTo(last[gname])
      id  == First(new)
  IN  \/ ~ Exists(gname) /\ Answer("STRM_NOT_FOUND", {})
      \/ Exists(gname) /\ new = {} /\ Answer("STRM_OK", {})
      \/ /\ Exists(gname)
         /\ new # {}
         /\ \/ Answer("STRM_FULL", {})
            \/ /\ Give(gname, id, [cname |-> cname, ns |-> ns, cnt |-> 1])
               /\ Update(gname, id)
               /\ Done("STRM_OK") \/ Done("STRM_FULL")
               /\ UNCHANGED <<entries, newest>>

Unacknowledged(gname, cname, id) ==
  \/ ~ Exists(gname) /\ Answer("STRM_NOT_FOUND", {})
  \/ Exists(gname) /\ id \notin Numbers /\ Answer("STRM_BAD_ID", {})
  \/ /\ Exists(gname)
     /\ id \in Numbers
     /\ Answer("STRM_OK", {Rank(k[2]) : k \in {k \in Of(gname, cname) :
                                                  k[2] \in entries /\ ~ Before(k[2], id)}})

Ack(gname, id) ==
  IF <<gname, id>> \in DOMAIN pend
  THEN Forget({<<gname, id>>}) /\ Done("STRM_OK") /\ UNCHANGED <<entries, last, newest>>
  ELSE Answer("STRM_NOT_FOUND", {})

\* A claim takes over what has been idle for longer than it asks for.  When it
\* says how long it was idle it was delivered then, or later: StreamClaim
\* documents milliseconds, "[IDLE ms]", of which the code makes tenths.
Claim(gname, cname, id, cl) ==
  LET old    == pend[<<gname, id>>]
      recent == cl.min_idle # 0 /\ cl.cur - old.ns <= cl.min_idle * NsPerMs
      since  == IF cl.time # 0 THEN {cl.time * NsPerMs}
                ELSE (cl.cur - cl.idle * NsPerMs)..cl.cur
      given(ns) ==
                [cname |-> cname, ns |-> ns,
                 cnt   |-> IF cl.retrycount # 0 THEN cl.retrycount
                           ELSE IF cl.justid THEN old.cnt ELSE old.cnt + 1]
  IN  IF <<gname, id>> \notin DOMAIN pend \/ recent THEN Answer("STRM_NOT_FOUND", {})
      ELSE \/ Answer("STRM_FULL", {})
           \/ /\ \E ns \in since : Give(gname, id, given(ns))
              /\ Done("STRM_OK") /\ UNCHANGED <<entries, last, newest>>

Next ==
  \/ \E id \in EntryIds : Add(id)
  \/ \E id \in SearchIds : Delete(id)
  \/ Repeat
  \/ \E gname \in Groups :
       \/ \E id \in {<<0>>} \cup EntryIds : CreateGroup(gname, id)
       \/ RemoveGroup(gname)
       \/ \E id \in Numbers : Ack(gname, id)
       \/ \E cname \in Consumers :
            \/ RemoveConsumer(gname, cname)
            \/ \E ns \in Times : Read(gname, cname, ns)
            \/ \E id \in SearchIds : Unacknowledged(gname, cname, id)
            \/ \E id \in Numbers, cl \in Claims : Claim(gname, cname, id, cl)

Spec == Init /\ [][Next]_vars
=============================================================================
