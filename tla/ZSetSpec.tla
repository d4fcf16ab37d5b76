------------------------------ MODULE ZSetSpec ------------------------------
(***************************************************************************)
(* What ZSetData of include/raimd/md_zset.h promises its callers: a map    *)
(* from members to scores, ranked by score and then member.  Any addition  *)
(* may be refused.  A member that must move when its score changes is gone *)
(* if that is refused.                                                     *)
(***************************************************************************)
EXTENDS Integers, Sequences, FiniteSets

CONSTANTS Members, MaxScore, Others

VARIABLES scores,     \* the score of each member
          todo,       \* the <<member, score>> left of a union that was refused
          type,       \* how that union combines scores
          ret

vars == <<scores, todo, type, ret>>

Types == {"NONE", "SUM", "MIN", "MAX"}
Flags == {{}, {"NX"}, {"XX"}, {"INCR"}, {"CH"}}
Status(s) == [status |-> s, val |-> <<>>]

With(f, m, s) == [k \in DOMAIN f \cup {m} |-> IF k = m THEN s ELSE f[k]]
Without(f, ms) == [k \in DOMAIN f \ ms |-> f[k]]
Bounded(f) == \A m \in DOMAIN f : f[m] <= MaxScore

Ready == todo = <<>>
Reply(f, s) == /\ ret' = Status(s)
               /\ scores' = f /\ Bounded(f)
               /\ UNCHANGED <<todo, type>>
Tell(s, v) == ret' = [status |-> s, val |-> v] /\ UNCHANGED <<scores, todo, type>>

\* Members are single bytes here.
Ranked(m, k) == scores[m] < scores[k] \/ (scores[m] = scores[k] /\ m[1] < k[1])
AtRank(n) == {m \in DOMAIN scores : Cardinality({k \in DOMAIN scores : Ranked(k, m)}) = n - 1}

Combined(t, old, s) ==
  CASE t = "NONE" -> s
    [] t = "SUM"  -> old + s
    [] t = "MIN"  -> IF old < s THEN old ELSE s
    [] t = "MAX"  -> IF old > s THEN old ELSE s

Merged(f, t, e) ==
  With(f, e[1], IF e[1] \in DOMAIN f THEN Combined(t, f[e[1]], e[2]) ELSE e[2])

-----------------------------------------------------------------------------
Init == /\ scores = [m \in {} |-> 0] /\ todo = <<>> /\ type = "NONE"
        /\ ret = Status("LIST_OK")

Add(m, s, flags) ==
  LET new == Combined(IF "INCR" \in flags THEN "SUM" ELSE "NONE", scores[m], s)
  IN  IF m \notin DOMAIN scores
      THEN IF "XX" \in flags THEN Reply(scores, "LIST_NOT_FOUND")
           ELSE \/ Reply(With(scores, m, s), "HASH_UPDATED")
                \/ Reply(scores, "LIST_FULL")
      ELSE IF "NX" \in flags THEN Reply(scores, "HASH_EXISTS")
      ELSE IF new = scores[m] THEN Reply(scores, "LIST_OK")
      ELSE \/ Reply(With(scores, m, new),
                    IF "CH" \in flags THEN "HASH_UPDATED" ELSE "LIST_OK")
           \/ Reply(Without(scores, {m}), "LIST_FULL")

Get(m) == IF m \in DOMAIN scores THEN Tell("LIST_OK", <<scores[m]>>)
          ELSE Tell("LIST_NOT_FOUND", <<>>)

Index(n) == IF AtRank(n) = {} THEN Tell("LIST_NOT_FOUND", <<>>)
            ELSE \E m \in AtRank(n) : Tell("LIST_OK", <<m, scores[m]>>)

\* The rank of the first member with a score of at least s, or more than s.
Search(s, gt) ==
  LET below == {m \in DOMAIN scores : IF gt THEN scores[m] <= s ELSE scores[m] < s}
  IN  Tell(IF DOMAIN scores = {} THEN "LIST_NOT_FOUND" ELSE "LIST_OK",
           <<Cardinality(below) + 1>>)

Remove(m) == IF m \in DOMAIN scores THEN Reply(Without(scores, {m}), "LIST_OK")
             ELSE Reply(scores, "LIST_NOT_FOUND")

RemoveAt(n) == IF AtRank(n) = {} THEN Reply(scores, "LIST_NOT_FOUND")
               ELSE \E m \in AtRank(n) : Reply(Without(scores, {m}), "LIST_OK")

Clear == Reply(Without(scores, DOMAIN scores), "LIST_OK")

\* The first n of a sequence merged.
AfterN(f, t, s, n) ==
  LET g[k \in 0..n] == IF k = 0 THEN f ELSE Merged(g[k - 1], t, s[k])
  IN  g[n]

\* The order of x's members is that of their ranks.
InOrder(s, x) ==
  /\ Len(s) = Len(x)
  /\ \A i \in DOMAIN x : \E k \in DOMAIN s : s[k] = x[i]
  /\ \A i, k \in DOMAIN s : i < k =>
        s[i][2] < s[k][2] \/ (s[i][2] = s[k][2] /\ s[i][1][1] < s[k][1][1])

Orders(x) == {s \in [DOMAIN x -> {x[i] : i \in DOMAIN x}] : InOrder(s, x)}

\* All of s is merged, or all before one that is refused.
Unite(s, t) ==
  \/ /\ ret' = Status("LIST_OK")
     /\ todo' = <<>> /\ type' = "NONE"
     /\ scores' = AfterN(scores, t, s, Len(s)) /\ Bounded(scores')
  \/ /\ ret' = Status("LIST_FULL")
     /\ type' = t
     /\ \E n \in 0..(Len(s) - 1) :
          /\ todo' = SubSeq(s, n + 1, Len(s))
          /\ scores' = Without(AfterN(scores, t, s, n), {s[n + 1][1]})
          /\ Bounded(scores')

\* What x has is kept, or dropped; then the scores of x are merged, or those
\* before one that is refused.
Intersect(x, t, keep) ==
  LET has  == {x[i][1] : i \in DOMAIN x}
      kept == Without(scores, IF keep THEN DOMAIN scores \ has ELSE has)
  IN  IF x = <<>> \/ DOMAIN scores = {} \/ t = "NONE"
      THEN Reply(kept, "LIST_OK")
      ELSE \E s \in Orders(x) :
             LET both == SelectSeq(s, LAMBDA e : e[1] \in DOMAIN kept)
             IN  \/ Reply(AfterN(kept, t, both, Len(both)), "LIST_OK")
                 \/ \E n \in 0..(Len(both) - 1) :
                      Reply(Without(AfterN(kept, t, both, n), {both[n + 1][1]}),
                            "LIST_FULL")

Next ==
  \/ /\ Ready
     /\ \/ \E m \in Members :
             \/ \E s \in 0..MaxScore, flags \in Flags : Add(m, s, flags)
             \/ Get(m)
             \/ Remove(m)
        \/ \E n \in 1..(Cardinality(Members) + 1) : Index(n) \/ RemoveAt(n)
        \/ \E s \in 0..MaxScore, gt \in BOOLEAN : Search(s, gt)
        \/ Clear
        \/ \E x \in Others, t \in Types :
             \/ \E s \in Orders(x) : Unite(s, t)
             \/ \E keep \in BOOLEAN : Intersect(x, t, keep)
  \/ ~ Ready /\ Unite(todo, type)
  \/ Reply(scores, "LIST_OK")   \* a larger allocation

Spec == Init /\ [][Next]_vars
=============================================================================
