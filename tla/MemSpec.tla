------------------------------- MODULE MemSpec -------------------------------
(***************************************************************************)
(* What the message memory of include/raimd/md_msg.h promises: whoever was *)
(* given memory finds in it what was written there, until all of it (or    *)
(* all that was given out after a mark) is given back at once.             *)
(***************************************************************************)
EXTENDS Naturals, Sequences

CONSTANTS Owners, Sizes,
          Words(_)      \* of a size in bytes

VARIABLE kept           \* for each owner the words of its memory

vars == <<kept>>

Filled(o, n) == [i \in 1..n |-> o]

Init == kept = <<>>

Get(o, n) ==
  /\ o \notin DOMAIN kept
  /\ kept' = [p \in DOMAIN kept \cup {o} |->
                IF p = o THEN Filled(o, Words(n)) ELSE kept[p]]

\* More or less of it: what there was stays.
Change(o, n) ==
  /\ o \in DOMAIN kept
  /\ kept' = [kept EXCEPT ![o] = Filled(o, Words(n))]

GiveBack(gone) == kept' = [p \in DOMAIN kept \ gone |-> kept[p]]

Only(o, n) == kept' = [p \in {o} |-> Filled(o, Words(n))]

Next ==
  \/ \E o \in Owners, n \in Sizes : Get(o, n) \/ Change(o, n) \/ Only(o, n)
  \/ \E gone \in SUBSET DOMAIN kept : GiveBack(gone)

Spec == Init /\ [][Next]_vars
=============================================================================
