---------------------------- MODULE MCCollections ----------------------------
(***************************************************************************)
(* Small instances of HashStorage, SetStorage, ZSetStorage and ListAlloc,  *)
(* of which a behaviour is one: `which` says of which, the others stay as  *)
(* they were at the start.                                                 *)
(*                                                                         *)
(* Hashes, sets and sorted sets: in rings of 8 and 16 bytes the map wraps  *)
(* and, with scores, the items; the map grows twice; rings fill up by      *)
(* count, and can then be copied to a larger one, and by bytes, also in    *)
(* the middle of a union.  Of three keys two have the same hash byte; that *)
(* of the third is 1, the length of a key, and in hashes its byte is that  *)
(* of the others' hash: the bytes of the map could pass for an item.  Keys *)
(* are of one byte, which never wraps (SearchExact in ListStorage is about *)
(* what happens to one that does).                                         *)
(*                                                                         *)
(* ListAlloc: lists small enough for one-byte offsets and, with large      *)
(* items, across the sizes where the width goes from 1 to 2 bytes and from *)
(* 2 to 4: a list of 32768 slots and 65536 bytes has two-byte offsets and  *)
(* a size that would be read as four-byte ones.                            *)
(***************************************************************************)
EXTENDS HashStorage, ListAlloc, TLC

CONSTANT Active  \* those that are followed: of "hash", "alloc", "set", "zset"

VARIABLES which,
          slist, sret, smerge,                 \* SetStorage
          zlist, zret, zmerge                  \* ZSetStorage

SmallSizes == {<<4, 8>>, <<4, 16>>, <<8, 16>>}
LargerSizes == {<<4, 16>>, <<8, 16>>}

MCByte   == 0..9
OneKeys  == {<<3>>, <<4>>, <<7>>}
OneHash  == <<3>> :> 7 @@ <<4>> :> 7 @@ <<7>> :> 1
OneValues == {<<>>, <<1, 2>>}
OneOthers ==
  {EmptyList(8, 16, Fill),
   HNew(HNew(EmptyList(8, 32, Fill), <<4>>, <<1>>).list, <<7>>, <<>>).list}


OneMembers == {<<2>>, <<3>>, <<5>>}
MemberHash == <<2>> :> 6 @@ <<3>> :> 6 @@ <<5>> :> 1
SetOthers ==
  {EmptyList(8, 16, Fill),
   AppendItem(AppendItem(EmptyList(8, 16, Fill), 6, <<3>>, HASH_UPDATED).list, 1, <<5>>, HASH_UPDATED).list}

MCRequests == {0, 2, 20000}
MCItemSizes == {0, 1, 3, 61, 250, 65000}

-----------------------------------------------------------------------------
Sets == INSTANCE SetStorage WITH
          list <- slist, ret <- sret, merge <- smerge, Members <- OneMembers, Hash <- MemberHash,
          Sizes <- SmallSizes, Others <- SetOthers
Scored == INSTANCE ZSetStorage WITH
            list <- zlist, ret <- zret, merge <- zmerge, Members <- OneMembers, Hash <- MemberHash,
            Sizes <- LargerSizes, Others <- {}, MaxScore <- 2
ZSetOthers ==
  {EmptyList(8, 16, Fill),
   Scored!ZInsertItem(Scored!ZInsertItem(EmptyList(8, 32, Fill), <<3>>, 1).list, <<5>>, 1).list}
ZSets == INSTANCE ZSetStorage WITH
           list <- zlist, ret <- zret, merge <- zmerge, Members <- OneMembers, Hash <- MemberHash,
           Sizes <- LargerSizes, Others <- ZSetOthers, MaxScore <- 2

setvars == <<slist, sret, smerge>>
zsetvars == <<zlist, zret, zmerge>>

\* The others start, and stay, with the smallest allocation.
SumInit ==
  /\ which \in Active
  /\ Init /\ Sets!Init /\ ZSets!Init /\ AllocInit
  /\ which # "hash" => list.index_size = 4
  /\ which # "set" => slist = EmptyList(4, 8, Fill)
  /\ which # "zset" => zlist.index_size = 4
  /\ which # "alloc" => alloc = AllocSize(0, 0)

SumNext ==
  /\ \/ which = "hash" /\ Next /\ UNCHANGED <<setvars, zsetvars, allocvars>>
     \/ which = "set" /\ Sets!Next /\ UNCHANGED <<vars, zsetvars, allocvars>>
     \/ which = "zset" /\ ZSets!Next /\ UNCHANGED <<vars, setvars, allocvars>>
     \/ which = "alloc" /\ AllocNext /\ UNCHANGED <<vars, setvars, zsetvars>>
  /\ UNCHANGED which

\* What is counted up to a bound ends there.
Ended == which = "alloc" /\ UNCHANGED <<which, vars, setvars, zsetvars, allocvars>>

SumSpec ==
  SumInit /\ [][SumNext \/ Ended]_<<which, vars, setvars, zsetvars, allocvars>>

-----------------------------------------------------------------------------
\* What is stored and where, not what was stored there before.
Placed(l) ==
  <<l.index_size, l.data_size, l.count, l.data_len, [n \in 0..l.count |-> StartOf(l, n)],
    IF l.count = 0 THEN <<>> ELSE [n \in 1..(l.count - 1) |-> MapByte(l, n)]>>
LiveView ==
  CASE which = "hash" -> <<which, Placed(list), Entries, merge>>
    [] which = "set" -> <<which, Placed(slist), Sets!MembersOf(slist),
                          [n \in Sets!Items |-> Item(slist, n)], smerge>>
    [] which = "zset" -> <<which, Placed(zlist),
                           [n \in ZSets!Items |-> <<ZSets!MemberAt(zlist, n), ZSets!ScoreAt(zlist, n)>>],
                           zmerge>>
    [] which = "alloc" -> <<which, allocvars>>

-----------------------------------------------------------------------------
(* What holds of each (see the modules). *)

\* HashStorage: callers see a dictionary.
ImplementsHash == Dict!Init /\ [][which = "hash" => [Dict!Next]_(Dict!vars)]_vars
\* SetStorage: callers see a set.
ImplementsSet ==
  Sets!AInit /\ [][which = "set" => [Sets!ANext]_(Sets!avars)]_setvars
\* SetStorage and ZSetStorage: the map has the bytes of the members; a set has
\* each once, a sorted set has them in their order.
SetsSound == Sets!SVerify /\ Sets!Distinct /\ ZSets!ZVerify /\ ZSets!Sorted
\* ZSetStorage: callers see a map from members to scores and their ranks.
ImplementsZSet ==
  ZSets!Abstract!Init /\ [][which = "zset" => [ZSets!Abstract!Next]_(ZSets!Abstract!vars)]_zsetvars
\* (AllocFits and GrowsEnough of ListAlloc hold of it as they are: elsewhere the
\* allocation stays as it was at the start.)
=============================================================================
