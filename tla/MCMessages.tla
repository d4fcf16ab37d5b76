----------------------------- MODULE MCMessages -----------------------------
(***************************************************************************)
(* Small instances of RwfWriter with RwfReader, Dict and MsgMem, of which  *)
(* a behaviour is one: `which` says of which, the others stay as they were *)
(* at the start.  The properties of MsgMem, OpenNested and InBuffer of     *)
(* RwfWriter, and OwnField and IndexByFid of Dict are checked under their  *)
(* names: of one that is not followed they hold as of its start.           *)
(*                                                                         *)
(* RwfWriter: one writer of every type that holds others as the outermost; *)
(* lists and groups in it; little room to begin with.                      *)
(*                                                                         *)
(* Dict: two kinds of fields and a record, fids and names that collide, a  *)
(* dense and a sparse enumeration, tables that start at their least sizes. *)
(*                                                                         *)
(* MsgMem: words of 2 bytes, 3 in a block, and requests larger than that.  *)
(***************************************************************************)
EXTENDS RwfReader, MsgMem, Dict, TLC

CONSTANT Active    \* those that are followed: of "rwf", "dict", "mem"

VARIABLE which

memvars == vars

SomeRoots == {<<MSG, <<0, 1>>>>, <<MSG, <<1, 0>>>>, <<MAP, <<1, 1>>>>,
              <<SERIES, <<1>>>>, <<VECTOR, <<1>>>>, <<FILTER, <<1>>>>}
SomeKinds == {<<FIELDS, <<>>>>, <<ELEMENTS, <<>>>>, <<MAP, <<0, 0>>>>,
              <<VECTOR, <<0>>>>}
SomeFields == {<<1>>, <<2, 5>>}

-----------------------------------------------------------------------------
Kind(t, n, fl) == [ftype |-> t, fsize |-> n, flags |-> fl]
DictNames == {"a", "b"}
TheKinds == {Kind("enum", 2, {}), Kind("enum", 2, {"fixed"}), Kind("message", 0, {})}
TheMaps == <<<<0, 1>>, <<1, 4, 5>>>>
TheHash == [n \in DictNames |-> 3]
TheTypeHash(t) == t.fsize + t.map
TheWords == [n \in DictNames |-> IF n = "a" THEN 2 ELSE 1]

Alike == Permutations(Owners)

-----------------------------------------------------------------------------
SumInit ==
  /\ which \in Active
  /\ RwfInit /\ BuildInit /\ Init

SumNext ==
  /\ \/ which = "rwf" /\ RwfNext /\ UNCHANGED <<buildvars, memvars>>
     \/ which = "dict" /\ BuildNext /\ UNCHANGED <<rwfvars, memvars>>
     \/ which = "mem" /\ Next /\ UNCHANGED <<rwfvars, buildvars>>
  /\ UNCHANGED which

\* A message and a build end with the calls.
Complete == which \in {"rwf", "dict"} /\ UNCHANGED <<which, rwfvars, buildvars, memvars>>

SumSpec == SumInit /\ [][SumNext \/ Complete]_<<which, rwfvars, buildvars, memvars>>

\* Of memory that is free only the marks behind blocks matter.
Look ==
  CASE which = "rwf" -> <<which, rwfvars>>
    [] which = "dict" -> <<which, buildvars>>
    [] which = "mem" -> <<which, [b \in 1..Len(blks) |->
                                    <<blks[b].size, b > 1 => blks[b].mem[blks[b].size] = Edge>>],
                          mem_off, held, mark, [o \in DOMAIN held |-> Read(held[o])]>>

-----------------------------------------------------------------------------
(* What holds of each (see the modules). *)

\* RwfReader: a message is read as what was written.
RwfEncoded == which = "rwf" => Encoded
\* RwfWriter: a writer that reports no error has made the room it needed.
HasRoom == which = "rwf" => RoomMade
\* RwfWriter: no call writes where it did not ask for room.
AsksRoom == which = "rwf" => RoomAsked
\* Dict: fields are found by fid and by name, values of enumerations by their
\* text and the text by value.
DictFinds == FieldsFound /\ EnumsFound
=============================================================================
