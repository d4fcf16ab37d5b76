------------------------------ MODULE MCFormats ------------------------------
(***************************************************************************)
(* Small instances of Stream, and of RvMsg, TibMsg, TibSass, MfMsg and     *)
(* JsonMsg, of which a behaviour is one: `which` says of which.  The       *)
(* formats share the variables that they have in common; those of the      *)
(* others are None, and the stream stays as it was at the start.           *)
(*                                                                         *)
(* Stream: three ids, two of one millisecond, two groups of two consumers. *)
(*                                                                         *)
(* Sizes that take other encodings are small: an Rv size of 9 bytes is no  *)
(* longer tiny and one of 12 no longer short, a Tib size above 9 and a     *)
(* Sass size above 12 are wide.  Buffers have no bytes or few, grow once   *)
(* or twice, to the same place or another, and cannot grow beyond MaxSize. *)
(***************************************************************************)
EXTENDS Stream, Buffers, TLC

CONSTANTS MaxCalls, MaxDepth,
          Active,     \* those that are followed: of "stream", "rv", "tib", "sass", "form", "mf", "json"
          MfHeaders,  \* the headers that callers write, of those below
          SassDates   \* the dates that Sass fields are updated to

VARIABLES which, s, doc, len, calls,
          open, missed,        \* RvMsg
          names,               \* TibMsg, JsonMsg
          begun,               \* JsonMsg
          useform, unkfid,     \* TibSass
          inhdr, closed, hdr   \* MfMsg

own == <<open, missed, names, begun, useform, unkfid, inhdr, closed, hdr>>
message == <<s, doc, len, calls, own>>

-----------------------------------------------------------------------------
(* Stream.                                                                   *)
ThreeIds  == {<<1, 0>>, <<1, 1>>, <<2, 0>>}
SearchFor == ThreeIds \cup {<<1>>, Lowest, Highest, BadId}

\* Milliseconds of ten nanoseconds.
Claim1 == [cur |-> 40, min_idle |-> 0, idle |-> 0, time |-> 0, retrycount |-> 0, justid |-> FALSE]
SomeClaims == {Claim1,
               [Claim1 EXCEPT !.min_idle = 1, !.idle = 2, !.justid = TRUE],
               [Claim1 EXCEPT !.time = 1, !.retrycount = 1]}

Symmetry  == Permutations(Groups) \cup Permutations(Consumers)

-----------------------------------------------------------------------------
(* The characters of names and values.                                       *)

A == <<97>>
NINE == <<97, 98, 99, 97, 98, 99, 97, 98, 99>>
R8 == <<1, 2, 3, 4, 5, 6, 7, 8>>
SomeNames == {A}

-----------------------------------------------------------------------------
(* RvMsg: values of one byte, of several in both orders, tiny, short and    *)
(* long ones, names of all lengths, messages in the first field.            *)
RvVal(t, d, le, ew) == [t |-> t, d |-> d, le |-> le, ew |-> ew]
\* A name that says what is in the field: _QQQQQ, _ddddd, _WWWWWW.
Says(n, x) == <<95>> \o Fill(n, x) \o <<NUL>>
RvCalls ==
  {<<"ref", A, RvVal("INT", <<1, 2, 3, 4>>, TRUE, 4)>>,
   <<"ref", <<>>, RvVal("UINT", <<1, 2>>, FALSE, 2)>>,
   <<"ref", <<97, 0, 5, 6>>, RvVal("STRING", <<21, 22, 23, 24, 25, 26, 27, 28>>, FALSE, 1)>>,
   <<"ref", NINE, RvVal("BOOLEAN", <<1>>, TRUE, 1)>>,
   <<"ref", <<97, 0>>, RvVal("OPAQUE", Fill(12, 31), FALSE, 1)>>,
   <<"ref", A, RvVal("U32", R8, TRUE, 4)>>,
   <<"ref", A, RvVal("STRING", <<>>, FALSE, 1)>>,
   <<"decimal", A, RvVal("REAL", R8, TRUE, 8)>>,
   <<"text", A, RvVal("TIME", <<31, 32>>, FALSE, 1)>>,
   <<"stamp", A, RvVal("STAMP", <<3, 4>>, FALSE, 1)>>,
   <<"subject", A, RvVal("SUBJ", <<<<41>>, <<42, 43>>>>, FALSE, 1)>>,
   <<"subject", A, RvVal("SUBJ", <<<<>>, <<42>>>>, FALSE, 1)>>,
   <<"strings", A, RvVal("STRS", <<<<41>>, <<>>, <<42, 43>>>>, FALSE, 1)>>,
   <<"xml", A, RvVal("XML", <<51, 52>>, FALSE, 10)>>,
   <<"ref", Says(5, 81), RvVal("OPAQUE", U32(1111) \o U32(9) \o <<1>>, FALSE, 1)>>,
   <<"ref", Says(5, 100), RvVal("OPAQUE", U32(5227) \o <<1>> \o U32(3), FALSE, 1)>>,
   <<"ref", Says(6, 87), RvVal("OPAQUE", <<7, 7>>, FALSE, 1)>>}

-----------------------------------------------------------------------------
(* TibMsg: sizes of one byte and of four, values with and without hints.    *)
Val(t, d, le, h) == [t |-> t, d |-> d, le |-> le, h |-> h]
TibCalls ==
  {<<"ref", A, Val("INT", <<1, 2, 3, 4>>, TRUE, <<>>)>>,
   <<"ref", <<>>, Val("UINT", <<1, 2>>, FALSE, <<>>)>>,
   <<"ref", A, Val("ENUM", <<1, 2>>, TRUE, <<>>)>>,
   <<"ref", <<97, 0>>, Val("STRING", <<21, 22, 23, 24, 25, 26, 27, 28, 29>>, FALSE, <<>>)>>,
   <<"ref", <<97, 98, 99, 97, 98, 99, 97, 98, 99>>, Val("BOOLEAN", <<1>>, TRUE, <<>>)>>,
   <<"ref", A, Val("PARTIAL", <<31, 32>>, FALSE, <<"UINT", <<4>>>>)>>,
   <<"ref", A, Val("STRING", <<31, 32, 0>>, FALSE, <<"UINT", <<0, 1>>>>)>>,
   <<"ref", A, Val("STAMP", R8, TRUE, <<>>)>>,
   <<"ref", A, Val("XML", <<>>, FALSE, <<>>)>>,
   <<"time", A, Val("TIME", <<41, 42>>, FALSE, "minutes")>>,
   <<"date", A, Val("DATE", <<41>>, FALSE, "")>>,
   <<"enum", A, Val("ENUM", <<41, 43>>, FALSE, "")>>}
  \cup {<<"decimal", A, Val("DECIMAL", R8, FALSE, h)>> :
          h \in {0, 1, 2, 9, 10, -11, -19}}
TibUpdates == {<<"TIME", <<45, 46>>>>, <<"DATE", <<45>>>>, <<"ENUM", <<5, 6>>>>, <<"UINT", <<7, 8>>>>}

-----------------------------------------------------------------------------
(* TibSass: fields of fixed and of variable sizes, smaller and larger than   *)
(* what is written to them, one that is unknown; a form and none.            *)
Sized(fid, name, t, n, fixed) == [fid |-> fid, name |-> name, t |-> t, n |-> n, fixed |-> fixed]
SassDictionary ==
  {Sized(1, "msgtype", "UINT", 2, TRUE), Sized(2, "price", "DECIMAL", 9, TRUE), Sized(3, "small", "DECIMAL", 5, TRUE),
   Sized(4, "time", "TIME", 6, TRUE), Sized(5, "row", "PARTIAL", 5, TRUE), Sized(6, "text", "STRING", 3, TRUE),
   Sized(7, "var", "STRING", 7, FALSE), Sized(8, "far", "STRING", 14, FALSE), Sized(9, "seq", "INT", 4, TRUE),
   Sized(10, "sec", "TIME", 8, TRUE), Sized(11, "date", "DATE", 4, TRUE)}
SassCalls ==
  {<<[name |-> "msgtype"], Val("UINT", <<1, 2>>, TRUE, 0)>>,
   <<[fid |-> 1], Val("INT", <<0, 0, 1, 2>>, TRUE, 0)>>,
   <<[name |-> "seq"], Val("INT", <<255, 2>>, TRUE, 0)>>,
   <<[name |-> "seq"], Val("STRING", <<255, 2>>, FALSE, 0)>>,
   <<[fid |-> 2], Val("DECIMAL", R8, TRUE, 2)>>,
   <<[name |-> "price"], Val("DECIMAL", R8, TRUE, 0)>>,
   <<[name |-> "small"], Val("DECIMAL", R8, TRUE, -13)>>,
   <<[name |-> "time"], Val("TIME", <<49, 50, 58, 49, 51, 58, 49, 52>>, FALSE, 0)>>,
   <<[name |-> "date"], Val("DATE", <<49, 51, 52>>, FALSE, 0)>>,
   <<[name |-> "row"], Val("PARTIAL", <<31, 32, 33>>, FALSE, 1)>>,
   <<[name |-> "row"], Val("STRING", <<31, 32>>, FALSE, 4)>>,
   <<[name |-> "text"], Val("STRING", <<41>>, FALSE, 0)>>,
   <<[name |-> "text"], Val("STRING", <<41, 42, 43, 44>>, FALSE, 0)>>,
   <<[name |-> "text"], Val("ENUM", <<0, 4>>, TRUE, <<45, 46>>)>>,
   <<[name |-> "var"], Val("STRING", <<41, 42, 43>>, FALSE, 0)>>,
   <<[name |-> "far"], Val("STRING", <<41, 42, 43, 44, 45>>, FALSE, 0)>>,
   <<[name |-> "none"], Val("UINT", <<1>>, FALSE, 0)>>}
NoDates == {}
SomeDates == {Val("DATE", <<49, 53, 52>>, FALSE, 0)}
SassUpdates == SassDates \cup
               {Val("TIME", <<49, 50, 58, 49, 53, 58, 49, 54>>, FALSE, 0), Val("DECIMAL", R8, TRUE, -11),
                Val("STRING", <<61, 62>>, FALSE, 0), Val("UINT", <<3, 4>>, FALSE, 0)}
SomeForm == <<1, 9, 2, 5, 6>>
NoForm == <<>>

-----------------------------------------------------------------------------
(* MfMsg: records, updates and a status with all parts of the header.        *)
MfVal(t, d, h) == [t |-> t, d |-> d, h |-> h]
Text(fid, name, t, n) == [fid |-> fid, name |-> name, t |-> t, n |-> n]
MfDictionary ==
  {Text(2, "perm", "UINT", 0), Text(3, "name", "STRING", 3), Text(5, "time", "TIME", 5), Text(6, "ask", "DECIMAL", 0),
   Text(15, "ccy", "ENUM", 0), Text(18, "sec", "TIME", 8), Text(32, "row", "PARTIAL", 9), Text(-4, "net", "INT", 0)}
SomeEnums == {<<15, <<85, 83>>, 840>>}
XX == <<88>>
Ric == <<65, 66>>
SomeHeaders ==
  {<<340, XX, Ric, <<<<"rstatus", -3, <<>>>>, <<"flist", 7, <<>>>>, <<"rtl", 9, <<>>>>>>>>,
   <<316, XX, Ric, <<<<"nortl", 0, <<>>>>>>>>,
   <<316, XX, Ric, <<<<"rtl", 9, <<>>>>, <<"status", -5, XX>>>>>>,
   <<350, <<>>, Ric, <<<<"delta", 1, <<>>>>, <<"rtl", 4, <<>>>>>>>>}
Documented ==
  SomeHeaders \cup {<<407, XX, Ric, <<<<"rtl", 9, <<>>>>, <<"status", 5, <<>>>>>>>>}
MfCalls ==
  {<<"ref", [name |-> "perm"], MfVal("UINT", <<4>>, 0)>>,
   <<"ref", [name |-> "none"], MfVal("UINT", <<4>>, 0)>>,
   <<"ref", [fid |-> 3], MfVal("STRING", <<97, 0>>, 0)>>,
   <<"ref", [fid |-> 3], MfVal("STRING", <<97, 98, 99, 100>>, 0)>>,
   <<"ref", [name |-> "time"], MfVal("TIME", <<49, 50, 58, 49, 51, 58, 49, 52>>, 0)>>,
   <<"ref", [name |-> "ask"], MfVal("DECIMAL", <<-7>>, 0)>>,
   <<"ref", [name |-> "ask"], MfVal("DECIMAL", <<>>, 0)>>,
   <<"ref", [name |-> "ask"], MfVal("UINT", <<7>>, 0)>>,
   <<"ref", [name |-> "ccy"], MfVal("STRING", <<85, 83>>, 0)>>,
   <<"ref", [name |-> "ccy"], MfVal("STRING", <<85, 84>>, 0)>>,
   <<"ref", [name |-> "net"], MfVal("INT", <<8>>, 0)>>,
   <<"ref", [fid |-> 77], MfVal("STRING", <<>>, 0)>>,
   <<"raw", 32, <<MfVal("PARTIAL", <<97, 98>>, 4), MfVal("PARTIAL", <<99>>, 0)>>>>,
   <<"raw", 32, <<[t |-> "REPEAT", d |-> <<97>>, h |-> 4, rep |-> 3], MfVal("PARTIAL", <<99, 100>>, 7)>>>>}

-----------------------------------------------------------------------------
(* JsonMsg: every kind of value, with characters that are escaped; three of  *)
(* the longest are one byte short of the largest buffer.                     *)
Json(t, d) == [t |-> t, d |-> d]
A0 == <<97, 0>>
B0 == <<98, 0>>
Decimal(i, h) == [ival |-> i, hint |-> h]   \* hints as in Scalars
JsonCalls ==
  {<<A0, Json("STRING", <<97, 34, 9, 200, 0, 98>>)>>, <<<<>>, Json("STRING", <<>>)>>,
   <<B0, Json("OPAQUE", <<0, 127, 47, 47>>)>>, <<A0, Json("INT", -17)>>,
   <<B0, Json("IPDATA", <<1, 20, 255, 0>>)>>, <<A0, Json("BOOLEAN", TRUE)>>,
   <<A0, Json("TIME", <<49, 50, 58, 51, 48>>)>>, <<A0, Json("STAMP", 0)>>,
   <<B0, Json("ARRAY", <<Json("UINT", 7), Json("STRING", <<92>>), Json("BOOLEAN", FALSE),
                         Json("ARRAY", <<>>)>>)>>,
   <<A0, Json("ARRAY", <<>>)>>}
  \cup {<<A0, Json("DECIMAL", Decimal(i, h))>> : i \in {-3}, h \in {2, -11}}
  \cup {<<B0, Json("DECIMAL", Decimal(2, h))>> : h \in {12, 0, -1, -2, -4}}

-----------------------------------------------------------------------------
Rv == INSTANCE RvMsg WITH
        Tiny <- 9, ShortMax <- 12, NameMax <- 8, Sizes <- {0, 16},
        Calls <- RvCalls, Names <- SomeNames
Tib == INSTANCE TibMsg WITH
         ByteMax <- 9, NameMax <- 8, Sizes <- {0, 18},
         Calls <- TibCalls, Names <- SomeNames, Updates <- TibUpdates
Sass(Form, Sizes) == INSTANCE TibSass WITH
                VarMax <- 12, Dictionary <- SassDictionary,
                Calls <- SassCalls, Updates <- SassUpdates
Mf == INSTANCE MfMsg WITH
        RepMax <- 8, Sizes <- {0, 30}, Dictionary <- MfDictionary, Enums <- SomeEnums,
        Headers <- MfHeaders, Calls <- MfCalls, MaxCalls <- MaxCalls + 1

Js == INSTANCE JsonMsg WITH
        NumMax <- 16, Sizes <- {0, 16}, Calls <- JsonCalls, Names <- {A0}, MaxDepth <- 2

ASSUME FormatsAssumption ==
  /\ Rv!RvAssumption /\ Tib!TibAssumption /\ Mf!MfAssumption
  /\ Js!J!JsonAssumption /\ Js!D!DecimalAssumption
  /\ \A form \in {NoForm, SomeForm} : Sass(form, {18})!SassAssumption

None == 0
Starts ==
  \/ /\ which = "stream"
     /\ s = None /\ doc = None /\ len = None /\ calls = None
     /\ open = None /\ missed = None /\ names = None /\ begun = None
     /\ useform = None /\ unkfid = None /\ inhdr = None /\ closed = None /\ hdr = None
  \/ /\ which = "rv" /\ Rv!Init
     /\ names = None /\ begun = None /\ useform = None /\ unkfid = None
     /\ inhdr = None /\ closed = None /\ hdr = None
  \/ /\ which = "tib" /\ Tib!Init
     /\ open = None /\ missed = None /\ begun = None /\ useform = None /\ unkfid = None
     /\ inhdr = None /\ closed = None /\ hdr = None
  \/ /\ \/ which = "sass" /\ Sass(NoForm, {18})!Init
        \/ which = "form" /\ Sass(SomeForm, {0})!Init
     /\ open = None /\ missed = None /\ names = None /\ begun = None
     /\ inhdr = None /\ closed = None /\ hdr = None
  \/ /\ which = "mf" /\ Mf!Init
     /\ open = None /\ missed = None /\ names = None /\ begun = None
     /\ useform = None /\ unkfid = None
  \/ /\ which = "json" /\ Js!Init
     /\ open = None /\ missed = None /\ useform = None /\ unkfid = None
     /\ inhdr = None /\ closed = None /\ hdr = None

SumInit == which \in Active /\ Init /\ Starts

SumNext ==
  \/ which = "stream" /\ Next /\ UNCHANGED <<which, message>>
  \/ which = "rv" /\ Rv!Next
     /\ UNCHANGED <<which, vars, names, begun, useform, unkfid, inhdr, closed, hdr>>
  \/ which = "tib" /\ Tib!Next
     /\ UNCHANGED <<which, vars, open, missed, begun, useform, unkfid, inhdr, closed, hdr>>
  \/ which = "sass" /\ Sass(NoForm, {18})!Next
     /\ UNCHANGED <<which, vars, open, missed, names, begun, inhdr, closed, hdr>>
  \/ which = "form" /\ Sass(SomeForm, {0})!Next
     /\ UNCHANGED <<which, vars, open, missed, names, begun, inhdr, closed, hdr>>
  \/ which = "mf" /\ Mf!Next
     /\ UNCHANGED <<which, vars, open, missed, names, begun, useform, unkfid>>
  \/ which = "json" /\ Js!Next
     /\ UNCHANGED <<which, vars, open, missed, useform, unkfid, inhdr, closed, hdr>>

SumSpec == SumInit /\ [][SumNext]_<<which, vars, message>>

\* A stream without the last answer.  Of a message, windows as they lie in the buffer:
\* writers look at addresses only to tell what is in it.
Inside(t) == [t EXCEPT !.at = 0, !.w = [k \in DOMAIN @ |-> [@[k] EXCEPT !.buf = @ - t.at]]]
Look == IF which = "stream" THEN <<which, stream, group, pending, newest, again>>
        ELSE <<which, Inside(s), doc, len, calls, own>>

-----------------------------------------------------------------------------
(* What holds of each (see the modules; of Stream what is said there). *)

\* RvMsg: a message is read as what was written.
RvEncoded == which = "rv" => Rv!RvEncoded
\* RvMsg: writers of messages in messages stay in one buffer that grows.
RvNested == which = "rv" => Rv!RvNested
\* RvMsg: a message in the first field is found, and only a message.
RvUnwraps == which = "rv" => Rv!RvUnwraps
\* TibMsg: a message is read as what was written.
TibEncoded == which = "tib" => Tib!TibEncoded
\* TibSass: a message is read as what was written or updated (update()), with a form
\* and without.
SassEncoded == /\ which = "sass" => Sass(NoForm, {18})!SassEncoded
               /\ which = "form" => Sass(SomeForm, {0})!SassEncoded
\* MfMsg: a record is read as what was written: "340: ... [<GS>status[<RS>text]]"
\* (mf_msg.h), with a status whether it has a text or not.
MfEncoded == which = "mf" => Mf!MfEncoded
\* JsonMsg: a message without messages in it is read as what was written, and
\* writers stay in their memory.
JsonEncoded == which = "json" => Js!JsonEncoded
=============================================================================
