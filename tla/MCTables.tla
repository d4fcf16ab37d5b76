------------------------------ MODULE MCTables ------------------------------
(***************************************************************************)
(* Small instances of HashTab, Registry, Replay, Conversions and Json, of  *)
(* which a behaviour is one: `which` says of which, the others stay as     *)
(* they were at the start.  The last two share their variables.            *)
(*                                                                         *)
(* HashTab: keys that share homes at the end and at the start of tables of *)
(* four and of eight slots.                                                *)
(*                                                                         *)
(* Registry: the formats J and G look at one byte, H at two and shares the *)
(* first with J; R looks further on; T and R have hints that share a slot, *)
(* and the hint of X is a type byte too; S takes anything.                 *)
(*                                                                         *)
(* Replay: captures of up to two records, of which one is larger than the  *)
(* buffer, with ends of lines in a message, cut off at any point; and      *)
(* captures whose second record has no length.  They follow each other in  *)
(* one buffer.                                                             *)
(*                                                                         *)
(* Conversions: texts of up to seven digits for a decimal with room for    *)
(* three; decimals of every kind into texts of every length; each layout   *)
(* and each format of a date, at the ends of years and centuries; stamps   *)
(* of each unit, at noon of the first day of 2021.                         *)
(*                                                                         *)
(* Json: values of every kind, up to three deep, with strings that are     *)
(* longer than the memory they are given at first, in texts longer than    *)
(* the buffer, which come in parts of every size; a text read in parts     *)
(* needs two characters after its last word (`true`), which its tail has.  *)
(***************************************************************************)
EXTENDS HashTab, Sequences, TLC

CONSTANTS k1, k2, k3, k4, k5, k6, t1, t2, NONE

VARIABLES which,
          arr, groups, ftypes, hashed, claimed, ready, at, looks, whole, left,     \* Registry
          stray,
          input, buf, bufoff, buflen, subj, subjlen, msgbuf, msglen, stage,        \* Replay
          conv, result                                                             \* Conversions, Json

regvars == <<arr, groups, ftypes, hashed, claimed, ready, at, looks, whole, left, stray>>
repvars == <<input, buf, bufoff, buflen, subj, subjlen, msgbuf, msglen, stage>>
convvars == <<conv, result>>

SomeKeys == {k1, k2, k3, k4, k5, k6}
SomeHash == k1 :> 3 @@ k2 :> 7 @@ k3 :> 7 @@ k4 :> 0 @@ k5 :> 9 @@ k6 :> 14

-----------------------------------------------------------------------------
Never == 255
Always == 0   \* as in Registry
SomeAuto == <<1, 2, 3, 4, 6>>

Fmt(off, len, magic, ftype, hint, writes) ==
  [off |-> off, len |-> len, buf |-> magic, ftype |-> ftype, hint |-> hint,
   writes |-> writes]

J == 1
X == 5
SomeFormats ==
  <<Fmt(0, 1, <<1>>, 1, <<11>>, TRUE), Fmt(0, 2, <<1, 2>>, 2, <<>>, FALSE),
    Fmt(1, 1, <<3>>, 0, <<9>>, TRUE), Fmt(0, 2, <<2, 3>>, 3, <<17, 9>>, TRUE),
    Fmt(0, Never, <<>>, 4, <<2>>, FALSE), Fmt(0, Always, <<>>, 2, <<>>, FALSE)>>

Msg(mem, off, end) == [mem |-> mem, off |-> off, end |-> end]
SomeMessages ==
  {Msg(<<1, 2>>, 0, 2), Msg(<<0, 1, 2>>, 1, 2), Msg(<<2, 3>>, 0, 2), Msg(<<1, 3>>, 0, 2),
   Msg(<<1, 2, 3>>, 1, 3), Msg(<<>>, 0, 0)}
\* is_msg_type() looks at the whole magic number, in bounds; two of the
\* messages are not what they look like.
SomeAccepts ==
  {x \in (DOMAIN SomeFormats) \X SomeMessages :
     LET f == SomeFormats[x[1]]
         m == x[2]
     IN  CASE x[1] = X -> m.end - m.off = 2
           [] x[1] = J -> m.mem # <<1, 2>> /\ m.end - m.off >= 1 /\ m.mem[m.off + 1] = 1
           [] OTHER -> /\ m.off + f.off + f.len <= m.end
                       /\ \A i \in 1..f.len : m.mem[m.off + f.off + i] = f.buf[i]}

Reg == INSTANCE Registry WITH
         pc <- at, Threads <- {t1, t2}, Formats <- SomeFormats, Auto <- SomeAuto, Own <- {3, 5},
         Messages <- SomeMessages, Hints <- {0, 2, 9, 17, 3}, Accepts <- SomeAccepts,
         HashSize <- 8

-----------------------------------------------------------------------------
NL == 10
CR == 13
\* A subject, the end of its line, a message.
Text(sub, eol, msg) == sub \o eol \o <<48 + Len(msg)>> \o eol \o msg
SomeRecords ==
  {Text(<<>>, <<NL>>, <<>>), Text(<<97>>, <<NL>>, <<49>>),
   Text(<<97, 97>>, <<CR, NL>>, <<NL, 49, NL>>),
   Text(<<97>>, <<NL>>, <<97, 97, CR, 97, NL, 97>>)}
Whole == {<<>>} \cup SomeRecords \cup {r \o s : r, s \in SomeRecords}
Prefixes(t) == {SubSeq(t, 1, n) : n \in 0..Len(t)}
SomeFiles == UNION {Prefixes(t) : t \in Whole}
             \cup {r \o <<97, NL, 97, NL>> \o r : r \in SomeRecords}

Rep == INSTANCE Replay WITH
         pc <- stage, Captures <- SomeFiles, InitSize <- 4, Junk <- 0

-----------------------------------------------------------------------------
D == INSTANCE Scalars WITH
       MaxVal <- 2000000000, NPow <- 9, Now <- 1609504200, EpochMin <- 1300000,
       EpochMax <- 2000000, StampUnit <- 2000000, JunkDates <- {}

SomeTexts ==
  {x \in [neg : BOOLEAN,
          int : {<<>>, <<0>>, <<7>>, <<4, 8>>, <<4, 9>>, <<5, 0>>, <<1, 2, 3>>, <<9, 8, 7, 6>>},
          frac : {<<>>, <<5>>, <<0, 5>>, <<1, 2, 5>>, <<0, 0, 0, 7>>},
          exp : {-3, -2, -1, 1, 2}, how : {"none", "percent", "plus", "bare"}] :
     /\ x.int = <<>> => x.frac # <<>>
     /\ x.how \in {"none", "percent"} => x.exp = -2
     /\ x.how = "plus" => x.exp > 0}
SomeFractions == [neg : BOOLEAN, whole : {0, 1, 7}, num : {0, 1, 3}, den : {0, 1, 2, 3, 8, 512}]
SomeDecimals == {D!Dec(i, h) : i \in {-1025, -10, -3, -1, 0, 1, 5, 9, 10, 99, 100, 1025},
                               h \in (-14..-11) \cup (-4..13)}
Clock(h, m, s) == D!Time(h, m, s, 0, D!Second, FALSE)
Clocks == {Clock(h, m, s) : h \in {0, 5, 12, 24}, m \in {0, 31}, s \in {0, 9}}
SomeTimes ==
  Clocks \cup {D!Time(5, 31, 0, 0, D!Minute, FALSE), D!Time(23, 0, 0, 0, D!Minute, FALSE)}
  \cup {D!Time(5, 1, 58, f, r, FALSE) : f \in {0, 7, 384, 120}, r \in D!Milli..D!Nano}
  \cup {D!Time(0, 0, 0, 0, r, TRUE) : r \in D!Second..D!Minute}
NewYear == D!Date(1970, 1, 1)
RecentDates == {NewYear, D!Date(1999, 12, 31), D!Date(2000, 2, 29), D!Date(2021, 6, 3),
                D!Date(2021, 6, 30)}
SomeDates == RecentDates \cup {D!Date(2069, 11, 7)}
\* MD_DATE_FMT_default and what follows it.
DateFormats ==
  {D!dmy \cup f : f \in {{"SPACE", "MMM", "yyyy"}, {"MMM"}, {"MMM", "SPACE"}, {"MMM", "yyyy"},
                        {"yyyy", "SPACE"}}}
  \cup {D!mdy \cup f : f \in {{"SPACE", "MMM", "yyyy"}, {"SLASH"}, {"yyyy", "SLASH"}}}
  \cup {D!ymd \cup f : f \in {{"yyyy"}, {"yyyy", "DASH"}, {"yyyy", "SLASH"}}}
SomeStamps ==
  {D!Stamp(s, r) : s \in {0, 1, 2}, r \in (D!Second..D!Nano) \cup {D!ResNull}}
  \cup {D!Stamp(30, D!Minute), D!Stamp(1999, D!Milli), D!Stamp(1005, D!Micro),
        D!Stamp(1000000, D!Micro), D!Stamp(50, D!Nano), D!Stamp(1999999999, D!Nano)}
SomeAmounts ==
  ({D!Dec(0, D!Integer), D!Dec(3, D!Integer)} \X D!Units)
  \cup ({D!Dec(15, D!LogN(1)), D!Dec(250, D!LogN(2))} \X {"ms", "sec", "min", "hour", "day", "week"})
  \cup ({D!Dec(1, D!LogP(1))} \X {"sec", "min", "hour"})
SomeMoments ==
  (Clocks \X (RecentDates \cup {D!NoDate}))
  \cup ({D!Time(5, 1, 58, 7, D!Milli, FALSE), D!Time(0, 30, 1, 7, D!Micro, FALSE),
         D!Time(0, 0, 1, 7, D!Nano, FALSE)} \X {NewYear})

Cnv == INSTANCE Conversions WITH
         MaxVal <- 2000000000, NPow <- 9, Now <- 1609504200, EpochMin <- 1300000,
         EpochMax <- 2000000, StampUnit <- 2000000, JunkDates <- {D!NoDate, NewYear},
         TightMax <- 499, TightPow <- 2, DecimalTexts <- SomeTexts,
         FractionTexts <- SomeFractions, Lengths <- {0, 1, 2, 3, 4, 5, 6, 9, 10, 12, 24},
         Formats <- DateFormats, Amounts <- SomeAmounts, Moments <- SomeMoments

-----------------------------------------------------------------------------
JT == INSTANCE JsonText WITH BufLen <- 12, NumMax <- 8, MaxBlocks <- 4, Word <- 8
JS(t) == JT!String(t, <<>>)
Letter == JS(<<97>>)
Pairs(ps) == JT!Object(ps)
List(vs) == JT!Array(vs)
Yes == JT!Boolean(TRUE)
SomeValues ==
  <<Yes, List(<<JT!Null, JT!Boolean(FALSE), JT!Number(<<49>>), List(<<>>), Yes>>),
   Pairs(<<<<Letter, JS(<<NL, 34, 233>>)>>,
           <<JS(<<116, 49>>), JT!Number(<<45, 46, 53, 101, 43, 55>>)>>>>),
   Pairs(<<<<JS(<<>>), Pairs(<<>>)>>,
           <<JS(<<65, 32>>), List(<<JS(<<8364, 97, 97, 97, 97, 97, 92>>)>>)>>>>),
   List(<<JT!Number(<<105, 110, 102>>), JS([k \in 1..8 |-> 97]), JT!Number(<<45, 110, 97, 110>>)>>)>>
SomeYaml ==
  <<Pairs(<<<<Letter, Letter>>, <<Letter, JS(<<98, 99, 100>>)>>>>),
   List(<<Letter, List(<<Letter, Letter>>),
          Pairs(<<<<Letter, JS(<<>>)>>, <<Letter, List(<<JS(<<58>>), JS(<<32, 97>>)>>)>>>>), JT!Null>>),
   Pairs(<<<<Letter, Pairs(<<<<Letter, JS(<<45, 32>>)>>,
                             <<JS(<<97, 58>>), Pairs(<<<<Letter, Letter>>>>)>>>>)>>,
           <<JS(<<97, 32, 97>>), JT!Number(<<49>>)>>,
           <<Letter, List(<<Pairs(<<<<Letter, Yes>>, <<Letter, Letter>>>>),
                            List(<<List(<<Letter>>), Letter>>)>>)>>>>),
   Pairs(<<<<JS(<<39>>), JS(<<35, 97>>)>>, <<Letter, JS(<<92, 58, 32>>)>>,
           <<Letter, JS(<<97, 58, 97, 34>>)>>,
           <<JS(<<121>>), List(<<JS(<<91, 93>>), JS(<<97, 97, 97>>)>>)>>>>)>>
Style(sp, bare, hex) == [sp |-> sp, bare |-> bare, hex |-> hex]
SomeStyles == {Style(<<>>, TRUE, FALSE), Style(<<NL>>, FALSE, FALSE), Style(<<32>>, TRUE, TRUE)}

Js == INSTANCE Json WITH
        BufLen <- 12, NumMax <- 8, MaxBlocks <- 4, Word <- 8, Depth <- 6, Unknown <- <<63>>,
        Values <- SomeValues, YamlValues <- SomeYaml, Styles <- SomeStyles, Tails <- {<<32, 32>>},
        JunkChars <- {0, 44}

ASSUME TablesAssumption ==
  /\ Reg!RegistryAssumption
  /\ Rep!ReplayAssumption
  /\ Cnv!DateTimeAssumption
  /\ Js!JsonAssumption /\ Js!YamlAssumption

-----------------------------------------------------------------------------
all == <<which, vars, regvars, repvars, convvars>>

SumInit == /\ which \in {"hashtab", "registry", "replay", "conversions", "json"}
           /\ Init /\ Reg!Init /\ Rep!Init /\ Cnv!Init

SumNext ==
  /\ \/ which = "hashtab" /\ Next /\ UNCHANGED <<regvars, repvars, convvars>>
     \/ which = "registry" /\ Reg!Next /\ UNCHANGED <<vars, repvars, convvars>>
     \/ which = "replay" /\ Rep!Next /\ UNCHANGED <<vars, regvars, convvars>>
     \/ which = "conversions" /\ Cnv!Next /\ UNCHANGED <<vars, regvars, repvars>>
     \/ which = "json" /\ Js!Next /\ UNCHANGED <<vars, regvars, repvars>>
  /\ UNCHANGED which

SumSpec ==
  /\ SumInit /\ [][SumNext]_all
  /\ WF_vars(Loop)
  /\ \A t \in {t1, t2} : WF_regvars(Reg!Runs(t))
  /\ WF_repvars(Rep!Parse)

-----------------------------------------------------------------------------
(* What holds of each (see the modules). *)

\* (TableSound and ImplementsMap of HashTab hold of it as they are: elsewhere the
\* table stays as it was at the start.)

\* Registry: a lookup finds the right format, whenever it comes.
FormatFound == which = "registry" => Reg!FormatFound
\* Replay: callers see the records of a file, whole and in order, from a buffer
\* that grows by what a record lacks.
ImplementsReplay ==
  Rep!AInit /\ [][which = "replay" => [Rep!ANext]_(Rep!avars)]_repvars
  /\ Rep!GrowsForRecord
\* The loops of HashTab end, every lookup of Registry is answered and every call
\* of Replay returns.
CallsReturn == LoopsEnd /\ Reg!LookupsReturn /\ Rep!CallsReturn
\* Conversions: decimals, dates and times, and stamps keep their value.
DecimalsSound == which = "conversions" => Cnv!DecimalsSound
ClocksSound == which = "conversions" => Cnv!DatesSound /\ Cnv!StampsSound
\* Json: a text is read for what it says, all at once or in parts, and what is
\* printed is read again, as JSON and as YAML.
JsonRead == which = "json" => Js!JsonRead
=============================================================================
