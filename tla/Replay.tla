------------------------------- MODULE Replay -------------------------------
(***************************************************************************)
(* The reader of captures, MDReplay of src/md_replay.cpp.  A record is a   *)
(* line with a subject, a line with a length and that many bytes.  The     *)
(* records pass through a window, buf[bufoff..buflen], which is moved to   *)
(* the start of the buffer when it reaches its end, and the buffer grows   *)
(* when a record is larger.                                                *)
(*                                                                         *)
(* A call of first() or next() is a step to start it and one for each      *)
(* round of parse().  As test/read_msg.cpp does, callers open a capture,   *)
(* call first() and then next() until one returns false.                   *)
(***************************************************************************)
EXTENDS Integers, Sequences
LOCAL INSTANCE SequencesExt

CONSTANTS Captures,   \* what files contain, sequences of characters
          InitSize,   \* the size of a new buffer, 2 * 1024 in the code
          Junk        \* what is in memory that nobody wrote

ReplayAssumption ==
  /\ Captures \subseteq Seq(0..255)
  /\ InitSize \in Nat \ {0}

VARIABLES input,      \* what is left to read of the file that is open, or NoFile
          buf,        \* a sequence: its length is bufsz
          bufoff, buflen,
          subj, subjlen, msgbuf, msglen,   \* offsets and lengths in buf
          pc          \* "opened", "parse", "got" a record, or "end"

vars == <<input, buf, bufoff, buflen, subj, subjlen, msgbuf, msglen, pc>>
window == <<buf, bufoff, buflen, input>>

NL == 10
CR == 13
Digits == 48..57
NoFile == <<-1>>

-----------------------------------------------------------------------------
(* The window. *)

Bytes(from, to) == SubSeq(buf, from + 1, to)
Window == Bytes(bufoff, buflen)

\* What follows of a sequence with junk in the place of what nobody wrote.
Grown(s, size) == [i \in 1..size |-> IF i <= Len(s) THEN s[i] ELSE Junk]

Slip_MovedDown == \* the offset kept
  [buf |-> [i \in 1..Len(buf) |-> IF i <= buflen - bufoff THEN buf[bufoff + i] ELSE buf[i]],
   off |-> bufoff, len |-> buflen - bufoff]

\* fillbuf() moves the window to the start.
MovedDown ==
  [buf |-> [i \in 1..Len(buf) |-> IF i <= buflen - bufoff THEN buf[bufoff + i] ELSE buf[i]],
   off |-> 0, len |-> buflen - bufoff]
AsItIs == [buf |-> buf, off |-> bufoff, len |-> buflen]

Lacks(w, n) == n - (Len(w.buf) - w.len)
GrownBy(w, n) == IF n > 0 THEN [w EXCEPT !.buf = Grown(w.buf, Len(w.buf) + n)] ELSE w

\* The window with room for n characters.
RoomFor(n) == IF Lacks(AsItIs, n) <= 0 THEN AsItIs
              ELSE GrownBy(MovedDown, Lacks(MovedDown, n))

\* fread() fills the room there is, or reads all that is left.
Count(n) == LET room == Len(RoomFor(n).buf) - RoomFor(n).len
            IN  IF Len(input) < room THEN Len(input) ELSE room

FillTo(w, count) ==
  /\ buf' = [i \in 1..Len(w.buf) |->
               IF i \in (w.len + 1)..(w.len + count) THEN input[i - w.len] ELSE w.buf[i]]
  /\ bufoff' = w.off
  /\ buflen' = w.len + count
  /\ input' = SubSeq(input, count + 1, Len(input))

FillBuf(n) == FillTo(RoomFor(n), Count(n))
Filled(n) == Count(n) >= n     \* what it returns

\* resize() moves these, when the buffer grows.
ResetPointers == IF Len(buf') > Len(buf) THEN subj' = 0 /\ msgbuf' = 0 ELSE UNCHANGED <<subj, msgbuf>>

-----------------------------------------------------------------------------
Init ==
  /\ input = NoFile
  /\ buf = <<>> /\ bufoff = 0 /\ buflen = 0
  /\ subj = 0 /\ subjlen = 0 /\ msgbuf = 0 /\ msglen = 0
  /\ pc = "end"

\* open(), also of another file after the end of one.
Open(file) ==
  /\ pc = "end"
  /\ input' = file
  /\ pc' = "opened"
  /\ UNCHANGED <<buf, bufoff, buflen, subj, subjlen, msgbuf, msglen>>

\* first(): an empty window; the buffer is a new one, or as large as it was.
First ==
  /\ pc = "opened"
  /\ buf' = IF Len(buf) = 0 \/ Len(buf) > InitSize THEN [i \in 1..InitSize |-> Junk]
            ELSE Grown(buf, InitSize)
  /\ bufoff' = 0 /\ buflen' = 0 /\ subj' = 0 /\ subjlen' = 0 /\ msgbuf' = 0 /\ msglen' = 0
  /\ pc' = "parse"
  /\ UNCHANGED input

\* next(): the window starts after the last message.
Following ==
  /\ pc = "got"
  /\ bufoff' = msgbuf + msglen
  /\ pc' = "parse"
  /\ UNCHANGED <<input, buf, buflen, subj, subjlen, msgbuf, msglen>>

-----------------------------------------------------------------------------
(* parse() *)

Position(text, from, c) == \* memchr(), from a position on; 0 is none
  IF \E i \in from..Len(text) : text[i] = c
  THEN CHOOSE i \in from..Len(text) : text[i] = c /\ \A k \in from..(i - 1) : text[k] # c
  ELSE 0

LineEnd(text, from) == Position(text, from, NL)
SecondEnd(text) == IF LineEnd(text, 1) = 0 THEN 0 ELSE LineEnd(text, LineEnd(text, 1) + 1)

\* A line has no CR before its end.
LineLen(text, from, end) ==
  IF end > from /\ text[end - 1] = CR THEN end - 1 - from ELSE end - from

\* strtol() of the digits from a position on, -1 if there are none.
\* Lengths have no sign or leading zero.
Number(text, from) ==
  LET f[i \in from..(Len(text) + 1), n \in Nat] ==
        IF i <= Len(text) /\ text[i] \in Digits THEN f[i + 1, 10 * n + text[i] - 48] ELSE n
  IN  IF text[from] \in Digits THEN f[from, 0] ELSE -1

Fail == pc' = "end" /\ UNCHANGED <<subjlen, msglen>> /\ ResetPointers

\* The record whose message follows the first body characters of the window.
Deliver(body, j) ==
  /\ subj' = bufoff' /\ subjlen' = LineLen(Window, 1, LineEnd(Window, 1))
  /\ msgbuf' = bufoff' + body /\ msglen' = j
  /\ pc' = "got"

\* More is read, until a line ends or nothing is left.
ReadOn ==
  /\ SecondEnd(Window) = 0
  /\ FillBuf(1)
  /\ IF ~ Filled(1) THEN Fail
     ELSE UNCHANGED <<subjlen, msglen, pc>> /\ ResetPointers

Message(body, j) ==
  LET have == Len(Window) - body
  IN  CASE j = -1    -> UNCHANGED window /\ Fail
        [] j > have  -> FillBuf(j - have) /\ IF ~ Filled(j - have) THEN Fail ELSE Deliver(body, j)
        [] OTHER     -> UNCHANGED window /\ Deliver(body, j)

Body == /\ SecondEnd(Window) # 0
        /\ Message(SecondEnd(Window), Number(Window, LineEnd(Window, 1) + 1))

\* A round.
Parse == pc = "parse" /\ (ReadOn \/ Body)

Next == (\E file \in Captures : Open(file)) \/ First \/ Following \/ Parse

Spec == Init /\ [][Next]_vars /\ WF_vars(Parse)

-----------------------------------------------------------------------------
(* Properties. *)

-----------------------------------------------------------------------------
(* What callers are promised: the records of a capture in order, until the     *)
(* first that is not whole or has no length.                                   *)

\* The text that is to come, and <<subject, message>>.
Left == CASE pc = "parse" -> Window \o input
          [] pc = "got"   -> Bytes(msgbuf + msglen, buflen) \o input
          [] pc = "end"   -> <<>>
          [] OTHER        -> input
Got == IF pc = "got" THEN <<Bytes(subj, subj + subjlen), Bytes(msgbuf, msgbuf + msglen)>>
       ELSE <<>>
avars == <<Left, pc, Got>>

Line(s) == IF s # <<>> /\ Last(s) = CR THEN Front(s) ELSE s
Value(s) == FoldLeft(LAMBDA n, c : 10 * n + c - 48, 0, s)
IsNumber(s) == s # <<>> /\ \A i \in DOMAIN s : s[i] \in Digits

\* The record that text starts with: where its two lines end, and its end.
Starts(text) ==
  {e \in (DOMAIN text) \X (DOMAIN text) \X (0..Len(text)) :
     LET s == SubSeq(text, 1, e[1] - 1)
         n == SubSeq(text, e[1] + 1, e[2] - 1)
     IN  /\ e[1] < e[2] /\ text[e[1]] = NL /\ text[e[2]] = NL
         /\ \A i \in 1..(e[2] - 1) : text[i] = NL => i = e[1]
         /\ IsNumber(Line(n))
         /\ e[3] = e[2] + Value(Line(n))}

AOpen(file) == pc = "end" /\ Left' = file /\ pc' = "opened" /\ UNCHANGED Got

ACall == pc \in {"opened", "got"} /\ pc' = "parse" /\ Got' = <<>> /\ UNCHANGED Left

AReturn ==
  /\ pc = "parse"
  /\ \/ \E e \in Starts(Left) :
          /\ Got' = <<Line(SubSeq(Left, 1, e[1] - 1)), SubSeq(Left, e[2] + 1, e[3])>>
          /\ Left' = SubSeq(Left, e[3] + 1, Len(Left))
          /\ pc' = "got"
     \/ Starts(Left) = {} /\ pc' = "end" /\ Left' = <<>> /\ UNCHANGED Got

ANext == (\E file \in Captures : AOpen(file)) \/ ACall \/ AReturn
AInit == Left = <<>> /\ pc = "end" /\ Got = <<>>

\* Callers see the records of a file one after the other, each one whole, until
\* what is left is none.  What is left is the window and what is not read yet:
\* nothing is lost, repeated or out of order when the window moves.
ImplementsReplay == AInit /\ [][ANext]_avars

\* The buffer grows for a record that is larger, or for the rest of a file that
\* ends within one, not for having read many: by what it lacks, or by the one
\* character that would follow.
GrowsForRecord ==
  [][Len(buf') > Len(buf) /\ pc = "parse" =>
       Len(buf') <= Len(Window) + 1 \/ (pc' = "got" /\ Len(buf') = msgbuf' + msglen' - bufoff')
       \/ pc' = "end"]_vars

\* Every call returns.
CallsReturn == (pc = "parse") ~> (pc # "parse")
=============================================================================
