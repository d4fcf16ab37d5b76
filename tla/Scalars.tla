------------------------------- MODULE Scalars -------------------------------
(***************************************************************************)
(* MDDecimal, MDTime, MDDate and MDStamp of src/md_field_iter.cpp.         *)
(*                                                                         *)
(* A decimal is an integer with a hint that says by which power of ten or  *)
(* of two it is scaled.  A text is a sequence of characters; a digit is    *)
(* itself, every other character a number above 9, and the letters of the  *)
(* months and the units of time have numbers of their own.  What follows a *)
(* text in memory is not a letter.  Digits of a fourth number              *)
(* ("1 2/3e4"), which the code writes past the end of its three, are left  *)
(* out.  The C library counts by the calendar, in UTC.                     *)
(* Slip_X is operator X with a slip in it; no operator uses the slips.     *)
(***************************************************************************)
EXTENDS Integers, SequencesExt, FiniteSetsExt

CONSTANTS MaxVal,     \* maxval of parse(): (2^31 - 1) * (2^32 - 1)
          NPow,       \* the largest exponent in md_dec_powers_i: 9
          Now,        \* time(), in seconds
          EpochMin, EpochMax,  \* the numbers that MDTime takes for seconds: 1300000000, 0xffffffff
          StampUnit,  \* 1000000000 of get_stamp(): more is not in the unit below
          JunkDates   \* what memory may hold where no date was stored

DecimalAssumption == MaxVal \in Nat /\ MaxVal >= 100 /\ NPow \in Nat /\ NPow > 0

Space == 10
Minus == 11
Plus == 12
Dot == 13
Slash == 14
Percent == 15
E == 16
I == 17
N == 18
F == 19
A == 20
IsDigit(c) == c \in 0..9

\* MD_DEC_*; the fraction 1/2^k is 1 + k, 10^k is 10 + k, 10^-k is -10 - k.
NNaN == -4
NaN == -3
NInf == -2
Inf == -1
NullHint == 0
Integer == 1
Frac(k) == 1 + k
LogP(k) == 10 + k
LogN(k) == -10 - k
IsFrac(h) == h \in Frac(1)..Frac(9)

Dec(i, h) == [ival |-> i, hint |-> h]
BadDecimal == Dec(0, 9999)   \* of a call that returns Err::BAD_DECIMAL

Int8(n) == ((n + 128) % 256) - 128
Quo(a, b) == IF a < 0 THEN -((-a) \div b) ELSE a \div b   \* a / b in C
IsPower2(n) == \E k \in 0..9 : n = 2^k
Log2(n) == CHOOSE k \in 0..9 : n = 2^k

-----------------------------------------------------------------------------
(* From text. *)

NoNumber == [ival |-> 0, digit |-> 0, over |-> 0, sep |-> "end"]

\* MDDecimal::parse(), the scan: up to three numbers and what follows each.
\* A digit that does not fit is counted only.
AddDigit(n, c) == IF n.ival >= MaxVal \div 10 THEN [n EXCEPT !.over = @ + 1]
                  ELSE [n EXCEPT !.ival = @ * 10 + c, !.digit = @ + 1]

Separators == Dot :> "dot" @@ Slash :> "slash" @@ Space :> "space"

ScanNumbers(t) ==
  LET At(i) == IF i <= Len(t) THEN t[i] ELSE Plus
      Word(i, b, c) == At(i + 1) = b /\ At(i + 2) = c
      Scan(s, i) ==
        LET c == t[i]
            Sep(x) == [s EXCEPT !.n[s.tos].sep = x, !.tos = @ + 1]
            Stop == [s EXCEPT !.go = FALSE]
            Exp(skip, sep) == [Sep(sep) EXCEPT !.skip = skip]
        IN  IF ~s.go THEN s
            ELSE IF s.skip THEN [s EXCEPT !.skip = FALSE]
            ELSE CASE IsDigit(c) -> IF s.tos = 4 THEN s ELSE [s EXCEPT !.n[s.tos] = AddDigit(@, c)]
                   [] c \in DOMAIN Separators -> IF s.tos >= 3 THEN Stop ELSE Sep(Separators[c])
                   [] c = Percent ->
                        IF s.tos >= 3 THEN Stop
                        ELSE [Sep("nexp") EXCEPT !.go = FALSE, !.n[s.tos + 1].ival = 2,
                                                 !.n[s.tos + 1].digit = 1]
                   [] c = I /\ s.tos = 1 /\ Word(i, N, F) -> [Stop EXCEPT !.word = Inf]
                   [] c = N /\ s.tos = 1 /\ Word(i, A, N) -> [Stop EXCEPT !.word = NaN]
                   [] c = E /\ s.tos < 4 ->
                        CASE IsDigit(At(i + 1)) /\ i < Len(t) -> Exp(FALSE, "exp")
                          [] At(i + 1) \in {Minus, Plus} /\ i + 1 < Len(t) ->
                               IF IsDigit(At(i + 2))
                               THEN Exp(TRUE, IF At(i + 1) = Minus THEN "nexp" ELSE "exp")
                               ELSE s
                          [] OTHER -> Stop
                   [] OTHER -> Stop
  IN  FoldLeftDomain(Scan, [n |-> [k \in 1..4 |-> NoNumber], tos |-> 1, skip |-> FALSE,
                            go |-> TRUE, word |-> NullHint], t)

\* num.num: the digits of the fraction that have no room beside the integer
\* are dropped.
Slip_NumNum(a, b) ==
  LET n == b.digit
      m == IF n <= NPow THEN n
           ELSE Min({j \in NPow..n : j = n \/ 10^j >= MaxVal \div 10})
      k == Min({j \in 0..m + 1 : j > m \/ a.ival <= MaxVal \div 10^(m - j)})
      places == m - k
  IN  IF places > 0 THEN Dec(a.ival * 10^places + b.ival \div 10^(n - places), LogN(n))
      ELSE Dec(a.ival, Integer)
NumNum(a, b) ==
  LET n == b.digit
      m == IF n <= NPow THEN n
           ELSE Min({j \in NPow..n : j = n \/ 10^j >= MaxVal \div 10})
      k == Min({j \in 0..m + 1 : j > m \/ a.ival <= MaxVal \div 10^(m - j)})
      places == m - k
  IN  IF places > 0 THEN Dec(a.ival * 10^places + b.ival \div 10^(n - places), LogN(places))
      ELSE Dec(a.ival, Integer)

\* num num/num and num/num: denominators are powers of two.
NumFraction(w, a, b) ==
  IF b = 0 THEN Dec(0, Inf)
  ELSE IF IsPower2(b) THEN Dec(w * b + a, Frac(Log2(b)))
  ELSE BadDecimal

\* The exponent, which steps over the hints between -10 and 10.
Exponent(d, sep, e) ==
  LET h == d.hint
      Up == IF h = Integer THEN LogP(Int8(e))
            ELSE IF h > 10 \/ h + Int8(e) < -10 THEN h + Int8(e)
            ELSE IF h + Int8(e) = -10 THEN Integer
            ELSE h + Int8(e) + 20
      Down == IF h = Integer THEN LogN(Int8(e))
              ELSE IF h < -10 \/ h - Int8(e) > 10 THEN h - Int8(e)
              ELSE IF h - Int8(e) = 10 THEN Integer
              ELSE h - Int8(e) - 20
  IN  IF e = 0 THEN d
      ELSE CASE sep = "exp" -> [d EXCEPT !.hint = Int8(Up)]
             [] sep = "nexp" -> [d EXCEPT !.hint = Int8(Down)]
             [] OTHER -> d

\* MDDecimal::parse(), from the numbers to the decimal.
ValueOf(n) ==
  LET big == n[1].sep = "dot" /\ n[2].digit # 0 /\ n[1].over # 0
      Num == Dec(n[1].ival, IF n[1].over = 0 THEN Integer ELSE Int8(LogP(n[1].over)))
      Exp(d, e) == Exponent(d, n[e].sep, IF n[e + 1].digit = 0 THEN 0 ELSE n[e + 1].ival)
  IN  CASE n[1].sep = "dot" /\ n[2].digit # 0 /\ ~big -> Exp(NumNum(n[1], n[2]), 2)
        [] n[1].sep = "space" /\ n[2].sep = "slash" /\ \A k \in 1..3 : n[k].digit # 0 ->
             NumFraction(n[1].ival, n[2].ival, n[3].ival)
        [] n[1].sep = "slash" /\ \A k \in 1..2 : n[k].digit # 0 ->
             NumFraction(0, n[1].ival, n[2].ival)
        [] n[1].digit > 0 -> Exp(Num, 1)
        [] OTHER -> BadDecimal

Parse(t) ==
  LET i == SelectInSeq(t, LAMBDA c : c # Space)
      signed == i > 0 /\ t[i] \in {Plus, Minus}
      neg == i > 0 /\ t[i] = Minus
      s == ScanNumbers(SubSeq(t, IF signed THEN i + 1 ELSE i, Len(t)))
      d == ValueOf(s.n)
  IN  IF i = 0 THEN Dec(0, NullHint)
      ELSE IF s.word # NullHint THEN Dec(0, IF neg THEN s.word - 1 ELSE s.word)
      ELSE IF neg THEN [d EXCEPT !.ival = -@] ELSE d

-----------------------------------------------------------------------------
(* To text. *)

DigitsOf(n) ==
  LET k == CHOOSE j \in 1..10 : /\ j = 1 \/ n \div 10^(j - 1) > 0
                                /\ j = 10 \/ n \div 10^j = 0
  IN  [i \in 1..k |-> (n \div 10^(k - i)) % 10]
Abs(n) == IF n < 0 THEN -n ELSE n
Padded(n, k) == [i \in 1..k |-> (n \div 10^(k - i)) % 10]
Rep(c, k) == [i \in 1..k |-> c]

Words == NullHint :> <<>> @@ Inf :> <<I, N, F>> @@ NInf :> <<Minus, I, N, F>>
         @@ NaN :> <<N, A, N>> @@ NNaN :> <<Minus, N, A, N>>

\* MDDecimal::get_string() of a value with a fraction of a power of two: with
\* expand_fractions as many digits as the power, else "n n/d".
FractionText(val, k, expand) ==
  LET div == 2^k
      frac == Abs(val) % div
  IN  (IF val < 0 THEN <<Minus>> ELSE <<>>) \o DigitsOf(Abs(val) \div div)
      \o IF expand THEN <<Dot>> \o Padded(frac * 5^k, k)
         ELSE <<Space>> \o DigitsOf(frac) \o <<Slash>> \o DigitsOf(div)

\* ... scaled by 10^-k: zeros are put in front up to the place of the dot.
ScaledText(val, k) ==
  LET ds == DigitsOf(Abs(val))
      all == Rep(0, k - Len(ds)) \o ds
      n == Len(all) - k
  IN  (IF val < 0 THEN <<Minus>> ELSE <<>>)
      \o (IF n = 0 THEN <<0>> ELSE SubSeq(all, 1, n)) \o <<Dot>> \o SubSeq(all, n + 1, n + k)

\* MDDecimal::get_string(): an empty text when len has no room for all of it.
\* The words are copied with their nul, and a value scaled by 10^k is asked
\* for one byte more than it takes.
GetString(d, len, expand) ==
  LET sign == IF d.ival < 0 THEN <<Minus>> ELSE <<>>
      Fit(t, n) == IF n <= len THEN t ELSE <<>>
      Plain(t) == Fit(t, Len(t))
  IN  CASE d.hint \in DOMAIN Words -> Fit(Words[d.hint], Len(Words[d.hint]) + 1)
        [] d.hint = Integer -> Plain(sign \o DigitsOf(Abs(d.ival)))
        [] IsFrac(d.hint) -> Plain(FractionText(d.ival, d.hint - Integer, expand))
        [] d.hint > 10 ->
             LET t == sign \o DigitsOf(Abs(d.ival)) \o Rep(0, d.hint - 10) \o <<Dot, 0>>
             IN  Fit(t, Len(t) + 1)
        [] d.hint < -10 -> Plain(ScaledText(d.ival, -10 - d.hint))
        [] OTHER -> <<>>

-----------------------------------------------------------------------------
(* To numbers. *)

\* MDDecimal::get_real(), as a fraction.
GetReal(d) ==
  CASE d.hint = Integer -> <<d.ival, 1>>
    [] IsFrac(d.hint) -> <<d.ival, 2^(d.hint - Integer)>>
    [] d.hint > 10 -> <<d.ival * 10^(d.hint - 10), 1>>
    [] d.hint < -10 -> <<d.ival, 10^(-10 - d.hint)>>
    [] OTHER -> <<0, 1>>

\* MDDecimal::get_integer(): below 10^-9 it divides by ten first.
GetInteger(d) ==
  LET k == -10 - d.hint
  IN  CASE d.hint = Integer -> d.ival
        [] IsFrac(d.hint) -> Quo(d.ival, 2^(d.hint - Integer))
        [] d.hint > 10 -> d.ival * 10^(d.hint - 10)
        [] d.hint < -10 -> IF k <= 9 THEN Quo(d.ival, 10^k)
                           ELSE Quo(Quo(d.ival, 10^(k - 9)), 10^9)
        [] OTHER -> 0

\* MDDecimal::degrade(): one digit or one bit less.
Degrade(d) ==
  CASE d.hint = Integer -> Dec(Quo(d.ival, 10), LogP(1))
    [] IsFrac(d.hint) -> Dec(Quo(d.ival, 2), d.hint - 1)
    [] Abs(d.hint) > 10 -> Dec(Quo(d.ival, 10), IF d.hint = LogN(1) THEN Integer ELSE d.hint + 1)
    [] OTHER -> BadDecimal

\* decimal_shift(): amt digits down.  A value scaled by 10^-k is made larger.
DecimalShift(d, amt) ==
  CASE d.hint < -10 -> LET h == d.hint + amt
                       IN  IF h <= -11 THEN Dec(d.ival, h) ELSE Dec(d.ival * 10^(h + 11), -11)
    [] d.hint > 10 -> LET h == d.hint - amt
                      IN  IF h >= 11 THEN Dec(d.ival, h) ELSE Dec(Quo(d.ival, 10^(11 - h)), 11)
    [] d.hint = Integer -> Dec(d.ival, LogN(amt))
    [] OTHER -> d
\* decimal_mult()
DecimalMult(d, amt) == [d EXCEPT !.ival = @ * amt]

-----------------------------------------------------------------------------
(* Times and dates. *)

Colon == 21
Comma == 22
Letter(m, j) == 100 + 3 * m + j
MonthName(m) == [j \in 1..3 |-> Letter(m, j)]
Units == {"ms", "us", "ns", "sec", "min", "hour", "day", "week", "month", "year"}
UnitOrder == <<"ms", "us", "ns", "sec", "min", "hour", "day", "week", "month", "year">>
UnitChar(u) == 50 + (CHOOSE k \in DOMAIN UnitOrder : UnitOrder[k] = u)
IsLetter(c) == c > 50 \/ c \in {E, I, N, F, A}

Second == 0
Milli == 1
Micro == 2
Nano == 3
Minute == 4
ResNull == 8

Date(y, m, d) == [year |-> y, mon |-> m, day |-> d]
NoDate == Date(0, 0, 0)
Time(h, m, s, f, res, null) ==
  [hour |-> h, minute |-> m, sec |-> s, fraction |-> f, res |-> res, null |-> null]
Stamp(s, res) == [stamp |-> s, res |-> res]

DaySeconds == 86400

\* Days since 1970 of a date, and the date of a day (mktime(), localtime()).
Days(d) ==
  LET y == IF d.mon <= 2 THEN d.year - 1 ELSE d.year
      m == (d.mon + 9) % 12
  IN  365 * y + y \div 4 - y \div 100 + y \div 400 + (153 * m + 2) \div 5 + d.day - 719469
DateOf(n) ==
  LET OfMonth(y, m, day) == IF m < 10 THEN Date(y, m + 3, day) ELSE Date(y + 1, m - 9, day)
      OfYear(y, day) == LET m == (5 * day + 2) \div 153
                        IN  OfMonth(y, m, day - (153 * m + 2) \div 5 + 1)
      OfEra(era, y, day) == OfYear(era * 400 + y, day - (365 * y + y \div 4 - y \div 100))
      YearOf(day) == (day - day \div 1460 + day \div 36524 - day \div 146096) \div 365
      z == n + 719468
  IN  OfEra(z \div 146097, YearOf(z % 146097), z % 146097)
Today == DateOf(Now \div DaySeconds)
HourOf(t) == (t % DaySeconds) \div 3600

DateTimeAssumption ==
  /\ DecimalAssumption
  /\ {Now, EpochMin, EpochMax, StampUnit} \subseteq Nat
  /\ \A n \in 0..800 : Days(DateOf(20 * n)) = 20 * n

-----------------------------------------------------------------------------
(* MDTime *)

\* MDTime::parse(), one character.
TimeChar(s, c) ==
  LET val == s.val % 256
      Part == CASE s.colon = 0 -> [s EXCEPT !.hour = val]
                [] s.colon = 1 -> [s EXCEPT !.minute = val]
                [] s.colon = 2 -> [s EXCEPT !.sec = val]
                [] OTHER -> s
      Whole == CASE s.dot = 0 /\ s.colon = 2 -> [s EXCEPT !.sec = val]
                 [] s.dot = 0 /\ s.colon = 1 -> [s EXCEPT !.minute = val]
                 [] s.colon = 0 -> [s EXCEPT !.ms = s.val]
                 [] OTHER -> s
  IN  CASE ~s.ok -> s
        [] IsDigit(c) -> [s EXCEPT !.val = @ * 10 + c, !.digits = @ + 1, !.some = TRUE]
        [] c = Colon -> IF s.val > 60 THEN [s EXCEPT !.ok = FALSE]
                        ELSE [Part EXCEPT !.colon = @ + 1, !.val = 0, !.digits = 0]
        [] c = Dot -> [Whole EXCEPT !.dot = @ + 1, !.val = 0, !.digits = 0]
        [] OTHER -> s

\* The rest of it: the fraction in thousandths, millionths or billionths, and
\* a single number as seconds since 1970.
Slip_Thirds(n) == n
Thirds(n) == IF n % 3 = 0 THEN n ELSE n + (3 - (n % 3))

\* The time of day at a number of seconds, or of thousandths and so on, or
\* else what was found.
Reduced(v) == v \div 1000^Min({j \in 0..3 : j = 3 \/ v \div 1000^j <= EpochMin * 1000})
ClockAt(v, found) ==
  IF v > EpochMin /\ v <= EpochMax
  THEN [found EXCEPT !.hour = (v % DaySeconds) \div 3600, !.minute = (v \div 60) % 60, !.sec = v % 60]
  ELSE found

FoundTime(s) ==
  LET n == Thirds(s.digits)
      Found == Time(s.hour, s.minute, s.sec, 0, Second, ~s.some)
      Parted == IF n > 9 THEN Found
                ELSE [Found EXCEPT !.fraction = s.val * 10^(n - s.digits), !.res = n \div 3]
  IN  CASE s.dot = 1 \/ s.colon = 3 ->
             IF s.ms # 0 THEN ClockAt(Reduced(s.ms), Parted) ELSE Parted
        [] s.colon = 2 -> [Found EXCEPT !.sec = s.val % 256]
        [] s.colon = 1 -> [Found EXCEPT !.minute = s.val % 256, !.res = Minute]
        [] OTHER -> ClockAt(Reduced(s.val), Found)

ParseTime(t) ==
  LET Start == [val |-> 0, digits |-> 0, colon |-> 0, dot |-> 0, some |-> FALSE,
                ms |-> 0, hour |-> 0, minute |-> 0, sec |-> 0, ok |-> TRUE]
      Checked(ok, x) == [ok |-> ok /\ x.hour <= 24 /\ x.minute <= 60 /\ x.sec <= 60, time |-> x]
      Ends(s) == Checked(s.ok, FoundTime(s))
  IN  Ends(FoldLeft(TimeChar, Start, t))

Two(n) == <<(n \div 10) % 10, n % 10>>
Cut(t, n) == SubSeq(t, 1, Min({n, Len(t)}))

\* cpy3(), one number: a year has four digits.
Number(n) == IF n >= 1000 THEN <<(n \div 1000) % 10, (n \div 100) % 10>> \o Two(n) ELSE Two(n)

\* MDTime::get_string()
TimeText(t, len) ==
  LET hm == Number(t.hour) \o <<Colon>> \o Number(t.minute)
      hms == hm \o <<Colon>> \o Number(t.sec)
      blank == IF t.res = Minute THEN <<Space, Space, Colon, Space, Space>>
               ELSE <<Space, Space, Colon, Space, Space, Colon, Space, Space>>
      full == CASE t.null -> blank
                [] t.res = Minute -> hm
                [] t.res \in Milli..Nano -> hms \o <<Dot>> \o Padded(t.fraction, 3 * t.res)
                [] OTHER -> hms
  IN  Cut(full, IF len = 0 THEN 0 ELSE len - 1)

\* MDTime::to_utc(): a time without a date is the next such time, counted by
\* whole hours.  Missing parts of a date are those of now.
Completed(d, now) == [f \in {"year", "mon", "day"} |-> IF d[f] # 0 THEN d[f] ELSE now[f]]
TimeUtc(t, d, given) ==
  LET utc == Days(Completed(IF given THEN d ELSE NoDate, Today)) * DaySeconds
             + t.hour * 3600 + t.minute * 60 + t.sec
  IN  IF ~given /\ t.hour < HourOf(Now) THEN utc + DaySeconds ELSE utc

\* MDDecimal::get_decimal() of a time.
TimeDecimal(t) ==
  LET s == t.hour * 3600 + t.minute * 60 + t.sec
  IN  CASE t.null /\ t.res = Second -> Dec(0, NullHint)
        [] ~t.null /\ t.res \in Milli..Nano ->
             Dec(s * 10^(3 * t.res) + t.fraction, LogN(3 * t.res))
        [] OTHER -> Dec(s, Integer)

-----------------------------------------------------------------------------
(* MDDate *)

\* A format says at which place the day, the month and the year are, what is
\* between them, and that the month is a name (MMM) or the year has all its
\* digits (yyyy).
dmy == {"dd1", "mm2", "yy3"}
mdy == {"mm1", "dd2", "yy3"}
ymd == {"yy1", "mm2", "dd3"}
DefaultFormat == dmy \cup {"SPACE", "MMM", "yyyy"}
Separator(fmt) == CASE "SPACE" \in fmt -> <<Space>>
                    [] "SLASH" \in fmt -> <<Slash>>
                    [] "DASH" \in fmt -> <<Minus>>
                    [] OTHER -> <<>>

\* MDDate::get_string(), and cpy3(): the third place is left out if its
\* number is 0.
DateText(d, fmt, len) ==
  LET Year == IF "yyyy" \in fmt THEN d.year ELSE d.year % 100
      At(k) == CASE <<"yy1", "yy2", "yy3">>[k] \in fmt -> Year
                 [] <<"mm1", "mm2", "mm3">>[k] \in fmt -> d.mon
                 [] <<"dd1", "dd2", "dd3">>[k] \in fmt -> d.day
                 [] OTHER -> 0
      Part(k) == IF /\ <<"mm1", "mm2", "mm3">>[k] \in fmt
                    /\ "MMM" \in fmt /\ d.mon # 0
                 THEN MonthName(d.mon) ELSE Number(At(k))
      third == IF At(3) = 0 THEN <<>> ELSE Separator(fmt) \o Part(3)
  IN  CASE len <= 1 -> <<>>
        [] At(1) = 0 /\ At(2) = 0 -> Rep(Space, Min({len - 1, 11}))
        [] OTHER -> Cut(Part(1) \o Separator(fmt) \o Part(2) \o third, len - 1)

\* parse_month(), parse_day(), parse_year(): a number, 0 for spaces, -1 if
\* there is none.
TwoDigits(p) ==
  CASE p = <<Space, Space>> -> 0
    [] \A c \in {p[1], p[2]} : IsDigit(c) -> p[1] * 10 + p[2]
    [] IsDigit(p[1]) /\ p[2] = Space -> p[1]
    [] IsDigit(p[2]) /\ p[1] = Space -> p[2]
    [] OTHER -> -1
ParseMonth(p) ==
  IF Len(p) = 2 THEN IF TwoDigits(p) <= 12 THEN TwoDigits(p) ELSE -1
  ELSE IF p = Rep(Space, 3) THEN 0
  ELSE IF \E m \in 1..12 : p = MonthName(m) THEN CHOOSE m \in 1..12 : p = MonthName(m)
  ELSE -1
ParseDay(p) ==
  IF Len(p) = 1 THEN IF IsDigit(p[1]) THEN p[1] ELSE -1
  ELSE IF TwoDigits(p) <= 31 THEN TwoDigits(p) ELSE -1
ParseYear(p) ==
  LET y == FoldLeft(LAMBDA n, c : n * 10 + c, 0, p)
  IN  CASE \A i \in DOMAIN p : p[i] = Space -> 0
        [] \E i \in DOMAIN p : ~IsDigit(p[i]) -> -1
        [] Len(p) = 2 -> IF y < 70 THEN y + 2000 ELSE y + 1900
        [] OTHER -> IF y = 0 \/ y >= 1000 THEN y ELSE -1
\* parse_excel_date(): days since the end of 1899.
ExcelDate(p) ==
  LET n == FoldLeft(LAMBDA k, c : k * 10 + c, 0, p)
  IN  IF (\A i \in DOMAIN p : IsDigit(p[i])) /\ n >= 25569 THEN DateOf(n - 25569)
      ELSE Date(-1, -1, -1)
\* get_current_year()
CurrentYear(m, d) ==
  IF m = 0 /\ d = 0 THEN 0
  ELSE IF m = 12 /\ d = 31 /\ Today.mon = 1 /\ Today.day = 1 THEN Today.year - 1
  ELSE Today.year

\* The layouts of MDDate::parse_format(), in the order they are tried: the
\* characters a text must have, where its parts are (<<0, 0>> for none), the
\* format they make and the separator that counts.
Layout(size, seps, dd, mm, yy, fmt) ==
  [size |-> size, seps |-> seps, dd |-> dd, mm |-> mm, yy |-> yy, fmt |-> fmt]
S(pos, chars) == <<pos, chars>>
None == <<0, 0>>
DS == {Minus, Space}
SD == {Slash, Minus}

Short ==
  <<Layout(5, {}, None, <<1, 3>>, <<4, 2>>, {"MMM", "dd2"}),
    Layout(6, {S(4, {Space})}, None, <<1, 3>>, <<5, 2>>, {"MMM", "dd2", "SPACE"}),
    Layout(7, {}, <<1, 2>>, <<3, 3>>, <<6, 2>>, dmy \cup {"MMM"}),
    Layout(8, {S(3, {Slash}), S(6, {Slash})}, <<4, 2>>, <<1, 2>>, <<7, 2>>, mdy),
    Layout(8, {S(4, {Space})}, None, <<1, 3>>, <<5, 4>>, {"MMM", "yyyy", "SPACE"}),
    Layout(8, {S(2, DS), S(6, DS)}, <<1, 1>>, <<3, 3>>, <<7, 2>>, dmy \cup {"MMM"}),
    Layout(8, {S(4, DS), S(6, DS)}, <<5, 1>>, <<1, 3>>, <<7, 2>>, mdy \cup {"MMM"}),
    Layout(8, {}, <<7, 2>>, <<5, 2>>, <<1, 4>>, ymd \cup {"yyyy"})>>
Middle ==
  <<Layout(9, {S(3, DS), S(7, DS)}, <<1, 2>>, <<4, 3>>, <<8, 2>>, dmy \cup {"MMM"}),
    Layout(9, {}, <<1, 2>>, <<3, 3>>, <<6, 4>>, dmy \cup {"yyyy", "MMM"}),
    Layout(9, {S(4, DS), S(7, DS)}, <<5, 2>>, <<1, 3>>, <<8, 2>>, mdy \cup {"MMM"}),
    Layout(10, {S(3, SD), S(6, SD)}, <<4, 2>>, <<1, 2>>, <<7, 4>>, mdy \cup {"yyyy"}),
    Layout(10, {S(5, SD), S(8, SD)}, <<9, 2>>, <<6, 2>>, <<1, 4>>, ymd \cup {"yyyy"}),
    Layout(10, {S(3, {Space}), S(6, {Space})}, <<1, 2>>, <<4, 2>>, <<7, 4>>, dmy \cup {"yyyy"}),
    Layout(10, {S(4, {Space}), S(8, {Space})}, <<9, 2>>, <<5, 3>>, None, {"mm1", "dd2", "MMM"}),
    Layout(10, {S(5, DS), S(9, DS)}, <<10, 1>>, <<6, 3>>, <<1, 4>>, ymd \cup {"MMM"})>>
Long ==
  <<Layout(11, {S(3, DS), S(7, DS)}, <<1, 2>>, <<4, 3>>, <<8, 4>>, dmy \cup {"MMM", "yyyy"}),
    Layout(11, {S(4, DS), S(7, DS)}, <<5, 2>>, <<1, 3>>, <<8, 4>>, mdy \cup {"yyyy"}),
    Layout(11, {S(3, SD), S(6, {Space}), S(9, {Colon})}, <<4, 2>>, <<1, 2>>, None, {"mm1", "dd2"}),
    Layout(11, {S(4, {Space}), S(6, {Comma}), S(7, {Space})}, <<5, 1>>, <<1, 3>>, <<8, 4>>,
           mdy \cup {"yyyy"}),
    Layout(11, {S(5, DS), S(9, DS)}, <<10, 2>>, <<6, 3>>, <<1, 4>>, ymd \cup {"yyyy", "MMM"}),
    Layout(12, {S(4, {Space}), S(7, {Comma}), S(8, {Space})}, <<5, 2>>, <<1, 3>>, <<9, 4>>,
           mdy \cup {"yyyy", "MMM"})>>
Layouts == Short \o Middle \o Long

\* The parts by a layout; -1 in one that is not there.
Piece(t, p) == SubSeq(t, p[1], p[1] + p[2] - 1)
Parts(t, l) ==
  LET m == ParseMonth(Piece(t, l.mm))
      y == IF l.yy # None THEN ParseYear(Piece(t, l.yy)) ELSE 0
      d == IF l.dd # None THEN ParseDay(Piece(t, l.dd))
           ELSE IF l.size = 6 \/ (m # 0 /\ y # 0) THEN 1 ELSE 0
  IN  IF l.yy = None THEN Date(CurrentYear(m, d), m, d) ELSE Date(y, m, d)
IsDate(d) == d.year >= 0 /\ d.mon >= 0 /\ d.day >= 0
Fits(t, l) == l.size = Len(t) /\ (\A x \in l.seps : t[x[1]] \in x[2]) /\ IsDate(Parts(t, l))

\* The separator of the layout that fits, as the text has it.
FoundFormat(t, l) ==
  LET first == IF l.seps = {} THEN {} ELSE {CHOOSE x \in l.seps : \A y \in l.seps : x[1] <= y[1]}
      Flag == Space :> "SPACE" @@ Slash :> "SLASH" @@ Minus :> "DASH"
  IN  l.fmt \cup {Flag[t[x[1]]] : x \in first}

\* MDDate::parse_format(): the first layout that fits; a text that none fits
\* is tried without the spaces around it, one at a time.  A date of zeros is
\* null.
NoLayout(t) == [date |-> IF Len(t) = 5 THEN ExcelDate(t) ELSE Date(-1, -1, -1), fmt |-> {"Excel"}]
ByLayout(t, k) == IF k = 0 THEN NoLayout(t)
                  ELSE [date |-> Parts(t, Layouts[k]), fmt |-> FoundFormat(t, Layouts[k])]

RECURSIVE TryFormats(_)
TryFormats(t) ==
  LET Accept(d, fmt) ==
        CASE d.day \in 1..31 /\ d.mon \in 1..12 /\ d.year \in 1000..9999 ->
               [ok |-> TRUE, date |-> d, fmt |-> fmt]
          [] d.day = 0 /\ d.mon = 0 /\ d.year \in {0, 2000} ->
               [ok |-> TRUE, date |-> NoDate, fmt |-> fmt]
          [] d.year < 0 /\ t[Len(t)] = Space -> TryFormats(SubSeq(t, 1, Len(t) - 1))
          [] d.year < 0 /\ t[Len(t)] # Space /\ t[1] = Space -> TryFormats(Tail(t))
          [] OTHER -> [ok |-> FALSE, date |-> NoDate, fmt |-> fmt]
      Try(x) == Accept(x.date, x.fmt)
  IN  IF t = <<>> THEN [ok |-> TRUE, date |-> NoDate, fmt |-> DefaultFormat]
      ELSE Try(ByLayout(t, SelectInSeq(Layouts, LAMBDA l : Fits(t, l))))
ParseDate(t) ==
  LET n == SelectLastInSeq(t, LAMBDA c : c # Space)
  IN  TryFormats(IF n = 0 \/ t[n] \in {Slash, Minus} THEN t ELSE SubSeq(t, 1, n))

\* MDDate::to_utc()
DateUtc(d) == Days(Completed(d, Today)) * DaySeconds

-----------------------------------------------------------------------------
(* MDStamp *)

NoStamp == [ok |-> FALSE, stamp |-> Stamp(0, Second)]
Got(s, res) == [ok |-> TRUE, stamp |-> Stamp(s, res)]

\* MDStamp::get_stamp() of a number: large ones are in smaller units.
Resolution(n) == CASE n \div 1000000000 >= StampUnit /\ n > StampUnit * 1000000000 -> Nano
                   [] n \div 1000000 >= StampUnit /\ n > StampUnit * 1000000 -> Micro
                   [] n > StampUnit * 1000 -> Milli
                   [] OTHER -> Second
\* ... of a decimal: up to three, six or nine places.
GetStamp(d) ==
  LET k == -10 - d.hint
      Up(p) == d.ival * 10^(p - k)
  IN  CASE d.hint = Integer -> Got(d.ival, Resolution(d.ival))
        [] d.hint > 10 -> LET n == d.ival * 10^(d.hint - 10) IN Got(n, Resolution(n))
        [] k \in 1..3 -> Got(Up(3), Milli)
        [] k \in 4..6 -> Got(Up(6), Micro)
        [] k \in 7..9 -> Got(Up(9), Nano)
        [] k > 9 -> Got(d.ival \div 10^(k - 9), Nano)
        [] OTHER -> NoStamp

\* MDStamp::get_string()
StampText(s, len) ==
  LET d == CASE s.res \in Milli..Nano -> Dec(s.stamp, LogN(3 * s.res))
             [] s.res = Minute -> Dec(s.stamp * 60, Integer)
             [] s.res = ResNull -> Dec(s.stamp, NullHint)
             [] OTHER -> Dec(s.stamp, Integer)
  IN  GetString(d, len, FALSE)

\* MDStamp::parse(): how many seconds a unit has; MONTH is 30 * WEEK.
UnitSeconds == "sec" :> 1 @@ "min" :> 60 @@ "hour" :> 3600 @@ "day" :> DaySeconds
               @@ "week" :> 7 * DaySeconds @@ "month" :> 30 * 7 * DaySeconds
               @@ "year" :> 365 * DaySeconds
UnitShift == "ms" :> 3 @@ "us" :> 6 @@ "ns" :> 9

\* ... of a time of day: have_date is not set where no date was read, and then
\* nor is dt if there was no text for one.
ClockWhens(rest, dt) ==
  IF rest # <<>> /\ dt.ok THEN {<<dt.date, TRUE>>}
  ELSE {<<NoDate, FALSE>>} \cup ((IF rest = <<>> THEN JunkDates ELSE {NoDate}) \X {TRUE})
StampsAt(t, whens) ==
  {IF ~t.null /\ t.res \in Milli..Nano
   THEN Got(TimeUtc(t, w[1], w[2]) * 1000^t.res + t.fraction, t.res)
   ELSE Got(TimeUtc(t, w[1], w[2]), Second) : w \in whens}
ClockStamps(t) ==
  LET p == SelectInSeq(t, LAMBDA c : c = Space)
      From(i) == IF p = 0 THEN <<>> ELSE SubSeq(t, i, Len(t))
      Of(tm, rest) == IF tm.ok THEN StampsAt(tm.time, ClockWhens(rest, ParseDate(rest))) ELSE {}
  IN  Of(ParseTime(IF p = 0 THEN t ELSE SubSeq(t, 1, p - 1)),
         From(Min({i \in p + 1..Len(t) + 1 : i = Len(t) + 1 \/ t[i] # Space})))

\* ... of a number with a unit.
Span(d, units) ==
  LET u == CHOOSE x \in units : TRUE
  IN  IF units = {} THEN d
      ELSE IF u \in DOMAIN UnitShift THEN DecimalShift(d, UnitShift[u])
      ELSE DecimalMult(d, UnitSeconds[u])

\* ... of a date, if it is neither.
ParseStamps(text) ==
  LET OfDate(dt) == IF dt.ok THEN Got(DateUtc(dt.date), Second) ELSE NoStamp
      OfNumber(t, d, units) == IF d # BadDecimal THEN GetStamp(Span(d, units)) ELSE OfDate(ParseDate(t))
      Of(t, units) == OfNumber(t, Parse(t), units)
      Cutting(t, units) == Of(IF units = {} THEN t ELSE SubSeq(t, 1, Len(t) - 1), units)
      Ended(t, clocks) == IF clocks # {} THEN clocks
                          ELSE {Cutting(t, {u \in Units : t # <<>> /\ t[Len(t)] = UnitChar(u)})}
      Trimmed(t) == Ended(t, IF Contains(t, Colon) THEN ClockStamps(t) ELSE {})
  IN  Trimmed(SubSeq(text, 1, SelectLastInSeq(text, LAMBDA c : c # Space)))

\* MDStamp::seconds(), millis(), micros(), nanos().  Of minutes, millis() has
\* the seconds.
Seconds(s) == CASE s.res <= Nano -> s.stamp \div 1000^s.res
                [] s.res = Minute -> s.stamp * 60
                [] s.res = ResNull -> 0
Millis(s) == CASE s.res = Second -> s.stamp * 1000
               [] s.res \in Milli..Nano -> s.stamp \div 1000^(s.res - 1)
               [] s.res = Minute -> s.stamp * 60
               [] s.res = ResNull -> 0
Micros(s) == CASE s.res <= Micro -> s.stamp * 1000^(2 - s.res)
               [] s.res = Nano -> s.stamp \div 1000
               [] s.res = Minute -> s.stamp * 60000000
               [] s.res = ResNull -> 0
Nanos(s) == CASE s.res <= Nano -> s.stamp * 1000^(3 - s.res)
              [] s.res = Minute -> s.stamp * 60000 * 1000000
              [] s.res = ResNull -> 0
=============================================================================
