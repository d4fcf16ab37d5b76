---------------------------- MODULE Conversions ----------------------------
(***************************************************************************)
(* Calls of the conversions of Scalars, one at a time, and what callers    *)
(* rely on: what they write as text is what they read, and a text is read  *)
(* for what it says.                                                       *)
(* Slip_X is operator X with a slip in it; no operator uses the slips.     *)
(***************************************************************************)
EXTENDS Scalars

CONSTANTS
  TightMax, TightPow, \* maxval and md_dec_powers_i where texts outgrow them
  DecimalTexts,  \* [neg, int, frac, exp, how]: digits, digits, an exponent and how it is written
  FractionTexts, \* [neg, whole, num, den]
  SomeDecimals, Lengths, SomeTimes, SomeDates, Formats, SomeStamps,
  Amounts,       \* <<decimal, unit>>: texts of a span of time
  Moments        \* <<time, date>>: texts of a moment

Tight == INSTANCE Scalars WITH MaxVal <- TightMax, NPow <- TightPow

VARIABLES conv,    \* the call, and what it is given
          result

vars == <<conv, result>>

NoConv == [op |-> "none"]
Idle == conv = NoConv
Does(c, r) == conv' = c /\ result' = <<r>>

-----------------------------------------------------------------------------
(* Texts. *)

SignText(neg) == IF neg THEN <<Minus>> ELSE <<>>
ExpText(x) == CASE x.how = "none" -> <<>>
                [] x.how = "percent" -> <<Percent>>
                [] x.exp < 0 -> <<E, Minus>> \o DigitsOf(-x.exp)
                [] OTHER -> <<E>> \o (IF x.how = "plus" THEN <<Plus>> ELSE <<>>) \o DigitsOf(x.exp)
DecimalText(x) == SignText(x.neg) \o x.int
                  \o (IF x.frac = <<>> THEN <<>> ELSE <<Dot>> \o x.frac) \o ExpText(x)
FracText(x) == SignText(x.neg) \o (IF x.whole = 0 THEN <<>> ELSE DigitsOf(x.whole) \o <<Space>>)
               \o DigitsOf(x.num) \o <<Slash>> \o DigitsOf(x.den)

\* The text of a date by a layout of parse_format(); zeros elsewhere.
LayoutText(l, d) ==
  LET Put(p, s, t) == IF p = None THEN t
                      ELSE [i \in DOMAIN t |-> IF i - p[1] + 1 \in DOMAIN s THEN s[i - p[1] + 1] ELSE t[i]]
      mon == IF l.mm[2] = 3 THEN MonthName(d.mon) ELSE Padded(d.mon, 2)
      seps == [i \in 1..l.size |->
                 LET here == {x \in l.seps : x[1] = i}
                 IN  IF here = {} THEN 0 ELSE LET x == CHOOSE y \in here : TRUE
                                                 IN  CHOOSE c \in x[2] : TRUE]
  IN  Put(l.dd, Padded(d.day, l.dd[2]), Put(l.mm, mon, Put(l.yy, Padded(d.year, l.yy[2]), seps)))

-----------------------------------------------------------------------------
(* The calls. *)

ReadDecimal(x) == Does([op |-> "read", x |-> x], Tight!Parse(DecimalText(x)))
ReadFraction(x) == Does([op |-> "fraction", x |-> x], Parse(FracText(x)))
PrintDecimal(d, len, expand) ==
  Does([op |-> "print", d |-> d, len |-> len, expand |-> expand], GetString(d, len, expand))
DecimalToInteger(d) == Does([op |-> "integer", d |-> d], GetInteger(d))
DegradeDecimal(d) == Does([op |-> "degrade", d |-> d], Degrade(d))

PrintTime(t, len) == Does([op |-> "time", t |-> t, len |-> len], TimeText(t, len))
TimeToDecimal(t) == Does([op |-> "seconds", t |-> t], TimeDecimal(t))
NextTime(t) == Does([op |-> "next", t |-> t], TimeUtc(t, NoDate, FALSE))
ReadDate(k, d) == Does([op |-> "date", k |-> k, d |-> d], ParseDate(LayoutText(Layouts[k], d)))
PrintDate(d, fmt) == Does([op |-> "format", d |-> d, fmt |-> fmt], DateText(d, fmt, 16))

PrintStamp(s) == Does([op |-> "stamp", s |-> s], StampText(s, 24))
ReadSpan(d, u) ==
  Does([op |-> "span", d |-> d, u |-> u], ParseStamps(GetString(d, 24, TRUE) \o <<UnitChar(u)>>))
ReadClock(t, d) ==
  Does([op |-> "clock", t |-> t, d |-> d],
       ParseStamps(TimeText(t, 24) \o IF d = NoDate THEN <<>>
                                      ELSE <<Space>> \o DateText(d, DefaultFormat, 16)))

Return == ~Idle /\ conv' = NoConv /\ result' = <<>>

Init == conv = NoConv /\ result = <<>>

Call ==
  \/ \E x \in DecimalTexts : ReadDecimal(x)
  \/ \E x \in FractionTexts : ReadFraction(x)
  \/ \E d \in SomeDecimals, len \in Lengths, expand \in BOOLEAN : PrintDecimal(d, len, expand)
  \/ \E d \in SomeDecimals : DecimalToInteger(d) \/ DegradeDecimal(d)
  \/ \E t \in SomeTimes, len \in Lengths : PrintTime(t, len)
  \/ \E t \in SomeTimes : ~t.null /\ NextTime(t)
  \/ \E k \in DOMAIN Layouts, d \in SomeDates : ReadDate(k, d)
  \/ \E d \in SomeDates, fmt \in Formats : PrintDate(d, fmt)
  \/ \E s \in SomeStamps : PrintStamp(s)
  \/ \E x \in Amounts : ReadSpan(x[1], x[2])
  \/ \E x \in Moments : ReadClock(x[1], x[2]) \/ TimeToDecimal(x[1])

Next == (Idle /\ Call) \/ Return

Spec == Init /\ [][Next]_vars

-----------------------------------------------------------------------------
(* Decimals *)

got == result[1]
Op(x) == conv.op = x
Whole(digits) == FoldLeft(LAMBDA n, c : n * 10 + c, 0, digits)
Same(v, w) == IF w[2] % v[2] = 0 THEN w[1] = v[1] * (w[2] \div v[2]) ELSE v[1] = w[1] * (v[2] \div w[2])
Special(d) == d.hint \in DOMAIN Words

\* m * 10^q is m2 * 10^q2, or is less by less than 10^q2.
AtMost(m2, q2, m, q) ==
  LET c == Min({q, q2})
      at == m2 * 10^(q2 - c)
  IN  at <= m * 10^(q - c) /\ m * 10^(q - c) < at + 10^(q2 - c)
Scale(h) == IF h = Integer THEN 0 ELSE IF h > 10 THEN h - 10 ELSE h + 10

\* MDDecimal::parse(): a decimal has the digits of its text, down to those it
\* has no room for, and all of them if there is room.  After an integer part
\* that does not fit, and a fraction, the exponent is lost: such texts are
\* left out.
DecimalRead ==
  Op("read") =>
    LET x == conv.x
        q == (IF x.how = "none" THEN 0 ELSE x.exp) - Len(x.frac)
        m == Whole(x.int \o x.frac)
        v == Abs(got.ival)
        all == (Whole(x.int) + 1) * 10^Len(x.frac) <= TightMax \div 10
    IN  (x.frac # <<>> /\ x.how # "none" => Whole(x.int) \div 10 < TightMax \div 10)
          => /\ AtMost(v, Scale(got.hint), m, q)
             /\ all => v * 10^(Scale(got.hint) - Min({q, Scale(got.hint)}))
                         = m * 10^(q - Min({q, Scale(got.hint)}))
             /\ x.neg => got.ival <= 0

FractionRead ==
  Op("fraction") =>
    LET x == conv.x
        v == GetReal(got)
        n == (x.whole * x.den + x.num) * (IF x.neg THEN -1 ELSE 1)
    IN  IF x.den = 0 THEN got.hint = Inf
        ELSE IF IsPower2(x.den) THEN v[1] * x.den = n * v[2]
        ELSE got = BadDecimal

\* MDDecimal::get_string(): a text is all of the value or nothing, is no longer
\* than there is room for, and reads as the value.
DecimalPrinted ==
  Op("print") =>
    LET d == conv.d
        back == Parse(got)
        v == GetReal(d)
        w == GetReal(back)
    IN  /\ Len(got) <= conv.len
        /\ conv.len >= 24 /\ d.hint # NullHint => got # <<>>
        /\ got # <<>> => IF Special(d) THEN back.hint = d.hint
                         ELSE ~Special(back) /\ Same(v, w)

\* MDDecimal::get_integer(): the integer part.
IntegerPart ==
  Op("integer") /\ ~Special(conv.d) =>
    LET v == GetReal(conv.d) IN got = Quo(v[1], v[2])

\* MDDecimal::degrade(): a value loses less than one unit of the last digit it
\* has left, and it always has one digit or bit less.
DegradedDigit ==
  Op("degrade") =>
    IF Special(conv.d) THEN got = BadDecimal
    ELSE LET v == GetReal(conv.d)
             w == GetReal(got)
             unit == GetReal(Dec(1, got.hint))
             lost == Abs(v[1]) * w[2] - Abs(w[1]) * v[2]     \* times v[2] * w[2]
         IN  /\ got.ival = 0 \/ (got.ival < 0 <=> conv.d.ival < 0)
             /\ lost >= 0 /\ lost * unit[2] < unit[1] * v[2] * w[2]
             /\ Abs(got.ival) < Abs(conv.d.ival) \/ conv.d.ival = 0

DecimalsSound == DecimalRead /\ FractionRead /\ DecimalPrinted /\ IntegerPart /\ DegradedDigit

-----------------------------------------------------------------------------
(* Times and dates *)

\* MDTime::get_string(): a whole text reads as the time, one cut off in the
\* fraction as the time with fewer digits, and a null time stays null.
TimePrinted ==
  LET Reads(t, full, back) ==
        /\ Len(got) < conv.len \/ got = <<>>
        /\ Len(got) > 8 \/ got = full =>
             /\ back.ok
             /\ t.null => back.time.null
             /\ ~t.null => /\ back.time.hour = t.hour /\ back.time.minute = t.minute
                           /\ back.time.sec = t.sec
        /\ got = full /\ ~t.null => back.time = t
        /\ Len(got) > 9 =>
             LET cut == 10^(9 + 3 * t.res - Len(got))
             IN  back.time.fraction * 1000^(t.res - back.time.res) = (t.fraction \div cut) * cut
  IN  Op("time") => Reads(conv.t, TimeText(conv.t, 24), ParseTime(got))

\* MDTime::to_utc(): a time without a date is less than a day ahead, and at
\* most the hour that has begun behind.
TimeAhead ==
  Op("next") =>
    got + 3600 > Now /\ got - 3600 < Now + DaySeconds /\ got % DaySeconds =
      (conv.t.hour * 3600 + conv.t.minute * 60 + conv.t.sec) % DaySeconds

\* MDDate::parse_format(): each layout is read as itself, whatever other
\* layouts of its length are tried before; a year of two digits is from 1970 to
\* 2069, a missing day the first, a missing year this one.
DateReadAsLaidOut ==
  Op("date") =>
    LET l == Layouts[conv.k]
        d == conv.d
        day == CASE l.dd = None -> 1
                 [] l.dd[2] = 1 -> d.day % 10
                 [] OTHER -> d.day
        year == IF l.yy = None THEN CurrentYear(d.mon, d.day) ELSE d.year
    IN  day # 0 => got.ok /\ got.date = Date(year, d.mon, day)

\* MDDate::get_string(): the formats of md_types.h read as the date, and are
\* found in the text.  A year that ends in 00 is left out by those with two
\* digits for it, and "JUN 03 2021" is found without MMM.
DatePrinted ==
  LET Reads(x) == /\ x.date = conv.d
                  /\ conv.fmt # mdy \cup {"SPACE", "MMM", "yyyy"} => x.fmt = conv.fmt
  IN  Op("format") =>
        (("yyyy" \notin conv.fmt => conv.d.year % 100 # 0) => Reads(ParseDate(got)))

DatesSound == TimePrinted /\ TimeAhead /\ DateReadAsLaidOut /\ DatePrinted

-----------------------------------------------------------------------------
(* Stamps *)

\* MDStamp::get_string() reads as the stamp; minutes as their seconds.
StampPrinted ==
  Op("stamp") =>
    LET s == conv.s
    IN  ParseStamps(got) =
          {IF s.res = ResNull THEN NoStamp
           ELSE IF s.res = Minute THEN Got(s.stamp * 60, Second) ELSE Got(s.stamp, s.res)}

\* The same stamp in the four units.
UnitsAgree ==
  Op("stamp") =>
    LET s == conv.s
    IN  /\ Seconds(s) = Micros(s) \div 1000000
        /\ s.res # Minute => /\ Millis(s) = Micros(s) \div 1000
                             /\ Micros(s) = Nanos(s) \div 1000

\* MDStamp::parse(): a span of time has as many seconds as its unit says.  A
\* month is read as 30 weeks, and a number with a fraction of a smaller unit as
\* 1000 times as much: they are left out.
SpanRead ==
  Op("span") =>
    LET v == GetReal(conv.d)
    IN  \A r \in got :
          IF conv.u \in DOMAIN UnitShift
          THEN conv.d.hint = Integer =>
                 r.ok /\ r.stamp.stamp = conv.d.ival /\ 3 * r.stamp.res = UnitShift[conv.u]
          ELSE conv.u # "month" => r.ok /\ Seconds(r.stamp) = (v[1] * UnitSeconds[conv.u]) \div v[2]

\* A time of day with a date is that moment, and without a date it can be
\* the next such time: what it is depends on memory that was not written.
ClockRead ==
  Op("clock") =>
    LET t == conv.t
        at == DateUtc(conv.d) + t.hour * 3600 + t.minute * 60 + t.sec
    IN  IF conv.d = NoDate THEN Got(TimeUtc(t, NoDate, FALSE), Second) \in got
        ELSE got = {Got(at * 1000^t.res + t.fraction, t.res)}

\* MDDecimal::get_decimal() of a time: its seconds, with the fraction.
TimeAsDecimal ==
  Op("seconds") =>
    LET t == conv.t
        v == GetReal(got)
    IN  /\ v[1] \div v[2] = t.hour * 3600 + t.minute * 60 + t.sec
        /\ v[1] % v[2] = t.fraction
        /\ t.res # Second => GetStamp(got) = Got(got.ival, t.res)

StampsSound == StampPrinted /\ UnitsAgree /\ SpanRead /\ ClockRead /\ TimeAsDecimal
=============================================================================
