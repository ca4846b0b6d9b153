------------------------------ MODULE HttpDate ------------------------------
(***************************************************************************)
(* The dates of Last-Modified and If-Modified-Since (src/http/Router.cpp): *)
(* what formatHttpDate() writes, and parseHttpDate().                      *)
(*                                                                         *)
(* A text is the sequence of its words, those before a comma dropped: a    *)
(* number with its digits, a month, a time of day, or anything else.       *)
(***************************************************************************)
EXTENDS Naturals, SequencesExt

-----------------------------------------------------------------------------
(* gmtime_r(), by what a date is.                                          *)

Leap(year) == (year % 4 = 0 /\ year % 100 # 0) \/ year % 400 = 0

\* The days from 1970-01-01 to the first of a year, and from there to the first
\* of a month, the 13th of which is the next year's first.
LeapDays(year) == year \div 4 - year \div 100 + year \div 400
YearStart(year) == 365 * (year - 1970) + LeapDays(year - 1) - LeapDays(1969)
MonthStart(year, month) ==
    <<0, 31, 59, 90, 120, 151, 181, 212, 243, 273, 304, 334, 365>>[month]
    + IF month > 2 /\ Leap(year) THEN 1 ELSE 0

Date(year, month, day, time) ==
    [year |-> year, month |-> month, day |-> day, time |-> time]

IsDate(d) == d.day \in 1..(MonthStart(d.year, d.month + 1) - MonthStart(d.year, d.month))

gmtime_r(t) ==
    LET days  == t \div 86400
        secs  == t % 86400
        years == (1970 + days \div 366)..(1970 + days \div 365)
        OnDay(year, month) ==
            Date(year, month, days - YearStart(year) - MonthStart(year, month) + 1,
                 <<secs \div 3600, (secs \div 60) % 60, secs % 60>>)
    IN  CHOOSE d \in {OnDay(year, month) : year \in years, month \in 1..12} : IsDate(d)

-----------------------------------------------------------------------------
(* Texts.                                                                  *)

Number(n, digits) == [is |-> "number", value |-> n, digits |-> digits]
Month(m)   == [is |-> "month", value |-> m]
Time(hms)  == [is |-> "time", value |-> hms]
OtherWord  == [is |-> "other"] \* GMT, or a weekday that no comma follows

Forms == {"IMF-fixdate", "RFC850", "asctime"}

Text(form, d) ==
    CASE form = "IMF-fixdate" ->
            <<Number(d.day, 2), Month(d.month), Number(d.year, 4), Time(d.time), OtherWord>>
      [] form = "RFC850" ->
            <<Number(d.day, 2), Month(d.month), Number(d.year % 100, 2), Time(d.time), OtherWord>>
      [] form = "asctime" ->
            <<OtherWord, Month(d.month), Number(d.day, IF d.day < 10 THEN 1 ELSE 2),
              Time(d.time), Number(d.year, 4)>>

-----------------------------------------------------------------------------
(* parseHttpDate().                                                        *)

\* What one more word tells.
TakeWord(d, word) ==
    CASE word.is = "time"  -> [d EXCEPT !.time = word.value]
      [] word.is = "month" -> [d EXCEPT !.month = word.value]
      [] word.is = "number" ->
            IF word.value > 31 \/ word.digits = 4 \/ d.day # 0
            THEN [d EXCEPT !.year = word.value]
            ELSE [d EXCEPT !.day = word.value]
      [] OTHER -> d

NoTime == <<>>
Read(text) ==
    LET upTo[n \in 0..Len(text)] ==
            IF n = 0 THEN Date(0, 0, 0, NoTime) ELSE TakeWord(upTo[n - 1], text[n])
    IN  upTo[Len(text)]

FullYear(year) == IF year >= 100 THEN year ELSE IF year < 70 THEN year + 2000 ELSE year + 1900

\* The days from 1970-01-01 to a date, by the 400-year eras that begin on the
\* first of March.
DaysFromCivil(year, month, day) ==
    LET adjustedYear == IF month <= 2 THEN year - 1 ELSE year
        era       == adjustedYear \div 400
        yearOfEra == adjustedYear - era * 400
        dayOfYear == (153 * (IF month > 2 THEN month - 3 ELSE month + 9) + 2) \div 5 + day - 1
        dayOfEra  == yearOfEra * 365 + yearOfEra \div 4 - yearOfEra \div 100 + dayOfYear
    IN  era * 146097 + dayOfEra - 719468

SecondsOf(hms) == hms[1] * 3600 + hms[2] * 60 + hms[3]

\* What is not refused: there is no month that has too few days.
IsAccepted(d) ==
    /\ d.time # NoTime /\ d.month # 0 /\ d.day # 0 /\ d.year # 0
    /\ d.day <= 31 /\ d.time[1] <= 23 /\ d.time[2] <= 59 /\ d.time[3] <= 60

TimeOf(d) == DaysFromCivil(FullYear(d.year), d.month, d.day) * 86400 + SecondsOf(d.time)

\* The second a text means, as a set: empty if the text is refused.
parseHttpDate(text) == {TimeOf(d) : d \in {e \in {Read(text)} : IsAccepted(e)}}
=============================================================================
