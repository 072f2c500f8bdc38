---------------------------------- MODULE Times ----------------------------------
(***************************************************************************)
(* Date and time: DateTime of der/src/datetime.rs, its ASN.1 and textual   *)
(* forms, and the TAI64 labels.                                            *)
(*                                                                         *)
(* A text is a sequence of numbers: digits are 0 .. 9, other characters    *)
(* have numbers from 10.  A duration since the Unix epoch is               *)
(* <<days, second of the day, nanosecond>>, which is how the code computes *)
(* with seconds.  Results are <<x>> or, for an error, <<>>.                *)
(***************************************************************************)
LOCAL INSTANCE Integers
LOCAL INSTANCE Sequences
LOCAL INSTANCE SequencesExt
LOCAL INSTANCE Functions

Digits == 0 .. 9
Zulu == 10
Point == 11
Dash == 12
Tee == 13
Colon == 14

MIN_YEAR == 1970
MAX_DAY == 2932896       \* 9999-12-31
DAY == 86400
MAX_UNIX_DURATION == <<MAX_DAY, DAY - 1, 0>>

DateTime(year, month, day, hour, minutes, seconds, unix_duration) ==
  [year |-> year, month |-> month, day |-> day, hour |-> hour, minutes |-> minutes,
   seconds |-> seconds, unix_duration |-> unix_duration]

Exceeds(d, e) ==
  \/ d[1] > e[1]
  \/ d[1] = e[1] /\ d[2] > e[2]
  \/ d[1] = e[1] /\ d[2] = e[2] /\ d[3] > e[3]

--------------------------------------------------------------------------------
(* DateTime::from_ymd_hms.  Faulty: centuries are leap years.              *)
IsLeapYear_julian(year) == year % 4 = 0

IsLeapYear(year) == year % 4 = 0 /\ (year % 100 # 0 \/ year % 400 = 0)

LeapYearsBefore(year) ==
  (year - 1 - 1968) \div 4 - (year - 1 - 1900) \div 100 + (year - 1 - 1600) \div 400

(* Days of the year before the month, and days in it.                      *)
MONTHS ==
  << <<0, 31>>, <<31, 28>>, <<59, 31>>, <<90, 30>>, <<120, 31>>, <<151, 30>>,
     <<181, 31>>, <<212, 31>>, <<243, 30>>, <<273, 31>>, <<304, 30>>, <<334, 31>> >>

DaysInMonth(year, month) ==
  MONTHS[month][2] + (IF month = 2 /\ IsLeapYear(year) THEN 1 ELSE 0)

from_ymd_hms(year, month, day, hour, minutes, seconds) ==
  LET days == (year - MIN_YEAR) * 365 + LeapYearsBefore(year) + MONTHS[month][1] + day - 1
                + (IF IsLeapYear(year) /\ month > 2 THEN 1 ELSE 0)
      time == seconds + minutes * 60 + hour * 3600
      isValid == /\ year >= MIN_YEAR /\ month \in 1 .. 12 /\ day \in 1 .. 31
                 /\ hour \in 0 .. 23 /\ minutes \in 0 .. 59 /\ seconds \in 0 .. 59
                 /\ day <= DaysInMonth(year, month)
                 /\ days <= MAX_DAY
  IN  IF isValid
      THEN <<DateTime(year, month, day, hour, minutes, seconds, <<days, time, 0>>)>>
      ELSE <<>>

(* DateTime::from_unix_duration: years of 400, 100, 4 and 1 from the first *)
(* of March 2000; the last of each kind may be a day longer.               *)
LEAPOCH == 11017
DAYS_PER_400Y == 365 * 400 + 97
DAYS_PER_100Y == 365 * 100 + 24
DAYS_PER_4Y == 365 * 4 + 1
MONTH_LENGTHS == <<31, 30, 31, 30, 31, 31, 30, 31, 30, 31, 31, 29>>  \* from March

AtMost(n, most) == IF n > most THEN most ELSE n

Cycles(days) ==
  LET rem100 == days % DAYS_PER_400Y
      c == AtMost(rem100 \div DAYS_PER_100Y, 3)
      rem4 == rem100 - c * DAYS_PER_100Y
      q == AtMost(rem4 \div DAYS_PER_4Y, 24)
      rem1 == rem4 - q * DAYS_PER_4Y
      y == AtMost(rem1 \div 365, 3)
  IN  [years |-> 400 * (days \div DAYS_PER_400Y) + 100 * c + 4 * q + y,
       days |-> rem1 - 365 * y]

from_unix_duration(duration) ==
  LET cycles == Cycles(duration[1] - LEAPOCH)
      before[mon \in 1 .. 12] ==
        IF mon = 1 THEN 0 ELSE before[mon - 1] + MONTH_LENGTHS[mon - 1]
      mon == CHOOSE mon \in 1 .. 12 :
               /\ before[mon] <= cycles.days
               /\ mon = 12 \/ cycles.days < before[mon + 1]
      secs == duration[2]
  IN  IF Exceeds(duration, MAX_UNIX_DURATION) THEN <<>>
      ELSE from_ymd_hms(2000 + cycles.years + (IF mon > 10 THEN 1 ELSE 0),
                        IF mon > 10 THEN mon - 10 ELSE mon + 2,
                        cycles.days - before[mon] + 1,
                        secs \div 3600, (secs \div 60) % 60, secs % 60)

--------------------------------------------------------------------------------
(* The two digits at place i.                                              *)
decode_decimal(text, i) == 10 * text[i] + text[i + 1]
IsDecimal(text, i) == text[i] \in Digits /\ text[i + 1] \in Digits
encode_decimal(n) == <<n \div 10, n % 10>>

(* A date from years, months, days, hours, minutes and seconds of two      *)
(* digits at the places `at`, the years counted from `century`.            *)
DateAt(text, at, century) ==
  LET part(k) == decode_decimal(text, at[k]) IN
  IF \A k \in 1 .. 6 : IsDecimal(text, at[k])
  THEN from_ymd_hms(century + part(1), part(2), part(3), part(4), part(5), part(6))
  ELSE <<>>
Consecutive(first) == [k \in 1 .. 6 |-> first + 2 * (k - 1)]

Years(dt) == encode_decimal(dt.year \div 100) \o encode_decimal(dt.year % 100)
Rest(dt) ==
  encode_decimal(dt.month) \o encode_decimal(dt.day) \o encode_decimal(dt.hour)
    \o encode_decimal(dt.minutes) \o encode_decimal(dt.seconds)

Normalized(date) == IF date = <<>> THEN <<>> ELSE from_unix_duration(date[1].unix_duration)

(* UtcTime: years from 1970 to 2049.                                       *)
UTC_LENGTH == 13
UTC_MAX_YEAR == 2049

Century(year) == IF year >= 50 THEN 1900 ELSE 2000

UtcDecode(text) ==
  IF Len(text) = UTC_LENGTH /\ text[UTC_LENGTH] = Zulu /\ IsDecimal(text, 1)
  THEN Normalized(DateAt(text, Consecutive(1), Century(decode_decimal(text, 1))))
  ELSE <<>>
UtcEncode(dt) ==
  IF dt.year <= UTC_MAX_YEAR
  THEN <<encode_decimal(dt.year % 100) \o Rest(dt) \o <<Zulu>> >>
  ELSE <<>>

(* GeneralizedTime and DateTime.                                           *)
GENERALIZED_LENGTH == 15
GeneralizedDate(text) ==
  IF IsDecimal(text, 1) THEN DateAt(text, Consecutive(3), 100 * decode_decimal(text, 1))
  ELSE <<>>
GeneralizedDecode(text) ==
  IF Len(text) = GENERALIZED_LENGTH /\ text[GENERALIZED_LENGTH] = Zulu
  THEN Normalized(GeneralizedDate(text))
  ELSE <<>>
GeneralizedEncode(dt) == <<Years(dt) \o Rest(dt) \o <<Zulu>> >>

(* DateTime::from_str and fmt: 1970-01-01T00:00:00Z.                       *)
SEPARATORS == <<Dash, Dash, Tee, Colon, Colon, Zulu>>
SeparatorAt(k) == 3 * k + 2
FromStr(text) ==
  IF /\ Len(text) = 20 /\ IsDecimal(text, 1)
     /\ \A k \in DOMAIN SEPARATORS : text[SeparatorAt(k)] = SEPARATORS[k]
  THEN DateAt(text, [k \in 1 .. 6 |-> 3 * k], 100 * decode_decimal(text, 1))
  ELSE <<>>
Display(dt) ==
  LET digits == GeneralizedEncode(dt)[1] IN
  SubSeq(digits, 1, 4)
    \o FlattenSeq([k \in 1 .. 5 |-> <<SEPARATORS[k], digits[2 * k + 3], digits[2 * k + 4]>>])
    \o <<Zulu>>

--------------------------------------------------------------------------------
(* GeneralizedTimeNanos: [datetime, nanoseconds].                          *)
Nanos(k) == 10^(9 - k)          \* the weight of the k-th digit

(* The digits written before the rest is zero.                             *)
FractionDigits(n) ==
  LET count == CHOOSE c \in 0 .. 9 :
                 n % Nanos(c) = 0 /\ \A fewer \in 0 .. c - 1 : n % Nanos(fewer) # 0
  IN  [k \in 1 .. count |-> (n \div Nanos(k)) % 10]

decode_fractional_secs(fract) ==
  IF Len(fract) \in 1 .. 9 /\ Range(fract) \subseteq Digits /\ fract[Len(fract)] # 0
  THEN <<FoldLeftDomain(LAMBDA sum, k : sum + fract[k] * Nanos(k), 0, fract)>>
  ELSE <<>>

NANOS_MIN_LENGTH == 15
NANOS_MAX_LENGTH == 25
NanosDecode(text) ==
  LET n == Len(text)
      nanos == IF n = NANOS_MIN_LENGTH THEN <<0>>
               ELSE IF text[15] = Point THEN decode_fractional_secs(SubSeq(text, 16, n - 1))
               ELSE <<>>
  IN  IF n \in NANOS_MIN_LENGTH .. NANOS_MAX_LENGTH /\ text[n] = Zulu /\ nanos # <<>>
      THEN LET date == GeneralizedDate(text) IN
           IF date = <<>> THEN <<>>
           ELSE <<[datetime |-> date[1], nanoseconds |-> nanos[1]]>>
      ELSE <<>>
NanosEncode(t) ==
  <<Years(t.datetime) \o Rest(t.datetime)
      \o (IF t.nanoseconds = 0 THEN <<>> ELSE <<Point>> \o FractionDigits(t.nanoseconds))
      \o <<Zulu>> >>
NanosLength(t) ==
  NANOS_MIN_LENGTH
    + (IF t.nanoseconds = 0 THEN 0 ELSE 1 + Len(FractionDigits(t.nanoseconds)))

--------------------------------------------------------------------------------
(* Time of x509-cert: <<1, date>> is written as UTCTime, <<2, date>> as    *)
(* GeneralizedTime; the profile of RFC 5280 writes the former as long as   *)
(* it can.  A text is preceded by that tag.                                *)
rfc5280_adjust_utc_time(t) == IF t[1] = 2 /\ t[2].year <= UTC_MAX_YEAR THEN <<1, t[2]>> ELSE t
TimeEncode(time) ==
  LET t == rfc5280_adjust_utc_time(time)
      written == IF t[1] = 1 THEN UtcEncode(t[2]) ELSE GeneralizedEncode(t[2])
  IN  IF written = <<>> THEN <<>> ELSE << <<t[1]>> \o written[1] >>
TimeDecode(text) ==
  LET content == SubSeq(text, 2, Len(text))
      date == CASE text[1] = 1 -> UtcDecode(content)
                [] text[1] = 2 -> GeneralizedDecode(content)
                [] OTHER -> <<>>
  IN  IF date = <<>> THEN <<>> ELSE << <<text[1], date[1]>> >>

--------------------------------------------------------------------------------
(* TAI64 labels, with words of 8 bits for 64 and a second of three         *)
(* nanoseconds.  A signed word is -128 .. 127; a sum outside its type      *)
(* is an error, as in a build with overflow checks.                        *)
WORD == 256
OFFSET == 64             \* 2^62
UNIX_EPOCH == 37 + OFFSET
NANOS_PER_SECOND == 3

IsSigned(n) == n \in -(WORD \div 2) .. WORD \div 2 - 1
IsLabel(n) == n \in 0 .. WORD - 1
AsSigned(label) == IF label >= WORD \div 2 THEN label - WORD ELSE label

from_unix(secs) == IF IsSigned(secs + 10 + OFFSET) THEN <<(secs + 10 + OFFSET) % WORD>> ELSE <<>>
to_unix(label) ==
  IF IsSigned(AsSigned(label) - (10 + OFFSET)) THEN <<AsSigned(label) - (10 + OFFSET)>> ELSE <<>>

(* Tai64N is <<label, nanoseconds>>.  Faulty: the carry is forgotten.      *)
Carry_never(n) == 0

Carry(n) == IF n >= NANOS_PER_SECOND THEN 1 ELSE 0

Borrow(n, less) == IF n >= less THEN 0 ELSE 1

Label(secs, n) == IF IsLabel(secs) THEN << <<secs, n>> >> ELSE <<>>
Add(t, d) ==
  LET n == t[2] + d[2] IN Label(t[1] + d[1] + Carry(n), n - Carry(n) * NANOS_PER_SECOND)
Minus(t, d) ==
  LET carry == Borrow(t[2], d[2]) IN
  Label(t[1] - carry - d[1], carry * NANOS_PER_SECOND + t[2] - d[2])

(* <<1, d>> when t is not earlier than other, <<-1, d>> otherwise.         *)
duration_since(t, other) ==
  LET notEarlier == t[1] > other[1] \/ (t[1] = other[1] /\ t[2] >= other[2])
      late == IF notEarlier THEN t ELSE other
      early == IF notEarlier THEN other ELSE t
      carry == Borrow(late[2], early[2])
  IN  <<IF notEarlier THEN 1 ELSE -1,
        <<late[1] - carry - early[1], carry * NANOS_PER_SECOND + late[2] - early[2]>> >>
(* The label a signed duration away from another one: from_system_time     *)
(* when that is the epoch, and then to_system_time is duration_since.      *)
Shifted(from, d) == IF d[1] = 1 THEN Add(from, d[2]) ELSE Minus(from, d[2])

================================================================================
