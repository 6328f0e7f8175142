----------------------------- MODULE BasicValues -----------------------------
(***************************************************************************)
(* The fixed-size values of a result table: how bytes.ts reads integers,   *)
(* which of them stay JSON numbers, and how decodeBasicValue and its       *)
(* helpers turn temporal values into the fields of their literals, and how *)
(* the server writes them.  The text of a literal is left out where it is  *)
(* a field after the other; a zone suffix and a duration are kept as what  *)
(* their text says.                                                        *)
(*                                                                         *)
(* The source's numbers are constants here, so that small ones can be      *)
(* checked through: 256 values of a byte, 2^53 - 1, the calendar, 2^32,    *)
(* the 2^23 and 2^52 mantissas of floats.  Months and years all have one   *)
(* length.                                                                 *)
(***************************************************************************)
EXTENDS Vectors

CONSTANTS ByteBase,        \* values of a byte
          SafeMax,         \* largest integer a JSON number holds exactly
          YearRange,       \* years a packed datetime tells apart
          ZoneRange,       \* values of time_zone_offset, an uint32
          Mantissas,       \* of a float of 4 bytes and of one of 8
          MonthsPerYear, DaysPerMonth, HoursPerDay, MinutesPerHour,
          SecondsPerMinute, MillisPerSecond, MicrosPerMilli,
          TwoDigitYears,   \* Date.UTC reads years below this one ...
          Century,         \* ... as years since this one
          Samples          \* of each basic type: the values looked at

ASSUME BytesAssumption == ByteBase \in Nat /\ ByteBase % 2 = 0 /\ ByteBase > 0 /\ SafeMax \in Nat
ASSUME ClockAssumption ==
  /\ {MonthsPerYear, DaysPerMonth, HoursPerDay, MinutesPerHour, SecondsPerMinute,
      MillisPerSecond, MicrosPerMilli, YearRange, ZoneRange} \subseteq Nat \ {0}
  /\ TwoDigitYears \in Nat /\ Century \in Nat

-----------------------------------------------------------------------------
(* Integers are little-endian: of up to 8 bytes the last weighs most.      *)
Power[n \in 0 .. 8] == IF n = 0 THEN 1 ELSE ByteBase * Power[n - 1]

Unsigned(bs) ==
  LET sum[i \in 0 .. Len(bs)] == IF i = 0 THEN 0 ELSE sum[i - 1] + bs[i] * Power[i - 1]
  IN sum[Len(bs)]

Signed(bs) ==
  IF 2 * Unsigned(bs) >= Power[Len(bs)] THEN Unsigned(bs) - Power[Len(bs)] ELSE Unsigned(bs)

IntegerToNumber(n) == [number |-> n]

(* int64ToJson, uint64ToJson: a number within the safe range, else digits. *)
IntegerToJson(n) == IF n \in -SafeMax .. SafeMax THEN [number |-> n] ELSE [digits |-> n]

-----------------------------------------------------------------------------
(* A float of IEEE 754 is a sign, an exponent and a mantissa, from the     *)
(* highest bit down.  The greatest exponent is not a number's: it marks    *)
(* infinity and, with a mantissa, what is not a number.                    *)
Exponents(size) == Power[size] \div (2 * Mantissas[size])

ASSUME FloatsAssumption ==
  \A size \in {4, 8} : Mantissas[size] \in Nat \ {0} /\ Power[size] = 2 * Exponents(size) * Mantissas[size]

Floats(size) ==
  [minus : BOOLEAN, exponent : 0 .. Exponents(size) - 1, mantissa : 0 .. Mantissas[size] - 1]

MinusZero == [minus |-> TRUE, exponent |-> 0, mantissa |-> 0]

(* bytesToFloat32, bytesToFloat64: a number of JavaScript, 64 bits wide.   *)
ReadFloat(bs, size) ==
  LET n == Unsigned(bs)
      above == n \div Mantissas[size]
  IN [minus |-> above >= Exponents(size), exponent |-> above % Exponents(size), mantissa |-> n % Mantissas[size]]

FloatToNumber(f, size) ==
  IF f.exponent # Exponents(size) - 1 THEN [float |-> f]
  ELSE [special |-> IF f.mantissa # 0 THEN "NaN" ELSE IF f.minus THEN "-Infinity" ELSE "Infinity"]

(* JSON.stringify of such a number: null if it is special, and no zero has *)
(* a sign.                                                                 *)
FloatJson(d) ==
  IF "special" \in DOMAIN d THEN Null
  ELSE [float |-> IF d.float = MinusZero THEN [MinusZero EXCEPT !.minus = FALSE] ELSE d.float]

-----------------------------------------------------------------------------
(* A moment is <<year, month, day, hour, minute, second, microsecond>>.    *)
MicrosPerSecond == MillisPerSecond * MicrosPerMilli

(* A packed datetime: its fields follow each other from the lowest bits;   *)
(* a field is taken to be as wide as its values need.                      *)
FieldRange ==
  <<YearRange, MonthsPerYear + 1, DaysPerMonth + 1, HoursPerDay, MinutesPerHour,
    SecondsPerMinute, MicrosPerSecond>>

FieldWeight[i \in 1 .. 7] == IF i = 1 THEN 1 ELSE FieldWeight[i - 1] * FieldRange[i - 1]

UnpackDatetime(qword) == [i \in 1 .. 7 |-> (qword \div FieldWeight[i]) % FieldRange[i]]

(* The clock below the year, down to milliseconds.                         *)
ClockRange ==
  <<MonthsPerYear, DaysPerMonth, HoursPerDay, MinutesPerHour, SecondsPerMinute, MillisPerSecond>>

ClockWeight[i \in 0 .. 6] == IF i = 6 THEN 1 ELSE ClockWeight[i + 1] * ClockRange[i + 1]

Instant(year, m) ==
  year * ClockWeight[0] + (m[2] - 1) * ClockWeight[1] + (m[3] - 1) * ClockWeight[2]
  + m[4] * ClockWeight[3] + m[5] * ClockWeight[4] + m[6] * ClockWeight[5]
  + m[7] \div MicrosPerMilli

(* Date.UTC takes a year of two digits for one of the last century.        *)
DateUTC(m) == Instant(IF m[1] \in 0 .. TwoDigitYears - 1 THEN Century + m[1] ELSE m[1], m)

(* shiftByOffset: the moment as wall clock of a zone, offset in seconds.   *)
ShiftByOffset(offset, m) ==
  LET ms == DateUTC(m) + offset * MillisPerSecond
      at(i) == (ms \div ClockWeight[i]) % ClockRange[i]
  IN <<ms \div ClockWeight[0], at(1) + 1, at(2) + 1, at(3), at(4), at(5),
       (m[7] % MicrosPerMilli) + at(6) * MicrosPerMilli>>

ZoneSuffix(offset) ==
  LET minutes == (IF offset < 0 THEN -offset ELSE offset) \div SecondsPerMinute
  IN [ sign    |-> IF offset = 0 THEN 0 ELSE IF offset < 0 THEN -1 ELSE 1,
       hours   |-> minutes \div MinutesPerHour,
       minutes |-> minutes % MinutesPerHour ]

-----------------------------------------------------------------------------
(* BigInt division rounds to zero, and a remainder has the dividend's sign.*)
Quotient(a, b) == IF a < 0 THEN -((-a) \div b) ELSE a \div b
Remainder(a, b) == a - b * Quotient(a, b)

MicrosPerMinute == SecondsPerMinute * MicrosPerSecond
MicrosPerHour == MinutesPerHour * MicrosPerMinute
MicrosPerDay == HoursPerDay * MicrosPerHour

(* A duration is the components its literal names, left to right.  A       *)
(* fraction prints its own sign: fraction -5 is the text of .-000005.      *)
Component(n, unit) == IF n = 0 THEN <<>> ELSE <<[unit |-> unit, whole |-> n, fraction |-> 0]>>

Seconds(second, micro) ==
  IF micro = 0 THEN Component(second, "second")
  ELSE <<[unit |-> "second", whole |-> second, fraction |-> micro]>>

(* formatDuration: the lowest bit tells months from microseconds.          *)
FormatDuration(raw) ==
  LET n == raw \div 2
  IN IF n = 0
     THEN <<[unit |-> IF raw % 2 = 1 THEN "month" ELSE "second", whole |-> 0, fraction |-> 0]>>
     ELSE IF raw % 2 = 1
     THEN Component(Quotient(n, MonthsPerYear), "year")
          \o Component(Remainder(n, MonthsPerYear), "month")
     ELSE Component(Quotient(n, MicrosPerDay), "day")
          \o Component(Quotient(Remainder(n, MicrosPerDay), MicrosPerHour), "hour")
          \o Component(Quotient(Remainder(n, MicrosPerHour), MicrosPerMinute), "minute")
          \o Seconds(Quotient(Remainder(n, MicrosPerMinute), MicrosPerSecond),
                     Remainder(n, MicrosPerSecond))

-----------------------------------------------------------------------------
(* sizeMap: the bytes of a basic type's value.                             *)
SizeMap ==
  [ Bool |-> 1, Int8 |-> 1, Uint8 |-> 1, Int16 |-> 2, Uint16 |-> 2, Int32 |-> 4, Uint32 |-> 4,
    Int64 |-> 8, Uint64 |-> 8, Float32 |-> 4, Float64 |-> 8, Date |-> 4, LocalTime |-> 8,
    ZonedTime |-> 8, LocalDatetime |-> 8, ZonedDatetime |-> 8, Duration |-> 8 ]

BasicTypes == DOMAIN SizeMap

Day(bs) == <<Signed(SubSeq(bs, 1, 2)), Signed(SubSeq(bs, 3, 3)), Signed(SubSeq(bs, 4, 4))>>

Clock(bs) == <<Signed(SubSeq(bs, 1, 1)), Signed(SubSeq(bs, 2, 2)), Signed(SubSeq(bs, 3, 3)),
               Signed(SubSeq(bs, 5, 8))>>

(* A time of day is shifted on some day, today in the code.                *)
Today == <<Century, 1, 1>>

(* decodeBasicValue, with the zone's offset in seconds.                    *)
DecodeBasicValue(bs, type, offset) ==
  CASE type = "Bool" -> [bool |-> bs[1] = 1]
    [] type \in {"Int8", "Int16", "Int32"} -> IntegerToNumber(Signed(bs))
    [] type \in {"Uint8", "Uint16", "Uint32"} -> IntegerToNumber(Unsigned(bs))
    [] type = "Int64" -> IntegerToJson(Signed(bs))
    [] type = "Uint64" -> IntegerToJson(Unsigned(bs))
    [] type \in {"Float32", "Float64"} -> FloatToNumber(ReadFloat(bs, SizeMap[type]), SizeMap[type])
    [] type = "Date" -> [date |-> Day(bs)]
    [] type = "LocalTime" -> [time |-> Clock(bs)]
    [] type = "ZonedTime" ->
         [time |-> SubSeq(ShiftByOffset(offset, Today \o Clock(bs)), 4, 7),
          zone |-> ZoneSuffix(offset)]
    [] type = "LocalDatetime" -> [moment |-> UnpackDatetime(Signed(bs))]
    [] type = "ZonedDatetime" ->
         [moment |-> ShiftByOffset(offset, UnpackDatetime(Signed(bs))),
          zone |-> ZoneSuffix(offset)]
    [] type = "Duration" -> [duration |-> FormatDuration(Signed(bs))]
-----------------------------------------------------------------------------
(* What the server may hold in a cell of a basic type, null aside, and how *)
(* it writes it.  A cell without a value holds zeros.                      *)
SignedRange(size) == -(Power[size] \div 2) .. Power[size] \div 2 - 1
UnsignedRange(size) == 0 .. Power[size] - 1

TimesOfDay ==
  {c \in [1 .. 4 -> Nat] : c[1] < HoursPerDay /\ c[2] < MinutesPerHour /\ c[3] < SecondsPerMinute /\ c[4] < MicrosPerSecond}

Moments == {m \in [1 .. 7 -> Nat] : m[2] > 0 /\ m[3] > 0 /\ \A i \in 1 .. 7 : m[i] < FieldRange[i]}

(* A duration leaves the lowest bit of its 64 for its kind.                *)
DurationRange == -(Power[8] \div 4) .. Power[8] \div 4 - 1

BasicValue(code) ==
  CASE code = "Bool" -> [bool : BOOLEAN]
    [] code \in {"Int8", "Int16", "Int32", "Int64"} -> [number : SignedRange(SizeMap[code])]
    [] code \in {"Uint8", "Uint16", "Uint32", "Uint64"} -> [number : UnsignedRange(SizeMap[code])]
    [] code \in {"Float32", "Float64"} -> [float : Floats(SizeMap[code])]
    [] code = "Date" -> [date : SignedRange(2) \X SignedRange(1) \X SignedRange(1)]
    [] code \in {"LocalTime", "ZonedTime"} -> [time : TimesOfDay]
    [] code \in {"LocalDatetime", "ZonedDatetime"} -> [moment : Moments]
    [] code = "Duration" -> [months : DurationRange] \cup [micros : DurationRange]

(* What JSON has a text for: no float but the finite ones, nor minus zero. *)
JsonExact(code, v) ==
  "float" \in DOMAIN v => v.float.exponent # Exponents(SizeMap[code]) - 1 /\ v.float # MinusZero

ASSUME SamplesAssumption == \A code \in BasicTypes : Samples[code] \subseteq BasicValue(code)

(* Every value of 32 bits is safe, a field of a time fits its bytes, and a *)
(* packed datetime is not negative.                                        *)
ASSUME WidthsAssumption ==
  /\ Power[4] <= SafeMax + 1
  /\ \A unit \in {HoursPerDay, MinutesPerHour, SecondsPerMinute} : 2 * unit <= ByteBase
  /\ 2 * MicrosPerSecond <= Power[4]
  /\ 2 * FieldWeight[7] * MicrosPerSecond <= Power[8]

Bytes(n, size) == [i \in 1 .. size |-> (n \div Power[i - 1]) % ByteBase]

Packed(m) ==
  LET sum[i \in 0 .. 7] == IF i = 0 THEN 0 ELSE sum[i - 1] + m[i] * FieldWeight[i]
  IN sum[7]

FloatBits(f, size) ==
  ((IF f.minus THEN Exponents(size) ELSE 0) + f.exponent) * Mantissas[size] + f.mantissa

EncodeBasic(code, v) ==
  CASE v = Null -> Bytes(0, SizeMap[code])
    [] "bool" \in DOMAIN v -> IF v.bool THEN <<1>> ELSE <<0>>
    [] "number" \in DOMAIN v -> Bytes(v.number, SizeMap[code])
    [] "float" \in DOMAIN v -> Bytes(FloatBits(v.float, SizeMap[code]), SizeMap[code])
    [] "date" \in DOMAIN v -> Bytes(v.date[1], 2) \o Bytes(v.date[2], 1) \o Bytes(v.date[3], 1)
    [] "time" \in DOMAIN v ->
         Bytes(v.time[1], 1) \o Bytes(v.time[2], 1) \o Bytes(v.time[3], 1) \o <<0>>
         \o Bytes(v.time[4], 4)
    [] "moment" \in DOMAIN v -> Bytes(Packed(v.moment), 8)
    [] "months" \in DOMAIN v -> Bytes(2 * v.months + 1, 8)
    [] "micros" \in DOMAIN v -> Bytes(2 * v.micros, 8)
=============================================================================
