----------------------------- MODULE BasicColumn -----------------------------
(***************************************************************************)
(* A column of fixed-size values: integers, floats, dates, times, moments  *)
(* and durations, whose cells decodeBasicValue reads, and what a reader of *)
(* the JSON makes of them.                                                 *)
(***************************************************************************)
EXTENDS ColumnRows

(* The server's vectors: a cell of bytes per row.                          *)
BasicVector(vs) == [nulls |-> NullBits(vs), data |-> [i \in DOMAIN vs |-> EncodeBasic(column.code, vs[i])]]

(* decodeValue of a flat and of a const vector of a basic type.            *)
DecodeBasicCell(v, index) ==
  IF IsNull(v, index) THEN Null ELSE DecodeBasicValue(v.data[index + 1], schema.code, TimezoneOffset)

(* A const vector has one cell and, if that is null, one bit.              *)
BasicBatches(l) ==
  LET each == Samples[column.code] \cup {Null}
  IN IF l = "const" THEN {[i \in 1 .. n |-> x] : n \in 1 .. MaxRecords, x \in each}
     ELSE UNION {[1 .. n -> each] : n \in 1 .. MaxRecords}

ReadBasics == ReadRows({"flat", "const"}, BasicBatches, LAMBDA l : schema)

DecodeFlatBasic == DecodeFlat(LAMBDA index : DecodeBasicCell(BasicVector(sent), index))

DecodeConstBasic == DecodeConst(DecodeBasicCell(BasicVector(<<sent[1]>>), 0))

EndBasics == EndRows

(* newTypeSchema: a basic type is its code.                                *)
BasicInit ==
  /\ column \in {c \in Columns : c.code \in BasicTypes}
  /\ zone \in IF column.code \in {"ZonedTime", "ZonedDatetime"} THEN Zones ELSE {0}
  /\ schema = Of(column.code)
  /\ layout = "none"
  /\ sent = <<>> /\ decoded = <<>>
  /\ cachedConst = NoValue

BasicNext == ReadBasics \/ DecodeFlatBasic \/ DecodeConstBasic \/ EndBasics

BasicSpec == BasicInit /\ [][BasicNext]_rowVars

-----------------------------------------------------------------------------
(* Reading the literals back.  A JSON number beyond the safe range is the  *)
(* nearest even one.                                                       *)
Nearest(n) == IF n \in -SafeMax .. SafeMax THEN n ELSE n - (n % 2)

Micros(m) == Instant(m[1], m) * MicrosPerMilli + (m[7] % MicrosPerMilli)
OnSomeDay(time) == <<0, 1, 1>> \o time

ZoneShown(d) == d.zone.sign * (d.zone.hours * MinutesPerHour + d.zone.minutes) = zone

UnitMicros ==
  [day |-> MicrosPerDay, hour |-> MicrosPerHour, minute |-> MicrosPerMinute, second |-> MicrosPerSecond]
UnitMonths == [year |-> MonthsPerYear, month |-> 1]

(* A number's sign is that of its fraction too; a number with another sign *)
(* inside its fraction is not a number.                                    *)
AmountOf(c, units) == c.whole * units[c.unit] + (IF c.whole < 0 THEN -c.fraction ELSE c.fraction)

Amount(duration, units) ==
  LET sum[i \in 0 .. Len(duration)] == IF i = 0 THEN 0 ELSE sum[i - 1] + AmountOf(duration[i], units)
  IN sum[Len(duration)]

Legible(duration) == \A i \in DOMAIN duration : duration[i].fraction >= 0

DurationReads(d, v) ==
  IF "months" \in DOMAIN v
  THEN (\A i \in DOMAIN d : d[i].unit \in DOMAIN UnitMonths) /\ Amount(d, UnitMonths) = v.months
  ELSE /\ \A i \in DOMAIN d : d[i].unit \in DOMAIN UnitMicros
       /\ Legible(d)
       /\ Amount(d, UnitMicros) = v.micros

(* What the decoder gets wrong: a negative duration with a fraction of a   *)
(* second, a zone west of Greenwich, years of two digits in a zone.  And   *)
(* what JSON does: NaN and the infinities become null, minus zero zero.    *)
Misread(v) ==
  \/ "micros" \in DOMAIN v /\ v.micros < 0 /\ v.micros % MicrosPerSecond # 0
  \/ ~JsonExact(column.code, v)
  \/ zone < 0
  \/ column.code = "ZonedDatetime" /\ v.moment[1] < TwoDigitYears

ReadsBack(d, v) ==
  CASE "number" \in DOMAIN v ->
         IF "number" \in DOMAIN d THEN Nearest(d.number) = v.number ELSE d.digits = v.number
    [] "float" \in DOMAIN v -> FloatJson(d) = v
    [] column.code = "ZonedTime" ->
         /\ Micros(OnSomeDay(d.time)) = (Micros(OnSomeDay(v.time)) + zone * MicrosPerMinute) % MicrosPerDay
         /\ ZoneShown(d)
    [] column.code = "ZonedDatetime" ->
         /\ Micros(d.moment) = Micros(v.moment) + zone * MicrosPerMinute
         /\ \A i \in 2 .. 7 : d.moment[i] < FieldRange[i]
         /\ ZoneShown(d)
    [] column.code = "Duration" -> DurationReads(d.duration, v)
    [] OTHER -> d = v

(* Whoever reads the JSON of a basic value back gets the value the server  *)
(* had: integers at both ends of their range and beyond the safe one,      *)
(* finite floats, wall clocks across the ends of days and years, durations *)
(* of either sign.  Misread names what is not read back.                   *)
LiteralsReadBack ==
  column.code \in BasicTypes =>
    \A r \in DOMAIN decoded :
      IF sent[r] = Null THEN decoded[r] = Null
      ELSE Misread(sent[r]) \/ ReadsBack(decoded[r], sent[r])

(* A duration's literal reads back as the duration, what its comment says: *)
(* "ngql-compatible duration literal".                                     *)
DurationsReadBack ==
  column.code = "Duration" =>
    \A r \in DOMAIN decoded : sent[r] # Null => DurationReads(decoded[r].duration, sent[r])
=============================================================================
