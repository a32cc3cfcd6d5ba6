-------------------------- MODULE TelemetrySamples --------------------------
(***************************************************************************)
(* What a telemetry update may contain, from the message of an open stream *)
(* to the row in telemetry_samples: telemetrySample of                     *)
(* server/internal/agentgrpc/server.go, validateSample of                  *)
(* server/internal/telemetry/service.go, the upsert of repository/postgres *)
(* /telemetry_store.go and the CHECKs of the table.  StreamUpdates models  *)
(* the steps of recording and what else happens meanwhile; this module     *)
(* models the values, of one stream of one machine.                        *)
(*                                                                         *)
(* A time is counted in half microseconds, because the table keeps a       *)
(* microsecond and a message nanoseconds.  A CPU usage is counted in       *)
(* thousandths of a percent, because the table keeps hundredths.           *)
(***************************************************************************)
EXTENDS Integers

CONSTANTS
  Times,         \* times of collection, in half microseconds
  Usages,        \* CPU usages, in thousandths of a percent
  Quantities,    \* numbers of bytes
  Uptimes,       \* uptimes in seconds
  NoTime,        \* there is no time of collection
  InvalidTime,   \* a time CheckValid refuses
  ZeroTime,      \* the first instant of the year 1, which IsZero tells
  NotANumber,    \* NaN, or an infinity
  NoSample       \* there is no row

Sample == [collected : Times \cup {NoTime, InvalidTime, ZeroTime},
           cpu : Usages \cup {NotANumber},
           memoryTotal : Quantities,
           memoryUsed : Quantities,
           diskTotal : Quantities,
           diskUsed : Quantities,
           uptime : Uptimes]

Columns == {"cpu", "memoryTotal", "memoryUsed", "diskTotal", "diskUsed", "uptime"}

ASSUME SampleAssumption ==
  /\ Times \subseteq Nat
  /\ Usages \subseteq Int
  /\ Quantities \subseteq Int
  /\ Uptimes \subseteq Int
  /\ {NoTime, InvalidTime, ZeroTime} \cap Times = {}
  /\ NoSample \notin Sample
  /\ NoSample \notin [Columns -> Int]

VARIABLES
  rows,     \* the row of every microsecond
  latest,   \* the last sample of every microsecond that was answered with no error
  answer    \* how the stream has ended, or "open"

vars == <<rows, latest, answer>>

Microseconds == {t \div 2 : t \in Times}

----------------------------------------------------------------------------

\* telemetrySample: a message needs a time, and the time must be valid.
Convertible(s) == s.collected \notin {NoTime, InvalidTime}

\* Wrong: what is used is not compared with the total.
ValidWithoutTotal(s) ==
  /\ s.collected # ZeroTime
  /\ s.cpu # NotANumber /\ s.cpu >= 0 /\ s.cpu <= 100000
  /\ s.memoryTotal >= 0 /\ s.memoryUsed >= 0
  /\ s.diskTotal >= 0 /\ s.diskUsed >= 0
  /\ s.uptime >= 0

\* validateSample.  The ID of the machine comes from the database and is never
\* blank.
Valid(s) ==
  /\ s.collected # ZeroTime
  /\ s.cpu # NotANumber /\ s.cpu >= 0 /\ s.cpu <= 100000
  /\ s.memoryTotal >= 0
  /\ s.memoryUsed >= 0 /\ s.memoryUsed <= s.memoryTotal
  /\ s.diskTotal >= 0
  /\ s.diskUsed >= 0 /\ s.diskUsed <= s.diskTotal
  /\ s.uptime >= 0

\* The values as the columns hold them: NUMERIC(5, 2) rounds to hundredths.
Row(s) ==
  [c \in Columns |-> IF c = "cpu" THEN (s.cpu + 5) \div 10 ELSE s[c]]

\* The CHECKs of telemetry_samples.
Checked(row) ==
  /\ row["cpu"] >= 0 /\ row["cpu"] <= 10000
  /\ row["memoryTotal"] >= 0
  /\ row["memoryUsed"] >= 0 /\ row["memoryUsed"] <= row["memoryTotal"]
  /\ row["diskTotal"] >= 0
  /\ row["diskUsed"] >= 0 /\ row["diskUsed"] <= row["diskTotal"]
  /\ row["uptime"] >= 0

\* Wrong: the column memory_total_bytes is missing from the update.
UpsertedWithoutTotal(old, s) ==
  IF old = NoSample
  THEN Row(s)
  ELSE [Row(s) EXCEPT !["memoryTotal"] = old["memoryTotal"]]

\* The row the upsert leaves: INSERT, or DO UPDATE of every column.
Upserted(old, s) ==
  IF old = NoSample
  THEN Row(s)
  ELSE [c \in Columns |-> Row(s)[c]]

----------------------------------------------------------------------------

Init ==
  /\ rows = [u \in Microseconds |-> NoSample]
  /\ latest = [u \in Microseconds |-> NoSample]
  /\ answer = "open"

\* A telemetry message that is refused ends the stream.
Refuse(s) ==
  /\ answer = "open"
  /\ ~(Convertible(s) /\ Valid(s))
  /\ answer' = "InvalidArgument"
  /\ UNCHANGED <<rows, latest>>

\* TelemetryStore.Record: pgx cuts the time to the microsecond.
Record(s) ==
  /\ answer = "open"
  /\ Convertible(s) /\ Valid(s)
  /\ LET u == s.collected \div 2
         row == Upserted(rows[u], s)
     IN \/ /\ Checked(row)
           /\ rows' = [rows EXCEPT ![u] = row]
           /\ latest' = [latest EXCEPT ![u] = s]
           /\ UNCHANGED answer
        \/ /\ ~Checked(row)
           /\ answer' = "Internal"
           /\ UNCHANGED <<rows, latest>>

Next == \E s \in Sample : Refuse(s) \/ Record(s)

Spec == Init /\ [][Next]_vars

----------------------------------------------------------------------------

TypeOK ==
  /\ rows \in [Microseconds -> [Columns -> Int] \cup {NoSample}]
  /\ latest \in [Microseconds -> Sample \cup {NoSample}]
  /\ answer \in {"open", "InvalidArgument", "Internal"}

\* The service and the table agree on what a sample may be, before and after
\* the CPU usage is rounded and whatever the row held before: no sample that
\* validateSample accepts is refused by a CHECK and ends the stream with
\* Internal.
TableAccepts == answer # "Internal"

\* A row is one sample and never a mixture of two: of all samples that were
\* collected in its microsecond it holds every column of the one that was
\* acknowledged last.
RowIsOneSample ==
  \A u \in Microseconds :
    \/ rows[u] = NoSample /\ latest[u] = NoSample
    \/ /\ rows[u] # NoSample /\ latest[u] # NoSample
       /\ latest[u].collected \div 2 = u
       /\ rows[u] = Row(latest[u])

\* The invariant the proofs use: the properties are inductive together with the
\* types.
Inductive == TypeOK /\ TableAccepts /\ RowIsOneSample

============================================================================
