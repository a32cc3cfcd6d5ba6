----------------------- MODULE TelemetrySamples_proofs -----------------------
(***************************************************************************)
(* Proofs about TelemetrySamples, for every set of times, usages and       *)
(* quantities: the properties hold together, and together are inductive.   *)
(***************************************************************************)
EXTENDS TelemetrySamples, TLAPS

----------------------------------------------------------------------------

\* A valid sample makes a row of integers that the CHECKs accept: rounding
\* does not leave the range of NUMERIC(5, 2) from 0 to 100.
LEMMA ValidRow ==
  ASSUME NEW s \in Sample, Convertible(s), Valid(s)
  PROVE  Row(s) \in [Columns -> Int] /\ Checked(Row(s))
<1>1. /\ s.cpu \in Int /\ s.memoryTotal \in Int /\ s.memoryUsed \in Int
      /\ s.diskTotal \in Int /\ s.diskUsed \in Int /\ s.uptime \in Int
  <2>1. /\ s.cpu \in Usages \cup {NotANumber}
        /\ s.memoryTotal \in Quantities /\ s.memoryUsed \in Quantities
        /\ s.diskTotal \in Quantities /\ s.diskUsed \in Quantities
        /\ s.uptime \in Uptimes
    BY Zenon DEF Sample
  <2>2. s.cpu # NotANumber
    BY DEF Valid
  <2> QED
    BY <2>1, <2>2, SampleAssumption
<1>2. (s.cpu + 5) \div 10 \in Int /\ (s.cpu + 5) \div 10 >= 0
      /\ (s.cpu + 5) \div 10 <= 10000
  BY <1>1 DEF Valid
<1>3. /\ Row(s)["cpu"] = (s.cpu + 5) \div 10
      /\ Row(s)["memoryTotal"] = s.memoryTotal
      /\ Row(s)["memoryUsed"] = s.memoryUsed
      /\ Row(s)["diskTotal"] = s.diskTotal
      /\ Row(s)["diskUsed"] = s.diskUsed
      /\ Row(s)["uptime"] = s.uptime
  BY DEF Row, Columns
<1>4. Row(s) \in [Columns -> Int]
  BY <1>1, <1>2, <1>3 DEF Row, Columns
<1>5. Checked(Row(s))
  BY <1>1, <1>2, <1>3 DEF Checked, Valid
<1> QED
  BY <1>4, <1>5

\* Whatever the row held, the upsert replaces all of it.
LEMMA UpsertReplaces ==
  ASSUME NEW s, NEW old
  PROVE  Upserted(old, s) = Row(s)
BY DEF Upserted, Row

\* A sample that is accepted has a time the table has a microsecond for.
LEMMA ValidTime ==
  ASSUME NEW s \in Sample, Convertible(s), Valid(s)
  PROVE  s.collected \in Times /\ s.collected \div 2 \in Microseconds
BY DEF Sample, Convertible, Valid, Microseconds

LEMMA InitInductive == Init => Inductive
BY DEF Init, Inductive, TypeOK, TableAccepts, RowIsOneSample

LEMMA StepInductive == Inductive /\ [Next]_vars => Inductive'
<1> SUFFICES ASSUME Inductive, [Next]_vars PROVE Inductive'
  OBVIOUS
<1>1. ASSUME NEW s \in Sample, Refuse(s) PROVE Inductive'
  BY <1>1 DEF Refuse, Inductive, TypeOK, TableAccepts, RowIsOneSample
<1>2. ASSUME NEW s \in Sample, Record(s) PROVE Inductive'
  <2> DEFINE u == s.collected \div 2
  <2>1. Row(s) \in [Columns -> Int] /\ Checked(Row(s)) /\ u \in Microseconds
    BY <1>2, ValidRow, ValidTime DEF Record
  <2>2. /\ rows' = [rows EXCEPT ![u] = Row(s)]
        /\ latest' = [latest EXCEPT ![u] = s]
        /\ answer' = answer
    BY <1>2, <2>1, UpsertReplaces DEF Record
  <2>3. TypeOK' /\ TableAccepts'
    BY <2>1, <2>2 DEF Inductive, TypeOK, TableAccepts
  <2>4. ASSUME NEW v \in Microseconds
        PROVE  \/ rows'[v] = NoSample /\ latest'[v] = NoSample
               \/ /\ rows'[v] # NoSample /\ latest'[v] # NoSample
                  /\ latest'[v].collected \div 2 = v
                  /\ rows'[v] = Row(latest'[v])
    <3>1. CASE v = u
      <4>1. rows'[v] = Row(s) /\ latest'[v] = s
        BY <2>2, <3>1, <2>1 DEF Inductive, TypeOK
      <4>2. Row(s) # NoSample /\ s # NoSample
        BY <2>1, SampleAssumption
      <4> QED
        BY <4>1, <4>2, <3>1
    <3>2. CASE v # u
      <4>1. rows'[v] = rows[v] /\ latest'[v] = latest[v]
        BY <2>2, <3>2 DEF Inductive, TypeOK
      <4> QED
        BY <4>1 DEF Inductive, RowIsOneSample
    <3> QED
      BY <3>1, <3>2
  <2>5. RowIsOneSample'
    BY <2>4 DEF RowIsOneSample
  <2> QED
    BY <2>3, <2>5 DEF Inductive
<1>3. CASE UNCHANGED vars
  BY <1>3 DEF vars, Inductive, TypeOK, TableAccepts, RowIsOneSample
<1> QED
  BY <1>1, <1>2, <1>3 DEF Next

\* The types and the properties together, for all values a message can carry.
THEOREM InductiveInvariant == Spec => []Inductive
BY InitInductive, StepInductive, PTL DEF Spec

\* The service and the table agree on what a sample may be, for all times,
\* CPU usages and quantities a message can carry: no sample validateSample
\* accepts makes the server answer Internal.
THEOREM TableAcceptsAll == Spec => []TableAccepts
<1>1. Inductive => TableAccepts
  BY DEF Inductive
<1> QED
  BY <1>1, InductiveInvariant, PTL

\* Every row of telemetry_samples is one sample, the one that was acknowledged
\* last of those collected in its microsecond, and never a mixture.
THEOREM RowsAreSamples == Spec => []RowIsOneSample
<1>1. Inductive => RowIsOneSample
  BY DEF Inductive
<1> QED
  BY <1>1, InductiveInvariant, PTL

=============================================================================
