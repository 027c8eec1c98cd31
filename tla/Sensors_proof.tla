--------------------------- MODULE Sensors_proof ---------------------------
(***************************************************************************)
(* Proofs about what the sensors give the node to send.                    *)
(*                                                                         *)
(* GasGauge: the offset and the count of the chip cover the charge last    *)
(* reported; while nothing is misjudged they are equal to it.              *)
(*                                                                         *)
(* SensorReports: what was sent last tells what the last Update() left;    *)
(* of the encoding only that it gives back what was sent is supposed.      *)
(*                                                                         *)
(* SensorNode: with nanopb it does, by the theorems of Nanopb_proof, once  *)
(* for the submessages and once for the messages; what is encoded reading  *)
(* by reading is one message.                                              *)
(*                                                                         *)
(* FixRing: the ring of any size implements the sequence of the latest     *)
(* fixes.  Indices run backwards from top, so that a push shifts every one *)
(* of them by one place.                                                   *)
(*                                                                         *)
(* GpsReport: the time since the start of an acquisition is kept by every  *)
(* step that sets the clock, because the start is moved with it; what a    *)
(* report with a time to fix is made of was delivered since the start; and *)
(* until the ring is full the fixes lie in it one behind the other.        *)
(***************************************************************************)
EXTENDS SensorNode, GpsReport, SequenceTheorems, TLAPS

-----------------------------------------------------------------------------
(* The gas gauge                                                           *)

\* Without an alert, and after a failure, the next charge cannot be smaller.
Covered ==
  /\ read <= count
  /\ alerts = {} => charge <= offset + count
  /\ ~chargeState => charge <= offset

GaugeInv == GaugeTypeOK /\ Covered

LEMMA BelowSum == \A a, b, c \in Nat : a <= b => a <= b + c
OBVIOUS

LEMMA GaugeInitInv == GaugeInit => GaugeInv
<1> SUFFICES ASSUME GaugeInit PROVE GaugeInv
  OBVIOUS
<1>1. GaugeTypeOK
  <2>1. alerts \in SUBSET Alerts
    BY DEF GaugeInit, Alerts
  <2>2. 0 \in Nat /\ 0 \in 0..MaxMishaps
    BY DrawAssumption
  <2>3. QED BY <2>1, <2>2, Zenon DEF GaugeInit, GaugeTypeOK
<1>2. Covered
  <2>1. read = 0 /\ count = 0 /\ charge = 0 /\ offset = 0
    BY DEF GaugeInit
  <2>2. read <= count /\ charge <= offset + count /\ charge <= offset
    BY <2>1
  <2>3. QED BY <2>2, Zenon DEF Covered
<1>3. QED BY <1>1, <1>2 DEF GaugeInv

\* Both outcomes of Update().
LEMMA CountedInv ==
  ASSUME GaugeInv, Counted, alerts' = {}, UNCHANGED count
  PROVE  /\ charge' \in Nat /\ chargeState' \in BOOLEAN /\ valid' \in BOOLEAN /\ offset' \in Nat
         /\ read' \in Nat /\ drawn' \in Nat /\ disturbed' \in BOOLEAN
         /\ Covered' /\ charge' >= charge
<1>1. PICK base \in {charge, offset} :
        /\ offset' = base /\ charge' = base + count
        /\ alerts # {} => base = charge
        /\ alerts = {} => base = offset
  <2>1. CASE alerts # {}
    BY <2>1 DEF Counted
  <2>2. CASE alerts = {}
    BY <2>2 DEF Counted
  <2>3. QED BY <2>1, <2>2
<1>2. charge \in Nat /\ offset \in Nat /\ count \in Nat /\ drawn \in Nat /\ read \in Nat
  BY DEF GaugeInv, GaugeTypeOK
<1>3. read' = count /\ drawn' = drawn + (count - read) /\ chargeState' = TRUE /\ valid' = TRUE
  BY DEF Counted
<1>4. disturbed' \in BOOLEAN
  BY DEF Counted, GaugeInv, GaugeTypeOK
<1>5. charge' >= charge
  <2>1. CASE alerts # {}
    BY <1>1, <1>2, <2>1
  <2>2. CASE alerts = {}
    BY <1>1, <1>2, <2>2 DEF GaugeInv, Covered
  <2>3. QED BY <2>1, <2>2
<1>6. Covered'
  <2>1. read' <= count' /\ charge' <= offset' + count' /\ chargeState' = TRUE
    BY <1>1, <1>2, <1>3
  <2>2. QED BY <2>1, Zenon DEF Covered
<1>7. drawn' \in Nat
  BY <1>2, <1>3 DEF GaugeInv, Covered
<1>8. QED BY <1>1, <1>2, <1>3, <1>4, <1>5, <1>6, <1>7

LEMMA NotCountedInv ==
  ASSUME GaugeInv, NotCounted, UNCHANGED count
  PROVE  /\ charge' \in Nat /\ chargeState' \in BOOLEAN /\ valid' \in BOOLEAN /\ offset' \in Nat
         /\ read' \in Nat /\ drawn' \in Nat /\ disturbed' \in BOOLEAN
         /\ Covered' /\ charge' = charge
<1>1. charge \in Nat /\ offset \in Nat /\ count \in Nat /\ drawn \in Nat /\ read \in Nat
  BY DEF GaugeInv, GaugeTypeOK
<1>2. /\ charge' = charge /\ read' = read /\ drawn' = drawn
      /\ chargeState' = FALSE /\ valid' = FALSE
  BY DEF NotCounted
<1>3. offset' \in Nat /\ charge <= offset'
  <2>1. CASE chargeState
    BY <1>1, <2>1 DEF NotCounted
  <2>2. CASE ~chargeState
    BY <1>1, <2>2 DEF NotCounted, GaugeInv, Covered
  <2>3. QED BY <2>1, <2>2
<1>4. disturbed' \in BOOLEAN
  BY DEF NotCounted, GaugeInv, GaugeTypeOK
<1>5. Covered'
  <2>1. count' = count /\ read <= count
    BY DEF GaugeInv, Covered
  <2>2. read' <= count'
    BY <1>2, <2>1
  <2>3. charge' <= offset'
    BY <1>2, <1>3
  <2>4. charge' <= offset' + count'
    BY <1>1, <1>2, <1>3, <2>1, <2>3, BelowSum
  <2>5. QED BY <2>2, <2>3, <2>4, Zenon DEF Covered
<1>6. QED BY <1>1, <1>2, <1>3, <1>4, <1>5

\* What a step of the whole does to the charge.
LEMMA GaugeStep ==
  ASSUME GaugeInv, GaugeNext
  PROVE  GaugeInv' /\ (charge' >= charge \/ (~chargeState' /\ charge' = 0))
<1> USE DrawAssumption
<1>1. ASSUME Draw PROVE GaugeInv'
  <2>1. GaugeTypeOK'
    BY <1>1 DEF Draw, GaugeInv, GaugeTypeOK, gaugeVars, historyVars
  <2>2. Covered'
    BY <1>1 DEF Draw, GaugeInv, GaugeTypeOK, Covered, gaugeVars, historyVars
  <2>3. QED BY <2>1, <2>2 DEF GaugeInv
<1>2. ASSUME TakeOut PROVE GaugeInv'
  <2>1. GaugeTypeOK'
    <3>1. mishaps' \in 0..MaxMishaps
      BY <1>2 DEF TakeOut, Mishap, GaugeInv, GaugeTypeOK
    <3>2. QED BY <1>2, <3>1 DEF TakeOut, GaugeInv, GaugeTypeOK, gaugeVars, historyVars
  <2>2. Covered'
    BY <1>2 DEF TakeOut, GaugeInv, GaugeTypeOK, Covered, gaugeVars, historyVars
  <2>3. QED BY <2>1, <2>2 DEF GaugeInv
<1>3. ASSUME PutIn PROVE GaugeInv'
  <2>1. alerts' \in SUBSET Alerts /\ alerts' # {}
    BY <1>3 DEF PutIn, Alerts
  <2>2. GaugeTypeOK'
    BY <1>3, <2>1 DEF PutIn, GaugeInv, GaugeTypeOK, gaugeVars
  <2>3. Covered'
    BY <1>3, <2>1 DEF PutIn, GaugeInv, GaugeTypeOK, Covered, gaugeVars
  <2>4. QED BY <2>2, <2>3 DEF GaugeInv
<1>4. ASSUME Alert PROVE GaugeInv'
  <2>1. alerts' \in SUBSET Alerts /\ alerts' # {}
    BY <1>4 DEF Alert, Alerts
  <2>2. mishaps' \in 0..MaxMishaps
    BY <1>4 DEF Alert, Mishap, GaugeInv, GaugeTypeOK
  <2>3. GaugeTypeOK'
    BY <1>4, <2>1, <2>2 DEF Alert, GaugeInv, GaugeTypeOK, gaugeVars, historyVars
  <2>4. Covered'
    BY <1>4, <2>1 DEF Alert, GaugeInv, GaugeTypeOK, Covered, gaugeVars, historyVars
  <2>5. QED BY <2>3, <2>4 DEF GaugeInv
<1>5. ASSUME NEW failed \in SUBSET Reads, Update(failed), Commit \/ UNCHANGED flashOffset
      PROVE  GaugeInv' /\ charge' >= charge
  <2>1. /\ powered' \in BOOLEAN /\ count' \in Nat /\ count' = count /\ mishaps' \in 0..MaxMishaps
    BY <1>5 DEF Update, Failing, Mishap, GaugeInv, GaugeTypeOK
  <2>2. alerts' \in SUBSET Alerts
    BY <1>5 DEF Update, StatusRead, GaugeInv, GaugeTypeOK
  <2>3. /\ charge' \in Nat /\ chargeState' \in BOOLEAN /\ valid' \in BOOLEAN /\ offset' \in Nat
        /\ read' \in Nat /\ drawn' \in Nat /\ disturbed' \in BOOLEAN
        /\ Covered' /\ charge' >= charge
    <3>1. CASE failed = {}
      <4>1. alerts' = {} /\ Counted
        BY <1>5, <3>1 DEF Update, StatusRead
      <4>2. QED BY <2>1, <4>1, CountedInv
    <3>2. CASE failed # {}
      <4>1. NotCounted
        BY <1>5, <3>2 DEF Update
      <4>2. charge \in Nat
        BY DEF GaugeInv, GaugeTypeOK
      <4>3. QED BY <2>1, <4>1, <4>2, NotCountedInv
    <3>3. QED BY <3>1, <3>2
  <2>4. flashOffset' \in Nat
    BY <1>5, <2>3 DEF Commit, GaugeInv, GaugeTypeOK
  <2>5. QED BY <2>1, <2>2, <2>3, <2>4 DEF GaugeInv, GaugeTypeOK
<1>6. ASSUME Restart PROVE GaugeInv'
  <2>1. mishaps' \in 0..MaxMishaps
    BY <1>6 DEF Restart, Mishap, GaugeInv, GaugeTypeOK
  <2>2. GaugeTypeOK'
    BY <1>6, <2>1 DEF Restart, GaugeInv, GaugeTypeOK, chipVars
  <2>3. charge' = 0 /\ offset' \in Nat /\ count' \in Nat /\ read' <= count'
    BY <1>6 DEF Restart, GaugeInv, GaugeTypeOK, Covered, chipVars
  <2>4. charge' <= offset' + count' /\ charge' <= offset' /\ read' <= count'
    <3>1. charge' <= offset'
      BY <2>3
    <3>2. charge' <= offset' + count'
      BY <2>3, <3>1, BelowSum
    <3>3. QED BY <2>3, <3>1, <3>2
  <2>5. Covered'
    BY <2>4, Zenon DEF Covered
  <2>6. QED BY <2>2, <2>5 DEF GaugeInv
<1>7. charge \in Nat
  BY DEF GaugeInv, GaugeTypeOK
<1>8. CASE Draw \/ TakeOut \/ PutIn \/ Alert
  <2>1. charge' = charge
    BY <1>8 DEF Draw, TakeOut, PutIn, Alert, gaugeVars
  <2>2. QED BY <1>1, <1>2, <1>3, <1>4, <1>7, <1>8, <2>1
<1>9. CASE Restart
  BY <1>6, <1>9 DEF Restart
<1>10. QED BY <1>5, <1>8, <1>9 DEF GaugeNext, Chip

LEMMA GaugeStutter == GaugeInv /\ UNCHANGED chargeVars => GaugeInv'
BY DEF GaugeInv, GaugeTypeOK, Covered, chargeVars, chipVars, gaugeVars, historyVars

\* Every variable keeps its type: the sums stay natural numbers however the chip,
\* the bus and the node behave.
THEOREM TypeCorrect == GaugeSpec => []GaugeTypeOK
<1>1. GaugeInv /\ [GaugeNext]_chargeVars => GaugeInv'
  BY GaugeStep, GaugeStutter
<1>2. GaugeInv => GaugeTypeOK
  BY DEF GaugeInv
<1>3. QED BY <1>1, <1>2, GaugeInitInv, PTL DEF GaugeSpec

\* LTC::Update(): the reported charge never goes back but by a reset, whatever is
\* read as a loss of power and however often.
THEOREM NeverFalls == GaugeSpec => ChargeNeverFalls
<1>1. GaugeInv /\ [GaugeNext]_chargeVars => GaugeInv'
  BY GaugeStep, GaugeStutter
<1>2. GaugeInv /\ [GaugeNext]_chargeVars
        => [charge' >= charge \/ (~chargeState' /\ charge' = 0)]_chargeVars
  BY GaugeStep
<1>3. QED BY <1>1, <1>2, GaugeInitInv, PTL DEF GaugeSpec, ChargeNeverFalls

-----------------------------------------------------------------------------
\* While nothing has been misjudged, offset and the last count make the charge.
Exact ==
  ~disturbed =>
    /\ charge = drawn
    /\ powered /\ alerts = {} => charge = offset + read
    /\ ~chargeState => charge = offset
    /\ powered /\ ~chargeState => read = 0

LEMMA ExactStep ==
  ASSUME GaugeInv, Exact, GaugeNext
  PROVE  Exact'
<1>0. charge \in Nat /\ offset \in Nat /\ count \in Nat /\ drawn \in Nat /\ read \in Nat /\ read <= count
  BY DEF GaugeInv, GaugeTypeOK, Covered
<1>1. CASE Draw
  BY <1>1 DEF Draw, Exact, gaugeVars, historyVars
<1>2. CASE TakeOut
  BY <1>2 DEF TakeOut, Exact, gaugeVars, historyVars
<1>3. CASE PutIn
  <2>1. alerts' # {}
    BY <1>3 DEF PutIn
  <2>2. QED BY <1>3, <2>1 DEF PutIn, Exact, gaugeVars
<1>4. CASE Alert
  <2>1. alerts' # {}
    BY <1>4 DEF Alert, Alerts
  <2>2. QED BY <1>4, <2>1 DEF Alert, Exact, gaugeVars, historyVars
<1>5. ASSUME NEW failed \in SUBSET Reads, Update(failed), ~disturbed'
      PROVE  Exact'
  <2>1. powered' = powered /\ count' = count
    BY <1>5 DEF Update
  <2>2. CASE failed = {}
    <3>1. Counted /\ alerts' = {} /\ ~disturbed
      BY <1>5, <2>2 DEF Update, StatusRead, Counted
    <3>2. powered
      BY <1>5, <2>2 DEF Update, Failing, Reads
    <3>3. read' = count /\ drawn' = drawn + (count - read) /\ chargeState' = TRUE
      BY <3>1 DEF Counted
    <3>4. charge' = charge + (count - read) /\ charge' = offset' + count
      <4>1. CASE alerts # {}
        <5>1. read = 0
          BY <1>5, <3>1, <4>1 DEF Counted
        <5>2. offset' = charge /\ charge' = charge + count
          BY <3>1, <4>1 DEF Counted
        <5>3. QED BY <1>0, <5>1, <5>2
      <4>2. CASE alerts = {}
        <5>1. offset' = offset /\ charge' = offset + count
          BY <3>1, <4>2 DEF Counted
        <5>2. charge = offset + read
          BY <3>1, <3>2, <4>2 DEF Exact
        <5>3. QED BY <1>0, <5>1, <5>2
      <4>3. QED BY <4>1, <4>2
    <3>5. QED BY <1>0, <3>1, <3>3, <3>4 DEF Exact
  <2>3. CASE failed # {}
    <3>1. NotCounted /\ ~disturbed
      BY <1>5, <2>3 DEF Update, NotCounted
    <3>2. /\ charge' = charge /\ read' = read /\ drawn' = drawn /\ chargeState' = FALSE
      BY <3>1 DEF NotCounted
    <3>3. offset' = charge
      BY <3>1 DEF NotCounted, Exact
    <3>4. powered => read = 0
      BY <1>5, <3>1 DEF NotCounted, Exact
    <3>5. QED BY <1>0, <2>1, <3>1, <3>2, <3>3, <3>4 DEF Exact
  <2>4. QED BY <2>2, <2>3
<1>6. CASE disturbed'
  BY <1>6 DEF Exact
<1>7. CASE Restart
  BY <1>7, <1>6 DEF Restart
<1>8. QED BY <1>1, <1>2, <1>3, <1>4, <1>5, <1>6, <1>7 DEF GaugeNext, Chip

\* The charge in params.getChargeOffset() and the chip's count make up all that was
\* drawn, over any number of batteries, until something passes for a loss of power.
THEOREM TotalKept == GaugeSpec => []ChargeIsTotal
<1>1. GaugeInit => Exact
  BY DEF GaugeInit, Exact
<1>2. GaugeInv /\ [GaugeNext]_chargeVars => GaugeInv'
  BY GaugeStep, GaugeStutter
<1>3. Exact /\ UNCHANGED chargeVars => Exact'
  BY DEF Exact, chargeVars, chipVars, gaugeVars, historyVars
<1>4. GaugeInv /\ Exact /\ [GaugeNext]_chargeVars => Exact'
  BY <1>3, ExactStep
<1>5. Exact => ChargeIsTotal
  BY DEF Exact, ChargeIsTotal
<1>6. QED BY <1>1, <1>2, <1>4, <1>5, GaugeInitInv, PTL DEF GaugeSpec

-----------------------------------------------------------------------------
(* The reports of the sensors                                              *)

\* What a report says of the gauge, whose last Update() left valid and charge.
Told(readings, ok, c) ==
  /\ EachOnce(readings)
  /\ \A i \in DOMAIN readings :
       /\ readings[i][1] \in {<<4>>, <<5>>, <<6>>} =>
            IF ok THEN readings[i][2] = Nothing /\ readings[i][3] # Nothing
                  ELSE readings[i][2] = <<1>> /\ readings[i][3] = Nothing
       /\ ok /\ readings[i][1] = <<6>> => readings[i][3] = <<Thousand * c>>

LEMMA SomeReading ==
  ASSUME NEW id, NEW error, NEW value1
  PROVE  /\ SensorReading(id, error, value1)[1] = <<id>>
         /\ SensorReading(id, error, value1)[2] = error
         /\ SensorReading(id, error, value1)[3] = value1
BY DEF SensorReading

LEMMA NotNothing == \A v : <<v>> # Nothing
BY DEF Nothing

LEMMA OtherIds ==
  \A x, y \in Nat : <<x>> = <<y>> => x = y
OBVIOUS

\* A report that has one reading, not of the gauge; and one that was not sent.
LEMMA OneTold ==
  ASSUME NEW id \in Nat \ {4, 5, 6}, NEW value, NEW ok, NEW c
  PROVE  Told(<<SensorReading(id, Nothing, <<value>>)>>, ok, c)
<1> DEFINE r == SensorReading(id, Nothing, <<value>>)
<1>1. r[1] = <<id>>
  BY SomeReading
<1> HIDE DEF r
<1>2. r[1] \notin {<<4>>, <<5>>, <<6>>}
  BY <1>1, OtherIds
<1>3. DOMAIN <<r>> = {1} /\ <<r>>[1] = r
  OBVIOUS
<1> DEFINE s == <<r>>
<1>4. DOMAIN s = {1} /\ s[1] = r
  BY <1>3
<1> HIDE DEF s
<1>5. EachOnce(s)
  BY <1>4 DEF EachOnce
<1>6. Told(s, ok, c)
  BY <1>2, <1>4, <1>5, Zenon DEF Told
<1>7. QED BY <1>6 DEF s, r

LEMMA NoneTold == \A ok, c : Told(<<>>, ok, c)
<1>1. DOMAIN <<>> = {}
  OBVIOUS
<1> DEFINE s == <<>>
<1>2. DOMAIN s = {}
  BY <1>1
<1> HIDE DEF s
<1>3. \A ok, c : Told(s, ok, c)
  BY <1>2, Zenon DEF Told, EachOnce
<1>4. QED BY <1>3 DEF s

\* The alive report: the sensors in the order of their numbers.
LEMMA GaugeReadings ==
  ASSUME NEW id, NEW value
  PROVE  /\ GaugeReading(id, value)[1] = <<id>>
         /\ IF valid' THEN GaugeReading(id, value)[2] = Nothing /\ GaugeReading(id, value)[3] = <<value>>
                      ELSE GaugeReading(id, value)[2] = <<1>> /\ GaugeReading(id, value)[3] = Nothing
<1>1. CASE valid'
  <2>1. GaugeReading(id, value) = SensorReading(id, Nothing, <<value>>)
    BY <1>1 DEF GaugeReading
  <2>2. QED BY <1>1, <2>1, SomeReading
<1>2. CASE ~valid'
  <2>1. GaugeReading(id, value) = SensorReading(id, <<1>>, Nothing)
    BY <1>2 DEF GaugeReading
  <2>2. QED BY <1>2, <2>1, SomeReading
<1>3. QED BY <1>1, <1>2

\* Five readings, and perhaps a sixth.
LEMMA SeqDomain == ASSUME NEW S, NEW s \in Seq(S) PROVE DOMAIN s = 1..Len(s)
OBVIOUS

LEMMA FiveOrSix ==
  ASSUME NEW a, NEW b, NEW c, NEW d, NEW e, NEW f, NEW m,
         m = <<a, b, c, d, e>> \o <<f>> \/ m = <<a, b, c, d, e>> \o <<>>
  PROVE  \E n \in {5, 6} : /\ DOMAIN m = 1..n
                          /\ m[1] = a /\ m[2] = b /\ m[3] = c /\ m[4] = d /\ m[5] = e
                          /\ n = 6 => m[6] = f
<1>1. CASE m = <<a, b, c, d, e>> \o <<f>>
  <2> DEFINE S == {a, b, c, d, e, f}
             t == <<a, b, c, d, e>>
             u == <<f>>
  <2>1. t \in Seq(S) /\ u \in Seq(S) /\ Len(t) = 5 /\ Len(u) = 1 /\ u[1] = f
        /\ t[1] = a /\ t[2] = b /\ t[3] = c /\ t[4] = d /\ t[5] = e
    OBVIOUS
  <2>2. m = t \o u
    BY <1>1
  <2> HIDE DEF S, t, u
  <2>3. /\ m \in Seq(S) /\ Len(m) = Len(t) + Len(u)
        /\ \A x \in 1..Len(t) + Len(u) : m[x] = IF x <= Len(t) THEN t[x] ELSE u[x - Len(t)]
    BY <2>1, <2>2, ConcatProperties, Zenon
  <2>4. Len(m) = 6 /\ m[1] = t[1] /\ m[2] = t[2] /\ m[3] = t[3] /\ m[4] = t[4] /\ m[5] = t[5] /\ m[6] = u[1]
    BY <2>1, <2>3
  <2>5. DOMAIN m = 1..6
    BY <2>3, <2>4, SeqDomain, Zenon
  <2>6. QED BY <2>1, <2>4, <2>5
<1>2. CASE m = <<a, b, c, d, e>> \o <<>>
  <2>1. m = <<a, b, c, d, e>>
    BY <1>2
  <2>2. DOMAIN m = 1..5 /\ m[1] = a /\ m[2] = b /\ m[3] = c /\ m[4] = d /\ m[5] = e
    BY <2>1
  <2>3. QED BY <2>2
<1>3. QED BY <1>1, <1>2

\* The alive report: the sensors in the order of their numbers.
LEMMA AliveTold ==
  ASSUME NEW climate, NEW volt, NEW amp
  PROVE  Told(AliveMessage(climate, volt, amp), valid', charge')
<1> DEFINE a == TempReading(climate[1])
           b == HumReading(climate[2])
           c == GaugeReading(4, volt)
           d == GaugeReading(5, amp)
           e == GaugeReading(6, Thousand * charge')
           f == RetriesReading
           m == AliveMessage(climate, volt, amp)
<1>1. a[1] = <<2>> /\ b[1] = <<3>> /\ f[1] = <<8>>
  BY SomeReading DEF TempReading, HumReading, RetriesReading
<1>2. /\ c[1] = <<4>> /\ d[1] = <<5>> /\ e[1] = <<6>>
      /\ valid' => /\ c[2] = Nothing /\ d[2] = Nothing /\ e[2] = Nothing
                   /\ c[3] = <<volt>> /\ d[3] = <<amp>> /\ e[3] = <<Thousand * charge'>>
      /\ ~valid' => /\ c[2] = <<1>> /\ d[2] = <<1>> /\ e[2] = <<1>>
                    /\ c[3] = Nothing /\ d[3] = Nothing /\ e[3] = Nothing
  BY GaugeReadings
<1>3. m = <<a, b, c, d, e>> \o <<f>> \/ m = <<a, b, c, d, e>> \o <<>>
  BY Zenon DEF AliveMessage
<1> HIDE DEF a, b, c, d, e, f, m
<1>4. PICK n \in {5, 6} : /\ DOMAIN m = 1..n
                          /\ m[1] = a /\ m[2] = b /\ m[3] = c /\ m[4] = d /\ m[5] = e
                          /\ n = 6 => m[6] = f
  BY <1>3, FiveOrSix
<1>5. \A i \in 1..n : i = 1 \/ i = 2 \/ i = 3 \/ i = 4 \/ i = 5 \/ (i = 6 /\ n = 6)
  OBVIOUS
<1>6. EachOnce(m)
  <2>1. \A i \in 1..n : m[i][1] = <<IF i = 6 THEN 8 ELSE i + 1>>
    BY <1>1, <1>2, <1>4, <1>5
  <2>2. \A i, j \in 1..6 : i # j => (IF i = 6 THEN 8 ELSE i + 1) # (IF j = 6 THEN 8 ELSE j + 1)
    OBVIOUS
  <2>3. QED BY <1>4, <2>1, <2>2 DEF EachOnce
<1>7. \A i \in 1..n :
        /\ m[i][1] \in {<<4>>, <<5>>, <<6>>} => m[i] \in {c, d, e}
        /\ m[i][1] = <<6>> => m[i] = e
  <2>1. <<2>> \notin {<<4>>, <<5>>, <<6>>} /\ <<3>> \notin {<<4>>, <<5>>, <<6>>} /\ <<8>> \notin {<<4>>, <<5>>, <<6>>}
        /\ <<4>> # <<6>> /\ <<5>> # <<6>>
    OBVIOUS
  <2>2. QED BY <1>1, <1>2, <1>4, <1>5, <2>1
<1>8. Told(m, valid', charge')
  <2>1. <<volt>> # Nothing /\ <<amp>> # Nothing /\ <<Thousand * charge'>> # Nothing
    BY NotNothing
  <2>2. QED BY <1>2, <1>4, <1>6, <1>7, <2>1, Zenon DEF Told
<1>9. QED BY <1>8 DEF m

\* A commit writes the offset to flash, which the charge does not rest on until a reset.
LEMMA CommitStep ==
  ASSUME GaugeInv, UNCHANGED <<chipVars, gaugeVars, historyVars, mishaps>>, Commit \/ UNCHANGED flashOffset
  PROVE  GaugeInv' /\ (Exact => Exact')
<1>1. flashOffset' \in Nat
  BY DEF GaugeInv, GaugeTypeOK, Commit, gaugeVars
<1>2. QED BY <1>1 DEF GaugeInv, GaugeTypeOK, Covered, Exact, chipVars, gaugeVars, historyVars

\* transmit() sends all the readings or none.
LEMMA AllOrNone ==
  ASSUME NEW readings, Transmit(readings)
  PROVE  (sent' = readings \/ sent' = <<>>) /\ (Commit \/ UNCHANGED flashOffset)
BY DEF Transmit

LEMMA ReadsFail ==
  ASSUME NEW failed \in {{}, {"charge"}, {"status"}, Reads}
  PROVE  failed \in SUBSET Reads
BY DEF Reads

\* What a report does to the gauge is a step of the gauge's own, or only a commit.
LEMMA ReportsStep ==
  ASSUME ReportsNext
  PROVE  \/ GaugeNext
         \/ /\ UNCHANGED <<chipVars, gaugeVars, historyVars, mishaps>>
            /\ Commit \/ UNCHANGED flashOffset
<1>1. CASE AliveReport
  <2>1. PICK failed \in {{}, {"charge"}, {"status"}, Reads} :
          Update(failed) /\ \E readings : Transmit(readings)
    BY <1>1, Zenon DEF AliveReport
  <2>2. Commit \/ UNCHANGED flashOffset
    BY <2>1, AllOrNone
  <2>3. failed \in SUBSET Reads
    BY ReadsFail
  <2>4. QED BY <2>1, <2>2, <2>3, Zenon DEF GaugeNext
<1>2. CASE PowerReport
  <2>1. PICK failed \in {{}, {"charge"}, {"status"}, Reads} :
          Update(failed) /\ (Transmit(PowerlossMessage) \/ UNCHANGED flashOffset)
    BY <1>2 DEF PowerReport
  <2>2. Commit \/ UNCHANGED flashOffset
    BY <2>1, AllOrNone
  <2>3. failed \in SUBSET Reads
    BY ReadsFail
  <2>4. QED BY <2>1, <2>2, <2>3, Zenon DEF GaugeNext
<1>3. CASE EventReport
  <2>1. \E readings : Transmit(readings)
    BY <1>3, Zenon DEF EventReport
  <2>2. Commit \/ UNCHANGED flashOffset
    BY <2>1, AllOrNone
  <2>3. QED BY <1>3, <2>2 DEF EventReport
<1>4. CASE ChipOrRestart
  BY <1>4 DEF ChipOrRestart, GaugeNext
<1>5. QED BY <1>1, <1>2, <1>3, <1>4 DEF ReportsNext

\* Whatever is sent tells of the gauge what the Update() before it left.
LEMMA ToldStep ==
  ASSUME ReportsNext
  PROVE  Told(sent', valid', charge')
<1>1. CASE AliveReport
  <2>1. PICK climate \in Climates, volt \in Volts, amp \in Amps : Transmit(AliveMessage(climate, volt, amp))
    BY <1>1 DEF AliveReport
  <2>2. QED BY <2>1, AllOrNone, AliveTold, NoneTold
<1>2. CASE PowerReport
  <2>1. sent' = PowerlossMessage \/ sent' = <<>>
    BY <1>2, AllOrNone DEF PowerReport
  <2>2. Told(PowerlossMessage, valid', charge')
    BY OneTold DEF PowerlossMessage, PowerlossReading
  <2>3. QED BY <2>1, <2>2, NoneTold
<1>3. CASE EventReport
  <2>1. \/ \E no \in {1, 2}, pin \in {0, 1} : Transmit(SwitchMessage(no, pin))
        \/ Transmit(MoveMessage)
    BY <1>3 DEF EventReport
  <2>2. ASSUME NEW no \in {1, 2}, NEW pin \in {0, 1}
        PROVE  Told(SwitchMessage(no, pin), valid', charge')
    <3> DEFINE id == IF no = 1 THEN 1 ELSE 9
    <3>1. id \in Nat \ {4, 5, 6}
      OBVIOUS
    <3>2. SwitchMessage(no, pin) = <<SensorReading(id, Nothing, <<pin>>)>>
      BY DEF SwitchMessage, SwitchReading
    <3> HIDE DEF id
    <3>3. QED BY <3>1, <3>2, OneTold
  <2>3. Told(MoveMessage, valid', charge')
    BY OneTold DEF MoveMessage, MoveReading
  <2>4. QED BY <2>1, <2>2, <2>3, AllOrNone, NoneTold
<1>4. CASE ChipOrRestart
  BY <1>4, NoneTold DEF ChipOrRestart
<1>5. QED BY <1>1, <1>2, <1>3, <1>4 DEF ReportsNext

ReportsInv == GaugeInv /\ Exact /\ Told(sent, valid, charge)

LEMMA ReportsInitInv == ReportsInit => ReportsInv
<1> SUFFICES ASSUME ReportsInit PROVE ReportsInv
  OBVIOUS
<1>1. GaugeInit /\ sent = <<>>
  BY DEF ReportsInit
<1>2. GaugeInv
  BY <1>1, GaugeInitInv
<1>3. Exact
  BY <1>1 DEF GaugeInit, Exact
<1>4. Told(sent, valid, charge)
  BY <1>1, NoneTold
<1>5. QED BY <1>2, <1>3, <1>4 DEF ReportsInv

LEMMA ReportsKept == ReportsInv /\ [ReportsNext]_reportsVars => ReportsInv'
<1> SUFFICES ASSUME ReportsInv, [ReportsNext]_reportsVars PROVE ReportsInv'
  OBVIOUS
<1>1. CASE ReportsNext
  <2>1. GaugeInv' /\ Exact'
    BY <1>1, ReportsStep, GaugeStep, ExactStep, CommitStep DEF ReportsInv
  <2>2. Told(sent, valid, charge)'
    BY <1>1, ToldStep
  <2>3. QED BY <2>1, <2>2 DEF ReportsInv
<1>2. CASE UNCHANGED reportsVars
  <2>1. UNCHANGED chargeVars /\ sent' = sent
    BY <1>2 DEF reportsVars
  <2>2. GaugeInv'
    BY <2>1, GaugeStutter DEF ReportsInv
  <2>3. Exact'
    BY <2>1 DEF ReportsInv, Exact, chargeVars, chipVars, gaugeVars, historyVars
  <2>4. valid' = valid /\ charge' = charge
    BY <2>1 DEF chargeVars, gaugeVars
  <2>5. Told(sent', valid', charge')
    BY <2>1, <2>4 DEF ReportsInv
  <2>6. QED BY <2>2, <2>3, <2>5 DEF ReportsInv
<1>3. QED BY <1>1, <1>2

\* What the encoder and the decoder have to do for the theorems below: give back the
\* readings that were sent.  ReportsArrive has it for nanopb.
Arriving == sent # <<>> => Carried(Arrives(sent))

\* The callbacks of the sensors and updateAliveSendBuffer(): whatever was read or not,
\* a report has each sensor once, and of the gas gauge a value or an error for all three.
THEOREM FaultsSent == ReportsSpec => [](EachOnce(sent) /\ ValueOrError(sent))
<1>1. ReportsInv => EachOnce(sent) /\ ValueOrError(sent)
  BY DEF ReportsInv, Told, ValueOrError
<1>2. QED BY <1>1, ReportsInitInv, ReportsKept, PTL DEF ReportsSpec

\* And so has what an application gets; the first conjunct is what Arriving supposes.
THEOREM FaultsTold == ReportsSpec => [](Arriving => FaultsReported)
<1>1. EachOnce(sent) /\ ValueOrError(sent) /\ Arriving => FaultsReported
  <2> SUFFICES ASSUME EachOnce(sent), ValueOrError(sent), Arriving, sent # <<>>
               PROVE  /\ Carried(Arrives(sent)) /\ EachOnce(Arrives(sent).val[1])
                      /\ ValueOrError(Arrives(sent).val[1])
    BY DEF FaultsReported
  <2>1. Carried(Arrives(sent))
    BY DEF Arriving
  <2>2. Arrives(sent).val[1] = sent
    BY <2>1 DEF Carried
  <2>3. QED BY <2>1, <2>2
<1>2. QED BY <1>1, FaultsSent, PTL

\* From the chip to the application: while nothing passed for a loss of power, the charge
\* that arrives is all that was drawn, over any number of batteries and reports.
THEOREM ChargeArrives == ReportsSpec => [](Arriving => ArrivedChargeIsTotal)
<1>1. ReportsInv /\ Arriving => ArrivedChargeIsTotal
  <2> SUFFICES ASSUME ReportsInv, Arriving, sent # <<>>, ~disturbed,
                      NEW i \in DOMAIN Arrives(sent).val[1]
               PROVE  Arrives(sent).val[1][i][1] = <<6>> =>
                        Arrives(sent).val[1][i][3] \in {Nothing, <<Thousand * drawn>>}
    BY DEF ArrivedChargeIsTotal
  <2> HAVE Arrives(sent).val[1][i][1] = <<6>>
  <2>1. Arrives(sent).val[1] = sent
    BY DEF Arriving, Carried
  <2>2. i \in DOMAIN sent /\ sent[i][1] = <<6>>
    BY <2>1
  <2>3. charge = drawn
    BY DEF ReportsInv, Exact
  <2>4. valid => sent[i][3] = <<Thousand * drawn>>
    BY <2>2, <2>3, Zenon DEF ReportsInv, Told
  <2>5. ~valid => sent[i][3] = Nothing
    <3>1. sent[i][1] \in {<<4>>, <<5>>, <<6>>}
      BY <2>2
    <3>2. QED BY <2>2, <3>1, Zenon DEF ReportsInv, Told
  <2>6. QED BY <2>1, <2>4, <2>5
<1>2. QED BY <1>1, ReportsInitInv, ReportsKept, PTL DEF ReportsSpec

\* However reports, batteries, faults and resets follow each other, no report has a
\* charge smaller than the one before it, but after a reset.
THEOREM ReportedNeverFalls == ReportsSpec => ChargeNeverFalls
<1>1. ReportsInv /\ [ReportsNext]_reportsVars
        => [charge' >= charge \/ (~chargeState' /\ charge' = 0)]_chargeVars
  <2> SUFFICES ASSUME ReportsInv, ReportsNext
               PROVE  charge' >= charge \/ (~chargeState' /\ charge' = 0)
    BY DEF reportsVars
  <2>1. CASE GaugeNext
    BY <2>1, GaugeStep DEF ReportsInv
  <2>2. CASE UNCHANGED <<chipVars, gaugeVars, historyVars, mishaps>>
    BY <2>2 DEF ReportsInv, GaugeInv, GaugeTypeOK, gaugeVars
  <2>3. QED BY <2>1, <2>2, ReportsStep
<1>2. QED BY <1>1, ReportsInitInv, ReportsKept, PTL DEF ReportsSpec, ChargeNeverFalls

-----------------------------------------------------------------------------
(* The levels of a message                                                 *)

\* A submessage of one level, which is all that sensor.proto has, is given back.
LEMMA FlatLevel ==
  ASSUME Pb!WidthsOK
  PROVE  Flat!WidthsOK /\ Flat!GivesBack
<1>1. Flat!WidthsOK
  BY DEF Pb!WidthsOK, Flat!WidthsOK, Pb!Power, Flat!Power
<1>2. Flat!SubGivesBack
  BY DEF Flat!SubGivesBack, NoneOK
<1>3. QED BY <1>1, <1>2, Flat!MessageBack

\* And so the level with submessages may suppose that they are.
LEMMA PbLevel ==
  ASSUME Pb!WidthsOK
  PROVE  Pb!SubGivesBack
<1>1. Flat!GivesBack
  BY FlatLevel
<1>2. Pb!Bytes = Flat!Bytes /\ Pb!Stream = Flat!Stream
  BY DEF Pb!Bytes, Flat!Bytes, Pb!Stream, Flat!Stream
<1>3. Pb!Words(N32) = Flat!Words(N32)
  BY DEF Pb!Words, Flat!Words, Pb!Power, Flat!Power
<1>4. \A b, s, x : Pb!Holds(b, s, x) <=> Flat!Holds(b, s, x)
  BY DEF Pb!Holds, Flat!Holds
<1>5. \A d : Pb!Defaults(d) = Flat!Defaults(d)
  BY DEF Pb!Defaults, Flat!Defaults
<1>6. \A ok, val, s : Pb!Got(ok, val, s) = Flat!Got(ok, val, s)
  BY DEF Pb!Got, Flat!Got
<1>7. \A s, n : Pb!Skip(s, n) = Flat!Skip(s, n)
  BY DEF Pb!Skip, Flat!Skip
<1>8. ASSUME NEW d, NEW v, Flat!MessageOK(d, v)
      PROVE  /\ Flat!Encoded(d, v) \in Seq(Pb!Bytes) /\ Len(Flat!Encoded(d, v)) < Pb!Words(N32)
             /\ \A b : \A s \in Pb!Stream :
                  Pb!Holds(b, s, Flat!Encoded(d, v)) /\ s.left = Len(Flat!Encoded(d, v))
                  => Flat!Decoded(b, s, d, Pb!Defaults(d)) = Pb!Got(TRUE, v, Pb!Skip(s, s.left))
  <2>1. /\ Flat!Encoded(d, v) \in Seq(Flat!Bytes) /\ Len(Flat!Encoded(d, v)) < Flat!Words(N32)
        /\ \A b : \A s \in Flat!Stream :
             Flat!Holds(b, s, Flat!Encoded(d, v)) /\ s.left = Len(Flat!Encoded(d, v))
             => Flat!Decoded(b, s, d, Flat!Defaults(d)) = Flat!Got(TRUE, v, Flat!Skip(s, s.left))
    BY <1>1, <1>8 DEF Flat!GivesBack
  <2>2. QED BY <2>1, <1>2, <1>3, <1>4, <1>5, <1>6, <1>7, Zenon
<1>9. QED BY <1>8 DEF Pb!SubGivesBack

-----------------------------------------------------------------------------
(* The messages of others                                                  *)

\* The message of others, if there is one, is one of those that a program may have.
OtherOK == other = <<>> \/ \E fields \in Descriptors : \E m \in Messages(fields) : other = <<fields, m>>

\* Whatever steps there are, the message stays one of these.
LEMMA OtherKept ==
  /\ MessagesInit => OtherOK
  /\ OtherOK /\ [MessagesNext]_messagesVars => OtherOK'
<1>1. MessagesInit => OtherOK
  BY DEF MessagesInit, OtherOK
<1>2. OtherOK /\ [MessagesNext]_messagesVars => OtherOK'
  BY DEF MessagesNext, OtherMessage, messagesVars, OtherOK
<1>3. QED BY <1>1, <1>2

\* It is a message as its descriptor wants it.
LEMMA OtherIsMessage ==
  ASSUME OtherOK, other # <<>>
  PROVE  Pb!MessageOK(other[1], other[2])
<1>1. PICK fields \in Descriptors : \E m \in Messages(fields) : other = <<fields, m>>
  BY Zenon DEF OtherOK
<1>2. PICK m \in Messages(fields) : other = <<fields, m>>
  BY <1>1
<1>3. Pb!MessageOK(fields, m)
  BY MessagesAssumption, Zenon
<1>4. other[1] = fields /\ other[2] = m
  BY <1>2
<1>5. QED BY <1>3, <1>4, Zenon

\* pb_decode() of what pb_encode() wrote, for every descriptor and message that a program may
\* have: every field comes back with its values, and all the bytes are used up.
THEOREM AllGivenBack == MessagesSpec => []RoundTrip
<1>1. OtherOK => RoundTrip
  <2> SUFFICES ASSUME OtherOK, other # <<>> PROVE Pb!GivenBack(other[1], other[2])
    BY DEF RoundTrip
  <2>1. Pb!WidthsOK
    BY MessagesAssumption
  <2>2. QED BY <2>1, PbLevel, OtherIsMessage, Pb!AlwaysGivenBack
<1>2. QED BY <1>1, OtherKept, PTL DEF MessagesSpec

\* pb_skip_field(): a receiver that lacks any one of the fields finds all the others.
THEOREM AllSkipped == MessagesSpec => []UnknownSkipped
<1>1. OtherOK => UnknownSkipped
  <2> SUFFICES ASSUME OtherOK, other # <<>> PROVE Pb!SkippedBy(other[1], other[2])
    BY DEF UnknownSkipped
  <2>1. Pb!WidthsOK
    BY MessagesAssumption
  <2>2. QED BY <2>1, PbLevel, OtherIsMessage, Pb!AlwaysSkipped
<1>2. QED BY <1>1, OtherKept, PTL DEF MessagesSpec

-----------------------------------------------------------------------------
(* The messages of the node: from the sensors to the application           *)

\* Readings that the structure of a NodeMessage can hold, and the send buffer their bytes.
Fits(readings) ==
  /\ Pb!MessageOK(NodeMessageFields, <<readings>>)
  /\ Len(Pb!Encoded(NodeMessageFields, <<readings>>)) <= BufferSize

\* The one field of a NodeMessage.
ReadingField == Field(1, "submessage", "repeated", 0, SensorReadingFields)

\* The buffer at the beginning, and once a reading was added.
EmptyBuffer == [stream |-> Pb!OStream(BufferSize), size |-> 0]
Added(b, reading) == Extended(b, Pb!Encode(b.stream, NodeMessageFields, <<<<reading>>>>))

\* updateAliveSendBuffer(): the buffer after each of the readings.
LEMMA SendBufferIs ==
  ASSUME NEW readings, Len(readings) \in Nat
  PROVE  \E b : /\ SendBuffer(readings) = Contents(b[Len(readings)])
                /\ b[0] = EmptyBuffer
                /\ \A i \in 1..Len(readings) : b[i] = Added(b[i - 1], readings[i])
<1> DEFINE n == Len(readings)
           zero == EmptyBuffer
           Step(x, i) == Added(x, readings[i])
           F(m, p) == [i \in 0..m |-> IF i = 0 THEN zero ELSE Step(p[i - 1], i)]
           S == {m \in Nat : \E p : p = F(m, p)}
           r == CHOOSE p : p = F(n, p)
<1>1. SendBuffer(readings) = Contents(r[n])
  BY DEF SendBuffer, EmptyBuffer, Added
<1> HIDE DEF zero, Step
<1>2. 0 \in S
  <2> DEFINE p == [i \in 0..0 |-> zero]
  <2>1. p = F(0, p)
    OBVIOUS
  <2>2. QED BY <2>1
<1>3. ASSUME NEW m \in Nat, m \in S PROVE m + 1 \in S
  <2>1. PICK p : p = F(m, p)
    BY <1>3
  <2> DEFINE q == [i \in 0..(m + 1) |-> IF i = m + 1 THEN Step(p[m], i) ELSE p[i]]
  <2>2. \A i \in 0..m : p[i] = IF i = 0 THEN zero ELSE Step(p[i - 1], i)
    BY <2>1
  <2>3. \A i \in 0..(m + 1) : q[i] = IF i = 0 THEN zero ELSE Step(q[i - 1], i)
    BY <2>2
  <2>4. q = F(m + 1, q) /\ m + 1 \in Nat
    BY <2>3
  <2> HIDE DEF q
  <2>5. QED BY <2>4, Zenon
<1>4. n \in S
  <2> HIDE DEF S
  <2>1. QED BY <1>2, <1>3, Pb!NatInd
<1>5. r = F(n, r)
  BY <1>4, Zenon
<1> HIDE DEF r
<1>6. r[0] = zero /\ \A i \in 1..n : r[i] = Step(r[i - 1], i)
  BY <1>5
<1>7. QED BY <1>1, <1>6, Zenon DEF zero, Step

\* What a buffer is once it holds bytes, all of them encoded.
Holding(x) == [stream |-> [out |-> x, max |-> BufferSize, ok |-> TRUE], size |-> Len(x)]

\* pb_encode() into what is left of the send buffer puts a reading behind the others, if there
\* is room.
LEMMA AddedBehind ==
  ASSUME Pb!WidthsOK, BufferSize \in Nat, NEW reading,
         Pb!FieldOK(ReadingField), Pb!ValueOK(ReadingField, reading),
         NEW x \in Seq(Pb!Bytes), Len(x) + Len(Pb!Single(ReadingField, reading)) <= BufferSize
  PROVE  Added(Holding(x), reading) = Holding(x \o Pb!Single(ReadingField, reading))
<1> DEFINE f == ReadingField
           s == [out |-> x, max |-> BufferSize, ok |-> TRUE]
           w == Pb!Tagged(f, reading)
           y == Pb!Single(f, reading)
<1>1. f.htype = "repeated" /\ ~Pb!Packed(f) /\ 0 < f.max
  BY DEF ReadingField, Field, Pb!Packed, Pb!Numeric
<1>2. NodeMessageFields = <<f>>
  BY DEF NodeMessageFields, ReadingField
<1> HIDE DEF f
<1>3. /\ Pb!EncodeMessage(<<f>>, <<<<reading>>>>) = w
      /\ w \in Seq(Seq(Pb!Bytes)) /\ Pb!FlattenSeq(w) \in Seq(Pb!Bytes)
      /\ y = Pb!FlattenSeq(w)
  BY <1>1, PbLevel, Pb!SingleIs DEF f
<1>4. s.out = x /\ s.max = BufferSize
  OBVIOUS
<1> HIDE DEF w, y
<1>5. Len(s.out) + Len(Pb!FlattenSeq(w)) <= s.max
  BY <1>3, <1>4 DEF y, f
<1>6. Pb!WriteAll(s, w) = [s EXCEPT !.out = @ \o Pb!FlattenSeq(w), !.ok = TRUE]
  <2>1. s.out \in Seq(Pb!Bytes) /\ s.max \in Nat
    OBVIOUS
  <2> HIDE DEF s
  <2>2. QED BY <1>3, <1>5, <2>1, Pb!AllWritten
<1>7. Pb!WriteAll(s, w) = [out |-> x \o y, max |-> BufferSize, ok |-> TRUE]
  BY <1>3, <1>6
<1>8. Pb!Encode(s, NodeMessageFields, <<<<reading>>>>) = [out |-> x \o y, max |-> BufferSize, ok |-> TRUE]
  BY <1>2, <1>3, <1>7, Zenon DEF Pb!Encode
<1>9. Holding(x).stream = s
  BY DEF Holding
<1> DEFINE t == [out |-> x \o y, max |-> BufferSize, ok |-> TRUE]
<1>10. Added(Holding(x), reading) = Extended(Holding(x), t)
  BY <1>8, <1>9, Zenon DEF Added
<1>11. Extended(Holding(x), t) = Holding(x \o y)
  BY DEF Extended, Holding
<1>12. QED BY <1>10, <1>11 DEF y, f

\* Readings encoded one by one are the bytes of one NodeMessage with all of them.
LEMMA BufferIs ==
  ASSUME Pb!WidthsOK, BufferSize \in Nat, NEW readings, Fits(readings)
  PROVE  SendBuffer(readings) = Pb!Encoded(NodeMessageFields, <<readings>>)
<1> DEFINE f == ReadingField
           n == Len(readings)
           Y == [i \in 1..n |-> Pb!Single(f, readings[i])]
<1>1. NodeMessageFields = <<f>>
  BY DEF NodeMessageFields, ReadingField
<1>2. f.htype = "repeated" /\ ~Pb!Packed(f)
  BY DEF ReadingField, Field, Pb!Packed, Pb!Numeric
<1> HIDE DEF f
<1>3. Pb!MessageOK(<<f>>, <<readings>>) /\ Len(Pb!Encoded(<<f>>, <<readings>>)) <= BufferSize
  BY <1>1, Zenon DEF Fits
<1>4. /\ Pb!IsSeq(readings)
      /\ \A i \in 1..n : Pb!FieldOK(f) /\ Pb!ValueOK(f, readings[i])
      /\ Y \in Seq(Seq(Pb!Bytes)) /\ Len(Y) = n
      /\ Pb!Encoded(<<f>>, <<readings>>) = Pb!FlattenSeq(Y)
  BY <1>2, <1>3, PbLevel, Pb!OneByOne
<1>5. n \in Nat /\ \A i \in 1..n : Y[i] = Pb!Single(f, readings[i])
  BY <1>4 DEF Pb!IsSeq
<1> HIDE DEF Y
<1>6. PICK b : /\ SendBuffer(readings) = Contents(b[n])
               /\ b[0] = EmptyBuffer
               /\ \A i \in 1..n : b[i] = Added(b[i - 1], readings[i])
  BY <1>5, SendBufferIs, Zenon
<1>7. PICK p \in [0..Len(Y) -> Seq(Pb!Bytes)] :
        /\ Pb!FlattenSeq(Y) = p[Len(Y)] /\ p[0] = <<>>
        /\ \A i \in 1..Len(Y) : p[i] = p[i - 1] \o Y[i]
  BY <1>4, Pb!FlattenIs, Zenon
<1>8. PICK o : Pb!PiecesAre(o, Y)
  BY <1>4, Pb!FlattenPieces, Zenon
<1> DEFINE T == {i \in Nat : i <= n => b[i] = Holding(p[i]) /\ Len(p[i]) = o[i]}
<1>9. 0 \in T
  <2>1. b[0] = Holding(p[0])
    BY <1>6, <1>7 DEF EmptyBuffer, Holding, Pb!OStream
  <2>2. o[0] = 0 /\ Len(p[0]) = 0
    BY <1>7, <1>8 DEF Pb!PiecesAre
  <2>3. QED BY <2>1, <2>2
<1>10. ASSUME NEW i \in Nat, i \in T PROVE i + 1 \in T
  <2> SUFFICES ASSUME i + 1 <= n PROVE b[i + 1] = Holding(p[i + 1]) /\ Len(p[i + 1]) = o[i + 1]
    OBVIOUS
  <2>1. i + 1 \in 1..n /\ (i + 1) - 1 = i /\ i \in 0..n /\ i <= n
    BY <1>5
  <2>2. b[i] = Holding(p[i]) /\ Len(p[i]) = o[i] /\ p[i] \in Seq(Pb!Bytes)
    BY <1>4, <1>7, <1>10, <2>1
  <2> DEFINE y == Pb!Single(f, readings[i + 1])
  <2>3. b[i + 1] = Added(b[i], readings[i + 1]) /\ p[i + 1] = p[i] \o y /\ Y[i + 1] = y
    BY <1>4, <1>5, <1>6, <1>7, <2>1, Zenon
  <2>4. y \in Seq(Pb!Bytes) /\ Len(y) \in Nat
    BY <1>4, <2>1, <2>3, ElementOfSeq, LenProperties
  <2> HIDE DEF y
  <2>5. o[i + 1] = o[i] + Len(y) /\ o[i + 1] <= o[n] /\ o[n] <= BufferSize
    <3>1. o[i + 1] = o[(i + 1) - 1] + Len(Y[i + 1]) /\ o[i + 1] <= o[n]
      BY <1>4, <1>8, <2>1, Zenon DEF Pb!PiecesAre
    <3>2. o[n] = Len(Pb!FlattenSeq(Y))
      BY <1>4, <1>8, Zenon DEF Pb!PiecesAre
    <3>3. QED BY <1>3, <1>4, <2>1, <2>3, <3>1, <3>2
  <2>6. Len(p[i + 1]) = o[i + 1]
    BY <2>2, <2>3, <2>4, <2>5
  <2>7. Len(p[i]) + Len(y) <= BufferSize
    <3>1. o[i] \in Nat /\ o[i + 1] \in Nat /\ o[n] \in Nat
      <4>1. o \in [0..n -> Nat]
        BY <1>4, <1>8, Zenon DEF Pb!PiecesAre
      <4>2. i \in 0..n /\ i + 1 \in 0..n /\ n \in 0..n
        BY <1>5, <2>1
      <4>3. QED BY <4>1, <4>2, Zenon
    <3>2. QED BY <2>2, <2>4, <2>5, <3>1
  <2>8. Added(Holding(p[i]), readings[i + 1]) = Holding(p[i] \o y)
    BY <1>4, <2>1, <2>2, <2>7, AddedBehind DEF y, f
  <2>9. QED BY <2>2, <2>3, <2>6, <2>8, Zenon
<1>11. b[n] = Holding(p[n])
  <2> HIDE DEF T
  <2>1. n \in T
    BY <1>5, <1>9, <1>10, Pb!NatInd
  <2>2. QED BY <1>5, <2>1 DEF T
<1>12. p[n] \in Seq(Pb!Bytes)
  BY <1>4, <1>5, <1>7
<1>13. Contents(b[n]) = p[n]
  <2>1. Contents(b[n]) = SubSeq(p[n], 1, Len(p[n]))
    BY <1>11 DEF Contents, Holding
  <2>2. SubSeq(p[n], 1, Len(p[n])) = p[n]
    BY <1>12
  <2>3. QED BY <2>1, <2>2, Zenon
<1>14. p[n] = Pb!Encoded(<<f>>, <<readings>>)
  BY <1>4, <1>7, Zenon
<1>15. QED BY <1>1, <1>6, <1>13, <1>14, Zenon

\* What the application decodes are the readings that were put into the buffer.
LEMMA ReadingsArrive ==
  ASSUME Pb!WidthsOK, BufferSize \in Nat, NEW readings, Fits(readings)
  PROVE  Arrived(readings).ok /\ Arrived(readings).val = <<readings>>
<1> DEFINE x == Pb!Encoded(NodeMessageFields, <<readings>>)
           r == Pb!Decode(x, NodeMessageFields)
<1>1. SendBuffer(readings) = x
  BY BufferIs
<1>2. Arrived(readings) = r
  BY <1>1 DEF Arrived
<1>3. Pb!GivenBack(NodeMessageFields, <<readings>>)
  BY PbLevel, Pb!AlwaysGivenBack DEF Fits
<1>4. Pb!Gives(r, <<readings>>)
  BY <1>3, Zenon DEF Pb!GivenBack
<1>5. QED BY <1>2, <1>4, Zenon DEF Pb!Gives

\* Every step of this module is a step of the reports, or one that leaves them alone.
LEMMA MessagesAreReports ==
  /\ MessagesInit => ReportsInit
  /\ [MessagesNext]_messagesVars => [ReportsNext]_reportsVars
<1>1. MessagesInit => ReportsInit
  BY DEF MessagesInit
<1>2. [MessagesNext]_messagesVars => [ReportsNext]_reportsVars
  BY DEF MessagesNext, OtherMessage, messagesVars
<1>3. QED BY <1>1, <1>2

\* From the sensors to the application: with the nodes' encoder and decoder between them, and
\* as long as the readings fit, every report tells of each fault, and of all the charge.
THEOREM ReportsArrive ==
  MessagesSpec => []((sent # <<>> => Fits(sent) /\ Arrives(sent) = Arrived(sent))
                     => FaultsReported /\ ArrivedChargeIsTotal)
<1>1. (sent # <<>> => Fits(sent) /\ Arrives(sent) = Arrived(sent)) => Arriving
  BY MessagesAssumption, ReadingsArrive DEF Arriving, Carried
<1>2. MessagesSpec => ReportsSpec
  BY MessagesAreReports, PTL DEF MessagesSpec, ReportsSpec
<1>3. QED BY <1>1, <1>2, FaultsTold, ChargeArrives, PTL

-----------------------------------------------------------------------------
(* The ring of fixes                                                       *)

LEMMA ModBelow == ASSUME NEW n \in Nat \ {0}, NEW x \in Int, 0 <= x, x < n PROVE x % n = x
OBVIOUS

LEMMA ModNegative == ASSUME NEW n \in Nat \ {0}, NEW x \in Int, -n <= x, x < 0 PROVE x % n = x + n
OBVIOUS

\* The place k steps behind t.
Behind(t, k) == IF k <= t THEN t - k ELSE t - k + Size

LEMMA BehindIsMod ==
  ASSUME NEW t \in Slots, NEW k \in Slots
  PROVE  (t - k) % Size = Behind(t, k) /\ Behind(t, k) \in Slots
<1>1. CASE k <= t
  BY <1>1, ModBelow, SizeAssumption DEF Slots, Behind
<1>2. CASE ~(k <= t)
  <2>1. t - k \in Int /\ -Size <= t - k /\ t - k < 0
    BY <1>2, SizeAssumption DEF Slots
  <2>2. (t - k) % Size = t - k + Size
    BY <2>1, ModNegative, SizeAssumption
  <2>3. QED BY <1>2, <2>2, SizeAssumption DEF Slots, Behind
<1>3. QED BY <1>1, <1>2

\* top moves on by one place, around the end.
LEMMA TopMoves ==
  ASSUME NEW t \in Slots
  PROVE  (t + 1) % Size = IF t + 1 = Size THEN 0 ELSE t + 1
<1>1. CASE t + 1 = Size
  BY <1>1, SizeAssumption DEF Slots
<1>2. CASE t + 1 # Size
  BY <1>2, ModBelow, SizeAssumption DEF Slots
<1>3. QED BY <1>1, <1>2

LEMMA TopType == ASSUME NEW t \in Slots PROVE (t + 1) % Size \in Slots
BY TopMoves, SizeAssumption DEF Slots

LEMMA BehindMoved ==
  ASSUME NEW t \in Slots, NEW k \in Slots, k # 0
  PROVE  /\ Behind((t + 1) % Size, k) = Behind(t, k - 1)
         /\ Behind((t + 1) % Size, k) # (t + 1) % Size
<1>1. CASE t + 1 = Size
  BY <1>1, TopMoves, SizeAssumption DEF Slots, Behind
<1>2. CASE t + 1 # Size
  <2>1. (t + 1) % Size = t + 1 /\ t \in Nat /\ k \in Nat /\ k < Size /\ Size \in Nat
    BY <1>2, TopMoves, SizeAssumption DEF Slots
  <2>2. CASE k <= t + 1
    BY <2>1, <2>2, SizeAssumption DEF Behind
  <2>3. CASE ~(k <= t + 1)
    BY <2>1, <2>3, SizeAssumption DEF Behind
  <2>4. QED BY <2>2, <2>3
<1>3. QED BY <1>1, <1>2

LEMMA PushType ==
  ASSUME RingTypeOK, NEW v \in Fixes, RingPush(v)
  PROVE  RingTypeOK'
<1>1. top' \in Slots
  BY TopType DEF RingTypeOK, RingPush
<1>2. bottom' \in Slots
  BY TopType DEF RingTypeOK, RingPush
<1>3. data' \in [Slots -> Fixes \cup {NoFix}]
  BY DEF RingTypeOK, RingPush
<1>4. validItemCount' \in 0..Size
  BY SizeAssumption DEF RingTypeOK, RingPush
<1>5. QED BY <1>1, <1>2, <1>3, <1>4 DEF RingTypeOK

\* The records and their number stay what they are, and the indices in the ring.
THEOREM RingTypeCorrect == RingSpec => []RingTypeOK
<1>1. RingInit => RingTypeOK
  BY SizeAssumption DEF RingInit, RingTypeOK, Slots
<1>2. RingTypeOK /\ [\E v \in Fixes : RingPush(v)]_ring => RingTypeOK'
  <2>1. RingTypeOK /\ UNCHANGED ring => RingTypeOK'
    BY DEF RingTypeOK, ring
  <2>2. QED BY <2>1, PushType
<1>3. QED BY <1>1, <1>2, PTL DEF RingSpec

-----------------------------------------------------------------------------
\* A push is the push of the sequence.
LEMMA PushShifts ==
  ASSUME RingTypeOK, NEW v \in Fixes, RingPush(v)
  PROVE  Latest!Push(v)
<1>1. RingTypeOK'
  BY PushType
<1>2. top \in Slots /\ top' \in Slots /\ top' = (top + 1) % Size
  BY <1>1 DEF RingTypeOK, RingPush
<1>3. /\ validItemCount \in 0..Size
      /\ validItemCount' = IF validItemCount = Size THEN Size ELSE validItemCount + 1
  BY DEF RingTypeOK, RingPush
<1>4. data' = [data EXCEPT ![top'] = v] /\ data \in [Slots -> Fixes \cup {NoFix}]
  BY DEF RingTypeOK, RingPush
<1>5. ASSUME NEW k \in Slots
      PROVE  Kept'[k] = IF k = 0 THEN v ELSE Kept[k - 1]
  <2>1. Kept'[k] = IF k < validItemCount' THEN data'[(top' - k) % Size] ELSE NoFix
    BY DEF Kept
  <2>2. (top' - k) % Size = Behind(top', k) /\ Behind(top', k) \in Slots
    BY <1>2, BehindIsMod
  <2>3. CASE k = 0
    <3>1. Behind(top', k) = top' /\ k < validItemCount'
      BY <1>2, <1>3, <2>3, SizeAssumption DEF Behind, Slots
    <3>2. QED BY <1>2, <1>4, <2>1, <2>2, <2>3, <3>1
  <2>4. CASE k # 0
    <3>1. k - 1 \in Slots
      BY <2>4, SizeAssumption DEF Slots
    <3>2. Behind(top', k) = Behind(top, k - 1) /\ Behind(top', k) # top'
      BY <1>2, <2>4, BehindMoved
    <3>3. (top - (k - 1)) % Size = Behind(top, k - 1)
      BY <1>2, <3>1, BehindIsMod
    <3>4. Kept[k - 1] = IF k - 1 < validItemCount THEN data[(top - (k - 1)) % Size] ELSE NoFix
      BY <3>1 DEF Kept
    <3>5. k < validItemCount' <=> k - 1 < validItemCount
      BY <1>3, <2>4, SizeAssumption DEF Slots
    <3>6. data'[Behind(top', k)] = data[Behind(top', k)]
      BY <1>4, <2>2, <3>2
    <3>7. QED BY <2>1, <2>2, <2>4, <3>2, <3>3, <3>4, <3>5, <3>6
  <2>5. QED BY <2>3, <2>4
<1>6. Kept' = [k \in Slots |-> IF k = 0 THEN v ELSE Kept[k - 1]]
  <2>1. Kept' = [k \in Slots |-> Kept'[k]]
    BY DEF Kept
  <2>2. QED BY <1>5, <2>1
<1>7. QED BY <1>6 DEF Latest!Push, Slots

\* gpsFixLiFoRingBuffer: read back from top, a ring of any size holds the latest
\* fixes, latest first, whatever has been pushed and however often it has wrapped.
THEOREM LatestKept == RingSpec => RingKeepsLatest
<1>1. RingInit => Latest!Init
  <2>1. RingInit => Kept = [k \in Slots |-> NoFix]
    BY SizeAssumption DEF RingInit, Kept, Slots
  <2>2. QED BY <2>1 DEF Latest!Init, Slots
<1>2. RingTypeOK /\ [\E v \in Fixes : RingPush(v)]_ring => [Latest!Next]_Kept
  <2>1. ASSUME RingTypeOK, NEW v \in Fixes, RingPush(v) PROVE Latest!Next
    BY <2>1, PushShifts DEF Latest!Next
  <2>2. UNCHANGED ring => UNCHANGED Kept
    BY DEF ring, Kept
  <2>3. QED BY <2>1, <2>2
<1>3. QED BY <1>1, <1>2, RingTypeCorrect, PTL DEF RingSpec, RingKeepsLatest, Latest!Spec

-----------------------------------------------------------------------------
(* The GPS report: times                                                   *)

LEMMA ModAbove ==
  ASSUME NEW n \in Nat \ {0}, NEW x \in Int, n <= x, x < 2 * n
  PROVE  x % n = x - n
OBVIOUS

Times == 0..(ClockMod - 1)

LEMMA ClockModType == ClockMod \in Nat \ {0} /\ GpsTimeout \in Nat /\ GpsTimeout + 1 < ClockMod
BY TimesAssumption

\* The time from s to c, around the end.
Span(c, s) == IF s <= c THEN c - s ELSE c - s + ClockMod

LEMMA SpanIsMod ==
  ASSUME NEW c \in Times, NEW s \in Times
  PROVE  (c - s) % ClockMod = Span(c, s) /\ Span(c, s) \in Times
<1>1. CASE s <= c
  BY <1>1, ModBelow, ClockModType DEF Times, Span
<1>2. CASE ~(s <= c)
  <2>1. c - s \in Int /\ -ClockMod <= c - s /\ c - s < 0
    BY <1>2, ClockModType DEF Times
  <2>2. (c - s) % ClockMod = c - s + ClockMod
    BY <2>1, ModNegative, ClockModType
  <2>3. QED BY <1>2, <2>2, ClockModType DEF Times, Span
<1>3. QED BY <1>1, <1>2

\* A tick of the clock makes it one longer.
LEMMA SpanTicks ==
  ASSUME NEW c \in Times, NEW s \in Times, Span(c, s) <= GpsTimeout
  PROVE  /\ (c + 1) % ClockMod \in Times
         /\ Span((c + 1) % ClockMod, s) = Span(c, s) + 1
<1> DEFINE d == (c + 1) % ClockMod
<1>1. d = IF c + 1 = ClockMod THEN 0 ELSE c + 1
  <2>1. CASE c + 1 = ClockMod
    <3>1. ClockMod % ClockMod = 0
      BY ModAbove, ClockModType
    <3>2. QED BY <2>1, <3>1
  <2>2. CASE c + 1 # ClockMod
    BY <2>2, ModBelow, ClockModType DEF Times
  <2>3. QED BY <2>1, <2>2
<1>2. d \in Times
  BY <1>1, ClockModType DEF Times
<1>3. Span(d, s) = Span(c, s) + 1
  <2>1. CASE c + 1 = ClockMod
    BY <1>1, <2>1, ClockModType DEF Times, Span
  <2>2. CASE c + 1 # ClockMod
    <3>1. d = c + 1
      BY <1>1, <2>2
    <3>2. CASE s <= c
      BY <3>1, <3>2, ClockModType DEF Times, Span
    <3>3. CASE ~(s <= c)
      BY <3>1, <3>3, ClockModType DEF Times, Span
    <3>4. QED BY <3>2, <3>3
  <2>3. QED BY <2>1, <2>2
<1>4. QED BY <1>2, <1>3

\* The start moves with the clock: the span is the same.
LEMMA SpanMoves ==
  ASSUME NEW c \in Times, NEW s \in Times, NEW d \in Times
  PROVE  /\ (s + d - c) % ClockMod \in Times
         /\ Span(d, (s + d - c) % ClockMod) = Span(c, s)
<1> DEFINE x == s + d - c
           r == x % ClockMod
<1>1. x \in Int /\ -ClockMod <= x /\ x < 2 * ClockMod
  BY ClockModType DEF Times
<1>2. CASE x < 0
  <2>1. r = x + ClockMod
    BY <1>1, <1>2, ModNegative, ClockModType
  <2>2. QED BY <1>2, <2>1, ClockModType DEF Times, Span
<1>3. CASE 0 <= x /\ x < ClockMod
  <2>1. r = x
    BY <1>1, <1>3, ModBelow, ClockModType
  <2>2. QED BY <1>3, <2>1, ClockModType DEF Times, Span
<1>4. CASE ClockMod <= x
  <2>1. r = x - ClockMod
    BY <1>1, <1>4, ModAbove, ClockModType
  <2>2. QED BY <1>4, <2>1, ClockModType DEF Times, Span
<1>5. QED BY <1>1, <1>2, <1>3, <1>4, ClockModType

-----------------------------------------------------------------------------
(* The invariant                                                           *)

Pending == [pos : {NoFix} \cup Fixes, nav : {NoFix} \cup Fixes, timeToFix : 0..NoTimeToFix]

\* TypeOK without the buffer, and pending as a record.
ReportType ==
  /\ RingTypeOK
  /\ pc \in {"idle", "acquire", "report", "copy", "transmit"}
  /\ clock \in Times /\ startTime \in Times
  /\ elapsed \in 0..(GpsTimeout + 1)
  /\ pending \in Pending
  /\ isNew \in BOOLEAN /\ funcNavPvt \in BOOLEAN
  /\ uploadCount \in UploadCounts
  /\ sendBufferSize \in 0..BufferCells
  /\ fixes \in 0..MaxFixes /\ before \in 0..fixes /\ reports \in 0..MaxReports

\* The start and the clock agree with the time that has passed.
Timed == pc \in {"acquire", "report"} => Span(clock, startTime) = elapsed

\* A fix that ended the acquisition came in since it began.
OwnFix ==
  pc = "report" /\ isNew =>
    pending.pos \in Fixes /\ pending.pos > before /\ pending.nav = pending.pos

Finished ==
  pc \in {"copy", "transmit"} /\ pending.timeToFix # NoTimeToFix =>
    /\ pending.pos > before /\ pending.nav = pending.pos
    /\ pending.timeToFix = elapsed

ReportInv == ReportType /\ Timed /\ OwnFix /\ Finished

\* FillReport leaves the record, or puts the next fix into it.
LEMMA FillReportType ==
  ASSUME ReportType, FillReport
  PROVE  /\ pending' \in Pending /\ isNew' \in BOOLEAN
         /\ fixes' \in 0..MaxFixes /\ fixes' >= fixes /\ before \in 0..fixes'
         /\ fixes' > fixes => /\ isNew' = TRUE
                              /\ pending'.pos = fixes' /\ pending'.nav = fixes'
                              /\ fixes' \in Fixes
<1>1. fixes \in Nat /\ MaxFixes \in Nat /\ Fixes = 1..MaxFixes /\ before \in 0..fixes
  BY BoundsAssumption, PositionsAssumption DEF ReportType
<1>2. CASE UNCHANGED <<fixes, pending, isNew>>
  BY <1>1, <1>2 DEF ReportType
<1>3. CASE /\ fixes < MaxFixes /\ fixes' = fixes + 1
           /\ pending' = [pending EXCEPT !.pos = fixes', !.nav = fixes']
           /\ isNew' = TRUE
  <2>1. fixes' \in Fixes /\ fixes' \in 0..MaxFixes /\ fixes' > fixes /\ before \in 0..fixes'
    BY <1>1, <1>3
  <2>2. pending' \in Pending /\ pending'.pos = fixes' /\ pending'.nav = fixes'
    BY <1>3, <2>1 DEF ReportType, Pending
  <2>3. fixes' >= fixes
    BY <1>1, <1>3
  <2>4. isNew' = TRUE
    BY <1>3
  <2>5. QED BY <2>1, <2>2, <2>3, <2>4, Zenon
<1>4. QED BY <1>2, <1>3 DEF FillReport

LEMMA SyncClockType == ReportType /\ SyncClock => clock' \in Times
BY DEF ReportType, SyncClock, Times

-----------------------------------------------------------------------------
(* The steps                                                               *)

LEMMA InitReport == Init => ReportInv
<1> SUFFICES ASSUME Init PROVE ReportInv
  OBVIOUS
<1>1. RingTypeOK
  BY SizeAssumption DEF Init, RingInit, RingTypeOK, Slots
<1>2. 0 \in Times /\ 0 \in 0..(GpsTimeout + 1) /\ 0 \in 0..MaxFixes /\ 0 \in 0..0
      /\ 0 \in 0..MaxReports /\ 0 \in 0..NoTimeToFix
  BY TimesAssumption, BoundsAssumption DEF Times
<1>3. pending \in Pending
  BY <1>2 DEF Init, Pending
<1>4. 0 \in 0..BufferCells
  BY SizeAssumption DEF BufferCells, OwnCells, FixCells
<1>5. pc = "idle" /\ clock \in Times /\ startTime \in Times /\ elapsed \in 0..(GpsTimeout + 1)
      /\ uploadCount \in UploadCounts /\ sendBufferSize \in 0..BufferCells
      /\ fixes \in 0..MaxFixes /\ before \in 0..fixes /\ reports \in 0..MaxReports
  BY <1>2, <1>4 DEF Init
<1>6. isNew \in BOOLEAN /\ funcNavPvt \in BOOLEAN
  BY DEF Init
<1>7. ReportType
  BY <1>1, <1>3, <1>5, <1>6 DEF ReportType
<1>8. QED BY <1>5, <1>7 DEF ReportInv, Timed, OwnFix, Finished

LEMMA TickInv ==
  ASSUME ReportInv, Tick
  PROVE  ReportInv'
<1>1. clock \in Times /\ startTime \in Times /\ elapsed \in 0..(GpsTimeout + 1)
  BY DEF ReportInv, ReportType
<1>2. clock' = (clock + 1) % ClockMod /\ startTime' = startTime /\ pc' = pc
  BY DEF Tick
<1>3. RingTypeOK'
  BY DEF Tick, ReportInv, ReportType, RingTypeOK, ring
<1>4. clock' \in Times
  <2>1. clock + 1 \in 0..ClockMod
    BY <1>1, ClockModType DEF Times
  <2>2. CASE clock + 1 = ClockMod
    BY <1>2, <2>2, ModAbove, ClockModType DEF Times
  <2>3. CASE clock + 1 # ClockMod
    BY <1>1, <1>2, <2>3, ModBelow, ClockModType DEF Times
  <2>4. QED BY <2>2, <2>3
<1>5. elapsed' \in 0..(GpsTimeout + 1) /\ Timed'
  <2>1. CASE pc = "idle"
    BY <1>1, <1>2, <2>1 DEF Tick, Timed
  <2>2. CASE pc = "acquire"
    <3>1. Since(startTime) = Span(clock, startTime)
      BY <1>1, SpanIsMod DEF Since
    <3>2. Span(clock, startTime) = elapsed
      BY <2>2 DEF ReportInv, Timed
    <3>3. elapsed <= GpsTimeout /\ elapsed' = elapsed + 1
      BY <2>2, <3>1, <3>2 DEF Tick
    <3>4. Span(clock', startTime) = elapsed + 1
      BY <1>1, <1>2, <3>2, <3>3, SpanTicks
    <3>5. QED BY <1>1, <1>2, <3>3, <3>4, ClockModType DEF Timed
  <2>3. QED BY <2>1, <2>2 DEF Tick
<1>6. /\ UNCHANGED <<pending, isNew, funcNavPvt, uploadCount, sendBufferSize, reports, fixes, before>>
  BY DEF Tick, buffer
<1>7. ReportType'
  BY <1>1, <1>2, <1>3, <1>4, <1>5, <1>6 DEF ReportInv, ReportType
<1>8. OwnFix' /\ Finished'
  <2>1. pc' \notin {"report", "copy", "transmit"}
    BY <1>2 DEF Tick
  <2>2. QED BY <2>1 DEF OwnFix, Finished
<1>9. QED BY <1>5, <1>7, <1>8 DEF ReportInv

LEMMA StartInv ==
  ASSUME ReportInv, Start
  PROVE  ReportInv'
<1>1. RingTypeOK'
  BY DEF Start, ReportInv, ReportType, RingTypeOK, ring
<1>2. pc' = "acquire" /\ startTime' = clock' /\ elapsed' = 0 /\ before' = fixes'
      /\ uploadCount' = uploadCount /\ sendBufferSize' = sendBufferSize
  BY DEF Start, buffer
<1>3. funcNavPvt' \in BOOLEAN
  BY DEF Start, ReportInv, ReportType
<1>4. reports' \in 0..MaxReports
  BY BoundsAssumption DEF Start, ReportInv, ReportType
<1>5. clock' \in Times /\ pending' \in Pending /\ isNew' \in BOOLEAN /\ fixes' \in 0..MaxFixes
  <2>1. CASE funcNavPvt
    <3>1. SyncClock /\ FillReport
      BY <2>1 DEF Start
    <3>2. QED BY <3>1, SyncClockType, FillReportType DEF ReportInv
  <2>2. CASE ~funcNavPvt
    BY <2>2 DEF Start, ReportInv, ReportType
  <2>3. QED BY <2>1, <2>2
<1>6. 0 \in 0..(GpsTimeout + 1) /\ fixes' \in 0..fixes' /\ Span(clock', clock') = 0
  <2>1. 0 \in 0..(GpsTimeout + 1)
    BY ClockModType
  <2>2. \A n \in 0..MaxFixes : n \in 0..n
    BY BoundsAssumption
  <2>3. \A c \in Times : Span(c, c) = 0
    BY ClockModType DEF Times, Span
  <2>4. QED BY <1>5, <2>1, <2>2, <2>3
<1>7. uploadCount' \in UploadCounts /\ sendBufferSize' \in 0..BufferCells
  BY <1>2 DEF ReportInv, ReportType
<1>8. ReportType'
  BY <1>1, <1>2, <1>3, <1>4, <1>5, <1>6, <1>7 DEF ReportType
<1>9. QED BY <1>2, <1>6, <1>8 DEF ReportInv, Timed, OwnFix, Finished

LEMMA GetPeriodicInv ==
  ASSUME ReportInv, GetPeriodic
  PROVE  ReportInv'
<1>1. RingTypeOK'
  BY DEF GetPeriodic, ReportInv, ReportType, RingTypeOK, ring
<1>2. clock' \in Times
  BY SyncClockType DEF GetPeriodic, ReportInv
<1>3. /\ pending' \in Pending /\ isNew' \in BOOLEAN
      /\ fixes' \in 0..MaxFixes /\ fixes' >= fixes /\ before \in 0..fixes'
      /\ fixes' > fixes => /\ isNew' = TRUE
                           /\ pending'.pos = fixes' /\ pending'.nav = fixes'
                           /\ fixes' \in Fixes
  BY FillReportType DEF GetPeriodic, ReportInv
<1>4. clock \in Times /\ startTime \in Times /\ pc = "acquire"
  BY DEF ReportInv, ReportType, GetPeriodic
<1>5. startTime' \in Times /\ Span(clock', startTime') = Span(clock, startTime)
  BY <1>2, <1>4, SpanMoves DEF GetPeriodic
<1>6. /\ elapsed' = elapsed /\ before' = before /\ reports' = reports
      /\ funcNavPvt' = funcNavPvt /\ uploadCount' = uploadCount /\ sendBufferSize' = sendBufferSize
      /\ pc' = IF fixes' > fixes THEN "report" ELSE "acquire"
  BY DEF GetPeriodic, buffer
<1>7. pc' \in {"idle", "acquire", "report", "copy", "transmit"} /\ before' \in 0..fixes'
  BY <1>3, <1>6
<1>8. elapsed' \in 0..(GpsTimeout + 1) /\ reports' \in 0..MaxReports /\ funcNavPvt' \in BOOLEAN
      /\ uploadCount' \in UploadCounts /\ sendBufferSize' \in 0..BufferCells
  BY <1>6 DEF ReportInv, ReportType
<1>9. ReportType'
  BY <1>1, <1>2, <1>3, <1>5, <1>7, <1>8 DEF ReportType
<1>10. Timed'
  BY <1>4, <1>5, <1>6 DEF ReportInv, Timed
<1>11. OwnFix'
  <2>1. SUFFICES ASSUME fixes' > fixes
                 PROVE  pending'.pos \in Fixes /\ pending'.pos > before' /\ pending'.nav = pending'.pos
    BY <1>6 DEF OwnFix
  <2>2. fixes' > before
    BY <1>3, <2>1, BoundsAssumption DEF ReportInv, ReportType
  <2>3. QED BY <1>3, <1>6, <2>1, <2>2
<1>12. Finished'
  BY <1>6 DEF Finished
<1>13. QED BY <1>9, <1>10, <1>11, <1>12 DEF ReportInv

LEMMA GiveUpInv ==
  ASSUME ReportInv, GiveUp
  PROVE  ReportInv'
<1>1. RingTypeOK'
  BY DEF GiveUp, ReportInv, ReportType, RingTypeOK, ring
<1>2. /\ pc = "acquire" /\ pc' = "report" /\ ~isNew' /\ isNew' \in BOOLEAN
      /\ UNCHANGED <<clock, startTime, elapsed, pending, funcNavPvt, uploadCount,
                     sendBufferSize, reports, fixes, before>>
  BY DEF GiveUp, times, buffer
<1>3. ReportType'
  BY <1>1, <1>2 DEF ReportInv, ReportType
<1>4. Timed'
  BY <1>2 DEF ReportInv, Timed
<1>5. OwnFix' /\ Finished'
  BY <1>2 DEF OwnFix, Finished
<1>6. QED BY <1>3, <1>4, <1>5 DEF ReportInv

\* The first peek is at the top.
LEMMA PeekTop == RingTypeOK => PeekIndex(0) = top
<1> SUFFICES ASSUME RingTypeOK PROVE PeekIndex(0) = top
  OBVIOUS
<1>1. top \in Int /\ 0 <= top /\ top < Size
  BY SizeAssumption DEF RingTypeOK, Slots
<1>2. top - 0 = top
  BY <1>1
<1>3. QED BY <1>1, <1>2, ModBelow, SizeAssumption DEF PeekIndex, CRem

LEMMA FillReportRecordInv ==
  ASSUME ReportInv, FillReportRecord
  PROVE  /\ ReportInv'
         /\ (\E v \in Fixes : RingPush(v)) \/ UNCHANGED ring
<1>1. RingTypeOK /\ pending \in Pending /\ isNew \in BOOLEAN
  BY DEF ReportInv, ReportType
<1>2. /\ pc = "report" /\ pc' = "copy"
      /\ UNCHANGED <<clock, startTime, elapsed, isNew, funcNavPvt, uploadCount,
                     sendBufferSize, reports, fixes, before>>
  BY DEF FillReportRecord, times, buffer
<1>3. RingTypeOK' /\ ((\E v \in Fixes : RingPush(v)) \/ UNCHANGED ring)
  <2>1. CASE isNew
    <3>1. pending.pos \in Fixes /\ RingPush(pending.pos)
      BY <1>2, <2>1 DEF FillReportRecord, FillRest, ReportInv, OwnFix
    <3>2. QED BY <1>1, <3>1, PushType
  <2>2. CASE ~isNew
    <3>1. UNCHANGED ring
      BY <2>2 DEF FillReportRecord, FillRest
    <3>2. QED BY <1>1, <3>1 DEF RingTypeOK, ring
  <2>3. QED BY <2>1, <2>2
<1>4. pending' \in Pending /\ (pending'.timeToFix # NoTimeToFix =>
                                 /\ pending'.pos > before /\ pending'.nav = pending'.pos
                                 /\ pending'.timeToFix = elapsed)
  <2>1. CASE isNew
    <3>1. Since(startTime) = elapsed
      BY <1>2, SpanIsMod DEF ReportInv, ReportType, Timed, Since
    <3>2. elapsed \in Nat /\ elapsed < NoTimeToFix + 1 /\ NoTimeToFix \in Nat
      BY TimesAssumption DEF ReportInv, ReportType
    <3>3. elapsed % (NoTimeToFix + 1) = elapsed /\ elapsed \in 0..NoTimeToFix
      BY <3>2, ModBelow
    <3>4. pending' = [pending EXCEPT !.timeToFix = elapsed, !.pos = @]
      BY <2>1, <3>1, <3>3 DEF FillReportRecord, FillRest
    <3>5. /\ pending' \in Pending /\ pending'.pos = pending.pos
          /\ pending'.nav = pending.nav /\ pending'.timeToFix = elapsed
      BY <1>1, <3>3, <3>4 DEF Pending
    <3>6. pending.pos > before /\ pending.nav = pending.pos
      BY <1>2, <2>1 DEF ReportInv, OwnFix
    <3>7. QED BY <3>5, <3>6
  <2>2. CASE ~isNew
    <3> DEFINE p == IF CanPeek(0) THEN data[PeekIndex(0)] ELSE NoFix
    <3>1. p \in {NoFix} \cup Fixes
      BY <1>1, PeekTop DEF RingTypeOK
    <3>2. NoTimeToFix \in 0..NoTimeToFix
      BY TimesAssumption
    <3>3. pending' = [pending EXCEPT !.timeToFix = NoTimeToFix, !.pos = p]
      BY <2>2 DEF FillReportRecord, FillRest
    <3>4. QED BY <1>1, <3>1, <3>2, <3>3 DEF Pending
  <2>3. QED BY <2>1, <2>2
<1>5. ReportType'
  BY <1>2, <1>3, <1>4 DEF ReportInv, ReportType
<1>6. Timed' /\ OwnFix'
  BY <1>2 DEF Timed, OwnFix
<1>7. Finished'
  BY <1>2, <1>4 DEF Finished
<1>8. QED BY <1>3, <1>5, <1>6, <1>7 DEF ReportInv

\* What is appended fits.
LEMMA EarlierLength ==
  ASSUME ReportType, NEW s \in Earlier
  PROVE  OwnCells + FixCells * Len(s) \in 0..BufferCells
<1>1. PICK n \in 0..(uploadCount - 1) : s \in [1..n -> Fixes \cup {Garbage}]
  BY DEF Earlier
<1>2. uploadCount \in 1..Size
  BY CountsAssumption DEF ReportType
<1>3. n \in Nat /\ n <= Size - 1
  BY <1>1, <1>2, SizeAssumption
<1>4. s \in Seq(Fixes \cup {Garbage}) /\ Len(s) = n
  BY <1>1, <1>3
<1>5. QED BY <1>3, <1>4, SizeAssumption DEF OwnCells, FixCells, BufferCells

LEMMA UpdateGpsSendBufferInv ==
  ASSUME ReportInv, UpdateGpsSendBuffer
  PROVE  ReportInv'
<1>1. RingTypeOK'
  BY DEF UpdateGpsSendBuffer, ReportInv, ReportType, RingTypeOK, ring
<1>2. /\ pc = "copy" /\ pc' = "transmit"
      /\ UNCHANGED <<clock, startTime, elapsed, pending, isNew, funcNavPvt, uploadCount,
                     reports, fixes, before>>
  BY DEF UpdateGpsSendBuffer, times
<1>3. sendBufferSize' \in 0..BufferCells
  BY EarlierLength DEF UpdateGpsSendBuffer, ReportInv
<1>4. ReportType'
  BY <1>1, <1>2, <1>3 DEF ReportInv, ReportType
<1>5. Timed' /\ OwnFix'
  BY <1>2 DEF Timed, OwnFix
<1>6. Finished'
  BY <1>2 DEF ReportInv, Finished
<1>7. QED BY <1>4, <1>5, <1>6 DEF ReportInv

LEMMA TransmittedInv ==
  ASSUME ReportInv, Transmitted
  PROVE  ReportInv'
<1>1. RingTypeOK'
  BY DEF Transmitted, ReportInv, ReportType, RingTypeOK, ring
<1>2. /\ pc' = "idle"
      /\ UNCHANGED <<clock, startTime, elapsed, pending, isNew, funcNavPvt, uploadCount,
                     sendBufferSize, reports, fixes, before>>
  BY DEF Transmitted, times, buffer
<1>3. ReportType'
  BY <1>1, <1>2 DEF ReportInv, ReportType
<1>4. QED BY <1>2, <1>3 DEF ReportInv, Timed, OwnFix, Finished

LEMMA NextInv == ReportInv /\ [Next]_vars => ReportInv'
<1>1. ASSUME ReportInv, UNCHANGED vars PROVE ReportInv'
  <2>1. UNCHANGED <<pc, ring, clock, startTime, elapsed, pending, isNew, funcNavPvt, uploadCount,
                    sendBufferSize, reports, fixes, before>>
    BY <1>1 DEF vars, times, buffer
  <2>2. RingTypeOK'
    BY <1>1, <2>1 DEF ReportInv, ReportType, RingTypeOK, ring
  <2>3. ReportType'
    BY <1>1, <2>1, <2>2 DEF ReportInv, ReportType
  <2>4. QED BY <1>1, <2>1, <2>3 DEF ReportInv, Timed, OwnFix, Finished
<1>2. QED BY <1>1, TickInv, StartInv, GetPeriodicInv, GiveUpInv, FillReportRecordInv,
             UpdateGpsSendBufferInv, TransmittedInv DEF Next

THEOREM ReportInvariant == Spec => []ReportInv
BY InitReport, NextInv, PTL DEF Spec

-----------------------------------------------------------------------------
(* What is sent                                                            *)

\* Until the ring is full the fixes lie in it from 1 to top, and nothing at 0.
RingFilled ==
  validItemCount < Size =>
    /\ top = validItemCount /\ data[0] = NoFix
    /\ \A i \in 1..validItemCount : data[i] \in Fixes

OwnIsLatest ==
  pc \in {"copy", "transmit"} /\ validItemCount # 0 => pending.pos = data[top]

\* What an earlier report has left behind the end of this one is an age.
AgesInPlace ==
  \A i \in 1..BufferCells :
    i > OwnCells /\ (i - OwnCells) % FixCells = 0 => sendBuffer[i].kind # "pos"

SendInv == ReportInv /\ RingFilled /\ OwnIsLatest /\ AgesInPlace /\ PositionsSent

LEMMA PushFills ==
  ASSUME RingTypeOK, RingFilled, NEW v \in Fixes, RingPush(v)
  PROVE  RingFilled' /\ data'[top'] = v
<1>1. /\ top \in Slots /\ validItemCount \in 0..Size /\ data \in [Slots -> Fixes \cup {NoFix}]
      /\ top' = (top + 1) % Size /\ data' = [data EXCEPT ![top'] = v]
      /\ validItemCount' = IF validItemCount = Size THEN Size ELSE validItemCount + 1
  BY DEF RingTypeOK, RingPush
<1>2. top' \in Slots
  BY <1>1, TopType
<1>3. ASSUME validItemCount' < Size PROVE RingFilled'
  <2>1. validItemCount + 1 < Size /\ validItemCount' = validItemCount + 1 /\ validItemCount \in Nat
    BY <1>1, <1>3, SizeAssumption
  <2>2. top = validItemCount /\ data[0] = NoFix /\ \A i \in 1..validItemCount : data[i] \in Fixes
    BY <2>1, SizeAssumption DEF RingFilled
  <2>3. top' = validItemCount'
    BY <1>1, <2>1, <2>2, TopMoves
  <2>4. data'[0] = NoFix
    BY <1>1, <2>1, <2>2, <2>3, SizeAssumption DEF Slots
  <2>5. \A i \in 1..validItemCount' : data'[i] \in Fixes
    BY <1>1, <2>1, <2>2, <2>3, SizeAssumption DEF Slots
  <2>6. QED BY <2>3, <2>4, <2>5 DEF RingFilled
<1>4. QED BY <1>1, <1>2, <1>3 DEF RingFilled

\* Until the ring is full every peek is in it, and the one too far gives no fix.
LEMMA PeekedUnfilled ==
  ASSUME RingTypeOK, RingFilled, validItemCount \in 1..(Size - 1), NEW i \in Nat
  PROVE  /\ i < validItemCount => Peeked(i) = {data[top - i]} /\ Kept[i] = data[top - i]
         /\ i >= validItemCount => Peeked(i) = {NoFix}
<1>1. top = validItemCount /\ data[0] = NoFix /\ Size \in Nat \ {0}
  BY SizeAssumption DEF RingFilled
<1>2. ASSUME i <= validItemCount PROVE Peeked(i) = {data[top - i]}
  <2>1. top - i \in Int /\ 0 <= top - i /\ top - i < Size /\ top - i \in Slots
    BY <1>1, <1>2 DEF Slots
  <2>2. PeekIndex(i) = top - i
    BY <1>1, <2>1, ModBelow DEF PeekIndex, CRem
  <2>3. CanPeek(i)
    BY <1>2 DEF CanPeek
  <2>4. QED BY <2>1, <2>2, <2>3 DEF Peeked
<1>3. ASSUME i > validItemCount PROVE Peeked(i) = {NoFix}
  BY <1>3 DEF Peeked, CanPeek
<1>4. ASSUME i < validItemCount PROVE Kept[i] = data[top - i]
  <2>1. i \in Slots /\ top - i \in Int /\ 0 <= top - i /\ top - i < Size
    BY <1>1, <1>4 DEF Slots
  <2>2. (top - i) % Size = top - i
    BY <1>1, <2>1, ModBelow
  <2>3. QED BY <1>4, <2>1, <2>2 DEF Kept
<1>5. i = validItemCount => data[top - i] = NoFix
  BY <1>1
<1>6. QED BY <1>2, <1>3, <1>4, <1>5

\* The records that follow the report.
LEMMA EarlierIs ==
  ASSUME ReportType, NEW s \in Earlier
  PROVE  /\ s \in Seq(Fixes \cup {Garbage}) /\ Len(s) \in Nat /\ Len(s) < uploadCount
         /\ DOMAIN s = 1..Len(s) /\ \A i \in 1..Len(s) : s[i] \in Peeked(i) /\ s[i] # NoFix
         /\ Len(s) < uploadCount - 1 => NoFix \in Peeked(Len(s) + 1)
         /\ OwnCells + FixCells * Len(s) <= BufferCells
<1>1. PICK n \in 0..(uploadCount - 1) : s \in [1..n -> Fixes \cup {Garbage}]
  BY DEF Earlier
<1>2. uploadCount \in 1..Size
  BY CountsAssumption DEF ReportType
<1>3. s \in Seq(Fixes \cup {Garbage}) /\ Len(s) = n /\ DOMAIN s = 1..n /\ n \in Nat
  BY <1>1, <1>2, SizeAssumption
<1>4. NoFix \notin Fixes \cup {Garbage}
  BY PositionsAssumption
<1>5. \A i \in 1..n : s[i] # NoFix
  BY <1>1, <1>4
<1>6. OwnCells + FixCells * Len(s) <= BufferCells
  BY <1>2, <1>3, SizeAssumption DEF OwnCells, FixCells, BufferCells
<1>7. n < uploadCount
  BY <1>2, <1>3, SizeAssumption
<1>8. QED BY <1>3, <1>5, <1>6, <1>7 DEF Earlier

LEMMA EarlierUnfilled ==
  ASSUME ReportType, RingFilled, validItemCount \in 1..(Size - 1), NEW s \in Earlier
  PROVE  /\ Len(s) + 1 = IF validItemCount > uploadCount THEN uploadCount ELSE validItemCount
         /\ \A i \in 1..Len(s) : s[i] = Kept[i]
<1>1. /\ Len(s) \in Nat /\ Len(s) < uploadCount /\ uploadCount \in Nat
      /\ \A i \in 1..Len(s) : s[i] \in Peeked(i) /\ s[i] # NoFix
      /\ Len(s) < uploadCount - 1 => NoFix \in Peeked(Len(s) + 1)
  BY EarlierIs, CountsAssumption, SizeAssumption DEF ReportType
<1>2. RingTypeOK /\ validItemCount \in Nat /\ top = validItemCount
  BY SizeAssumption DEF ReportType, RingFilled
<1>3. ASSUME NEW i \in 1..Len(s) PROVE i < validItemCount /\ s[i] = Kept[i]
  <2>1. i \in Nat
    BY <1>1
  <2>2. /\ i < validItemCount => Peeked(i) = {data[top - i]} /\ Kept[i] = data[top - i]
        /\ i >= validItemCount => Peeked(i) = {NoFix}
    BY <1>2, <2>1, PeekedUnfilled
  <2>3. s[i] \in Peeked(i) /\ s[i] # NoFix
    BY <1>1
  <2>4. i < validItemCount
    BY <1>2, <2>1, <2>2, <2>3
  <2>5. QED BY <2>2, <2>3, <2>4
<1>4. Len(s) < validItemCount
  <2>1. Len(s) # 0 => Len(s) \in 1..Len(s)
    BY <1>1
  <2>2. QED BY <1>2, <1>3, <2>1, SizeAssumption
<1>5. Len(s) < uploadCount - 1 => Len(s) + 1 >= validItemCount
  <2>1. SUFFICES ASSUME Len(s) < uploadCount - 1, Len(s) + 1 < validItemCount PROVE FALSE
    BY <1>1, <1>2
  <2>2. Len(s) + 1 \in Nat /\ top - (Len(s) + 1) \in 1..validItemCount
    BY <1>1, <1>2, <2>1
  <2>3. Peeked(Len(s) + 1) = {data[top - (Len(s) + 1)]}
    BY <1>2, <2>1, <2>2, PeekedUnfilled
  <2>4. data[top - (Len(s) + 1)] \in Fixes
    BY <2>2, SizeAssumption DEF RingFilled
  <2>5. QED BY <1>1, <2>1, <2>3, <2>4, FixesAssumption
<1>6. QED BY <1>1, <1>2, <1>3, <1>4, <1>5

\* The cells after the copying.
LEMMA CopiedCells ==
  ASSUME ReportType, AgesInPlace, NEW s \in Earlier, NEW i \in 1..BufferCells
  PROVE  /\ i = 1 => Copied(s)[i] = Cell("time", 0)
         /\ i = 2 => Copied(s)[i] = Cell("pos", pending.pos)
         /\ i = 3 => Copied(s)[i] = Cell("nav", pending.nav)
         /\ i >= OwnCells /\ (i - OwnCells) % FixCells = 0 => Copied(s)[i].kind # "pos"
         /\ \A j \in 1..Len(s) : i = 3 + 2 * j => Copied(s)[i] = Cell("pos", s[j])
<1>1. Len(s) \in Nat /\ OwnCells = 4 /\ FixCells = 2
  BY EarlierIs DEF OwnCells, FixCells
<1>2. Copied(s)[i] =
        IF 4 <= i /\ i < 4 + 2 * Len(s) THEN FixCell(s, i - 4)
        ELSE IF i <= 4 THEN Own[i] ELSE sendBuffer[i]
  BY <1>1 DEF Copied, CopiedTo
<1>3. Own[1] = Cell("time", 0) /\ Own[2] = Cell("pos", pending.pos)
      /\ Own[3] = Cell("nav", pending.nav) /\ Own[4] = Cell("ttf", pending.timeToFix)
  BY DEF Own
<1>4. i \in Nat
  BY DEF BufferCells
<1>5. i \in 1..3 => Copied(s)[i] = Own[i]
  BY <1>2, <1>4
<1>6. i >= 4 /\ (i - 4) % 2 = 0 => Copied(s)[i].kind # "pos"
  <2>1. ASSUME i >= 4, (i - 4) % 2 = 0, i < 4 + 2 * Len(s) PROVE Copied(s)[i] = Cell("age", 0)
    BY <1>1, <1>2, <2>1 DEF FixCell
  <2>2. ASSUME i = 4, ~(i < 4 + 2 * Len(s)) PROVE Copied(s)[i] = Cell("ttf", pending.timeToFix)
    BY <1>2, <1>3, <2>2
  <2>3. ASSUME i > 4, (i - 4) % 2 = 0, ~(i < 4 + 2 * Len(s)) PROVE Copied(s)[i].kind # "pos"
    BY <1>1, <1>2, <1>4, <2>3 DEF AgesInPlace
  <2>4. Cell("age", 0).kind # "pos" /\ Cell("ttf", pending.timeToFix).kind # "pos"
    BY DEF Cell
  <2>5. QED BY <1>4, <2>1, <2>2, <2>3, <2>4
<1>7. ASSUME NEW j \in 1..Len(s), i = 3 + 2 * j PROVE Copied(s)[i] = Cell("pos", s[j])
  <2>1. 4 <= i /\ i < 4 + 2 * Len(s) /\ i - 4 = 2 * (j - 1) + 1 /\ j - 1 \in Nat
    BY <1>1, <1>7
  <2>2. \A q \in Nat : (2 * q + 1) % 2 = 1 /\ (2 * q + 1) \div 2 = q
    OBVIOUS
  <2>3. (i - 4) % 2 = 1 /\ 1 + (i - 4) \div 2 = j
    BY <2>1, <2>2
  <2>4. QED BY <1>1, <1>2, <2>1, <2>3 DEF FixCell
<1>8. QED BY <1>1, <1>3, <1>4, <1>5, <1>6, <1>7

\* The cells of positions: that of the report, and one of each record.
LEMMA PositionsCopied ==
  ASSUME SendInv, pc = "copy", NEW s \in Earlier,
         sendBuffer' = Copied(s), sendBufferSize' = OwnCells + FixCells * Len(s),
         UNCHANGED <<ring, uploadCount, pending>>, pc' = "transmit"
  PROVE  PositionsSent'
<1>1. /\ Len(s) \in Nat /\ OwnCells + FixCells * Len(s) <= BufferCells /\ BufferCells \in Nat
      /\ sendBufferSize' = 4 + 2 * Len(s) /\ OwnCells = 4 /\ FixCells = 2 /\ ReportType
  BY EarlierIs, SizeAssumption DEF SendInv, ReportInv, OwnCells, FixCells, BufferCells
<1>2. /\ 1 \in 1..BufferCells /\ 2 \in 1..BufferCells /\ 3 \in 1..BufferCells
      /\ \A c \in 1..sendBufferSize' : c \in 1..BufferCells
  BY <1>1
<1>3. /\ sendBuffer'[1] = Cell("time", 0) /\ sendBuffer'[2] = Cell("pos", pending.pos)
      /\ sendBuffer'[3] = Cell("nav", pending.nav)
      /\ \A c \in 1..sendBufferSize' : c >= 4 /\ (c - 4) % 2 = 0 => sendBuffer'[c].kind # "pos"
      /\ \A j \in 1..Len(s) : 3 + 2 * j \in 1..sendBufferSize' /\ sendBuffer'[3 + 2 * j] = Cell("pos", s[j])
  <2>1. AgesInPlace
    BY DEF SendInv
  <2>2. \A j \in 1..Len(s) : 3 + 2 * j \in 1..sendBufferSize'
    BY <1>1
  <2>3. QED BY <1>1, <1>2, <2>1, <2>2, CopiedCells
<1>4. \A k, v : Cell(k, v).kind = k /\ Cell(k, v).val = v
  BY DEF Cell
<1>5. /\ sendBuffer'[1].kind = "time" /\ sendBuffer'[2].val = pending'.pos
      /\ sendBuffer'[3].val = pending'.nav
  BY <1>3, <1>4
<1>6. \A c \in PositionCells' : c = 2 \/ \E j \in 1..Len(s) : c = 3 + 2 * j
  <2> SUFFICES ASSUME NEW c \in PositionCells' PROVE c = 2 \/ \E j \in 1..Len(s) : c = 3 + 2 * j
    OBVIOUS
  <2>1. c \in 1..(4 + 2 * Len(s)) /\ sendBuffer'[c].kind = "pos"
    BY <1>1 DEF PositionCells
  <2>2. c # 1 /\ c # 3 /\ (c >= 4 => (c - 4) % 2 # 0)
    BY <1>1, <1>3, <1>4, <2>1
  <2>3. c >= 4 => c - 4 \in Nat /\ (c - 4) % 2 = 1 /\ c - 4 = 2 * ((c - 4) \div 2) + 1 /\ (c - 4) \div 2 \in Nat
    BY <1>1, <2>1, <2>2
  <2>4. c >= 4 => 1 + (c - 4) \div 2 \in 1..Len(s) /\ c = 3 + 2 * (1 + (c - 4) \div 2)
    BY <1>1, <2>1, <2>3
  <2>5. QED BY <1>1, <2>1, <2>2, <2>4
<1>7. /\ 2 \in PositionCells' /\ \A j \in 1..Len(s) : 3 + 2 * j \in PositionCells'
  <2>1. 2 \in 1..sendBufferSize'
    BY <1>1
  <2>2. QED BY <1>3, <1>4, <2>1 DEF PositionCells
<1>8. ASSUME validItemCount' \in 1..(Size - 1)
      PROVE  LET n == IF validItemCount' > uploadCount' THEN uploadCount' ELSE validItemCount'
             IN  \E at \in [1..n -> PositionCells'] :
                   /\ \A i, j \in 1..n : i < j => at[i] < at[j]
                   /\ \A c \in PositionCells' : \E i \in 1..n : at[i] = c
                   /\ \A i \in 1..n : sendBuffer'[at[i]].val = Kept'[i - 1]
  <2> DEFINE n == IF validItemCount' > uploadCount' THEN uploadCount' ELSE validItemCount'
             at == [i \in 1..n |-> IF i = 1 THEN 2 ELSE 3 + 2 * (i - 1)]
  <2>1. validItemCount \in 1..(Size - 1) /\ RingTypeOK /\ RingFilled /\ Kept' = Kept /\ top = validItemCount
    BY <1>8, SizeAssumption DEF ring, Kept, SendInv, ReportInv, ReportType, RingFilled
  <2>2. n = Len(s) + 1 /\ \A i \in 1..Len(s) : s[i] = Kept[i]
    BY <1>1, <2>1, EarlierUnfilled DEF ring
  <2>3. pending.pos = Kept[0]
    <3>1. pending.pos = data[top]
      BY <2>1, SizeAssumption DEF SendInv, OwnIsLatest
    <3>2. Kept[0] = data[top - 0] /\ top - 0 = top
      BY <2>1, PeekedUnfilled, SizeAssumption
    <3>3. QED BY <3>1, <3>2
  <2> HIDE DEF n
  <2>4. at \in [1..n -> PositionCells']
    <3>1. \A i \in 1..n : i # 1 => i - 1 \in 1..Len(s)
      BY <1>1, <2>2
    <3>2. QED BY <1>7, <3>1
  <2>5. \A i, j \in 1..n : i < j => at[i] < at[j]
    BY <1>1, <2>2
  <2>6. \A c \in PositionCells' : \E i \in 1..n : at[i] = c
    <3> SUFFICES ASSUME NEW c \in PositionCells' PROVE \E i \in 1..n : at[i] = c
      OBVIOUS
    <3>1. CASE c = 2
      <4>1. 1 \in 1..n /\ at[1] = 2
        BY <1>1, <2>2
      <4>2. QED BY <3>1, <4>1
    <3>2. ASSUME NEW j \in 1..Len(s), c = 3 + 2 * j PROVE \E i \in 1..n : at[i] = c
      <4>1. j + 1 \in 1..n /\ at[j + 1] = 3 + 2 * j
        BY <1>1, <2>2
      <4>2. QED BY <3>2, <4>1
    <3>3. QED BY <1>6, <3>1, <3>2
  <2>7. \A i \in 1..n : sendBuffer'[at[i]].val = Kept'[i - 1]
    <3> SUFFICES ASSUME NEW i \in 1..n PROVE sendBuffer'[at[i]].val = Kept'[i - 1]
      OBVIOUS
    <3>1. CASE i = 1
      BY <1>3, <1>4, <2>1, <2>3, <3>1
    <3>2. CASE i # 1
      <4>1. i - 1 \in 1..Len(s) /\ at[i] = 3 + 2 * (i - 1)
        BY <1>1, <2>2, <3>2
      <4>2. QED BY <1>3, <1>4, <2>1, <2>2, <4>1
    <3>3. QED BY <3>1, <3>2
  <2> HIDE DEF at
  <2>8. QED BY <2>4, <2>5, <2>6, <2>7 DEF n
<1>9. QED BY <1>5, <1>8 DEF PositionsSent

LEMMA SendInit == Init => SendInv
<1> SUFFICES ASSUME Init PROVE SendInv
  OBVIOUS
<1>1. RingFilled
  BY SizeAssumption DEF Init, RingInit, RingFilled, Slots
<1>2. AgesInPlace
  <2>1. \A i \in 1..BufferCells : sendBuffer[i].kind = "none"
    BY DEF Init, Cell
  <2>2. QED BY <2>1 DEF AgesInPlace
<1>3. pc = "idle"
  BY DEF Init
<1>4. QED BY <1>1, <1>2, <1>3, InitReport DEF SendInv, OwnIsLatest, PositionsSent

LEMMA SendKept == SendInv /\ [Next]_vars => SendInv'
<1> SUFFICES ASSUME SendInv, [Next]_vars PROVE SendInv'
  OBVIOUS
<1>1. ReportInv' /\ RingTypeOK
  BY NextInv DEF SendInv, ReportInv, ReportType
<1>2. CASE FillReportRecord
  <2>1. pc' = "copy" /\ UNCHANGED <<sendBuffer, sendBufferSize, uploadCount>> /\ pc = "report"
    BY <1>2 DEF FillReportRecord, buffer
  <2>2. RingFilled' /\ OwnIsLatest'
    <3>1. CASE isNew
      <4>1. pending.pos \in Fixes /\ RingPush(pending.pos)
        BY <2>1, <3>1, <1>2 DEF FillReportRecord, FillRest, SendInv, ReportInv, OwnFix
      <4>2. pending'.pos = pending.pos
        BY <1>2, <3>1 DEF FillReportRecord, FillRest, SendInv, ReportInv, ReportType, Pending
      <4>3. QED BY <1>1, <4>1, <4>2, PushFills DEF SendInv, OwnIsLatest
    <3>2. CASE ~isNew
      <4>1. UNCHANGED ring
        BY <1>2, <3>2 DEF FillReportRecord, FillRest
      <4>2. pending'.pos = IF CanPeek(0) THEN data[PeekIndex(0)] ELSE NoFix
        BY <1>2, <3>2 DEF FillReportRecord, FillRest, SendInv, ReportInv, ReportType, Pending
      <4>3. validItemCount # 0 => CanPeek(0)
        BY <1>1, SizeAssumption DEF CanPeek, RingTypeOK
      <4>4. QED BY <1>1, <4>1, <4>2, <4>3, PeekTop DEF SendInv, RingFilled, OwnIsLatest, ring
    <3>3. QED BY <3>1, <3>2
  <2>3. QED BY <1>1, <2>1, <2>2 DEF SendInv, AgesInPlace, PositionsSent
<1>3. CASE UpdateGpsSendBuffer
  <2>1. PICK s \in Earlier : sendBuffer' = Copied(s) /\ sendBufferSize' = OwnCells + FixCells * Len(s)
    BY <1>3 DEF UpdateGpsSendBuffer
  <2>2. pc = "copy" /\ pc' = "transmit" /\ UNCHANGED <<ring, uploadCount, pending>>
    BY <1>3 DEF UpdateGpsSendBuffer
  <2>3. PositionsSent'
    BY <2>1, <2>2, PositionsCopied
  <2>4. AgesInPlace'
    <3>1. \A i \in 1..BufferCells : i > OwnCells => i >= OwnCells
      BY DEF OwnCells
    <3>2. QED BY <2>1, <3>1, CopiedCells DEF SendInv, ReportInv, AgesInPlace
  <2>5. QED BY <1>1, <2>2, <2>3, <2>4 DEF SendInv, RingFilled, OwnIsLatest, ring
<1>4. CASE Tick \/ Start \/ GetPeriodic \/ GiveUp \/ Transmitted
  <2>1. UNCHANGED <<ring, buffer>> /\ pc' \notin {"copy", "transmit"}
    BY <1>4 DEF Tick, Start, GetPeriodic, GiveUp, Transmitted
  <2>2. QED BY <1>1, <2>1 DEF SendInv, RingFilled, OwnIsLatest, AgesInPlace, PositionsSent, ring, buffer
<1>5. CASE UNCHANGED vars
  <2>1. UNCHANGED <<ring, buffer, pc, pending, uploadCount>>
    BY <1>5 DEF vars
  <2>2. RingFilled' /\ OwnIsLatest' /\ AgesInPlace'
    BY <2>1 DEF SendInv, RingFilled, OwnIsLatest, AgesInPlace, ring, buffer
  <2>3. PositionsSent'
    <3>1. /\ sendBuffer' = sendBuffer /\ validItemCount' = validItemCount
          /\ Kept' = Kept /\ PositionCells' = PositionCells
      BY <2>1 DEF PositionCells, Kept, ring, buffer
    <3>2. PositionsSent
      BY DEF SendInv
    <3>3. QED BY <2>1, <3>1, <3>2, Zenon DEF PositionsSent
  <2>4. QED BY <1>1, <2>2, <2>3 DEF SendInv
<1>6. QED BY <1>2, <1>3, <1>4, <1>5 DEF Next

\* updateGpsSendBuffer(): for a ring and upload counts of any size, what is sent has
\* the report's own fields and after them the latest fixes, as many as were asked
\* for and there are, latest first, whatever earlier reports have left in the buffer.
THEOREM LatestFixesSent == Spec => []PositionsSent
<1>1. SendInv => PositionsSent
  BY DEF SendInv
<1>2. QED BY SendInit, SendKept, <1>1, PTL DEF Spec

-----------------------------------------------------------------------------
\* Every variable keeps its type; what is sent fits into the buffer.
THEOREM ReportTypeCorrect == Spec => []TypeOK
<1>1. ReportInv => TypeOK
  BY DEF ReportInv, ReportType, TypeOK, Pending, Times
<1>2. QED BY <1>1, ReportInvariant, PTL

\* getGpsFixAndTransmit(): a report with a time to fix is of a fix of its own
\* acquisition, with all its fields, whatever came in before and meanwhile.
THEOREM FixKept == Spec => []FixIsOfThisReport
<1>1. ReportInv => FixIsOfThisReport
  BY DEF ReportInv, Finished, FixIsOfThisReport
<1>2. QED BY <1>1, ReportInvariant, PTL

\* The time to fix is the time that has passed, however often delegateNavPvt() has
\* set the clock, for any width of the clock and any time limit.
THEOREM TimeKept == Spec => []TimeToFixIsElapsed
<1>1. ReportInv => TimeToFixIsElapsed
  BY DEF ReportInv, Finished, TimeToFixIsElapsed
<1>2. QED BY <1>1, ReportInvariant, PTL

\* The fixes of the reports go through the ring: the node keeps the latest ones.
THEOREM FixesKept == Spec => RingKeepsLatest
<1>1. Init => RingInit
  BY DEF Init
<1>2. ReportInv /\ [Next]_vars => [\E v \in Fixes : RingPush(v)]_ring
  <2>1. ASSUME ReportInv, Next, ~FillReportRecord PROVE UNCHANGED ring
    BY <2>1 DEF Next, Tick, Start, GetPeriodic, GiveUp, UpdateGpsSendBuffer, Transmitted
  <2>2. UNCHANGED vars => UNCHANGED ring
    BY DEF vars
  <2>3. QED BY <2>1, <2>2, FillReportRecordInv
<1>3. Spec => RingSpec
  BY <1>1, <1>2, ReportInvariant, PTL DEF Spec, RingSpec
<1>4. QED BY <1>3, LatestKept
=============================================================================
