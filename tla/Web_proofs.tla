------------------------------ MODULE Web_proofs ------------------------------
(***************************************************************************)
(* Proofs about parts that MCWeb runs: the battery (Battery), the requests *)
(* on the music library (Library), the web server's connections with       *)
(* Auto-Off (AutoOff), the control socket (ControlSocket), and the calls   *)
(* to MPD (MpdClient).                                                     *)
(***************************************************************************)
EXTENDS Battery, Library, AutoOff, ControlSocket, MpdClient, TLAPS, SequenceTheorems, FiniteSetTheorems,
        WellFoundedInduction

(***************************************************************************)
(* The battery.                                                            *)
(***************************************************************************)
\* The gauge is low for as long as it has been low on battery, and what it has
\* waited to climb is within the time on USB power that no climb used up.
GaugeKept ==
  /\ gauge.critical = (gauge.low >= LowTime) /\ drain.low = gauge.low
  /\ drain.climbed * StepTime + gauge.rise <= drain.usb
  /\ gauge.level = NoLevel => gauge.low = 0

\* Of one number what was read and what was handed on are the same; and the last
\* warning shown is the one remembered.
HandedOn ==
  /\ pub.seq <= shared.seq /\ (pub.seq = shared.seq => pub.is = shared.is)
  /\ app.warned = IF drain.warnings = <<>> THEN NoneYet ELSE drain.warnings[Len(drain.warnings)]

Tells == [present : BOOLEAN, level : Int, usb : BOOLEAN, critical : BOOLEAN]
GaugeTyped ==
  gauge \in [level : {NoLevel} \union 0..Level(1), usb : BOOLEAN, avg : Int,
             rise : Nat, low : Nat, critical : BOOLEAN]
BatteryTyped ==
  /\ GaugeTyped
  /\ shared \in [is : Tells, seq : Nat] /\ pub \in [is : Tells, seq : Nat]
  /\ app \in [warned : Int, timer : BOOLEAN, tried : BOOLEAN]
  /\ drain \in [usb : Nat, climbed : Nat, low : Nat, warnings : Seq(Warnings), reads : Int]

BatteryInv == /\ BatteryTyped /\ GaugeKept /\ HandedOn
              /\ LevelTrue /\ OffWhenEmpty /\ WarnsOnce

LEMMA BatteryConstants ==
  /\ Len(Curve) \in Nat /\ Len(Curve) > 0 /\ Level(Len(Curve)) = 0
  /\ \A i \in 1..Len(Curve) : Voltage(i) \in Int /\ Level(i) \in Int
  /\ \A i, j \in 1..Len(Curve) : i < j => Voltage(j) < Voltage(i) /\ Level(j) <= Level(i)
  /\ Voltages \subseteq Int /\ Charging \in Int /\ Critical \in Int /\ MaxReads \in Int
  /\ Slack \in Nat /\ Slack > 0 /\ StepTime \in Nat /\ StepTime > 0
  /\ LowTime \in Nat /\ LowTime > 0 /\ Delays \subseteq Nat
  /\ Warnings \subseteq Nat /\ (\A w \in Warnings : w < NoneYet)
  BY BatteryAssumption

\* A set of numbers has a least one.
LEMMA LeastOne ==
  ASSUME NEW T, T \subseteq Nat, T # {}
  PROVE  \E k \in T : \A l \in T : k <= l
<1>1. PICK k \in T : \A l \in T : ~(<<l, k>> \in OpToRel(<, Nat))
  BY NatLessThanWellFounded, WFMin
<1>2. \A l \in T : ~(l < k)
  BY <1>1 DEF OpToRel
<1> QED
  BY <1>2, SMT

LEMMA LeastChosen ==
  ASSUME NEW T, T \subseteq Nat, T # {}
  PROVE  LET least == CHOOSE k \in T : \A l \in T : k <= l
         IN  least \in T /\ \A l \in T : least <= l
BY LeastOne

\* A level between two of the curve is one of those in between.
LEMMA PartOf ==
  ASSUME NEW x \in Nat, NEW dv \in Nat, NEW dl \in Nat, x < dv
  PROVE  (x * dl + dv \div 2) \div dv \in 0..dl
<1>1. PICK h \in Nat : h = dv \div 2 /\ h < dv
  BY SMT
<1>2. x * dl \in Nat /\ x * dl <= dv * dl
  BY SMT
<1>3. PICK y \in Nat : y = x * dl + h /\ y < dv * dl + dv
  BY <1>1, <1>2, SMT
<1>4. PICK q \in Int : q = y \div dv
  BY <1>3, SMT
<1>5. q * dv <= y /\ y < q * dv + dv
  BY <1>3, <1>4, SMT
<1>6. q >= 0
  BY <1>3, <1>5, SMT
<1>7. q <= dl
  <2> SUFFICES ASSUME q >= dl + 1
               PROVE  FALSE
    BY <1>4, SMT
  <2>1. q * dv >= (dl + 1) * dv
    BY <1>4, SMT
  <2>2. (dl + 1) * dv = dv * dl + dv
    BY SMT
  <2> QED
    BY <2>1, <2>2, <1>3, <1>5, <1>4, SMT
<1> QED
  BY <1>1, <1>3, <1>4, <1>6, <1>7, SMT

\* A voltage's level is one of the curve's, from none to the highest.
LEMMA LevelInRange ==
  ASSUME NEW mv \in Int
  PROVE  LevelFor(mv) \in 0..Level(1)
<1> DEFINE N == Len(Curve)
           under == {i \in 2..N : mv >= Voltage(i)}
           low == CHOOSE k \in under : \A l \in under : k <= l
<1>1. N \in Nat /\ N > 0 /\ Level(N) = 0
  BY BatteryConstants
<1>2. \A i \in 1..N : Level(i) \in 0..Level(1)
  <2> TAKE i \in 1..N
  <2>1. Level(i) \in Int /\ Level(1) \in Int /\ 1 \in 1..N /\ N \in 1..N
    BY BatteryConstants, <1>1, SMT
  <2>2. Level(i) <= Level(1)
    <3>1. CASE i = 1
      BY <3>1, <2>1, SMT
    <3>2. CASE 1 < i
      BY <3>2, <2>1, BatteryConstants
    <3> QED
      BY <3>1, <3>2, SMT
  <2>3. Level(i) >= 0
    <3>1. CASE i = N
      BY <3>1, <1>1, SMT
    <3>2. CASE i < N
      BY <3>2, <2>1, <1>1, BatteryConstants
    <3> QED
      BY <3>1, <3>2, <1>1, SMT
  <2> QED
    BY <2>1, <2>2, <2>3, SMT
<1>3. CASE mv >= Voltage(1)
  BY <1>1, <1>2, <1>3, SMT DEF LevelFor
<1>4. CASE ~(mv >= Voltage(1)) /\ under = {}
  <2>1. LevelFor(mv) = 0
    BY <1>4 DEF LevelFor
  <2> QED
    BY <1>1, <1>2, <2>1, SMT
<1>5. CASE ~(mv >= Voltage(1)) /\ under # {}
  <2>1. low \in under /\ (\A l \in under : low <= l)
    <3>1. under \subseteq Nat
      BY <1>1, SMT
    <3>2. under # {}
      BY <1>5
    <3> HIDE DEF under
    <3>3. (CHOOSE k \in under : \A l \in under : k <= l) \in under
      BY <3>1, <3>2, LeastChosen
    <3>4. \A l \in under : (CHOOSE k \in under : \A y \in under : k <= y) <= l
      BY <3>1, <3>2, LeastChosen
    <3> QED
      BY <3>3, <3>4
  <2>2. low \in 2..N /\ mv >= Voltage(low) /\ low - 1 \in 1..N /\ low \in 1..N /\ low - 1 < low
    <3> HIDE DEF low
    <3>1. low \in 2..N /\ mv >= Voltage(low)
      BY <2>1
    <3> QED
      BY <1>1, <3>1, SMT
  <2>3. mv < Voltage(low - 1)
    <3>0. Voltage(low - 1) \in Int
      BY <2>2, BatteryConstants
    <3>1. CASE low = 2
      <4>1. low - 1 = 1
        BY <3>1, SMT
      <4>2. Voltage(low - 1) = Voltage(1)
        BY <4>1
      <4> QED
        BY <4>2, <3>0, <1>5, SMT
    <3>2. CASE low > 2
      <4>1. low - 1 \in 2..N /\ ~(low <= low - 1)
        BY <3>2, <2>2, <1>1, SMT
      <4>2. low - 1 \notin under
        BY <4>1, <2>1
      <4>3. ~(mv >= Voltage(low - 1))
        BY <4>1, <4>2
      <4> QED
        BY <4>3, <3>0, SMT
    <3> QED
      BY <3>1, <3>2, <2>2, SMT
  <2> DEFINE dv == Voltage(low - 1) - Voltage(low)
             dl == Level(low - 1) - Level(low)
             x  == mv - Voltage(low)
  <2>4. dv \in Nat /\ dl \in Nat /\ x \in Nat /\ x < dv
    <3>1. /\ Voltage(low) \in Int /\ Voltage(low - 1) \in Int
          /\ Level(low) \in Int /\ Level(low - 1) \in Int
      BY <2>2, BatteryConstants
    <3>2. Voltage(low) < Voltage(low - 1) /\ Level(low) <= Level(low - 1)
      BY <2>2, BatteryConstants
    <3> QED
      BY <3>1, <3>2, <2>2, <2>3, SMT
  <2>5. LevelFor(mv) = Level(low) + (x * dl + dv \div 2) \div dv
    BY <1>5 DEF LevelFor
  <2>6. (x * dl + dv \div 2) \div dv \in 0..dl
    BY <2>4, PartOf
  <2>7. Level(low) \in 0..Level(1) /\ Level(low - 1) \in 0..Level(1)
    BY <1>2, <2>2
  <2>8. \A q \in 0..dl : Level(low) + q \in 0..Level(1)
    <3>1. Level(low) \in Int /\ Level(low - 1) \in Int /\ Level(1) \in Int
      BY <2>2, <1>1, BatteryConstants, SMT
    <3> QED
      BY <2>7, <3>1, SMT
  <2> HIDE DEF dv, dl, x, low
  <2> QED
    BY <2>5, <2>6, <2>8
<1> QED
  BY <1>3, <1>4, <1>5

\* The next warning is the least of those a level has reached.
LEMMA NextWarning ==
  ASSUME NEW level \in Int
  PROVE  /\ Threshold(level) \in Warnings \/ Threshold(level) = NoneYet
         /\ \A w \in Warnings : level <= w => Threshold(level) \in Warnings /\ Threshold(level) <= w
<1>1. CASE \E w \in Warnings : level <= w
  <2> DEFINE T == {w \in Warnings : level <= w}
  <2>1. T \subseteq Nat /\ T # {}
    BY <1>1, BatteryConstants
  <2>2. PICK k \in T : \A l \in T : k <= l
    BY <2>1, LeastOne
  <2>3. \E w \in Warnings : level <= w /\ (\A y \in Warnings : level <= y => w <= y)
    BY <2>2
  <2> QED
    BY <1>1, <2>3 DEF Threshold
<1>2. CASE ~(\E w \in Warnings : level <= w)
  BY <1>2 DEF Threshold
<1> QED
  BY <1>1, <1>2

LEMMA FedFacts ==
  ASSUME BatteryInv, NEW usb \in BOOLEAN, NEW avg \in Int, NEW dt \in Nat,
         gauge.level = NoLevel => dt = 0
  PROVE  LET g == Fed(usb, avg, dt)
         IN  /\ g \in [level : 0..Level(1), usb : BOOLEAN, avg : Int,
                       rise : Nat, low : Nat, critical : BOOLEAN]
             /\ g.usb = usb /\ g.avg = avg
             /\ g.critical = (g.low >= LowTime)
             /\ g.low = IF gauge.level = NoLevel \/ usb \/ g.level > Critical THEN 0 ELSE gauge.low + dt
             /\ IF usb THEN g.level < LevelFor(avg) + Slack
                ELSE g.level <= LevelFor(avg) /\ LevelFor(avg) < g.level + Slack
             /\ gauge.level = NoLevel \/ ~usb => g.rise = 0
             /\ gauge.level # NoLevel /\ usb =>
                  \/ g.level <= gauge.level /\ g.rise <= gauge.rise + dt
                  \/ g.level = gauge.level + 1 /\ g.rise = gauge.rise + dt - StepTime
<1> DEFINE level == LevelFor(avg)
           first == gauge.level = NoLevel
           now   == [gauge EXCEPT !.usb = usb, !.avg = avg]
           shown == IF first THEN [now EXCEPT !.level = level, !.rise = IF usb THEN dt ELSE 0]
                    ELSE IF usb THEN Climbed(now, level, gauge.rise + dt) ELSE Drained(now, level)
           low   == gauge.low + IF first THEN 0 ELSE dt
           G     == [level : 0..Level(1), usb : BOOLEAN, avg : Int,
                     rise : Nat, low : Nat, critical : BOOLEAN]
<1>1. /\ gauge \in [level : {NoLevel} \union 0..Level(1), usb : BOOLEAN, avg : Int,
                    rise : Nat, low : Nat, critical : BOOLEAN]
      /\ gauge.critical = (gauge.low >= LowTime) /\ (first => gauge.low = 0)
  BY DEF BatteryInv, BatteryTyped, GaugeTyped, GaugeKept
<1>2. /\ gauge.level \in {NoLevel} \union 0..Level(1) /\ gauge.rise \in Nat /\ gauge.low \in Nat
      /\ gauge.critical \in BOOLEAN /\ NoLevel = -1
  BY <1>1 DEF NoLevel
<1>3. level \in 0..Level(1) /\ Level(1) \in Int
  <2>1. Level(1) \in Int
    BY BatteryConstants, SMT
  <2> QED
    BY <2>1, LevelInRange
<1>4. /\ Slack \in Nat /\ Slack > 0 /\ StepTime \in Nat /\ StepTime > 0
      /\ LowTime \in Nat /\ LowTime > 0 /\ Critical \in Int
  BY BatteryConstants
<1>5. /\ now.level = gauge.level /\ now.low = gauge.low /\ now.critical = gauge.critical
      /\ now.usb = usb /\ now.avg = avg /\ now.rise = gauge.rise
      /\ now \in [level : {NoLevel} \union 0..Level(1), usb : BOOLEAN, avg : Int,
                  rise : Nat, low : Nat, critical : BOOLEAN]
  BY <1>1
<1>6. low \in Nat /\ (first => low = 0) /\ (~first => low = gauge.low + dt)
  BY <1>1, <1>2, SMT
<1> HIDE DEF level, now, low
<1>7. /\ shown \in G /\ shown.low = gauge.low /\ shown.critical = gauge.critical
      /\ shown.usb = usb /\ shown.avg = avg
      /\ IF usb THEN shown.level < level + Slack
         ELSE shown.level <= level /\ level < shown.level + Slack
      /\ first \/ ~usb => shown.rise = 0
      /\ ~first /\ usb =>
           \/ shown.level <= gauge.level /\ shown.rise <= gauge.rise + dt
           \/ shown.level = gauge.level + 1 /\ shown.rise = gauge.rise + dt - StepTime
  <2>1. CASE first
    <3>1. PICK r \in Nat : r = (IF usb THEN dt ELSE 0) /\ r = 0
      BY <2>1
    <3>2. shown = [now EXCEPT !.level = level, !.rise = r]
      BY <2>1, <3>1
    <3> HIDE DEF shown
    <3>3. /\ shown \in G /\ shown.low = now.low /\ shown.critical = now.critical
          /\ shown.usb = now.usb /\ shown.avg = now.avg /\ shown.level = level /\ shown.rise = r
      BY <3>2, <1>5, <1>3
    <3> QED
      BY <3>1, <3>3, <1>3, <1>4, <1>5, <2>1, SMT
  <2>2. CASE ~first /\ usb
    <3> DEFINE rise == gauge.rise + dt
    <3>1. shown = Climbed(now, level, rise)
      BY <2>2
    <3>2. rise \in Nat /\ now.level \in 0..Level(1)
      BY <2>2, <1>2, <1>5, SMT
    <3> HIDE DEF shown, rise
    <3>3. CASE level <= now.level - Slack
      <4>1. shown = [now EXCEPT !.level = level, !.rise = rise]
        BY <3>1, <3>3 DEF Climbed
      <4>2. /\ shown \in G /\ shown.low = now.low /\ shown.critical = now.critical
            /\ shown.usb = now.usb /\ shown.avg = now.avg
            /\ shown.level = level /\ shown.rise = rise
        BY <4>1, <1>5, <1>3, <3>2
      <4> QED
        BY <4>2, <3>2, <3>3, <1>3, <1>4, <1>5, <2>2, SMT DEF rise
    <3>4. CASE ~(level <= now.level - Slack) /\ level > now.level /\ rise >= StepTime
      <4>1. PICK l \in 0..Level(1) : l = now.level + 1
        BY <3>4, <3>2, <1>3, SMT
      <4>2. PICK r \in Nat : r = rise - StepTime
        BY <3>4, <3>2, <1>4, SMT
      <4>3. shown = [now EXCEPT !.level = l, !.rise = r]
        BY <3>1, <3>4, <4>1, <4>2 DEF Climbed
      <4>4. /\ shown \in G /\ shown.low = now.low /\ shown.critical = now.critical
            /\ shown.usb = now.usb /\ shown.avg = now.avg
            /\ shown.level = l /\ shown.rise = r
        BY <4>3, <1>5
      <4> QED
        BY <4>1, <4>2, <4>4, <3>2, <3>4, <1>3, <1>4, <1>5, <2>2, SMT DEF rise
    <3>5. CASE ~(level <= now.level - Slack) /\ ~(level > now.level /\ rise >= StepTime)
      <4>1. PICK r \in Nat : shown = [now EXCEPT !.rise = r] /\ r <= rise
        <5>1. CASE level > now.level
          BY <3>1, <3>5, <5>1, <3>2, SMT DEF Climbed
        <5>2. CASE ~(level > now.level)
          <6>1. PICK r \in Nat : r = (IF rise > StepTime THEN StepTime ELSE rise) /\ r <= rise
            BY <3>2, <1>4, SMT
          <6> QED
            BY <3>1, <3>5, <5>2, <6>1 DEF Climbed
        <5> QED
          BY <5>1, <5>2
      <4>2. /\ shown \in [level : {NoLevel} \union 0..Level(1), usb : BOOLEAN, avg : Int,
                          rise : Nat, low : Nat, critical : BOOLEAN]
            /\ shown.low = now.low /\ shown.critical = now.critical
            /\ shown.usb = now.usb /\ shown.avg = now.avg
            /\ shown.level = now.level /\ shown.rise = r
        BY <4>1, <1>5
      <4>3. shown \in G
        BY <4>2, <3>2
      <4>4. now.level < level + Slack
        BY <3>5, <3>2, <1>3, <1>4, SMT
      <4> QED
        <5>1. shown.level = gauge.level /\ shown.level <= gauge.level
          BY <4>2, <1>5, <3>2, <1>3, SMT
        <5>2. shown.rise <= gauge.rise + dt
          BY <4>1, <4>2 DEF rise
        <5>3. shown.level < level + Slack
          BY <4>2, <4>4
        <5> QED
          BY <4>2, <4>3, <1>5, <2>2, <5>1, <5>2, <5>3
    <3> QED
      BY <3>3, <3>4, <3>5
  <2>3. CASE ~first /\ ~usb
    <3>1. shown = Drained(now, level)
      BY <2>3
    <3>2. now.level \in 0..Level(1)
      BY <2>3, <1>2, <1>5
    <3>3. PICK l \in 0..Level(1) :
            l = IF level < now.level \/ level >= now.level + Slack THEN level ELSE now.level
      BY <1>3, <3>2
    <3>4. shown = [now EXCEPT !.rise = 0, !.level = l]
      BY <3>1, <3>3 DEF Drained
    <3> HIDE DEF shown
    <3>5. /\ shown \in G /\ shown.low = now.low /\ shown.critical = now.critical
          /\ shown.usb = now.usb /\ shown.avg = now.avg /\ shown.level = l /\ shown.rise = 0
      BY <3>4, <1>5
    <3>6. l <= level /\ level < l + Slack
      BY <3>3, <3>2, <1>3, <1>4, SMT
    <3> QED
      BY <3>5, <3>6, <1>5, <2>3
  <2> QED
    BY <2>1, <2>2, <2>3
<1> HIDE DEF shown
<1>8. Fed(usb, avg, dt) = IF ~usb /\ shown.level <= Critical
        THEN [shown EXCEPT !.low = low, !.critical = gauge.critical \/ low >= LowTime]
        ELSE [shown EXCEPT !.low = 0, !.critical = FALSE]
  <2>1. Fed(usb, avg, dt) = IF ~usb /\ shown.level <= Critical
        THEN [shown EXCEPT !.low = low, !.critical = @ \/ low >= LowTime]
        ELSE [shown EXCEPT !.low = 0, !.critical = FALSE]
    BY DEF Fed, shown, level, now, low
  <2> QED
    BY <2>1, <1>7
<1> DEFINE g == Fed(usb, avg, dt)
<1>9. CASE ~usb /\ shown.level <= Critical
  <2>1. PICK c \in BOOLEAN : c = (gauge.critical \/ low >= LowTime)
    BY <1>2
  <2>2. g = [shown EXCEPT !.low = low, !.critical = c]
    BY <1>8, <1>9, <2>1
  <2>3. c = (low >= LowTime)
    BY <2>1, <1>1, <1>2, <1>4, <1>6, SMT
  <2> HIDE DEF g
  <2>4. /\ g \in G /\ g.level = shown.level /\ g.usb = shown.usb /\ g.avg = shown.avg
        /\ g.rise = shown.rise /\ g.low = low /\ g.critical = c
    BY <2>2, <1>7, <1>6
  <2>5. g.low = IF first \/ usb \/ g.level > Critical THEN 0 ELSE gauge.low + dt
    <3>1. shown.level \in Int
      BY <1>7, <1>3, SMT
    <3>2. ~(g.level > Critical)
      BY <3>1, <2>4, <1>9, <1>4, SMT
    <3> QED
      BY <3>2, <2>4, <1>6, <1>9
  <2> QED
    BY <2>3, <2>4, <2>5, <1>7 DEF g, level
<1>10. CASE ~(~usb /\ shown.level <= Critical)
  <2>2. g = [shown EXCEPT !.low = 0, !.critical = FALSE]
    BY <1>8, <1>10
  <2> HIDE DEF g
  <2>4. /\ g \in G /\ g.level = shown.level /\ g.usb = shown.usb /\ g.avg = shown.avg
        /\ g.rise = shown.rise /\ g.low = 0 /\ g.critical = FALSE
    BY <2>2, <1>7
  <2>5. g.low = IF first \/ usb \/ g.level > Critical THEN 0 ELSE gauge.low + dt
    <3>1. shown.level \in Int
      BY <1>7, <1>3, SMT
    <3>2. usb \/ g.level > Critical
      BY <3>1, <2>4, <1>10, <1>4, SMT
    <3> QED
      BY <3>2, <2>4
  <2>6. g.critical = (g.low >= LowTime)
    BY <2>4, <1>4, SMT
  <2> QED
    BY <2>4, <2>5, <2>6, <1>7 DEF g, level
<1> QED
  BY <1>9, <1>10

\* What is handed on is what the gauge says, or that nothing answers.
LEMMA PublishStep ==
  ASSUME BatteryInv, NEW b \in Tells, Publish(b)
  PROVE  /\ shared' \in [is : Tells, seq : Nat]
         /\ pub' = pub => (pub.seq <= shared.seq /\ (pub.seq = shared.seq => pub.is = shared.is))'
<1>1. /\ shared \in [is : Tells, seq : Nat] /\ pub \in [is : Tells, seq : Nat]
      /\ pub.seq <= shared.seq /\ (pub.seq = shared.seq => pub.is = shared.is)
  BY DEF BatteryInv, BatteryTyped, HandedOn
<1>2. shared.seq \in Nat /\ pub.seq \in Nat /\ shared.is \in Tells
  BY <1>1
<1>3. CASE b = shared.is
  <2>1. shared' = [is |-> b, seq |-> shared.seq]
    BY <1>3 DEF Publish
  <2> QED
    BY <2>1, <1>1, <1>2, <1>3
<1>4. CASE b # shared.is
  <2>1. shared' = [is |-> b, seq |-> shared.seq + 1]
    BY <1>4 DEF Publish
  <2>2. shared'.seq = shared.seq + 1 /\ shared'.is = b
    BY <2>1
  <2>3. shared' \in [is : Tells, seq : Nat]
    BY <2>1, <1>2, SMT
  <2>4. pub.seq <= shared'.seq /\ pub.seq # shared'.seq
    BY <2>2, <1>1, <1>2, SMT
  <2> QED
    BY <2>3, <2>4
<1> QED
  BY <1>3, <1>4

\* Nothing that is on the LVGL thread changes while the battery is read.
LEMMA Untold ==
  ASSUME BatteryInv, UNCHANGED <<pub, app>>, drain'.warnings = drain.warnings
  PROVE  OffWhenEmpty' /\ WarnsOnce' /\ pub' \in [is : Tells, seq : Nat]
         /\ app' \in [warned : Int, timer : BOOLEAN, tried : BOOLEAN]
         /\ app'.warned = IF drain'.warnings = <<>> THEN NoneYet
                          ELSE drain'.warnings[Len(drain'.warnings)]
<1>1. OffWhenEmpty /\ WarnsOnce /\ pub \in [is : Tells, seq : Nat]
      /\ app \in [warned : Int, timer : BOOLEAN, tried : BOOLEAN]
      /\ app.warned = IF drain.warnings = <<>> THEN NoneYet ELSE drain.warnings[Len(drain.warnings)]
  BY DEF BatteryInv, BatteryTyped, HandedOn
<1>2. OffWhenEmpty' /\ WarnsOnce'
  BY <1>1 DEF OffWhenEmpty, WarnsOnce
<1> QED
  BY <1>1, <1>2

LEMMA DrainTyped ==
  BatteryInv => /\ drain.usb \in Nat /\ drain.climbed \in Nat /\ drain.low \in Nat
                /\ drain.warnings \in Seq(Warnings) /\ drain.reads \in Int
                /\ drain \in [usb : Nat, climbed : Nat, low : Nat, warnings : Seq(Warnings), reads : Int]
  BY DEF BatteryInv, BatteryTyped

LEMMA StillWithin ==
  ASSUME NEW p \in Nat, NEW r \in Nat, NEW m \in Nat, NEW q \in Nat, NEW d \in Nat, NEW t \in Nat,
         p + r <= m
  PROVE  /\ q <= r + d => p + q <= m + d
         /\ q = r + d - t => (p + t) + q <= m + d
  BY SMT

LEMMA SampleStep ==
  ASSUME BatteryInv, NEW mv \in Voltages, NEW usb \in BOOLEAN, NEW d \in Delays, Sample(mv, usb, d)
  PROVE  BatteryInv'
<1> DEFINE first == gauge.level = NoLevel
           dt == IF first THEN 0 ELSE d
<1>1. PICK avg \in Averages(mv, usb) :
        LET g == Fed(usb, avg, dt)
        IN  /\ gauge' = g /\ Publish(Read(g))
            /\ drain' = [drain EXCEPT
                 !.reads   = @ + 1,
                 !.usb     = IF first \/ ~usb THEN 0 ELSE @ + d,
                 !.climbed = IF first \/ ~usb THEN 0
                             ELSE IF g.level > gauge.level THEN @ + (g.level - gauge.level) ELSE @,
                 !.low     = IF first \/ usb \/ g.level > Critical THEN 0 ELSE @ + d]
  BY DEF Sample
<1>2. UNCHANGED <<pub, app>>
  BY DEF Sample
<1>3. gauge \in [level : {NoLevel} \union 0..Level(1), usb : BOOLEAN, avg : Int,
                 rise : Nat, low : Nat, critical : BOOLEAN]
  BY DEF BatteryInv, BatteryTyped, GaugeTyped
<1>4. avg \in Int
  <2>1. mv \in Int /\ Charging \in Int /\ Voltages \subseteq Int /\ gauge.avg \in Int
    BY BatteryConstants, <1>3
  <2>2. (IF usb THEN mv - Charging ELSE mv) \in Int
    BY <2>1, SMT
  <2>3. \A v \in Voltages : v - Charging \in Int
    BY <2>1, SMT
  <2> QED
    BY <2>1, <2>2, <2>3 DEF Averages
<1>5. d \in Nat /\ dt \in Nat /\ (first => dt = 0) /\ (~first => dt = d)
  BY BatteryConstants
<1> HIDE DEF dt
<1> DEFINE g == gauge'
<1>6. /\ g \in [level : 0..Level(1), usb : BOOLEAN, avg : Int,
                rise : Nat, low : Nat, critical : BOOLEAN]
      /\ g.usb = usb /\ g.avg = avg
      /\ g.critical = (g.low >= LowTime)
      /\ g.low = IF first \/ usb \/ g.level > Critical THEN 0 ELSE gauge.low + dt
      /\ IF usb THEN g.level < LevelFor(avg) + Slack
         ELSE g.level <= LevelFor(avg) /\ LevelFor(avg) < g.level + Slack
      /\ first \/ ~usb => g.rise = 0
      /\ ~first /\ usb =>
           \/ g.level <= gauge.level /\ g.rise <= gauge.rise + dt
           \/ g.level = gauge.level + 1 /\ g.rise = gauge.rise + dt - StepTime
  BY <1>1, <1>4, <1>5, FedFacts
<1>7. /\ Publish(Read(g))
      /\ drain' = [drain EXCEPT
                 !.reads   = @ + 1,
                 !.usb     = IF first \/ ~usb THEN 0 ELSE @ + d,
                 !.climbed = IF first \/ ~usb THEN 0
                             ELSE IF g.level > gauge.level THEN @ + (g.level - gauge.level) ELSE @,
                 !.low     = IF first \/ usb \/ g.level > Critical THEN 0 ELSE @ + d]
  BY <1>1
<1> HIDE DEF g
<1>8. /\ g.level \in 0..Level(1) /\ g.rise \in Nat /\ g.low \in Nat /\ Level(1) \in Int
      /\ gauge.level \in {NoLevel} \union 0..Level(1) /\ gauge.rise \in Nat /\ gauge.low \in Nat
      /\ NoLevel = -1 /\ StepTime \in Nat /\ StepTime > 0 /\ Critical \in Int
  <2>1. Level(1) \in Int
    BY BatteryConstants, SMT
  <2> QED
    BY <2>1, <1>3, <1>6, BatteryConstants DEF NoLevel
<1>9. /\ drain.usb \in Nat /\ drain.climbed \in Nat /\ drain.low \in Nat
      /\ drain.warnings \in Seq(Warnings) /\ drain.reads \in Int
      /\ drain \in [usb : Nat, climbed : Nat, low : Nat, warnings : Seq(Warnings), reads : Int]
  BY DrainTyped
<1>10. PICK u \in Nat : u = IF first \/ ~usb THEN 0 ELSE drain.usb + d
  BY <1>5, <1>9, SMT
<1>11. PICK c \in Nat : c = IF first \/ ~usb THEN 0
                            ELSE IF g.level > gauge.level THEN drain.climbed + (g.level - gauge.level)
                            ELSE drain.climbed
  <2>1. CASE first \/ ~usb
    BY <2>1
  <2>2. CASE ~(first \/ ~usb)
    <3>1. gauge.level \in 0..Level(1)
      BY <2>2, <1>8
    <3>2. (IF g.level > gauge.level THEN drain.climbed + (g.level - gauge.level)
           ELSE drain.climbed) \in Nat
      BY <3>1, <1>8, <1>9, SMT
    <3> QED
      BY <2>2, <3>2
  <2> QED
    BY <2>1, <2>2
<1>12. PICK l \in Nat : l = IF first \/ usb \/ g.level > Critical THEN 0 ELSE drain.low + d
  BY <1>5, <1>9, SMT
<1>13. PICK r \in Int : r = drain.reads + 1
  BY <1>9, SMT
<1>14. drain' = [drain EXCEPT !.reads = r, !.usb = u, !.climbed = c, !.low = l]
  BY <1>7, <1>10, <1>11, <1>12, <1>13
<1>15. /\ drain' \in [usb : Nat, climbed : Nat, low : Nat, warnings : Seq(Warnings), reads : Int]
       /\ drain'.usb = u /\ drain'.climbed = c /\ drain'.low = l
       /\ drain'.warnings = drain.warnings
  BY <1>14, <1>9
<1>16. Read(g) \in Tells
  <2>1. g.level \in Int /\ g.usb \in BOOLEAN /\ g.critical \in BOOLEAN
    BY <1>6, <1>8, SMT
  <2> QED
    BY <2>1 DEF Read, Tells
<1>17. /\ shared' \in [is : Tells, seq : Nat]
       /\ (pub.seq <= shared.seq /\ (pub.seq = shared.seq => pub.is = shared.is))'
  BY <1>2, <1>7, <1>16, PublishStep
<1>18. /\ OffWhenEmpty' /\ WarnsOnce' /\ pub' \in [is : Tells, seq : Nat]
       /\ app' \in [warned : Int, timer : BOOLEAN, tried : BOOLEAN]
       /\ app'.warned = IF drain'.warnings = <<>> THEN NoneYet
                        ELSE drain'.warnings[Len(drain'.warnings)]
  BY <1>2, <1>15, Untold
<1>19. BatteryTyped'
  <2>1. GaugeTyped'
    BY <1>6 DEF GaugeTyped, g
  <2> QED
    BY <2>1, <1>15, <1>17, <1>18 DEF BatteryTyped
<1>20. HandedOn'
  BY <1>17, <1>18 DEF HandedOn
<1>21. LevelTrue'
  <2>1. gauge'.usb = usb /\ gauge'.avg = avg
    BY <1>6 DEF g
  <2>2. IF usb THEN gauge'.level < LevelFor(avg) + Slack
        ELSE gauge'.level <= LevelFor(avg) /\ LevelFor(avg) < gauge'.level + Slack
    BY <1>6 DEF g
  <2>3. LevelFor(gauge.avg)' = LevelFor(avg)
    BY <2>1 DEF LevelFor, Level, Voltage
  <2> QED
    BY <2>1, <2>2, <2>3 DEF LevelTrue
<1>22. GaugeKept'
  <2>0. /\ drain.low = gauge.low /\ drain.climbed * StepTime + gauge.rise <= drain.usb
        /\ gauge.level = NoLevel => gauge.low = 0
    BY DEF BatteryInv, GaugeKept
  <2>1. l = g.low
    BY <2>0, <1>12, <1>6, <1>5
  <2>2. c * StepTime + g.rise <= u
    <3>1. CASE first \/ ~usb
      <4>1. c = 0 /\ u = 0 /\ g.rise = 0
        BY <3>1, <1>6, <1>10, <1>11
      <4> QED
        BY <4>1, <1>8, SMT
    <3>2. CASE ~(first \/ ~usb)
      <4>0. PICK p \in Nat : p = drain.climbed * StepTime /\ p + gauge.rise <= drain.usb
        BY <2>0, <1>8, <1>9, SMT
      <4>1. u = drain.usb + d /\ dt = d
        BY <3>2, <1>10, <1>5
      <4>2. gauge.level \in 0..Level(1)
        BY <3>2, <1>8
      <4>3. CASE g.level <= gauge.level /\ g.rise <= gauge.rise + dt
        <5>1. ~(g.level > gauge.level)
          BY <4>3, <4>2, <1>8, SMT
        <5>2. c = drain.climbed
          BY <5>1, <3>2, <1>11
        <5> QED
          <6>1. c * StepTime = p
            BY <5>2, <4>0
          <6>2. p + g.rise <= u
            BY <4>0, <4>1, <4>3, <1>5, <1>8, <1>9, StillWithin
          <6> QED
            BY <6>1, <6>2
      <4>4. CASE g.level = gauge.level + 1 /\ g.rise = gauge.rise + dt - StepTime
        <5>1. g.level > gauge.level /\ g.level - gauge.level = 1
          BY <4>4, <4>2, <1>8, SMT
        <5>2. c = drain.climbed + 1
          BY <5>1, <3>2, <1>11
        <5>3. c * StepTime = drain.climbed * StepTime + StepTime
          BY <5>2, <1>8, <1>9, SMT
        <5>4. c * StepTime = p + StepTime
          BY <5>3, <4>0
        <5>5. (p + StepTime) + g.rise <= u
          BY <4>0, <4>1, <4>4, <1>5, <1>8, <1>9, StillWithin
        <5> QED
          BY <5>4, <5>5
      <4> QED
        BY <4>3, <4>4, <3>2, <1>6
    <3> QED
      BY <3>1, <3>2
  <2>3. g.level # NoLevel
    BY <1>8, SMT
  <2> QED
    BY <2>1, <2>2, <2>3, <1>6, <1>15 DEF GaugeKept, g
<1> QED
  BY <1>18, <1>19, <1>20, <1>21, <1>22 DEF BatteryInv

LEMMA NoAnswerStep == BatteryInv /\ NoAnswer => BatteryInv'
<1> SUFFICES ASSUME BatteryInv, NoAnswer
             PROVE  BatteryInv'
  OBVIOUS
<1>1. /\ gauge' = Fresh /\ Publish(Missing) /\ UNCHANGED <<pub, app>>
      /\ drain' = [drain EXCEPT !.reads = @ + 1, !.usb = 0, !.climbed = 0, !.low = 0]
  BY DEF NoAnswer
<1>2. /\ drain.reads \in Int
      /\ drain \in [usb : Nat, climbed : Nat, low : Nat, warnings : Seq(Warnings), reads : Int]
  BY DrainTyped
<1>3. PICK r \in Int : r = drain.reads + 1
  BY <1>2, SMT
<1>4. drain' = [drain EXCEPT !.reads = r, !.usb = 0, !.climbed = 0, !.low = 0]
  BY <1>1, <1>3
<1>5. /\ drain' \in [usb : Nat, climbed : Nat, low : Nat, warnings : Seq(Warnings), reads : Int]
      /\ drain'.usb = 0 /\ drain'.climbed = 0 /\ drain'.low = 0 /\ drain'.warnings = drain.warnings
  BY <1>2, <1>4
<1>6. Missing \in Tells
  BY DEF Missing, Tells, NoLevel
<1>7. /\ shared' \in [is : Tells, seq : Nat]
      /\ (pub.seq <= shared.seq /\ (pub.seq = shared.seq => pub.is = shared.is))'
  BY <1>1, <1>6, PublishStep
<1>8. /\ OffWhenEmpty' /\ WarnsOnce' /\ pub' \in [is : Tells, seq : Nat]
      /\ app' \in [warned : Int, timer : BOOLEAN, tried : BOOLEAN]
      /\ app'.warned = IF drain'.warnings = <<>> THEN NoneYet
                       ELSE drain'.warnings[Len(drain'.warnings)]
  BY <1>1, <1>5, Untold
<1>9. BatteryTyped'
  BY <1>1, <1>5, <1>7, <1>8 DEF BatteryTyped, GaugeTyped, Fresh
<1>10. GaugeKept'
  <2>1. gauge'.critical = FALSE /\ gauge'.low = 0 /\ gauge'.rise = 0
    BY <1>1 DEF Fresh
  <2>2. (0 >= LowTime) = FALSE /\ 0 * StepTime + 0 <= 0
    BY BatteryConstants, SMT
  <2>3. gauge'.critical = (gauge'.low >= LowTime)
    BY <2>1, <2>2
  <2>4. drain'.climbed * StepTime + gauge'.rise <= drain'.usb
    BY <2>1, <2>2, <1>5
  <2> QED
    BY <2>1, <2>3, <2>4, <1>5 DEF GaugeKept
<1>11. LevelTrue'
  BY <1>1 DEF LevelTrue, Fresh
<1> QED
  BY <1>7, <1>8, <1>9, <1>10, <1>11 DEF BatteryInv, HandedOn

\* On battery each warning is shown when its level is reached, in turn.
LEMMA DeliverStep == BatteryInv /\ Deliver => BatteryInv'
<1> SUFFICES ASSUME BatteryInv, Deliver
             PROVE  BatteryInv'
  OBVIOUS
<1> DEFINE b == shared.is
<1>1. /\ GaugeTyped /\ shared \in [is : Tells, seq : Nat] /\ pub \in [is : Tells, seq : Nat]
      /\ app \in [warned : Int, timer : BOOLEAN, tried : BOOLEAN]
      /\ pub.seq <= shared.seq /\ (pub.seq = shared.seq => pub.is = shared.is)
  BY DEF BatteryInv, BatteryTyped, HandedOn
<1>2. pub # shared /\ pub' = shared /\ UNCHANGED <<gauge, shared>>
  BY DEF Deliver
<1>3. OnBatteryChanged(b)
  <2>1. shared.seq # pub.seq
    BY <1>1, <1>2
  <2> QED
    BY <2>1 DEF Deliver
<1>4. b \in Tells /\ shared.seq \in Nat
  BY <1>1
<1>5. b.present \in BOOLEAN /\ b.level \in Int /\ b.usb \in BOOLEAN /\ b.critical \in BOOLEAN
  BY <1>4 DEF Tells
<1>6. /\ drain.warnings \in Seq(Warnings)
      /\ drain \in [usb : Nat, climbed : Nat, low : Nat, warnings : Seq(Warnings), reads : Int]
  BY DrainTyped
<1>7. app.warned \in Int /\ app.timer \in BOOLEAN /\ app.tried \in BOOLEAN
  BY <1>1
<1>8. app.warned = IF drain.warnings = <<>> THEN NoneYet ELSE drain.warnings[Len(drain.warnings)]
  BY DEF BatteryInv, HandedOn
<1>9. OffWhenEmpty /\ WarnsOnce /\ GaugeKept /\ LevelTrue
  BY DEF BatteryInv
<1>10. LevelTrue' /\ GaugeTyped'
  BY <1>1, <1>2, <1>9 DEF LevelTrue, GaugeTyped
<1>11. (pub.seq <= shared.seq /\ (pub.seq = shared.seq => pub.is = shared.is))'
       /\ shared' \in [is : Tells, seq : Nat] /\ pub' \in [is : Tells, seq : Nat]
       /\ pub'.is = b
  <2>1. shared.seq <= shared.seq
    BY <1>4, SMT
  <2> QED
    BY <2>1, <1>1, <1>2
<1>12. (GaugeKept /\ UNCHANGED gauge /\ drain'.usb = drain.usb /\ drain'.climbed = drain.climbed
        /\ drain'.low = drain.low) => GaugeKept'
  BY DEF GaugeKept
<1> HIDE DEF b
<1> DEFINE Kept ==
     /\ app' \in [warned : Int, timer : BOOLEAN, tried : BOOLEAN]
     /\ drain' \in [usb : Nat, climbed : Nat, low : Nat, warnings : Seq(Warnings), reads : Int]
     /\ drain'.usb = drain.usb /\ drain'.climbed = drain.climbed /\ drain'.low = drain.low
     /\ app'.warned = IF drain'.warnings = <<>> THEN NoneYet ELSE drain'.warnings[Len(drain'.warnings)]
     /\ OffWhenEmpty' /\ WarnsOnce'
<1>13. ASSUME /\ ~b.present \/ b.usb
              /\ app' = [warned |-> NoneYet, timer |-> FALSE, tried |-> FALSE]
              /\ drain' = [drain EXCEPT !.warnings = <<>>]
       PROVE  Kept
  <2>1. drain'.warnings = <<>> /\ drain'.usb = drain.usb /\ drain'.climbed = drain.climbed
        /\ drain'.low = drain.low
        /\ drain' \in [usb : Nat, climbed : Nat, low : Nat, warnings : Seq(Warnings), reads : Int]
    <3>1. <<>> \in Seq(Warnings)
      BY EmptySeq
    <3> QED
      BY <3>1, <1>13, <1>6
  <2>2. app'.warned = NoneYet /\ ~app'.timer
        /\ app' \in [warned : Int, timer : BOOLEAN, tried : BOOLEAN]
    BY <1>13 DEF NoneYet
  <2>3. OffWhenEmpty'
    BY <2>2, <1>11, <1>13 DEF OffWhenEmpty
  <2>4. WarnsOnce'
    <3>1. Len(drain'.warnings) = 0
      BY <2>1, EmptySeq
    <3>2. \A i \in 2..Len(drain'.warnings) : drain'.warnings[i] < drain'.warnings[i - 1]
      BY <3>1, SMT
    <3> QED
      BY <3>2, <1>11, <1>13 DEF WarnsOnce
  <2> QED
    BY <2>1, <2>2, <2>3, <2>4
<1>14. ASSUME /\ b.present /\ ~b.usb /\ b.critical /\ UNCHANGED drain
              /\ app' = [app EXCEPT !.timer = @ \/ ~app.tried]
       PROVE  Kept
  <2>1. PICK t \in BOOLEAN : t = (app.timer \/ ~app.tried)
    BY <1>7
  <2>2. app' = [app EXCEPT !.timer = t]
    BY <1>14, <2>1
  <2>3. app'.warned = app.warned /\ app'.timer = t /\ app'.tried = app.tried
        /\ app' \in [warned : Int, timer : BOOLEAN, tried : BOOLEAN]
    BY <2>2, <1>1
  <2>4. OffWhenEmpty'
    BY <2>1, <2>3, <1>7, <1>11, <1>14 DEF OffWhenEmpty
  <2>5. WarnsOnce'
    BY <1>9, <1>11, <1>14 DEF WarnsOnce
  <2> QED
    BY <2>3, <2>4, <2>5, <1>6, <1>8, <1>14
<1>15. ASSUME b.present /\ ~b.usb /\ ~b.critical
       PROVE  Kept
  <2> DEFINE t == Threshold(b.level)
  <2>1. /\ t \in Warnings \/ t = NoneYet
        /\ \A w \in Warnings : b.level <= w => t \in Warnings /\ t <= w
    BY <1>5, NextWarning
  <2>2. Warnings \subseteq Nat /\ NoneYet = 100 /\ (\A w \in Warnings : w < NoneYet)
    BY BatteryConstants DEF NoneYet
  <2>3. \A i \in 1..Len(drain.warnings) : drain.warnings[i] \in Warnings
    BY <1>6, ElementOfSeq
  <2>4. Len(drain.warnings) \in Nat /\ (drain.warnings = <<>> <=> Len(drain.warnings) = 0)
    BY <1>6, EmptySeq, LenProperties
  <2>5. IF t < app.warned
        THEN /\ app' = [app EXCEPT !.warned = t]
             /\ drain' = [drain EXCEPT !.warnings = Append(@, t)]
        ELSE UNCHANGED <<app, drain>>
    BY <1>3, <1>15 DEF OnBatteryChanged
  <2> HIDE DEF t
  <2>6. CASE t < app.warned
    <3>1. t \in Warnings
      <4>1. app.warned <= NoneYet
        <5>1. CASE drain.warnings = <<>>
          BY <5>1, <1>8, <2>2, SMT
        <5>2. CASE drain.warnings # <<>>
          <6>1. Len(drain.warnings) \in 1..Len(drain.warnings)
            BY <5>2, <2>4, SMT
          <6>2. app.warned \in Warnings
            BY <6>1, <5>2, <1>8, <2>3
          <6>3. app.warned < NoneYet
            BY <6>2, <2>2
          <6> QED
            BY <6>3, <1>7, <2>2, SMT
        <5> QED
          BY <5>1, <5>2
      <4>2. t # NoneYet
        BY <4>1, <2>6, <2>2, <1>7, SMT
      <4> QED
        BY <4>2, <2>1
    <3> DEFINE ws == Append(drain.warnings, t)
               n  == Len(drain.warnings)
    <3>2. /\ ws \in Seq(Warnings) /\ Len(ws) = n + 1 /\ ws[n + 1] = t
          /\ \A i \in 1..n : ws[i] = drain.warnings[i]
      BY <3>1, <1>6, AppendProperties
    <3>3. app' = [app EXCEPT !.warned = t] /\ drain' = [drain EXCEPT !.warnings = ws]
      BY <2>5, <2>6
    <3> HIDE DEF ws
    <3>4. /\ drain'.warnings = ws /\ drain'.usb = drain.usb /\ drain'.climbed = drain.climbed
          /\ drain'.low = drain.low
          /\ drain' \in [usb : Nat, climbed : Nat, low : Nat, warnings : Seq(Warnings), reads : Int]
      BY <3>2, <3>3, <1>6
    <3>5. /\ app'.warned = t /\ app'.timer = app.timer /\ app'.tried = app.tried
          /\ app' \in [warned : Int, timer : BOOLEAN, tried : BOOLEAN]
      <4>1. t \in Int
        BY <3>1, <2>2, SMT
      <4> QED
        BY <4>1, <3>3, <1>1
    <3>6. ws # <<>>
      BY <3>2, <2>4, EmptySeq, SMT
    <3>7. OffWhenEmpty'
      BY <1>11, <1>15, <3>5 DEF OffWhenEmpty
    <3>8. \A i \in 2..Len(ws) : ws[i] < ws[i - 1]
      <4> TAKE i \in 2..Len(ws)
      <4>1. CASE i <= n
        <5>1. i \in 2..n /\ i \in 1..n /\ i - 1 \in 1..n
          BY <4>1, <2>4, <3>2, SMT
        <5>2. drain.warnings[i] < drain.warnings[i - 1]
          BY <5>1, <1>9 DEF WarnsOnce
        <5> QED
          BY <5>1, <5>2, <3>2
      <4>2. CASE ~(i <= n)
        <5>1. i = n + 1 /\ i - 1 = n /\ n \in 1..n
          BY <4>2, <2>4, <3>2, SMT
        <5>2. ws[i] = t /\ ws[i - 1] = drain.warnings[n]
          BY <5>1, <3>2
        <5>3. drain.warnings # <<>>
          BY <5>1, <2>4, SMT
        <5> QED
          BY <5>2, <5>3, <1>8, <2>6
      <4> QED
        BY <4>1, <4>2
    <3>9. WarnsOnce'
      <4>1. \A w \in Warnings : b.level <= w => \E i \in 1..Len(ws) : ws[i] <= w
        <5> TAKE w \in Warnings
        <5> HAVE b.level <= w
        <5>1. n + 1 \in 1..Len(ws)
          BY <3>2, <2>4, SMT
        <5>2. ws[n + 1] <= w
          BY <2>1, <3>2
        <5> QED
          BY <5>1, <5>2
      <4> QED
        BY <4>1, <3>8, <3>4, <1>11 DEF WarnsOnce
    <3> QED
      BY <3>2, <3>4, <3>5, <3>6, <3>7, <3>9
  <2>7. CASE ~(t < app.warned)
    <3>1. UNCHANGED <<app, drain>>
      BY <2>5, <2>7
    <3>2. OffWhenEmpty'
      BY <1>11, <1>15, <3>1 DEF OffWhenEmpty
    <3>3. WarnsOnce'
      <4>1. \A w \in Warnings : b.level <= w =>
              \E i \in 1..Len(drain.warnings) : drain.warnings[i] <= w
        <5> TAKE w \in Warnings
        <5> HAVE b.level <= w
        <5>1. t \in Warnings /\ t <= w
          BY <2>1
        <5>2. app.warned <= t
          BY <5>1, <2>7, <2>2, <1>7, SMT
        <5>3. drain.warnings # <<>>
          BY <5>1, <5>2, <2>2, <1>7, <1>8, SMT
        <5>4. Len(drain.warnings) \in 1..Len(drain.warnings)
          BY <5>3, <2>4, SMT
        <5>5. drain.warnings[Len(drain.warnings)] = app.warned
          BY <5>3, <1>8
        <5>6. drain.warnings[Len(drain.warnings)] <= w
          BY <5>5, <5>1, <5>2, <1>7, <2>2, SMT
        <5> QED
          BY <5>4, <5>6
      <4> QED
        BY <4>1, <3>1, <1>9, <1>11 DEF WarnsOnce
    <3> QED
      BY <3>1, <3>2, <3>3, <1>1, <1>6, <1>8
  <2> QED
    BY <2>6, <2>7
<1>16. Kept
  BY <1>3, <1>13, <1>14, <1>15 DEF OnBatteryChanged
<1> QED
  BY <1>16, <1>2, <1>9, <1>10, <1>11, <1>12 DEF BatteryInv, BatteryTyped, HandedOn

LEMMA PowerOffStep == BatteryInv /\ PowerOffFires => BatteryInv'
<1> SUFFICES ASSUME BatteryInv, PowerOffFires
             PROVE  BatteryInv'
  OBVIOUS
<1>1. app' = [app EXCEPT !.timer = FALSE, !.tried = TRUE] /\ UNCHANGED <<gauge, shared, pub, drain>>
  BY DEF PowerOffFires
<1>2. /\ BatteryTyped /\ GaugeKept /\ HandedOn /\ LevelTrue /\ OffWhenEmpty /\ WarnsOnce
  BY DEF BatteryInv
<1>3. /\ app'.warned = app.warned /\ ~app'.timer /\ app'.tried
      /\ app' \in [warned : Int, timer : BOOLEAN, tried : BOOLEAN]
  BY <1>1, <1>2 DEF BatteryTyped
<1>4. OffWhenEmpty'
  BY <1>3, <1>1 DEF OffWhenEmpty
<1>5. HandedOn' /\ WarnsOnce'
  BY <1>1, <1>2, <1>3 DEF HandedOn, WarnsOnce
<1>6. BatteryTyped'
  BY <1>1, <1>2, <1>3 DEF BatteryTyped, GaugeTyped
<1>7. GaugeKept' /\ LevelTrue'
  BY <1>1, <1>2 DEF GaugeKept, LevelTrue
<1> QED
  BY <1>4, <1>5, <1>6, <1>7 DEF BatteryInv

LEMMA BatteryInitially == BatteryInit => BatteryInv
<1> SUFFICES ASSUME BatteryInit
             PROVE  BatteryInv
  OBVIOUS
<1>1. /\ gauge = Fresh /\ shared = [is |-> Missing, seq |-> 0] /\ pub = shared
      /\ app = [warned |-> NoneYet, timer |-> FALSE, tried |-> FALSE]
      /\ drain = [usb |-> 0, climbed |-> 0, low |-> 0, warnings |-> <<>>, reads |-> 0]
  BY DEF BatteryInit
<1>2. <<>> \in Seq(Warnings) /\ Len(<<>>) = 0 /\ Missing \in Tells /\ ~Missing.present
  BY EmptySeq DEF Missing, Tells, NoLevel
<1>3. BatteryTyped
  BY <1>1, <1>2 DEF BatteryTyped, GaugeTyped, Fresh, NoneYet
<1>4. GaugeKept
  <2>1. (0 >= LowTime) = FALSE /\ 0 * StepTime + 0 <= 0
    BY BatteryConstants, SMT
  <2> QED
    BY <2>1, <1>1 DEF GaugeKept, Fresh
<1>5. HandedOn /\ LevelTrue /\ OffWhenEmpty
  BY <1>1, <1>2 DEF HandedOn, LevelTrue, OffWhenEmpty, Fresh
<1>6. WarnsOnce
  <2>1. \A i \in 2..0 : FALSE
    BY SMT
  <2> QED
    BY <2>1, <1>1, <1>2 DEF WarnsOnce
<1> QED
  BY <1>3, <1>4, <1>5, <1>6 DEF BatteryInv

LEMMA BatteryInductive == BatteryInv /\ [BatteryNext]_batteryVars => BatteryInv'
<1>1. BatteryInv /\ UNCHANGED batteryVars => BatteryInv'
  BY DEF batteryVars, BatteryInv, BatteryTyped, GaugeTyped, GaugeKept, HandedOn,
         LevelTrue, OffWhenEmpty, WarnsOnce
<1>2. BatteryInv /\ BatteryNext => BatteryInv'
  BY SampleStep, NoAnswerStep, DeliverStep, PowerOffStep DEF BatteryNext
<1> QED
  BY <1>1, <1>2

LEMMA BatteryInvIsRight == BatteryInv => BatteryRight
<1> SUFFICES ASSUME BatteryInv
             PROVE  BatteryRight
  OBVIOUS
<1>1. BatteryTyped /\ GaugeKept /\ HandedOn /\ LevelTrue /\ OffWhenEmpty /\ WarnsOnce
  BY DEF BatteryInv
<1>2. BatteryTypes
  BY <1>1 DEF BatteryTypes, BatteryTyped, GaugeTyped, HandedOn
<1>3. ClimbsSlowly
  <2>1. drain.climbed \in Nat /\ drain.usb \in Nat /\ gauge.rise \in Nat
    BY <1>1 DEF BatteryTyped, GaugeTyped
  <2>2. PICK p \in Nat : p = drain.climbed * StepTime
    BY <2>1, BatteryConstants, SMT
  <2>3. p + gauge.rise <= drain.usb
    BY <1>1, <2>2 DEF GaugeKept
  <2> QED
    BY <2>1, <2>2, <2>3, SMT DEF ClimbsSlowly
<1>4. EmptyInTime
  BY <1>1 DEF EmptyInTime, GaugeKept
<1> QED
  BY <1>1, <1>2, <1>3, <1>4 DEF BatteryRight

\* For every curve and every cell: the level shown is near its voltage's and climbs
\* no faster than a cell charges, each warning comes once and in turn, and empty on
\* battery, and only then, the device goes off (gauge.c, battery.c, app.c).
THEOREM BatteryInvariant == BatterySpec => []BatteryRight
<1>1. BatterySpec => []BatteryInv
  BY BatteryInitially, BatteryInductive, PTL DEF BatterySpec
<1> QED
  BY <1>1, BatteryInvIsRight, PTL

(***************************************************************************)
(* The music library.                                                      *)
(***************************************************************************)
Folders == [id : Nat, names : [FileNames -> Puts \union {NoFile}], parts : SUBSET Puts]
PutPlaces == {"new", "body", "finish", "looked", "over", "named", "done"}
Upload == [at : PutPlaces, dir : Nat, name : FileNames \union {NoFile},
           over : BOOLEAN, answer : {0, 201, 409, 499, 500, 507}]
LibTyped ==
  /\ folder \in Folders /\ card \in Folders
  /\ data \in [Puts -> {"none", "some", "all", "safe"}]
  /\ puts \in [Puts -> Upload]
  /\ noflag \in BOOLEAN
  /\ libhist \in [gone : SUBSET Puts, cut : SUBSET Puts]
  /\ libcount \in [changes : Nat, cuts : Nat]

Has(f, u) == \E n \in FileNames : f.names[n] = u

\* A folder, the one there is or the one on the card, has the uploads that began
\* in it: a name is of one whose data is on the card and that came to its name; a
\* folder that isn't there has none.
FolderOK(f) ==
  /\ \A u \in f.parts : f.id # 0 /\ puts[u].dir = f.id /\ puts[u].at # "new"
  /\ \A u \in Puts : Has(f, u) =>
       /\ f.id # 0 /\ puts[u].dir = f.id /\ data[u] = "safe"
       /\ puts[u].at \in {"named", "done"}
       /\ puts[u].at = "named" \/ puts[u].answer = 201 \/ u \in libhist.cut

\* How far an upload has come
PutOK(u) ==
  /\ puts[u].at \in {"new", "body", "finish", "looked", "over"} => puts[u].answer = 0
  /\ puts[u].at \in {"finish", "looked", "over", "named"} => data[u] = "safe"
  /\ puts[u].at \in {"body", "finish", "looked", "over", "named"} => puts[u].name \in FileNames
  /\ puts[u].at = "looked" => noflag
  /\ puts[u].at = "over" => puts[u].over
  /\ puts[u].at = "named" \/ puts[u].answer = 201 => Has(folder, u) \/ u \in libhist.gone
  /\ puts[u].answer = 201 => puts[u].at = "done" /\ (Has(card, u) \/ u \in libhist.gone)
  /\ u \in libhist.cut => puts[u].at = "done"
  /\ puts[u].at \in {"named", "done"} /\ u \notin libhist.cut => u \notin folder.parts

LibInv ==
  /\ LibTyped /\ FolderOK(folder) /\ FolderOK(card)
  /\ \A u \in Puts : PutOK(u)

LEMMA LibFacts ==
  LibInv => /\ LibTyped /\ FolderOK(folder) /\ FolderOK(card)
            /\ folder \in Folders /\ card \in Folders /\ puts \in [Puts -> Upload]
            /\ data \in [Puts -> {"none", "some", "all", "safe"}] /\ noflag \in BOOLEAN
            /\ libhist \in [gone : SUBSET Puts, cut : SUBSET Puts]
            /\ libcount \in [changes : Nat, cuts : Nat]
            /\ \A u \in Puts : PutOK(u) /\ puts[u] \in Upload
  BY DEF LibInv, LibTyped

LEMMA NumbersOfPuts == Puts \subseteq Nat /\ NoFile \notin Puts /\ NoFile \in Nat
  BY LibraryAssumption, SMT DEF Puts, NoFile

\* What the operators on a folder do to it
LEMMA NamedFolder ==
  ASSUME folder \in Folders, NEW u \in Puts, puts[u].name \in FileNames
  PROVE  /\ Named(u) \in Folders /\ Named(u).id = folder.id /\ Named(u).parts = folder.parts \ {u}
         /\ Named(u).names = [folder.names EXCEPT ![puts[u].name] = u]
         /\ Has(Named(u), u)
         /\ \A v \in Puts : v # u /\ Has(Named(u), v) => Has(folder, v)
         /\ \A v \in Puts : v # u /\ Has(folder, v) => Has(Named(u), v) \/ v = folder.names[puts[u].name]
<1> DEFINE n == puts[u].name
           g == Named(u)
<1>1. folder.names \in [FileNames -> Puts \union {NoFile}] /\ folder.parts \in SUBSET Puts
      /\ folder = [id |-> folder.id, names |-> folder.names, parts |-> folder.parts]
      /\ folder.id \in Nat
  BY DEF Folders
<1>2. g = [id |-> folder.id, names |-> [folder.names EXCEPT ![n] = u], parts |-> folder.parts \ {u}]
  <2> DEFINE h == [folder EXCEPT !.parts = @ \ {u}]
  <2>1. g = [h EXCEPT !.names[n] = u]
    BY DEF Named
  <2>2. h = [id |-> folder.id, names |-> folder.names, parts |-> folder.parts \ {u}]
    BY <1>1
  <2> HIDE DEF h, g
  <2> QED
    BY <2>1, <2>2
<1> HIDE DEF g, n
<1>3. g.names = [folder.names EXCEPT ![n] = u] /\ g.id = folder.id /\ g.parts = folder.parts \ {u}
  BY <1>2
<1>4. n \in FileNames
  BY DEF n
<1>5. g.names[n] = u /\ \A m \in FileNames : m # n => g.names[m] = folder.names[m]
  BY <1>1, <1>3, <1>4
<1>6. g \in Folders
  <2>1. [folder.names EXCEPT ![n] = u] \in [FileNames -> Puts \union {NoFile}]
    BY <1>1
  <2> QED
    BY <1>1, <1>2, <2>1 DEF Folders
<1>7. Has(g, u)
  BY <1>4, <1>5 DEF Has
<1>8. \A v \in Puts : v # u /\ Has(g, v) => Has(folder, v)
  BY <1>5 DEF Has
<1>9. \A v \in Puts : v # u /\ Has(folder, v) => Has(g, v) \/ v = folder.names[n]
  BY <1>5 DEF Has
<1> QED
  BY <1>3, <1>6, <1>7, <1>8, <1>9 DEF g, n

LEMMA LeftFolder ==
  ASSUME folder \in Folders, NEW n \in FileNames
  PROVE  LET g == [folder EXCEPT !.names[n] = NoFile]
         IN  /\ g \in Folders /\ g.id = folder.id /\ g.parts = folder.parts
             /\ g.names = [folder.names EXCEPT ![n] = NoFile]
             /\ \A v \in Puts : Has(g, v) => Has(folder, v)
             /\ \A v \in Puts : Has(folder, v) => Has(g, v) \/ v = folder.names[n]
<1> DEFINE g == [folder EXCEPT !.names[n] = NoFile]
<1>1. folder.names \in [FileNames -> Puts \union {NoFile}] /\ folder.parts \in SUBSET Puts
      /\ folder = [id |-> folder.id, names |-> folder.names, parts |-> folder.parts]
      /\ folder.id \in Nat
  BY DEF Folders
<1>2. g = [id |-> folder.id, names |-> [folder.names EXCEPT ![n] = NoFile], parts |-> folder.parts]
  BY <1>1 DEF Folders
<1> HIDE DEF g
<1>3. g.names = [folder.names EXCEPT ![n] = NoFile] /\ g.id = folder.id /\ g.parts = folder.parts
  BY <1>2
<1>4. g.names[n] = NoFile /\ \A m \in FileNames : m # n => g.names[m] = folder.names[m]
  BY <1>1, <1>3
<1>5. g \in Folders
  <2>1. [folder.names EXCEPT ![n] = NoFile] \in [FileNames -> Puts \union {NoFile}]
    BY <1>1
  <2> QED
    BY <1>1, <1>2, <2>1 DEF Folders
<1>6. \A v \in Puts : Has(g, v) => Has(folder, v)
  BY <1>4, NumbersOfPuts DEF Has
<1>7. \A v \in Puts : Has(folder, v) => Has(g, v) \/ v = folder.names[n]
  BY <1>4 DEF Has
<1> QED
  BY <1>3, <1>5, <1>6, <1>7 DEF g

LEMMA MovedFolder ==
  ASSUME folder \in Folders, NEW from \in FileNames, NEW to \in FileNames, from # to, ~Taken(to)
  PROVE  LET g == [folder EXCEPT !.names[to] = folder.names[from], !.names[from] = NoFile]
         IN  /\ g \in Folders /\ g.id = folder.id /\ g.parts = folder.parts
             /\ g.names = [folder.names EXCEPT ![to] = folder.names[from], ![from] = NoFile]
             /\ \A v \in Puts : Has(g, v) <=> Has(folder, v)
<1> DEFINE g == [folder EXCEPT !.names[to] = folder.names[from], !.names[from] = NoFile]
<1>1. folder.names \in [FileNames -> Puts \union {NoFile}] /\ folder.parts \in SUBSET Puts
      /\ folder = [id |-> folder.id, names |-> folder.names, parts |-> folder.parts]
      /\ folder.id \in Nat
  BY DEF Folders
<1>2. g = [id |-> folder.id, names |-> [folder.names EXCEPT ![to] = folder.names[from], ![from] = NoFile],
           parts |-> folder.parts]
  <2> DEFINE h == [folder EXCEPT !.names[to] = folder.names[from]]
  <2>1. g = [h EXCEPT !.names[from] = NoFile]
    OBVIOUS
  <2>2. h = [id |-> folder.id, names |-> [folder.names EXCEPT ![to] = folder.names[from]],
             parts |-> folder.parts]
    BY <1>1
  <2>3. [[folder.names EXCEPT ![to] = folder.names[from]] EXCEPT ![from] = NoFile]
          = [folder.names EXCEPT ![to] = folder.names[from], ![from] = NoFile]
    OBVIOUS
  <2> HIDE DEF h, g
  <2> QED
    BY <2>1, <2>2, <2>3
<1> HIDE DEF g
<1>3. g.names = [folder.names EXCEPT ![to] = folder.names[from], ![from] = NoFile]
      /\ g.id = folder.id /\ g.parts = folder.parts
  BY <1>2
<1>4. g.names[to] = folder.names[from] /\ g.names[from] = NoFile
      /\ \A m \in FileNames : m # from /\ m # to => g.names[m] = folder.names[m]
  BY <1>1, <1>3
<1>5. g \in Folders
  <2>1. [folder.names EXCEPT ![to] = folder.names[from], ![from] = NoFile] \in [FileNames -> Puts \union {NoFile}]
    BY <1>1
  <2> QED
    BY <1>1, <1>2, <2>1 DEF Folders
<1>6. folder.names[to] = NoFile
  BY DEF Taken
<1>7. \A v \in Puts : Has(g, v) <=> Has(folder, v)
  BY <1>4, <1>6, NumbersOfPuts DEF Has
<1> QED
  BY <1>3, <1>5, <1>7 DEF g

LEMMA UnpartFolder ==
  ASSUME folder \in Folders, NEW u \in Puts
  PROVE  /\ Unpart(u) \in Folders /\ Unpart(u).id = folder.id /\ Unpart(u).names = folder.names
         /\ Unpart(u).parts \subseteq folder.parts
         /\ FolderOK(folder) => u \notin Unpart(u).parts
         /\ \A v \in Puts : Has(Unpart(u), v) <=> Has(folder, v)
<1> DEFINE g == Unpart(u)
<1>1. folder = [id |-> folder.id, names |-> folder.names, parts |-> folder.parts]
      /\ folder.id \in Nat /\ folder.names \in [FileNames -> Puts \union {NoFile}]
      /\ folder.parts \in SUBSET Puts
  BY DEF Folders
<1>2. CASE Open(u)
  <2>1. g = [id |-> folder.id, names |-> folder.names, parts |-> folder.parts \ {u}]
    BY <1>1, <1>2 DEF Unpart
  <2> HIDE DEF g
  <2>2. g.id = folder.id /\ g.names = folder.names /\ g.parts = folder.parts \ {u} /\ g \in Folders
    BY <2>1, <1>1 DEF Folders
  <2>3. \A v \in Puts : Has(g, v) <=> Has(folder, v)
    BY <2>2 DEF Has
  <2> QED
    BY <2>2, <2>3 DEF g
<1>3. CASE ~Open(u)
  <2>1. g = folder
    BY <1>3 DEF Unpart
  <2>2. FolderOK(folder) => u \notin folder.parts
    BY <1>3 DEF Open, FolderOK
  <2> QED
    BY <2>1, <2>2
<1> QED
  BY <1>2, <1>3

\* An upload goes on, or is answered; the others stay.
LEMMA GoesOn ==
  ASSUME puts \in [Puts -> Upload], NEW u \in Puts, NEW at \in PutPlaces, Goes(u, at)
  PROVE  /\ puts' \in [Puts -> Upload]
         /\ puts'[u].at = at /\ puts'[u].answer = puts[u].answer /\ puts'[u].dir = puts[u].dir
         /\ puts'[u].name = puts[u].name /\ puts'[u].over = puts[u].over
         /\ \A v \in Puts : v # u => puts'[v] = puts[v]
<1>1. puts[u] \in Upload
  OBVIOUS
<1>2. puts' = [puts EXCEPT ![u] = [puts[u] EXCEPT !.at = at]]
  BY DEF Goes
<1>3. [puts[u] EXCEPT !.at = at] \in Upload
  BY <1>1 DEF Upload
<1>4. puts'[u] = [puts[u] EXCEPT !.at = at] /\ (\A v \in Puts : v # u => puts'[v] = puts[v])
      /\ puts' \in [Puts -> Upload]
  BY <1>2, <1>3
<1> QED
  BY <1>4, <1>1 DEF Upload

LEMMA IsAnswered ==
  ASSUME puts \in [Puts -> Upload], NEW u \in Puts,
         NEW status \in {201, 409, 499, 500, 507}, Answer(u, status)
  PROVE  /\ puts' \in [Puts -> Upload]
         /\ puts'[u].at = "done" /\ puts'[u].answer = status /\ puts'[u].dir = puts[u].dir
         /\ puts'[u].name = puts[u].name /\ puts'[u].over = puts[u].over
         /\ \A v \in Puts : v # u => puts'[v] = puts[v]
<1>1. puts[u] \in Upload
  OBVIOUS
<1>2. puts' = [[puts EXCEPT ![u].at = "done"] EXCEPT ![u].answer = status]
  BY DEF Answer
<1> DEFINE ended == [puts[u] EXCEPT !.at = "done"]
           all == [puts EXCEPT ![u] = ended]
<1>3. ended \in Upload /\ ended.at = "done" /\ ended.dir = puts[u].dir
      /\ ended.name = puts[u].name /\ ended.over = puts[u].over
  BY <1>1 DEF Upload, PutPlaces
<1>4. puts' = [all EXCEPT ![u].answer = status]
  BY <1>2
<1> HIDE DEF ended
<1>5. all \in [Puts -> Upload] /\ all[u] = ended /\ \A v \in Puts : v # u => all[v] = puts[v]
  BY <1>3
<1> HIDE DEF all
<1> DEFINE told == [ended EXCEPT !.answer = status]
<1>6. puts' = [all EXCEPT ![u] = told]
  BY <1>4, <1>5
<1>7. told \in Upload /\ told.at = "done" /\ told.answer = status /\ told.dir = puts[u].dir
      /\ told.name = puts[u].name /\ told.over = puts[u].over
  BY <1>3 DEF Upload
<1> HIDE DEF told
<1>8. puts'[u] = told /\ (\A v \in Puts : v # u => puts'[v] = puts[v]) /\ puts' \in [Puts -> Upload]
  BY <1>5, <1>6, <1>7
<1> QED
  BY <1>7, <1>8

\* A step of an upload leaves the others as they were, but for what it replaces.
LEMMA ByUpload ==
  ASSUME LibInv, NEW u \in Puts, UNCHANGED <<noflag, libcount>>,
         puts' \in [Puts -> Upload], folder' \in Folders,
         data' \in [Puts -> {"none", "some", "all", "safe"}],
         libhist' \in [gone : SUBSET Puts, cut : SUBSET Puts],
         \A v \in Puts : v # u => puts'[v] = puts[v] /\ data'[v] = data[v],
         data[u] = "safe" => data'[u] = "safe",
         libhist'.cut = libhist.cut, libhist.gone \subseteq libhist'.gone,
         card' = card \/ card' = folder',
         puts[u].at # "done", puts'[u].at # "new",
         puts'[u].dir = puts[u].dir \/ puts[u].at = "new",
         puts[u].at = "named" => puts'[u].at = "done" /\ puts'[u].answer = 201,
         folder'.id = folder.id \/ folder.id = 0,
         \A v \in folder'.parts : v # u => v \in folder.parts,
         u \in folder'.parts => folder'.id # 0 /\ puts'[u].dir = folder'.id,
         \A v \in Puts : v # u /\ Has(folder', v) => Has(folder, v),
         \A v \in Puts : v # u /\ Has(folder, v) => Has(folder', v) \/ v \in libhist'.gone,
         Has(folder', u) => /\ folder'.id # 0 /\ puts'[u].dir = folder'.id /\ data'[u] = "safe"
                            /\ puts'[u].at = "named" \/ (puts'[u].at = "done" /\ puts'[u].answer = 201),
         PutOK(u)'
  PROVE  LibInv'
<1>1. /\ LibTyped /\ FolderOK(folder) /\ FolderOK(card)
      /\ folder \in Folders /\ card \in Folders
      /\ \A v \in Puts : PutOK(v)
  BY LibFacts
<1>2. card' \in Folders
  BY <1>1
<1>3. LibTyped'
  BY <1>1, <1>2 DEF LibTyped
<1>4. FolderOK(folder)'
  <2>1. \A v \in folder'.parts : folder'.id # 0 /\ puts'[v].dir = folder'.id /\ puts'[v].at # "new"
    <3> TAKE v \in folder'.parts
    <3>1. CASE v = u
      BY <3>1
    <3>2. CASE v # u
      <4>1. v \in folder.parts /\ v \in Puts
        BY <3>2, <1>1 DEF Folders
      <4>2. folder.id # 0 /\ puts[v].dir = folder.id /\ puts[v].at # "new"
        BY <4>1, <1>1 DEF FolderOK
      <4> QED
        BY <3>2, <4>1, <4>2
    <3> QED
      BY <3>1, <3>2
  <2>2. ASSUME NEW v \in Puts, Has(folder', v)
        PROVE  /\ folder'.id # 0 /\ puts'[v].dir = folder'.id /\ data'[v] = "safe"
               /\ puts'[v].at \in {"named", "done"}
               /\ puts'[v].at = "named" \/ puts'[v].answer = 201 \/ v \in libhist'.cut
    <3>1. CASE v = u
      BY <2>2, <3>1
    <3>2. CASE v # u
      <4>1. Has(folder, v)
        BY <2>2, <3>2
      <4>2. /\ folder.id # 0 /\ puts[v].dir = folder.id /\ data[v] = "safe"
            /\ puts[v].at \in {"named", "done"}
            /\ puts[v].at = "named" \/ puts[v].answer = 201 \/ v \in libhist.cut
        BY <4>1, <1>1 DEF FolderOK
      <4> QED
        BY <3>2, <4>2
    <3> QED
      BY <3>1, <3>2
  <2> QED
    BY <2>1, <2>2 DEF FolderOK, Has
<1>5. FolderOK(card)'
  <2>1. CASE card' = folder'
    BY <1>4, <2>1 DEF FolderOK, Has
  <2>2. CASE card' = card
    <3>1. \A v \in card.parts : card.id # 0 /\ puts'[v].dir = card.id /\ puts'[v].at # "new"
      <4> TAKE v \in card.parts
      <4>1. v \in Puts /\ card.id # 0 /\ puts[v].dir = card.id /\ puts[v].at # "new"
        BY <1>1 DEF FolderOK, Folders
      <4> QED
        BY <4>1
    <3>2. ASSUME NEW v \in Puts, Has(card, v)
          PROVE  /\ card.id # 0 /\ puts'[v].dir = card.id /\ data'[v] = "safe"
                 /\ puts'[v].at \in {"named", "done"}
                 /\ puts'[v].at = "named" \/ puts'[v].answer = 201 \/ v \in libhist'.cut
      <4>1. /\ card.id # 0 /\ puts[v].dir = card.id /\ data[v] = "safe"
            /\ puts[v].at \in {"named", "done"}
            /\ puts[v].at = "named" \/ puts[v].answer = 201 \/ v \in libhist.cut
        BY <3>2, <1>1 DEF FolderOK
      <4>2. CASE v = u
        <5>1. puts[u].at = "named" /\ data'[u] = "safe"
          BY <4>1, <4>2
        <5> QED
          BY <4>1, <4>2, <5>1
      <4>3. CASE v # u
        BY <4>1, <4>3
      <4> QED
        BY <4>2, <4>3
    <3> QED
      BY <2>2, <3>1, <3>2 DEF FolderOK, Has
  <2> QED
    BY <2>1, <2>2
<1>6. ASSUME NEW v \in Puts, v # u
      PROVE  PutOK(v)'
  <2>1. puts'[v] = puts[v] /\ data'[v] = data[v] /\ noflag' = noflag
    BY <1>6
  <2>2. PutOK(v)
    BY <1>1
  <2>3. puts[v].at = "named" \/ puts[v].answer = 201 => Has(folder', v) \/ v \in libhist'.gone
    BY <2>2, <1>6 DEF PutOK
  <2>4. puts[v].answer = 201 => puts[v].at = "done" /\ (Has(card', v) \/ v \in libhist'.gone)
    BY <2>2, <2>3 DEF PutOK
  <2>5. v \in libhist'.cut => puts[v].at = "done"
    BY <2>2 DEF PutOK
  <2>6. puts[v].at \in {"named", "done"} /\ v \notin libhist'.cut => v \notin folder'.parts
    BY <2>2, <1>6 DEF PutOK
  <2> QED
    BY <2>1, <2>2, <2>3, <2>4, <2>5, <2>6 DEF PutOK, Has
<1> QED
  BY <1>3, <1>4, <1>5, <1>6 DEF LibInv, FolderOK, Has

LEMMA BeginStep ==
  ASSUME LibInv, NEW u \in Puts, NEW n \in FileNames, NEW over \in BOOLEAN, BeginUpload(u, n, over)
  PROVE  LibInv'
<1> DEFINE asked == [puts[u] EXCEPT !.name = n, !.over = over]
           id == IF folder.id = 0 THEN libcount.changes + 1 ELSE folder.id
<1>1. /\ PutAt(u, "new") /\ UNCHANGED <<card, data, rm, noflag, libhist, libcount>>
      /\ \/ /\ puts' = [puts EXCEPT ![u] = [asked EXCEPT !.at = "done", !.answer = 409]]
            /\ UNCHANGED folder
         \/ /\ puts' = [puts EXCEPT ![u] = [asked EXCEPT !.at = "body", !.dir = id]]
            /\ folder' = [IF folder.id = 0 THEN Empty(id) ELSE folder EXCEPT !.parts = @ \union {u}]
  BY DEF BeginUpload
<1>2. /\ LibTyped /\ FolderOK(folder) /\ folder \in Folders /\ puts \in [Puts -> Upload]
      /\ puts[u] \in Upload /\ PutOK(u) /\ data \in [Puts -> {"none", "some", "all", "safe"}]
      /\ libhist \in [gone : SUBSET Puts, cut : SUBSET Puts] /\ libcount.changes \in Nat
  BY LibFacts
<1>3. puts[u].at = "new" /\ puts[u].answer = 0
  BY <1>1, <1>2 DEF PutAt, PutOK
<1>4. asked \in Upload /\ asked.at = "new" /\ asked.answer = 0 /\ asked.dir = puts[u].dir
      /\ asked.name = n
  <2> DEFINE named == [puts[u] EXCEPT !.name = n]
  <2>1. named \in Upload /\ named.at = "new" /\ named.answer = 0 /\ named.dir = puts[u].dir
        /\ named.name = n
    BY <1>2, <1>3 DEF Upload
  <2>2. asked = [named EXCEPT !.over = over]
    OBVIOUS
  <2> HIDE DEF named, asked
  <2> QED
    BY <2>1, <2>2 DEF Upload
<1>5. u \notin libhist.cut /\ u \notin folder.parts /\ ~Has(folder, u)
  BY <1>2, <1>3 DEF PutOK, FolderOK
<1>6. id \in Nat /\ id # 0
  BY <1>2, SMT DEF Folders
<1> HIDE DEF asked, id
<1>7. CASE /\ puts' = [puts EXCEPT ![u] = [asked EXCEPT !.at = "done", !.answer = 409]]
           /\ UNCHANGED folder
  <2> DEFINE ended == [asked EXCEPT !.at = "done"]
             told == [ended EXCEPT !.answer = 409]
  <2>1. ended \in Upload /\ ended.at = "done" /\ ended.dir = puts[u].dir
    BY <1>4 DEF Upload, PutPlaces
  <2>2. puts' = [puts EXCEPT ![u] = told]
    BY <1>7
  <2> HIDE DEF ended
  <2>3. told \in Upload /\ told.at = "done" /\ told.answer = 409 /\ told.dir = puts[u].dir
    BY <2>1 DEF Upload
  <2> HIDE DEF told
  <2>4. puts' \in [Puts -> Upload] /\ puts'[u] = told /\ \A v \in Puts : v # u => puts'[v] = puts[v]
    BY <2>2, <2>3, <1>2
  <2>5. PutOK(u)'
    BY <2>3, <2>4, <1>1, <1>5, <1>7 DEF PutOK
  <2> QED
    BY <2>3, <2>4, <2>5, <1>1, <1>2, <1>3, <1>5, <1>7, ByUpload
<1>8. CASE /\ puts' = [puts EXCEPT ![u] = [asked EXCEPT !.at = "body", !.dir = id]]
           /\ folder' = [IF folder.id = 0 THEN Empty(id) ELSE folder EXCEPT !.parts = @ \union {u}]
  <2> DEFINE begun == [asked EXCEPT !.at = "body"]
             open == [begun EXCEPT !.dir = id]
             f == IF folder.id = 0 THEN Empty(id) ELSE folder
  <2>1. begun \in Upload /\ begun.at = "body" /\ begun.answer = 0 /\ begun.name = n
    BY <1>4 DEF Upload, PutPlaces
  <2>2. puts' = [puts EXCEPT ![u] = open]
    BY <1>8
  <2> HIDE DEF begun
  <2>3. open \in Upload /\ open.at = "body" /\ open.answer = 0 /\ open.dir = id /\ open.name = n
    BY <2>1, <1>6 DEF Upload
  <2> HIDE DEF open
  <2>4. puts' \in [Puts -> Upload] /\ puts'[u] = open /\ \A v \in Puts : v # u => puts'[v] = puts[v]
    BY <2>2, <2>3, <1>2
  <2>5. f \in Folders /\ f.id = id /\ f.parts \subseteq folder.parts
        /\ \A v \in Puts : Has(f, v) <=> Has(folder, v)
    <3>1. CASE folder.id = 0
      <4>1. f = Empty(id)
        BY <3>1
      <4>2. f.id = id /\ f.parts = {} /\ f \in Folders /\ \A m \in FileNames : f.names[m] = NoFile
        BY <4>1, <1>6 DEF Empty, Folders
      <4>3. \A v \in Puts : ~Has(f, v)
        BY <4>2, NumbersOfPuts DEF Has
      <4>4. \A v \in Puts : ~Has(folder, v)
        BY <3>1, <1>2 DEF FolderOK
      <4> QED
        BY <4>2, <4>3, <4>4
    <3>2. CASE folder.id # 0
      BY <3>2, <1>2 DEF id
    <3> QED
      BY <3>1, <3>2
  <2>6. folder' = [f EXCEPT !.parts = @ \union {u}]
    BY <1>8
  <2> HIDE DEF f
  <2>7. folder'.id = id /\ folder'.names = f.names /\ folder'.parts = f.parts \union {u}
        /\ folder' \in Folders
    BY <2>5, <2>6 DEF Folders
  <2>8. \A v \in Puts : Has(folder', v) <=> Has(folder, v)
    BY <2>5, <2>7 DEF Has
  <2>9. PutOK(u)'
    BY <2>3, <2>4, <1>1, <1>5 DEF PutOK
  <2>10. folder'.id = folder.id \/ folder.id = 0
    BY <2>7 DEF id
  <2>11. \A v \in folder'.parts : v # u => v \in folder.parts
    BY <2>5, <2>7
  <2> QED
    BY <2>3, <2>4, <2>7, <2>8, <2>9, <2>10, <2>11, <1>1, <1>2, <1>3, <1>5, <1>6, ByUpload
<1> QED
  BY <1>1, <1>7, <1>8

LEMMA ReceiveStep ==
  ASSUME LibInv, NEW u \in Puts, Receive(u) \/ SyncData(u)
  PROVE  LibInv'
<1>1. /\ LibTyped /\ FolderOK(folder) /\ folder \in Folders /\ puts \in [Puts -> Upload]
      /\ puts[u] \in Upload /\ PutOK(u) /\ data \in [Puts -> {"none", "some", "all", "safe"}]
      /\ libhist \in [gone : SUBSET Puts, cut : SUBSET Puts]
  BY LibFacts
<1>2. puts[u].at = "body" /\ puts[u].answer = 0 /\ UNCHANGED <<folder, card, rm, noflag, libhist, libcount>>
      /\ puts[u].name \in FileNames
  BY <1>1 DEF Receive, SyncData, PutAt, PutOK
<1>3. u \notin libhist.cut /\ ~Has(folder, u)
  BY <1>1, <1>2 DEF PutOK, FolderOK
<1>4. u \in folder.parts => folder.id # 0 /\ puts[u].dir = folder.id
  BY <1>1 DEF FolderOK
<1>5. CASE Receive(u)
  <2>1. /\ UNCHANGED puts /\ data[u] \in {"none", "some"}
        /\ data' = [data EXCEPT ![u] = IF data[u] = "none" THEN "some" ELSE "all"]
    BY <1>5 DEF Receive
  <2>2. data' \in [Puts -> {"none", "some", "all", "safe"}] /\ \A v \in Puts : v # u => data'[v] = data[v]
    BY <2>1, <1>1
  <2>3. PutOK(u)'
    BY <2>1, <1>2, <1>3 DEF PutOK
  <2> QED
    BY <2>1, <2>2, <2>3, <1>1, <1>2, <1>3, <1>4, ByUpload
<1>6. CASE SyncData(u)
  <2>1. data' = [data EXCEPT ![u] = "safe"] /\ Goes(u, "finish")
    BY <1>6 DEF SyncData
  <2>2. data' \in [Puts -> {"none", "some", "all", "safe"}] /\ data'[u] = "safe"
        /\ \A v \in Puts : v # u => data'[v] = data[v]
    BY <2>1, <1>1
  <2>3. /\ puts' \in [Puts -> Upload]
        /\ puts'[u].at = "finish" /\ puts'[u].answer = puts[u].answer /\ puts'[u].dir = puts[u].dir
        /\ puts'[u].name = puts[u].name
        /\ \A v \in Puts : v # u => puts'[v] = puts[v]
    BY <2>1, <1>1, GoesOn DEF PutPlaces
  <2>4. PutOK(u)'
    BY <2>2, <2>3, <1>2, <1>3 DEF PutOK
  <2> QED
    BY <2>2, <2>3, <2>4, <1>1, <1>2, <1>3, <1>4, ByUpload
<1> QED
  BY <1>5, <1>6

\* An upload that is answered without a name, its .part gone
LEMMA Refused ==
  ASSUME LibInv, NEW u \in Puts, puts[u].at \in {"body", "finish", "looked", "over"},
         NEW status \in {409, 499, 500, 507}, Answer(u, status), folder' = Unpart(u),
         UNCHANGED <<card, data, noflag, libhist, libcount>>
  PROVE  LibInv'
<1>1. /\ FolderOK(folder) /\ folder \in Folders /\ puts \in [Puts -> Upload]
      /\ PutOK(u) /\ data \in [Puts -> {"none", "some", "all", "safe"}]
      /\ libhist \in [gone : SUBSET Puts, cut : SUBSET Puts]
  BY LibFacts
<1>2. u \notin libhist.cut /\ ~Has(folder, u)
  BY <1>1 DEF PutOK, FolderOK
<1>3. /\ folder' \in Folders /\ folder'.id = folder.id /\ folder'.parts \subseteq folder.parts
      /\ u \notin folder'.parts /\ \A v \in Puts : Has(folder', v) <=> Has(folder, v)
  BY <1>1, UnpartFolder
<1>4. /\ puts' \in [Puts -> Upload]
      /\ puts'[u].at = "done" /\ puts'[u].answer = status /\ puts'[u].dir = puts[u].dir
      /\ \A v \in Puts : v # u => puts'[v] = puts[v]
  BY <1>1, IsAnswered
<1>5. PutOK(u)'
  BY <1>2, <1>3, <1>4 DEF PutOK
<1> QED
  BY <1>1, <1>2, <1>3, <1>4, <1>5, ByUpload

\* An upload goes from one of its places to another before it has a name.
LEMMA Looks ==
  ASSUME LibInv, NEW u \in Puts, puts[u].at = "finish", NEW at \in {"looked", "over"}, Goes(u, at),
         at = "looked" => noflag, at = "over" => puts[u].over,
         UNCHANGED <<folder, card, data, noflag, libhist, libcount>>
  PROVE  LibInv'
<1>1. /\ FolderOK(folder) /\ folder \in Folders /\ puts \in [Puts -> Upload]
      /\ PutOK(u) /\ data \in [Puts -> {"none", "some", "all", "safe"}]
      /\ libhist \in [gone : SUBSET Puts, cut : SUBSET Puts]
  BY LibFacts
<1>2. u \notin libhist.cut /\ ~Has(folder, u) /\ data[u] = "safe" /\ puts[u].name \in FileNames
      /\ puts[u].answer = 0
  BY <1>1 DEF PutOK, FolderOK
<1>3. u \in folder.parts => folder.id # 0 /\ puts[u].dir = folder.id
  BY <1>1 DEF FolderOK
<1>4. /\ puts' \in [Puts -> Upload]
      /\ puts'[u].at = at /\ puts'[u].answer = puts[u].answer /\ puts'[u].dir = puts[u].dir
      /\ puts'[u].name = puts[u].name /\ puts'[u].over = puts[u].over
      /\ \A v \in Puts : v # u => puts'[v] = puts[v]
  BY <1>1, GoesOn DEF PutPlaces
<1>5. PutOK(u)'
  BY <1>2, <1>4 DEF PutOK
<1> QED
  BY <1>1, <1>2, <1>3, <1>4, <1>5, ByUpload

\* A .part gets its name: what had it is replaced.
LEMMA GetsName ==
  ASSUME LibInv, NEW u \in Puts, puts[u].at \in {"finish", "looked", "over"}, Open(u),
         folder' = Named(u), Goes(u, "named"),
         (libhist' = libhist /\ ~Taken(puts[u].name)) \/ Replaces(puts[u].name),
         UNCHANGED <<card, data, noflag, libcount>>
  PROVE  LibInv'
<1> DEFINE n == puts[u].name
<1>1. /\ FolderOK(folder) /\ folder \in Folders /\ puts \in [Puts -> Upload]
      /\ PutOK(u) /\ data \in [Puts -> {"none", "some", "all", "safe"}]
      /\ libhist \in [gone : SUBSET Puts, cut : SUBSET Puts]
  BY LibFacts
<1>2. u \notin libhist.cut /\ ~Has(folder, u) /\ data[u] = "safe" /\ n \in FileNames
      /\ puts[u].answer = 0 /\ folder.id # 0 /\ puts[u].dir = folder.id
  BY <1>1 DEF PutOK, FolderOK, Open
<1>3. /\ folder' \in Folders /\ folder'.id = folder.id /\ folder'.parts = folder.parts \ {u}
      /\ Has(folder', u)
      /\ \A v \in Puts : v # u /\ Has(folder', v) => Has(folder, v)
      /\ \A v \in Puts : v # u /\ Has(folder, v) => Has(folder', v) \/ v = folder.names[n]
  BY <1>1, <1>2, NamedFolder
<1>4. /\ puts' \in [Puts -> Upload]
      /\ puts'[u].at = "named" /\ puts'[u].answer = puts[u].answer /\ puts'[u].dir = puts[u].dir
      /\ puts'[u].name = puts[u].name
      /\ \A v \in Puts : v # u => puts'[v] = puts[v]
  BY <1>1, GoesOn DEF PutPlaces
<1>5. /\ libhist' \in [gone : SUBSET Puts, cut : SUBSET Puts]
      /\ libhist'.cut = libhist.cut /\ libhist.gone \subseteq libhist'.gone
      /\ \A v \in Puts : v = folder.names[n] => v \in libhist'.gone
  <2>1. folder.names[n] \in Puts \union {NoFile}
    BY <1>1, <1>2 DEF Folders
  <2>2. CASE libhist' = libhist /\ ~Taken(n)
    BY <2>2, <1>1, NumbersOfPuts DEF Taken
  <2>3. CASE Replaces(n)
    <3>1. libhist' = [libhist EXCEPT !.gone = @ \union ({folder.names[n]} \ {NoFile})]
      BY <2>3 DEF Replaces
    <3>2. libhist'.gone = libhist.gone \union ({folder.names[n]} \ {NoFile}) /\ libhist'.cut = libhist.cut
          /\ libhist' \in [gone : SUBSET Puts, cut : SUBSET Puts]
      BY <3>1, <2>1, <1>1
    <3> QED
      BY <3>2, NumbersOfPuts
  <2> QED
    BY <2>2, <2>3
<1>6. \A v \in Puts : v # u /\ Has(folder, v) => Has(folder', v) \/ v \in libhist'.gone
  BY <1>3, <1>5
<1>7. PutOK(u)'
  BY <1>2, <1>3, <1>4, <1>5 DEF PutOK, Has
<1>8. \A v \in folder'.parts : v # u => v \in folder.parts
  BY <1>3
<1>9. u \notin folder'.parts
  BY <1>3
<1>10. \A v \in Puts : v # u => puts'[v] = puts[v] /\ data'[v] = data[v]
  BY <1>4
<1> QED
  BY <1>1, <1>2, <1>3, <1>4, <1>5, <1>6, <1>7, <1>8, <1>9, <1>10, ByUpload

LEMMA BreakStep ==
  ASSUME LibInv, NEW u \in Puts, NEW status \in {499, 507}, Break(u, status)
  PROVE  LibInv'
BY Refused DEF Break, PutAt

LEMMA FinishStep ==
  ASSUME LibInv, NEW u \in Puts, FinishUpload(u)
  PROVE  LibInv'
<1> DEFINE n == puts[u].name
           part == Open(u) /\ u \in folder.parts
<1>1. puts[u].at = "finish" /\ UNCHANGED <<card, data, rm, noflag, libcount>>
  BY DEF FinishUpload, PutAt
<1>2. \/ Answer(u, 500) /\ folder' = Unpart(u) /\ UNCHANGED libhist
      \/ part /\ ~Taken(n) /\ folder' = Named(u) /\ Goes(u, "named") /\ UNCHANGED libhist
      \/ noflag /\ Goes(u, "looked") /\ UNCHANGED <<folder, libhist>>
      \/ puts[u].over /\ Goes(u, "over") /\ UNCHANGED <<folder, libhist>>
      \/ Answer(u, 409) /\ folder' = Unpart(u) /\ UNCHANGED libhist
  <2>1. noflag \in BOOLEAN
    BY LibFacts
  <2> QED
    BY <2>1 DEF FinishUpload, OneCall
<1>3. CASE Answer(u, 500) /\ folder' = Unpart(u) /\ UNCHANGED libhist
  BY <1>1, <1>3, Refused
<1>4. CASE part /\ ~Taken(n) /\ folder' = Named(u) /\ Goes(u, "named") /\ UNCHANGED libhist
  BY <1>1, <1>4, GetsName
<1>5. CASE noflag /\ Goes(u, "looked") /\ UNCHANGED <<folder, libhist>>
  BY <1>1, <1>5, Looks
<1>6. CASE puts[u].over /\ Goes(u, "over") /\ UNCHANGED <<folder, libhist>>
  BY <1>1, <1>6, Looks
<1>7. CASE Answer(u, 409) /\ folder' = Unpart(u) /\ UNCHANGED libhist
  BY <1>1, <1>7, Refused
<1> QED
  BY <1>2, <1>3, <1>4, <1>5, <1>6, <1>7

LEMMA RenameOverStep ==
  ASSUME LibInv, NEW u \in Puts, RenameOver(u)
  PROVE  LibInv'
<1>1. puts[u].at \in {"looked", "over"} /\ UNCHANGED <<card, data, rm, noflag, libcount>>
  BY DEF RenameOver
<1>2. CASE Open(u) /\ folder' = Named(u) /\ Goes(u, "named") /\ Replaces(puts[u].name)
  BY <1>1, <1>2, GetsName
<1>3. CASE folder' = Unpart(u) /\ Answer(u, 500) /\ UNCHANGED libhist
  BY <1>1, <1>3, Refused
<1> QED
  BY <1>2, <1>3 DEF RenameOver

LEMMA OverGoneStep ==
  ASSUME LibInv, NEW u \in Puts, OverGone(u)
  PROVE  LibInv'
BY Refused DEF OverGone, PutAt

\* An upload that is told 201 has its name on the card, or it was replaced or
\* deleted since.
LEMMA SyncFolderStep ==
  ASSUME LibInv, NEW u \in Puts, SyncFolder(u)
  PROVE  LibInv'
<1>1. /\ FolderOK(folder) /\ folder \in Folders /\ puts \in [Puts -> Upload]
      /\ PutOK(u) /\ data \in [Puts -> {"none", "some", "all", "safe"}]
      /\ libhist \in [gone : SUBSET Puts, cut : SUBSET Puts]
  BY LibFacts
<1>2. /\ puts[u].at = "named" /\ card' = (IF Open(u) THEN folder ELSE card) /\ Answer(u, 201)
      /\ UNCHANGED <<folder, data, rm, noflag, libhist, libcount>>
  BY DEF SyncFolder, PutAt
<1>3. u \notin libhist.cut /\ data[u] = "safe" /\ u \notin folder.parts
  BY <1>1, <1>2 DEF PutOK
<1>4. /\ puts' \in [Puts -> Upload]
      /\ puts'[u].at = "done" /\ puts'[u].answer = 201 /\ puts'[u].dir = puts[u].dir
      /\ \A v \in Puts : v # u => puts'[v] = puts[v]
  BY <1>1, <1>2, IsAnswered
<1>5. Has(folder, u) \/ u \in libhist.gone
  BY <1>1, <1>2 DEF PutOK
<1>6. Has(folder, u) => folder.id # 0 /\ puts[u].dir = folder.id
  BY <1>1 DEF FolderOK
<1>7. Has(folder, u) => card' = folder
  BY <1>2, <1>6 DEF Open
<1>8. u \in folder.parts => folder.id # 0 /\ puts[u].dir = folder.id
  BY <1>1 DEF FolderOK
<1>9. card' = card \/ card' = folder'
  BY <1>2
<1>10. PutOK(u)'
  BY <1>2, <1>3, <1>4, <1>5, <1>7 DEF PutOK, Has
<1> QED
  BY <1>1, <1>2, <1>3, <1>4, <1>6, <1>8, <1>9, <1>10, ByUpload

\* A step of another request that takes entries out of the folder
LEMMA ByOther ==
  ASSUME LibInv, UNCHANGED <<card, data, puts, noflag>>, folder' \in Folders,
         libhist' \in [gone : SUBSET Puts, cut : SUBSET Puts],
         libcount' \in [changes : Nat, cuts : Nat],
         libhist'.cut = libhist.cut, libhist.gone \subseteq libhist'.gone,
         folder'.parts \subseteq folder.parts,
         folder'.id = folder.id \/ (folder'.parts = {} /\ \A v \in Puts : ~Has(folder', v)),
         \A v \in Puts : Has(folder', v) => Has(folder, v),
         \A v \in Puts : Has(folder, v) => Has(folder', v) \/ v \in libhist'.gone
  PROVE  LibInv'
<1>1. /\ LibTyped /\ FolderOK(folder) /\ FolderOK(card)
      /\ \A v \in Puts : PutOK(v)
  BY LibFacts
<1>2. LibTyped'
  BY <1>1 DEF LibTyped
<1>3. FolderOK(card)'
  BY <1>1 DEF FolderOK, Has
<1>4. FolderOK(folder)'
  <2>1. \A v \in folder'.parts : folder'.id # 0 /\ puts[v].dir = folder'.id /\ puts[v].at # "new"
    BY <1>1 DEF FolderOK
  <2>2. ASSUME NEW v \in Puts, Has(folder', v)
        PROVE  /\ folder'.id # 0 /\ puts[v].dir = folder'.id /\ data[v] = "safe"
               /\ puts[v].at \in {"named", "done"}
               /\ puts[v].at = "named" \/ puts[v].answer = 201 \/ v \in libhist.cut
    <3>1. Has(folder, v) /\ folder'.id = folder.id
      BY <2>2
    <3> QED
      BY <3>1, <1>1 DEF FolderOK
  <2> QED
    BY <2>1, <2>2 DEF FolderOK, Has
<1>5. ASSUME NEW v \in Puts
      PROVE  PutOK(v)'
  <2>1. PutOK(v)
    BY <1>1
  <2>2. puts[v].at = "named" \/ puts[v].answer = 201 => Has(folder', v) \/ v \in libhist'.gone
    BY <2>1 DEF PutOK
  <2>3. puts[v].answer = 201 => puts[v].at = "done" /\ (Has(card, v) \/ v \in libhist'.gone)
    BY <2>1 DEF PutOK
  <2>4. puts[v].at \in {"named", "done"} /\ v \notin libhist'.cut => v \notin folder'.parts
    BY <2>1 DEF PutOK
  <2> QED
    BY <2>1, <2>2, <2>3, <2>4 DEF PutOK, Has
<1> QED
  BY <1>2, <1>3, <1>4, <1>5 DEF LibInv, FolderOK, Has

LEMMA CountedChange ==
  LibInv /\ Change => libcount' \in [changes : Nat, cuts : Nat] /\ libcount'.cuts = libcount.cuts
<1> SUFFICES ASSUME LibInv, Change
             PROVE  libcount' \in [changes : Nat, cuts : Nat] /\ libcount'.cuts = libcount.cuts
  OBVIOUS
<1>1. libcount \in [changes : Nat, cuts : Nat]
  BY LibFacts
<1>2. PICK c \in Nat : c = libcount.changes + 1
  BY <1>1, SMT
<1>3. libcount' = [libcount EXCEPT !.changes = c]
  BY <1>2 DEF Change
<1> QED
  BY <1>1, <1>3

LEMMA ReplacesNames ==
  ASSUME LibInv, NEW n \in FileNames, Replaces(n)
  PROVE  /\ libhist' \in [gone : SUBSET Puts, cut : SUBSET Puts]
         /\ libhist'.cut = libhist.cut /\ libhist.gone \subseteq libhist'.gone
         /\ \A v \in Puts : v = folder.names[n] => v \in libhist'.gone
<1>1. libhist \in [gone : SUBSET Puts, cut : SUBSET Puts] /\ folder \in Folders
  BY LibFacts
<1>2. folder.names[n] \in Puts \union {NoFile}
  BY <1>1 DEF Folders
<1>3. libhist' = [libhist EXCEPT !.gone = @ \union ({folder.names[n]} \ {NoFile})]
  BY DEF Replaces
<1>4. libhist'.gone = libhist.gone \union ({folder.names[n]} \ {NoFile}) /\ libhist'.cut = libhist.cut
      /\ libhist' \in [gone : SUBSET Puts, cut : SUBSET Puts]
  BY <1>1, <1>2, <1>3
<1> QED
  BY <1>4, NumbersOfPuts

LEMMA RenameStep ==
  ASSUME LibInv, NEW from \in FileNames, NEW to \in FileNames, Rename(from, to)
  PROVE  LibInv'
<1>1. folder \in Folders /\ libhist \in [gone : SUBSET Puts, cut : SUBSET Puts]
  BY LibFacts
<1>2. /\ from # to /\ ~Taken(to) /\ Change /\ UNCHANGED <<card, data, puts, rm, noflag, libhist>>
      /\ folder' = [folder EXCEPT !.names[to] = folder.names[from], !.names[from] = NoFile]
  BY DEF Rename
<1>3. /\ folder' \in Folders /\ folder'.id = folder.id /\ folder'.parts = folder.parts
      /\ \A v \in Puts : Has(folder', v) <=> Has(folder, v)
  BY <1>1, <1>2, MovedFolder
<1>4. libcount' \in [changes : Nat, cuts : Nat]
  BY <1>2, CountedChange
<1> QED
  BY <1>1, <1>2, <1>3, <1>4, ByOther

\* An entry of the folder is deleted.
LEMMA Deleted ==
  ASSUME LibInv, NEW n \in FileNames, Replaces(n), folder' = [folder EXCEPT !.names[n] = NoFile],
         UNCHANGED <<card, data, puts, noflag>>, libcount' \in [changes : Nat, cuts : Nat]
  PROVE  LibInv'
<1>1. folder \in Folders
  BY LibFacts
<1>2. /\ folder' \in Folders /\ folder'.id = folder.id /\ folder'.parts = folder.parts
      /\ \A v \in Puts : Has(folder', v) => Has(folder, v)
      /\ \A v \in Puts : Has(folder, v) => Has(folder', v) \/ v = folder.names[n]
  BY <1>1, LeftFolder
<1>3. /\ libhist' \in [gone : SUBSET Puts, cut : SUBSET Puts]
      /\ libhist'.cut = libhist.cut /\ libhist.gone \subseteq libhist'.gone
      /\ \A v \in Puts : v = folder.names[n] => v \in libhist'.gone
  BY ReplacesNames
<1>4. \A v \in Puts : Has(folder, v) => Has(folder', v) \/ v \in libhist'.gone
  BY <1>2, <1>3
<1> QED
  BY <1>2, <1>3, <1>4, ByOther

LEMMA DeleteFileStep ==
  ASSUME LibInv, NEW n \in FileNames, DeleteFile(n)
  PROVE  LibInv'
BY CountedChange, Deleted DEF DeleteFile

LEMMA WalkStep == LibInv /\ Walk => LibInv'
<1> SUFFICES ASSUME LibInv, Walk
             PROVE  LibInv'
  OBVIOUS
<1>1. folder \in Folders /\ libhist \in [gone : SUBSET Puts, cut : SUBSET Puts]
  BY LibFacts
<1>2. Change /\ UNCHANGED <<folder, card, data, puts, noflag, libhist>>
  BY DEF Walk
<1>3. libcount' \in [changes : Nat, cuts : Nat]
  BY <1>2, CountedChange
<1> QED
  BY <1>1, <1>2, <1>3, ByOther

LEMMA WalkOnStep == LibInv /\ rm.files \subseteq FileNames /\ WalkOn => LibInv'
<1> SUFFICES ASSUME LibInv, rm.files \subseteq FileNames, WalkOn
             PROVE  LibInv'
  OBVIOUS
<1>1. /\ folder \in Folders /\ libhist \in [gone : SUBSET Puts, cut : SUBSET Puts]
      /\ libcount \in [changes : Nat, cuts : Nat]
  BY LibFacts
<1>2. UNCHANGED <<card, data, puts, noflag, libcount>>
  BY DEF WalkOn
<1>3. ASSUME NEW n \in rm.files, Replaces(n), folder' = [folder EXCEPT !.names[n] = NoFile]
      PROVE  LibInv'
  <2>1. n \in FileNames
    OBVIOUS
  <2> QED
    BY <1>1, <1>2, <1>3, <2>1, Deleted
<1>4. ASSUME NEW u \in rm.parts, folder' = [folder EXCEPT !.parts = @ \ {u}], UNCHANGED libhist
      PROVE  LibInv'
  <2>1. folder' \in Folders /\ folder'.id = folder.id /\ folder'.names = folder.names
        /\ folder'.parts = folder.parts \ {u}
    BY <1>1, <1>4 DEF Folders
  <2>2. \A v \in Puts : Has(folder', v) <=> Has(folder, v)
    BY <2>1 DEF Has
  <2> QED
    BY <1>1, <1>2, <1>4, <2>1, <2>2, ByOther
<1>5. ASSUME UNCHANGED libhist,
             folder' = IF folder.parts = {} /\ (\A n \in FileNames : ~Taken(n)) THEN Empty(0) ELSE folder
      PROVE  LibInv'
  <2>1. CASE folder' = folder
    BY <1>1, <1>2, <1>5, <2>1, ByOther
  <2>2. CASE folder' = Empty(0) /\ (\A n \in FileNames : ~Taken(n))
    <3>1. folder' \in Folders /\ folder'.parts = {} /\ \A n \in FileNames : folder'.names[n] = NoFile
      BY <2>2 DEF Empty, Folders
    <3>2. \A v \in Puts : ~Has(folder', v)
      BY <3>1, NumbersOfPuts DEF Has
    <3>3. \A v \in Puts : ~Has(folder, v)
      BY <2>2, NumbersOfPuts DEF Has, Taken
    <3> QED
      BY <1>1, <1>2, <1>5, <3>1, <3>2, <3>3, ByOther
  <2> QED
    BY <1>5, <2>1, <2>2
<1> QED
  BY <1>3, <1>4, <1>5 DEF WalkOn

LEMMA WriteBackStep == LibInv /\ WriteBack => LibInv'
<1> SUFFICES ASSUME LibInv, WriteBack
             PROVE  LibInv'
  OBVIOUS
<1>1. LibTyped /\ FolderOK(folder) /\ \A v \in Puts : PutOK(v)
  BY LibFacts
<1>2. card' = folder /\ UNCHANGED <<folder, data, puts, rm, noflag, libhist, libcount>>
  BY DEF WriteBack
<1>3. LibTyped'
  BY <1>1, <1>2 DEF LibTyped
<1>4. FolderOK(folder)' /\ FolderOK(card)'
  BY <1>1, <1>2 DEF FolderOK, Has
<1>5. ASSUME NEW v \in Puts
      PROVE  PutOK(v)'
  BY <1>1, <1>2 DEF PutOK, Has
<1> QED
  BY <1>3, <1>4, <1>5 DEF LibInv, FolderOK, Has

\* The power goes: what was safe still is, and what is on the card is what there is.
LEMMA PowerCutStep == LibInv /\ PowerCut => LibInv'
<1> SUFFICES ASSUME LibInv, PowerCut
             PROVE  LibInv'
  OBVIOUS
<1>1. /\ LibTyped /\ FolderOK(card) /\ card \in Folders /\ puts \in [Puts -> Upload]
      /\ data \in [Puts -> {"none", "some", "all", "safe"}]
      /\ libhist \in [gone : SUBSET Puts, cut : SUBSET Puts]
      /\ libcount \in [changes : Nat, cuts : Nat]
      /\ \A v \in Puts : PutOK(v) /\ puts[v] \in Upload
  BY LibFacts
<1>2. /\ folder' = card /\ card' = card /\ noflag' = noflag
      /\ data' = [u \in Puts |-> IF data[u] = "all" THEN "some" ELSE data[u]]
      /\ puts' = [u \in Puts |-> IF puts[u].at \in {"new", "done"} THEN puts[u]
                                 ELSE [puts[u] EXCEPT !.at = "done"]]
      /\ libhist' = [libhist EXCEPT !.cut = @ \union {u \in Puts : puts[u].at \notin {"new"}}]
      /\ libcount' = [libcount EXCEPT !.cuts = @ + 1]
  BY DEF PowerCut
<1>3. data' \in [Puts -> {"none", "some", "all", "safe"}]
      /\ \A v \in Puts : data[v] = "safe" => data'[v] = "safe"
  BY <1>1, <1>2
<1>4. ASSUME NEW v \in Puts
      PROVE  /\ puts'[v] \in Upload
             /\ puts'[v].dir = puts[v].dir /\ puts'[v].answer = puts[v].answer
             /\ puts'[v].at = IF puts[v].at = "new" THEN "new" ELSE "done"
  <2>1. CASE puts[v].at \in {"new", "done"}
    BY <1>1, <1>2, <2>1
  <2>2. CASE puts[v].at \notin {"new", "done"}
    <3>1. puts'[v] = [puts[v] EXCEPT !.at = "done"]
      BY <1>2, <2>2
    <3> QED
      BY <1>1, <2>2, <3>1 DEF Upload, PutPlaces
  <2> QED
    BY <2>1, <2>2
<1>5. puts' \in [Puts -> Upload]
  BY <1>2, <1>4
<1>6. /\ libhist' \in [gone : SUBSET Puts, cut : SUBSET Puts] /\ libhist'.gone = libhist.gone
      /\ \A v \in Puts : v \in libhist'.cut <=> v \in libhist.cut \/ puts[v].at # "new"
  BY <1>1, <1>2
<1>7. libcount' \in [changes : Nat, cuts : Nat]
  <2>1. PICK c \in Nat : c = libcount.cuts + 1
    BY <1>1, SMT
  <2>2. libcount' = [libcount EXCEPT !.cuts = c]
    BY <1>2, <2>1
  <2> QED
    BY <1>1, <2>2
<1>8. LibTyped'
  BY <1>1, <1>2, <1>3, <1>5, <1>6, <1>7 DEF LibTyped
<1>9. /\ \A v \in card.parts : card.id # 0 /\ puts'[v].dir = card.id /\ puts'[v].at # "new"
      /\ \A v \in Puts : Has(card, v) =>
           /\ card.id # 0 /\ puts'[v].dir = card.id /\ data'[v] = "safe"
           /\ puts'[v].at = "done" /\ v \in libhist'.cut
  <2>1. \A v \in card.parts : v \in Puts
    BY <1>1 DEF Folders
  <2> QED
    BY <2>1, <1>1, <1>3, <1>4, <1>6 DEF FolderOK
<1>10. FolderOK(folder)' /\ FolderOK(card)'
  BY <1>2, <1>9 DEF FolderOK, Has
<1>11. ASSUME NEW v \in Puts
       PROVE  PutOK(v)'
  <2>1. PutOK(v) /\ puts[v].at \in PutPlaces
    BY <1>1 DEF Upload
  <2>2. puts'[v].at \in {"new", "done"} /\ (puts'[v].at = "new" => puts'[v].answer = 0)
    BY <2>1, <1>4 DEF PutOK
  <2>3. puts'[v].answer = 201 => puts'[v].at = "done" /\ (Has(card, v) \/ v \in libhist'.gone)
    BY <2>1, <1>4, <1>6 DEF PutOK
  <2>4. v \in libhist'.cut => puts'[v].at = "done"
    BY <2>1, <1>4, <1>6 DEF PutOK
  <2>5. puts'[v].at = "done" => v \in libhist'.cut
    BY <1>4, <1>6
  <2> QED
    BY <2>2, <2>3, <2>4, <2>5, <1>2 DEF PutOK, Has
<1> QED
  BY <1>8, <1>10, <1>11 DEF LibInv, FolderOK, Has

\* A deletion under way has entries of the folder yet to delete.
Deleting == [at : {"idle", "walk"}, files : SUBSET FileNames, parts : SUBSET Puts]
LibIInv == LibInv /\ rm \in Deleting

LEMMA LibInitially == LibInit => LibIInv
<1> SUFFICES ASSUME LibInit
             PROVE  LibIInv
  OBVIOUS
<1>1. /\ folder = Empty(1) /\ card = folder /\ data = [u \in Puts |-> "none"]
      /\ puts = [u \in Puts |-> NewPut] /\ rm = [at |-> "idle", files |-> {}, parts |-> {}]
      /\ noflag \in BOOLEAN /\ libhist = [gone |-> {}, cut |-> {}]
      /\ libcount = [changes |-> 0, cuts |-> 0]
  BY DEF LibInit
<1>2. NewPut \in Upload /\ NewPut.at = "new" /\ NewPut.answer = 0
  BY DEF NewPut, Upload, PutPlaces
<1>3. Empty(1) \in Folders /\ Empty(1).parts = {} /\ \A n \in FileNames : Empty(1).names[n] = NoFile
  BY DEF Empty, Folders
<1>4. \A v \in Puts : ~Has(Empty(1), v)
  BY <1>3, NumbersOfPuts DEF Has
<1>5. LibTyped
  BY <1>1, <1>2, <1>3 DEF LibTyped
<1>6. FolderOK(folder) /\ FolderOK(card)
  BY <1>1, <1>3, <1>4 DEF FolderOK
<1>7. \A v \in Puts : PutOK(v)
  BY <1>1, <1>2, <1>3 DEF PutOK
<1> QED
  BY <1>1, <1>5, <1>6, <1>7 DEF LibInv, LibIInv, Deleting

LEMMA LibInductive == LibIInv /\ [LibNext]_libVars => LibIInv'
<1> SUFFICES ASSUME LibIInv, [LibNext]_libVars
             PROVE  LibIInv'
  OBVIOUS
<1>1. LibInv /\ rm \in Deleting /\ rm.files \subseteq FileNames /\ folder \in Folders
  BY LibFacts DEF LibIInv, Deleting
<1>2. LibInv'
  <2>1. CASE UNCHANGED libVars
    BY <1>1, <2>1 DEF libVars, LibInv, LibTyped, FolderOK, PutOK, Has
  <2>2. CASE LibNext
    BY <1>1, <2>2, BeginStep, ReceiveStep, BreakStep, FinishStep, RenameOverStep, OverGoneStep,
       SyncFolderStep, RenameStep, DeleteFileStep, WalkStep, WalkOnStep, WriteBackStep, PowerCutStep
       DEF LibNext
  <2> QED
    BY <2>1, <2>2
<1>3. rm' \in Deleting
  <2>1. CASE UNCHANGED rm
    BY <1>1, <2>1
  <2>2. CASE Walk \/ PowerCut
    BY <1>1, <2>2 DEF Walk, PowerCut, Deleting, Folders
  <2>3. CASE WalkOn
    <3>1. ASSUME NEW n \in rm.files,
                 rm' = [rm EXCEPT !.files = @ \ {n}, !.at = IF Taken(n) THEN @ ELSE "idle"]
          PROVE  rm' \in Deleting
      <4>1. PICK at \in {"idle", "walk"} : at = IF Taken(n) THEN rm.at ELSE "idle"
        BY <1>1 DEF Deleting
      <4>2. rm' = [rm EXCEPT !.files = @ \ {n}, !.at = at]
        BY <3>1, <4>1
      <4> QED
        BY <1>1, <4>2 DEF Deleting
    <3>2. ASSUME NEW u \in rm.parts,
                 rm' = [rm EXCEPT !.parts = @ \ {u}, !.at = IF u \in folder.parts THEN @ ELSE "idle"]
          PROVE  rm' \in Deleting
      <4>1. PICK at \in {"idle", "walk"} : at = IF u \in folder.parts THEN rm.at ELSE "idle"
        BY <1>1 DEF Deleting
      <4>2. rm' = [rm EXCEPT !.parts = @ \ {u}, !.at = at]
        BY <3>2, <4>1
      <4> QED
        BY <1>1, <4>2 DEF Deleting
    <3>3. ASSUME rm' = [rm EXCEPT !.at = "idle"]
          PROVE  rm' \in Deleting
      BY <1>1, <3>3 DEF Deleting
    <3> QED
      BY <2>3, <3>1, <3>2, <3>3 DEF WalkOn
  <2> QED
    BY <2>1, <2>2, <2>3 DEF LibNext, libVars, BeginUpload, Receive, SyncData, Break, FinishUpload,
       RenameOver, OverGone, SyncFolder, Rename, DeleteFile, WriteBack
<1> QED
  BY <1>2, <1>3 DEF LibIInv

LEMMA LibInvIsKept == LibInv => LibraryKept
<1> SUFFICES ASSUME LibInv
             PROVE  LibraryKept
  OBVIOUS
<1>1. FolderOK(folder) /\ \A u \in Puts : PutOK(u)
  BY LibFacts
<1>2. WholeByName
  BY <1>1 DEF WholeByName, Visible, Has, FolderOK
<1>3. KeptWhenTold
  BY <1>1 DEF KeptWhenTold, Visible, Has, PutOK
<1>4. RefusedLeavesNothing
  BY <1>1 DEF RefusedLeavesNothing, Visible, Has, PutOK, FolderOK
<1> QED
  BY <1>2, <1>3, <1>4 DEF LibraryKept

\* However uploads, renames, deletions and power cuts come between each other: what
\* has a name in the library is whole, what was answered 201 is there until a request
\* takes it away, and what was refused or broke off left nothing (api.c, library.c).
THEOREM LibraryInvariant == LibSpec => []LibraryKept
<1>1. LibSpec => []LibIInv
  BY LibInitially, LibInductive, PTL DEF LibSpec
<1>2. LibIInv => LibraryKept
  BY LibInvIsKept DEF LibIInv
<1> QED
  BY <1>1, <1>2, PTL

\* Whatever takes entries out of the folder, or moves one, puts none in the place
\* of another.
LEMMA NoneReplaced ==
  ASSUME LibIInv, LibNext, NEW n \in FileNames,
         folder.names[n] # NoFile, folder'.names[n] \notin {NoFile, folder.names[n]}
  PROVE  noflag \/ puts[folder'.names[n]].over \/ libcount'.cuts # libcount.cuts
<1>1. LibInv /\ rm \in Deleting /\ rm.files \subseteq FileNames /\ folder \in Folders
      /\ (\A u \in Puts : PutOK(u)) /\ FolderOK(folder) /\ libcount.cuts \in Nat
  BY LibFacts DEF LibIInv, Deleting
<1>2. folder.names \in [FileNames -> Puts \union {NoFile}]
  BY <1>1 DEF Folders
<1>3. ASSUME NEW u \in Puts, puts[u].name \in FileNames, folder' = Named(u),
             ~Taken(puts[u].name) \/ noflag \/ puts[u].over
      PROVE  noflag \/ puts[folder'.names[n]].over
  <2>1. folder'.names = [folder.names EXCEPT ![puts[u].name] = u]
    BY <1>1, <1>3, NamedFolder
  <2>2. n = puts[u].name /\ folder'.names[n] = u
    BY <2>1, <1>2
  <2> QED
    BY <2>2, <1>3 DEF Taken
<1>4. ASSUME NEW u \in Puts, folder' = Unpart(u)
      PROVE  FALSE
  BY <1>1, <1>4, UnpartFolder
<1>5. ASSUME NEW m \in FileNames, folder' = [folder EXCEPT !.names[m] = NoFile]
      PROVE  FALSE
  <2>1. folder'.names = [folder.names EXCEPT ![m] = NoFile]
    BY <1>1, <1>5, LeftFolder
  <2> QED
    BY <2>1, <1>2
<1>6. ASSUME folder'.names = folder.names
      PROVE  FALSE
  BY <1>6
<1>7. CASE \E u \in Puts, m \in FileNames, over \in BOOLEAN : BeginUpload(u, m, over)
  <2>1. PICK u \in Puts, m \in FileNames, over \in BOOLEAN : BeginUpload(u, m, over)
    BY <1>7
  <2>2. CASE folder' = folder
    BY <2>2, <1>6
  <2>3. CASE folder.id # 0 /\ folder' = [folder EXCEPT !.parts = @ \union {u}]
    <3>1. folder'.names = folder.names
      BY <2>3, <1>1 DEF Folders
    <3> QED
      BY <3>1, <1>6
  <2>4. CASE folder.id = 0
    <3>1. folder.names[n] \in Puts /\ Has(folder, folder.names[n])
      BY <1>2 DEF Has
    <3> QED
      BY <3>1, <2>4, <1>1 DEF FolderOK
  <2> QED
    BY <2>1, <2>2, <2>3, <2>4 DEF BeginUpload
<1>8. CASE \E u \in Puts : FinishUpload(u)
  <2>1. PICK u \in Puts : FinishUpload(u)
    BY <1>8
  <2>2. puts[u].at = "finish" /\ puts[u].name \in FileNames
    BY <2>1, <1>1 DEF FinishUpload, PutAt, PutOK
  <2>3. \/ folder' = Unpart(u) \/ folder' = folder
        \/ folder' = Named(u) /\ ~Taken(puts[u].name)
    BY <2>1 DEF FinishUpload
  <2> QED
    BY <2>2, <2>3, <1>3, <1>4, <1>6
<1>9. CASE \E u \in Puts : RenameOver(u)
  <2>1. PICK u \in Puts : RenameOver(u)
    BY <1>9
  <2>2. puts[u].at \in {"looked", "over"} /\ puts[u].name \in FileNames /\ (noflag \/ puts[u].over)
    BY <2>1, <1>1 DEF RenameOver, PutOK
  <2>3. folder' = Named(u) \/ folder' = Unpart(u)
    BY <2>1 DEF RenameOver
  <2> QED
    BY <2>2, <2>3, <1>3, <1>4
<1>10. CASE \E u \in Puts : OverGone(u) \/ (\E status \in {499, 507} : Break(u, status))
  BY <1>4, <1>10 DEF OverGone, Break
<1>11. CASE \E u \in Puts : Receive(u) \/ SyncData(u) \/ SyncFolder(u)
  BY <1>6, <1>11 DEF Receive, SyncData, SyncFolder
<1>12. CASE \E from, to \in FileNames : Rename(from, to)
  <2>1. PICK from \in FileNames, to \in FileNames : Rename(from, to)
    BY <1>12
  <2>2. /\ from # to /\ ~Taken(to)
        /\ folder' = [folder EXCEPT !.names[to] = folder.names[from], !.names[from] = NoFile]
    BY <2>1 DEF Rename
  <2>3. folder'.names = [folder.names EXCEPT ![to] = folder.names[from], ![from] = NoFile]
    BY <2>2, <1>1, MovedFolder
  <2>4. n = to
    BY <2>3, <1>2
  <2> QED
    BY <2>2, <2>4 DEF Taken
<1>13. CASE \E m \in FileNames : DeleteFile(m)
  BY <1>5, <1>13 DEF DeleteFile
<1>14. CASE Walk \/ WriteBack
  BY <1>6, <1>14 DEF Walk, WriteBack
<1>15. CASE WalkOn
  <2>1. \/ \E m \in FileNames : folder' = [folder EXCEPT !.names[m] = NoFile]
        \/ \E u \in rm.parts : folder' = [folder EXCEPT !.parts = @ \ {u}]
        \/ folder' = folder \/ folder' = Empty(0)
    BY <1>15, <1>1 DEF WalkOn
  <2>2. CASE \E u \in rm.parts : folder' = [folder EXCEPT !.parts = @ \ {u}]
    <3>1. folder'.names = folder.names
      BY <2>2, <1>1 DEF Folders
    <3> QED
      BY <3>1, <1>6
  <2>3. CASE folder' = Empty(0)
    BY <2>3 DEF Empty
  <2> QED
    BY <2>1, <2>2, <2>3, <1>5, <1>6
<1>16. CASE PowerCut
  <2>1. libcount' = [libcount EXCEPT !.cuts = @ + 1] /\ libcount \in [changes : Nat, cuts : Nat]
    BY <1>1, <1>16, LibFacts DEF PowerCut
  <2>2. libcount'.cuts = libcount.cuts + 1
    BY <2>1
  <2> QED
    BY <2>2, <1>1, SMT
<1> QED
  BY <1>7, <1>8, <1>9, <1>10, <1>11, <1>12, <1>13, <1>14, <1>15, <1>16 DEF LibNext

\* An upload replaces only what it was told to, but where the file system has no
\* rename that doesn't (library.c).
THEOREM ReplacesOnlyAsked == LibSpec => ReplacesOnlyIfAsked
<1>1. LibSpec => []LibIInv
  BY LibInitially, LibInductive, PTL DEF LibSpec
<1>2. LibIInv /\ [LibNext]_libVars =>
        [\A n \in FileNames : folder.names[n] # NoFile /\ folder'.names[n] \notin {NoFile, folder.names[n]}
           => noflag \/ puts[folder'.names[n]].over \/ libcount'.cuts # libcount.cuts]_libVars
  BY NoneReplaced
<1> QED
  BY <1>1, <1>2, PTL DEF LibSpec, ReplacesOnlyIfAsked

(***************************************************************************)
(* The connections, and Auto-Off.                                          *)
(***************************************************************************)
Wheres == {"none", "backlog", "head", "handle", "drain"}
AConn  == [at : Wheres, poll : BOOLEAN, silent : Nat]
WebTyped ==
  /\ places \in Int /\ main \in {"wait", "accept"} /\ conns \in [Conns -> AConn]
  /\ use \in [busy : Int, used : 0..Report, next : 0..Report, converts : BOOLEAN]
  /\ off \in [idle : 0..Limit, quiet : 0..Limit, going : {"no", "shown", "off"}, tried : BOOLEAN]
  /\ keeps \subseteq Keeps /\ due \subseteq {"check", "report", "overlay", "empty"}
  /\ age \in [web : 0..Long, gap : 0..Report, video : 0..Long, unused : 0..Unused]
  /\ webcount \in [trouble : 0..MaxTrouble, changes : 0..MaxUses]

MainTakes == IF main = "accept" THEN 1 ELSE 0
Counted ==
  /\ places >= 0 /\ places + Cardinality(Served) + MainTakes = MaxConnections
  /\ use.busy = Cardinality(UnderWay)

\* A report is due when it is time for one; what g_used says is what there was.
ReportsDue ==
  /\ use.next = 0 <=> "report" \in due
  /\ UnderWay = {} => use.used = age.gap
  /\ age.web > 0 => age.gap < Report
  /\ age.video > 0 => use.converts

\* For as long as it has gone without use, Auto-Off has gone without input, and,
\* but for the time a report comes late, without a report.
LeftAlone ==
  /\ use.converts \/ keeps # {} \/ UnderWay # {} => age.unused = 0
  /\ age.unused <= off.idle \/ off.idle = Limit
  /\ use.used < Report => age.unused <= use.used
  /\ age.unused < off.quiet + Report \/ off.quiet = Limit
  /\ "check" \notin due /\ off.going = "no" => age.unused = 0 \/ ~IdleLong

\* What is in use has been reported as often as it was time to, but for reports
\* that were lost.
Reported ==
  /\ age.video <= HeardOf - use.next \/ off.quiet <= HeardOf - use.next
  /\ age.web <= HeardOf - use.next \/ off.quiet <= HeardOf - use.next

OffInv == WebTyped /\ Counted /\ ReportsDue /\ LeftAlone /\ Reported

LEMMA Reports ==
  /\ Report \in Nat /\ Report > 0 /\ Limit \in Nat /\ MaxTrouble \in Nat /\ MaxUses \in Nat
  /\ Unused \in Nat /\ Unused = Limit + Report + 1 /\ Long \in Nat
  /\ \A t \in 0..MaxTrouble : /\ Report * (1 + t) \in Nat /\ Report * (1 + t) < Long
                              /\ Report * (1 + t) < Limit /\ Report <= Report * (1 + t)
                              /\ Report * (1 + (t + 1)) = Report * (1 + t) + Report
<1>1. ASSUME NEW r \in Nat, NEW m \in Nat, NEW t \in 0..m
      PROVE  /\ r * (1 + t) \in Nat /\ r * (1 + t) <= r * (1 + m) /\ r <= r * (1 + t)
             /\ r * (1 + (t + 1)) = r * (1 + t) + r
  <2>1. r * (1 + t) = r + r * t /\ r * (1 + m) = r + r * m /\ r * (1 + (t + 1)) = r + r * t + r
    BY <1>1, SMT
  <2>2. r * t \in Nat /\ r * t <= r * m
    <3>1. PICK d \in Nat : m = t + d
      <4>1. m - t \in Nat /\ m = t + (m - t)
        BY <1>1, SMT
      <4> QED
        BY <4>1
    <3>2. r * m = r * t + r * d /\ r * d \in Nat /\ r * t \in Nat
      BY <3>1, SMT
    <3> QED
      BY <3>2, SMT
  <2> QED
    BY <2>1, <2>2, SMT
<1>2. Report \in Nat /\ Report > 0 /\ Limit \in Nat /\ MaxTrouble \in Nat /\ MaxUses \in Nat
  BY OffAssumption
<1>3. \A t \in 0..MaxTrouble :
        /\ Report * (1 + t) \in Nat /\ Report * (1 + t) <= Report * (1 + MaxTrouble)
        /\ Report <= Report * (1 + t) /\ Report * (1 + (t + 1)) = Report * (1 + t) + Report
  BY <1>1, <1>2
<1>4. Report * (1 + MaxTrouble) < Limit /\ Report * (1 + MaxTrouble) \in Nat
  BY <1>3, <1>2, OffAssumption
<1> DEFINE F(t) == Report * (1 + t)
<1>5. \A t \in 0..MaxTrouble : /\ F(t) \in Nat /\ F(t) < F(MaxTrouble) + 1 /\ F(t) < Limit
                               /\ Report <= F(t) /\ F(t + 1) = F(t) + Report
  <2>1. \A t \in 0..MaxTrouble : /\ F(t) \in Nat /\ F(t) <= F(MaxTrouble)
                                 /\ Report <= F(t) /\ F(t + 1) = F(t) + Report
    BY <1>3
  <2>2. F(MaxTrouble) < Limit /\ F(MaxTrouble) \in Nat
    BY <1>4
  <2> HIDE DEF F
  <2> QED
    BY <2>1, <2>2, <1>2, SMT
<1>6. Long = F(MaxTrouble) + 1
  BY DEF Long
<1> QED
  BY <1>2, <1>4, <1>5, <1>6 DEF Unused

UseType   == [busy : Int, used : 0..Report, next : 0..Report, converts : BOOLEAN]
OffType   == [idle : 0..Limit, quiet : 0..Limit, going : {"no", "shown", "off"}, tried : BOOLEAN]
AgeType   == [web : 0..Long, gap : 0..Report, video : 0..Long, unused : 0..Unused]
CountType == [trouble : 0..MaxTrouble, changes : 0..MaxUses]
LEMMA FieldsOff ==
  /\ \A u \in UseType : u.busy \in Int /\ u.used \in 0..Report /\ u.next \in 0..Report /\ u.converts \in BOOLEAN
  /\ \A o \in OffType : /\ o.idle \in 0..Limit /\ o.quiet \in 0..Limit
                        /\ o.going \in {"no", "shown", "off"} /\ o.tried \in BOOLEAN
  /\ \A a \in AgeType : a.web \in 0..Long /\ a.gap \in 0..Report /\ a.video \in 0..Long /\ a.unused \in 0..Unused
  /\ \A w \in CountType : w.trouble \in 0..MaxTrouble /\ w.changes \in 0..MaxUses
  BY Zenon DEF UseType, OffType, AgeType, CountType

LEMMA SetOff ==
  ASSUME NEW o \in OffType
  PROVE  /\ \A n \in 0..Limit : /\ [o EXCEPT !.idle = n] \in OffType /\ [o EXCEPT !.idle = n].idle = n
                                /\ [o EXCEPT !.idle = n].quiet = o.quiet /\ [o EXCEPT !.idle = n].going = o.going
         /\ \A n \in 0..Limit : /\ [o EXCEPT !.quiet = n] \in OffType /\ [o EXCEPT !.quiet = n].quiet = n
                                /\ [o EXCEPT !.quiet = n].idle = o.idle /\ [o EXCEPT !.quiet = n].going = o.going
         /\ \A h \in {"no", "shown", "off"} :
              /\ [o EXCEPT !.going = h] \in OffType /\ [o EXCEPT !.going = h].going = h
              /\ [o EXCEPT !.going = h].idle = o.idle /\ [o EXCEPT !.going = h].quiet = o.quiet
         /\ \A b \in BOOLEAN : /\ [o EXCEPT !.tried = b] \in OffType /\ [o EXCEPT !.tried = b].going = o.going
                               /\ [o EXCEPT !.tried = b].idle = o.idle /\ [o EXCEPT !.tried = b].quiet = o.quiet
  BY Zenon DEF OffType

LEMMA SetUse ==
  ASSUME NEW u \in UseType
  PROVE  /\ \A n \in Int : /\ [u EXCEPT !.busy = n] \in UseType /\ [u EXCEPT !.busy = n].busy = n
                           /\ [u EXCEPT !.busy = n].used = u.used /\ [u EXCEPT !.busy = n].next = u.next
                           /\ [u EXCEPT !.busy = n].converts = u.converts
         /\ \A n \in 0..Report : /\ [u EXCEPT !.used = n] \in UseType /\ [u EXCEPT !.used = n].used = n
                                 /\ [u EXCEPT !.used = n].busy = u.busy /\ [u EXCEPT !.used = n].next = u.next
                                 /\ [u EXCEPT !.used = n].converts = u.converts
         /\ \A n \in 0..Report : /\ [u EXCEPT !.next = n] \in UseType /\ [u EXCEPT !.next = n].next = n
                                 /\ [u EXCEPT !.next = n].busy = u.busy /\ [u EXCEPT !.next = n].used = u.used
                                 /\ [u EXCEPT !.next = n].converts = u.converts
         /\ \A b \in BOOLEAN : /\ [u EXCEPT !.converts = b] \in UseType /\ [u EXCEPT !.converts = b].converts = b
                               /\ [u EXCEPT !.converts = b].busy = u.busy /\ [u EXCEPT !.converts = b].used = u.used
                               /\ [u EXCEPT !.converts = b].next = u.next
  BY Zenon DEF UseType

LEMMA SetAge ==
  ASSUME NEW r \in AgeType
  PROVE  /\ \A n \in 0..Unused : /\ [r EXCEPT !.unused = n] \in AgeType /\ [r EXCEPT !.unused = n].unused = n
                                 /\ [r EXCEPT !.unused = n].web = r.web /\ [r EXCEPT !.unused = n].gap = r.gap
                                 /\ [r EXCEPT !.unused = n].video = r.video
         /\ \A n \in 0..Report : /\ [r EXCEPT !.gap = n] \in AgeType /\ [r EXCEPT !.gap = n].gap = n
                                 /\ [r EXCEPT !.gap = n].web = r.web /\ [r EXCEPT !.gap = n].unused = r.unused
                                 /\ [r EXCEPT !.gap = n].video = r.video
         /\ \A n \in 0..Long : /\ [r EXCEPT !.web = n] \in AgeType /\ [r EXCEPT !.web = n].web = n
                               /\ [r EXCEPT !.web = n].gap = r.gap /\ [r EXCEPT !.web = n].unused = r.unused
                               /\ [r EXCEPT !.web = n].video = r.video
         /\ \A n \in 0..Long : /\ [r EXCEPT !.video = n] \in AgeType /\ [r EXCEPT !.video = n].video = n
                               /\ [r EXCEPT !.video = n].gap = r.gap /\ [r EXCEPT !.video = n].unused = r.unused
                               /\ [r EXCEPT !.video = n].web = r.web
  BY Zenon DEF AgeType

LEMMA TypedOff ==
  WebTyped => use \in UseType /\ off \in OffType /\ age \in AgeType /\ webcount \in CountType
  BY DEF WebTyped, UseType, OffType, AgeType, CountType

LEMMA HeardOfs ==
  WebTyped => HeardOf \in Nat /\ HeardOf < Limit /\ HeardOf < Long /\ Report <= HeardOf
<1> SUFFICES ASSUME WebTyped PROVE HeardOf \in Nat /\ HeardOf < Limit /\ HeardOf < Long /\ Report <= HeardOf
  OBVIOUS
<1>1. webcount.trouble \in 0..MaxTrouble
  BY TypedOff, FieldsOff
<1> QED
  BY <1>1, Reports DEF HeardOf

\* What costs trouble gives a report's time more, and nothing takes it away.
LEMMA CountSteps ==
  ASSUME WebTyped, UNCHANGED webcount \/ Deed \/ Trouble
  PROVE  /\ webcount' \in CountType /\ (Trouble => HeardOf' = HeardOf + Report)
         /\ HeardOf' = HeardOf \/ HeardOf' = HeardOf + Report
<1>1. webcount \in CountType /\ webcount.trouble \in 0..MaxTrouble /\ webcount.changes \in 0..MaxUses
  BY TypedOff, FieldsOff
<1>2. \A w \in CountType : /\ \A n \in 0..MaxTrouble : /\ [w EXCEPT !.trouble = n] \in CountType
                                                       /\ [w EXCEPT !.trouble = n].trouble = n
                           /\ \A n \in 0..MaxUses : /\ [w EXCEPT !.changes = n] \in CountType
                                                    /\ [w EXCEPT !.changes = n].trouble = w.trouble
  BY Zenon DEF CountType
<1>3. Trouble => webcount' \in CountType /\ webcount'.trouble = webcount.trouble + 1
  <2> SUFFICES ASSUME Trouble PROVE webcount' \in CountType /\ webcount'.trouble = webcount.trouble + 1
    OBVIOUS
  <2>1. webcount.trouble + 1 \in 0..MaxTrouble
    BY <1>1, Reports DEF Trouble
  <2> QED
    BY <2>1, <1>1, <1>2 DEF Trouble
<1>4. Deed => webcount' \in CountType /\ webcount'.trouble = webcount.trouble
  <2> SUFFICES ASSUME Deed PROVE webcount' \in CountType /\ webcount'.trouble = webcount.trouble
    OBVIOUS
  <2>1. webcount.changes + 1 \in 0..MaxUses
    BY <1>1, Reports DEF Deed
  <2> QED
    BY <2>1, <1>1, <1>2 DEF Deed
<1>5. \A t \in 0..MaxTrouble : Report * (1 + (t + 1)) = Report * (1 + t) + Report
  BY Reports
<1>6. Trouble => HeardOf' = HeardOf + Report
  BY <1>1, <1>3, <1>5 DEF HeardOf
<1>7. Deed \/ UNCHANGED webcount => HeardOf' = HeardOf
  BY <1>4 DEF HeardOf
<1> QED
  BY <1>1, <1>3, <1>4, <1>6, <1>7

\* One connection moves on.
IsServed(r)   == r.at \notin {"none", "backlog"}
IsUnderWay(r) == r.at = "handle" /\ ~r.poll
LEMMA Moves ==
  ASSUME WebTyped, NEW c \in Conns, NEW r \in AConn, conns' = [conns EXCEPT ![c] = r]
  PROVE  /\ conns' \in [Conns -> AConn]
         /\ Cardinality(Served') = Cardinality(Served) + (IF IsServed(r) THEN 1 ELSE 0)
                                     - (IF IsServed(conns[c]) THEN 1 ELSE 0)
         /\ Cardinality(UnderWay') = Cardinality(UnderWay) + (IF IsUnderWay(r) THEN 1 ELSE 0)
                                       - (IF IsUnderWay(conns[c]) THEN 1 ELSE 0)
         /\ IsUnderWay(r) => UnderWay' # {}
         /\ IsUnderWay(conns[c]) => UnderWay # {}
         /\ (IsUnderWay(r) <=> IsUnderWay(conns[c])) => UnderWay' = UnderWay
<1>1. conns \in [Conns -> AConn] /\ IsFiniteSet(Conns)
  BY OffAssumption DEF WebTyped
<1>2. conns' \in [Conns -> AConn] /\ conns'[c] = r /\ \A d \in Conns \ {c} : conns'[d] = conns[d]
  BY <1>1
<1>3. Served = {d \in Conns : IsServed(conns[d])} /\ Served' = {d \in Conns : IsServed(conns'[d])}
  BY DEF Served, IsServed
<1>4. UnderWay = {d \in Conns : IsUnderWay(conns[d])} /\ UnderWay' = {d \in Conns : IsUnderWay(conns'[d])}
  BY DEF UnderWay, IsUnderWay
<1>5. ASSUME NEW S, NEW T, NEW p \in BOOLEAN, NEW q \in BOOLEAN, S \subseteq Conns, T \subseteq Conns,
             S \ {c} = T \ {c}, c \in S <=> p, c \in T <=> q
      PROVE  Cardinality(T) = Cardinality(S) + (IF q THEN 1 ELSE 0) - (IF p THEN 1 ELSE 0)
  <2>1. IsFiniteSet(S) /\ IsFiniteSet(T) /\ Cardinality(S) \in Nat /\ Cardinality(T) \in Nat
    BY <1>1, <1>5, FS_Subset, FS_CardinalityType
  <2>2. Cardinality(S \ {c}) = IF c \in S THEN Cardinality(S) - 1 ELSE Cardinality(S)
    BY <2>1, FS_RemoveElement
  <2>3. Cardinality(T \ {c}) = IF c \in T THEN Cardinality(T) - 1 ELSE Cardinality(T)
    BY <2>1, FS_RemoveElement
  <2>4. Cardinality(S \ {c}) = Cardinality(T \ {c})
    BY <1>5
  <2> QED
    BY <2>1, <2>2, <2>3, <2>4, <1>5, SMT
<1>6. Cardinality(Served') = Cardinality(Served) + (IF IsServed(r) THEN 1 ELSE 0)
                               - (IF IsServed(conns[c]) THEN 1 ELSE 0)
  <2>1. Served \subseteq Conns /\ Served' \subseteq Conns /\ Served \ {c} = Served' \ {c}
    BY <1>2, <1>3
  <2>2. c \in Served <=> IsServed(conns[c])
    BY <1>3
  <2>3. c \in Served' <=> IsServed(r)
    BY <1>2, <1>3
  <2>4. IsServed(r) \in BOOLEAN /\ IsServed(conns[c]) \in BOOLEAN
    BY DEF IsServed
  <2> QED
    BY <1>5, <2>1, <2>2, <2>3, <2>4
<1>7. UnderWay \subseteq Conns /\ UnderWay' \subseteq Conns /\ UnderWay \ {c} = UnderWay' \ {c}
  BY <1>2, <1>4
<1>8. c \in UnderWay <=> IsUnderWay(conns[c])
  BY <1>4
<1>9. c \in UnderWay' <=> IsUnderWay(r)
  BY <1>2, <1>4
<1>10. Cardinality(UnderWay') = Cardinality(UnderWay) + (IF IsUnderWay(r) THEN 1 ELSE 0)
                                  - (IF IsUnderWay(conns[c]) THEN 1 ELSE 0)
  <2>1. IsUnderWay(r) \in BOOLEAN /\ IsUnderWay(conns[c]) \in BOOLEAN
    <3>1. r.poll \in BOOLEAN /\ conns[c].poll \in BOOLEAN
      BY <1>1 DEF AConn
    <3> QED
      BY <3>1 DEF IsUnderWay
  <2> QED
    BY <1>5, <1>7, <1>8, <1>9, <2>1
<1>11. (IsUnderWay(r) <=> IsUnderWay(conns[c])) => UnderWay' = UnderWay
  BY <1>7, <1>8, <1>9
<1> QED
  BY <1>2, <1>6, <1>8, <1>9, <1>10, <1>11

LEMMA NoneMoves ==
  UNCHANGED conns => UNCHANGED <<Served, UnderWay>>
  BY DEF Served, UnderWay

LEMMA CountsAre ==
  WebTyped => /\ IsFiniteSet(Served) /\ Cardinality(Served) \in Nat
              /\ IsFiniteSet(UnderWay) /\ Cardinality(UnderWay) \in Nat
              /\ (Cardinality(UnderWay) = 0 <=> UnderWay = {})
<1>1. Served \subseteq Conns /\ UnderWay \subseteq Conns
  BY DEF Served, UnderWay
<1> QED
  BY <1>1, OffAssumption, FS_Subset, FS_CardinalityType, FS_EmptySet

LEMMA KeepsTyped ==
  ASSUME WebTyped, conns' \in [Conns -> AConn], places' \in Int, main' \in {"wait", "accept"},
         use' \in UseType, off' \in OffType, keeps' \subseteq Keeps, age' \in AgeType,
         due' \subseteq {"check", "report", "overlay", "empty"}, webcount' \in CountType
  PROVE  WebTyped'
  BY DEF WebTyped, UseType, OffType, AgeType, CountType

\* A connection that is no request under way, before and after, is nothing to Auto-Off.
LEMMA ByConnection ==
  ASSUME OffInv, NEW c \in Conns, NEW r \in AConn, conns' = [conns EXCEPT ![c] = r],
         IsUnderWay(r) <=> IsUnderWay(conns[c]), UNCHANGED <<use, off, keeps, due, age>>,
         UNCHANGED webcount \/ Trouble, main' \in {"wait", "accept"}, places' \in Int, places' >= 0,
         places' + MainTakes' + (IF IsServed(r) THEN 1 ELSE 0)
           = places + MainTakes + (IF IsServed(conns[c]) THEN 1 ELSE 0)
  PROVE  OffInv'
<1>1. WebTyped /\ Counted /\ ReportsDue /\ LeftAlone /\ Reported
  BY DEF OffInv
<1>2. UnderWay' = UnderWay /\ conns' \in [Conns -> AConn]
      /\ Cardinality(Served') = Cardinality(Served) + (IF IsServed(r) THEN 1 ELSE 0)
                                  - (IF IsServed(conns[c]) THEN 1 ELSE 0)
  BY <1>1, Moves
<1>3. webcount' \in CountType /\ (HeardOf' = HeardOf \/ HeardOf' = HeardOf + Report)
  BY <1>1, CountSteps
<1>4. WebTyped'
  <2>1. use' \in UseType /\ off' \in OffType /\ age' \in AgeType /\ keeps' \subseteq Keeps
        /\ due' \subseteq {"check", "report", "overlay", "empty"}
    <3>1. use \in UseType /\ off \in OffType /\ age \in AgeType
      BY <1>1, TypedOff
    <3> QED
      BY <3>1, <1>1 DEF WebTyped
  <2> QED
    BY <2>1, <1>1, <1>2, <1>3, KeepsTyped
<1>5. Counted'
  <2>1. MainTakes \in Nat /\ MainTakes' \in Nat
    BY DEF MainTakes
  <2>2. Cardinality(Served) \in Nat /\ places \in Int
    BY <1>1, CountsAre DEF WebTyped
  <2>3. places + Cardinality(Served) + MainTakes = MaxConnections
    BY <1>1 DEF Counted
  <2>4. places' + Cardinality(Served') + MainTakes' = MaxConnections
    <3> DEFINE i == IF IsServed(r) THEN 1 ELSE 0
               j == IF IsServed(conns[c]) THEN 1 ELSE 0
               p == places
               q == places'
               m == MainTakes
               n == MainTakes'
               s == Cardinality(Served)
               t == Cardinality(Served')
    <3>1. i \in Int /\ j \in Int /\ p \in Int /\ q \in Int /\ m \in Int /\ n \in Int /\ s \in Int
      BY <2>1, <2>2
    <3>2. q + n + i = p + m + j
      OBVIOUS
    <3>3. t = s + i - j
      BY <1>2
    <3>4. p + s + m = MaxConnections
      BY <2>3
    <3>5. q + t + n = MaxConnections
      <4> HIDE DEF i, j, p, q, m, n, s, t
      <4> QED
        BY <3>1, <3>2, <3>3, <3>4, SMT
    <3> QED
      BY <3>5
  <2>5. (use.busy = Cardinality(UnderWay))'
    BY <1>1, <1>2 DEF Counted
  <2> QED
    BY <2>4, <2>5 DEF Counted
<1>6. ReportsDue'
  BY <1>1, <1>2 DEF ReportsDue
<1>7. LeftAlone'
  BY <1>1, <1>2 DEF LeftAlone, IdleLong
<1>8. Reported'
  <2>1. HeardOf \in Nat /\ Report \in Nat /\ age.video \in Nat /\ age.web \in Nat
        /\ off.quiet \in Nat /\ use.next \in Nat
    BY <1>1, HeardOfs, Reports, TypedOff, FieldsOff
  <2>2. HeardOf' \in Nat /\ HeardOf' >= HeardOf
    BY <1>3, <2>1, SMT
  <2>3. UNCHANGED <<age.video, age.web, off.quiet, use.next>>
    OBVIOUS
  <2> DEFINE h == HeardOf
             hh == HeardOf'
             v == age.video
             w == age.web
             q == off.quiet
             n == use.next
  <2>4. v <= h - n \/ q <= h - n
    BY <1>1 DEF Reported
  <2>5. w <= h - n \/ q <= h - n
    BY <1>1 DEF Reported
  <2>6. h \in Nat /\ hh \in Nat /\ hh >= h /\ v \in Nat /\ w \in Nat /\ q \in Nat /\ n \in Nat
    BY <2>1, <2>2
  <2>7. (v <= hh - n \/ q <= hh - n) /\ (w <= hh - n \/ q <= hh - n)
    <3> HIDE DEF h, hh, v, w, q, n
    <3> QED
      BY <2>4, <2>5, <2>6, SMT
  <2> QED
    BY <2>7, <2>3 DEF Reported
<1> QED
  BY <1>4, <1>5, <1>6, <1>7, <1>8 DEF OffInv

LEMMA MainTakesAs ==
  /\ main = "wait" => MainTakes = 0
  /\ main = "accept" => MainTakes = 1
  /\ MainTakes \in Nat
  BY DEF MainTakes
LEMMA MainTakesNext ==
  /\ main' = "wait" => MainTakes' = 0
  /\ main' = "accept" => MainTakes' = 1
  /\ main' = main => MainTakes' = MainTakes
  BY DEF MainTakes
LEMMA SetConn ==
  ASSUME WebTyped, NEW c \in Conns
  PROVE  /\ conns[c] \in AConn /\ NoConn \in AConn
         /\ \A h \in Wheres : [conns[c] EXCEPT !.at = h] \in AConn /\ [conns[c] EXCEPT !.at = h].at = h
                              /\ [NoConn EXCEPT !.at = h] \in AConn /\ [NoConn EXCEPT !.at = h].at = h
         /\ \A h \in Wheres : [conns[c] EXCEPT !.at = h, !.silent = 0] \in AConn
                              /\ [conns[c] EXCEPT !.at = h, !.silent = 0].at = h
         /\ [conns[c] EXCEPT !.silent = 0] \in AConn /\ [conns[c] EXCEPT !.silent = 0].at = conns[c].at
         /\ [conns[c] EXCEPT !.silent = 0].poll = conns[c].poll
         /\ \A b \in BOOLEAN : [at |-> "handle", poll |-> b, silent |-> 0] \in AConn
<1>1. conns[c] \in AConn
  BY DEF WebTyped
<1>2. NoConn \in AConn
  BY DEF NoConn, AConn, Wheres
<1>3. \A r \in AConn : \A h \in Wheres : [r EXCEPT !.at = h] \in AConn /\ [r EXCEPT !.at = h].at = h
  BY Zenon DEF AConn
<1>4. 0 \in Nat
  OBVIOUS
<1>5. \A r \in AConn : \A s \in Nat : [r EXCEPT !.silent = s] \in AConn /\ [r EXCEPT !.silent = s].at = r.at
                                      /\ [r EXCEPT !.silent = s].poll = r.poll
  BY Zenon DEF AConn
<1>6. \A r : \A h \in Wheres : [r EXCEPT !.at = h, !.silent = 0] = [[r EXCEPT !.at = h] EXCEPT !.silent = 0]
  OBVIOUS
<1>7. \A h \in Wheres : [conns[c] EXCEPT !.at = h, !.silent = 0] \in AConn
                         /\ [conns[c] EXCEPT !.at = h, !.silent = 0].at = h
  <2> TAKE h \in Wheres
  <2> DEFINE m == [conns[c] EXCEPT !.at = h]
  <2>1. m \in AConn /\ m.at = h
    BY <1>1, <1>3
  <2>2. [m EXCEPT !.silent = 0] \in AConn /\ [m EXCEPT !.silent = 0].at = m.at
    <3> HIDE DEF m
    <3> QED
      BY <2>1, <1>4, <1>5
  <2>3. [conns[c] EXCEPT !.at = h, !.silent = 0] = [m EXCEPT !.silent = 0]
    BY <1>6
  <2> QED
    BY <2>1, <2>2, <2>3, Zenon
<1>8. \A b \in BOOLEAN : [at |-> "handle", poll |-> b, silent |-> 0] \in AConn
  BY <1>4 DEF AConn, Wheres
<1> QED
  BY <1>1, <1>2, <1>3, <1>4, <1>5, <1>7, <1>8, Zenon

LEMMA ConnectsStep == ASSUME OffInv, NEW c \in Conns, Connects(c) PROVE OffInv'
<1>1. WebTyped /\ Counted
  BY DEF OffInv
<1> DEFINE r == [NoConn EXCEPT !.at = "backlog"]
<1>2. conns' = [conns EXCEPT ![c] = r] /\ conns[c].at = "none"
      /\ UNCHANGED <<places, main, use, off, keeps, due, age, webcount>>
  BY DEF Connects
<1>3. r \in AConn /\ r.at = "backlog"
  BY <1>1, SetConn DEF Wheres
<1>4. ~IsUnderWay(r) /\ ~IsUnderWay(conns[c]) /\ ~IsServed(r) /\ ~IsServed(conns[c])
  BY <1>2, <1>3 DEF IsUnderWay, IsServed
<1>5. places \in Int /\ main \in {"wait", "accept"} /\ places >= 0
  BY <1>1 DEF WebTyped, Counted
<1> HIDE DEF r
<1> QED
  BY <1>2, <1>3, <1>4, <1>5, ByConnection, MainTakesNext

LEMMA AcceptStep == ASSUME OffInv, NEW c \in Conns, Accept(c) PROVE OffInv'
<1>1. WebTyped /\ Counted
  BY DEF OffInv
<1>2. places \in Int /\ places >= 0 /\ main = "accept" /\ main' = "wait" /\ conns[c].at = "backlog"
      /\ UNCHANGED <<use, off, keeps, due, age>>
  BY <1>1 DEF WebTyped, Counted, Accept
<1>3. MainTakes = 1 /\ MainTakes' = 0 /\ ~IsUnderWay(conns[c]) /\ ~IsServed(conns[c])
  BY <1>2, MainTakesAs, MainTakesNext DEF IsUnderWay, IsServed
<1>4. CASE conns' = [conns EXCEPT ![c].at = "head"] /\ UNCHANGED <<places, webcount>>
  <2> DEFINE r == [conns[c] EXCEPT !.at = "head"]
  <2>1. r \in AConn /\ r.at = "head" /\ conns' = [conns EXCEPT ![c] = r]
    BY <1>1, <1>4, SetConn DEF Wheres
  <2>2. ~IsUnderWay(r) /\ IsServed(r)
    BY <2>1 DEF IsUnderWay, IsServed
  <2>3. places' + MainTakes' + 1 = places + MainTakes + 0 /\ places' \in Int /\ places' >= 0
    BY <1>2, <1>3, <1>4, SMT
  <2> HIDE DEF r
  <2> QED
    BY <1>2, <1>3, <1>4, <2>1, <2>2, <2>3, ByConnection
<1>5. CASE conns' = [conns EXCEPT ![c] = NoConn] /\ places' = places + 1 /\ Trouble
  <2>1. NoConn \in AConn /\ ~IsUnderWay(NoConn) /\ ~IsServed(NoConn)
    BY <1>1, SetConn DEF IsUnderWay, IsServed, NoConn
  <2>2. places' + MainTakes' + 0 = places + MainTakes + 0 /\ places' \in Int /\ places' >= 0
    BY <1>2, <1>3, <1>5, SMT
  <2> QED
    BY <1>2, <1>3, <1>5, <2>1, <2>2, ByConnection
<1> QED
  BY <1>4, <1>5 DEF Accept

LEMMA DrainEndsStep == ASSUME OffInv, NEW c \in Conns, DrainEnds(c) PROVE OffInv'
<1>1. WebTyped /\ Counted
  BY DEF OffInv
<1>2. places \in Int /\ places >= 0 /\ main \in {"wait", "accept"} /\ conns[c].at = "drain"
      /\ places' = places + 1 /\ conns' = [conns EXCEPT ![c] = NoConn]
      /\ UNCHANGED <<main, use, off, keeps, due, age, webcount>>
  BY <1>1 DEF WebTyped, Counted, DrainEnds, Ends
<1>3. MainTakes' = MainTakes /\ MainTakes \in Nat /\ ~IsUnderWay(conns[c]) /\ IsServed(conns[c])
  BY <1>2, MainTakesAs, MainTakesNext DEF IsUnderWay, IsServed
<1>4. NoConn \in AConn /\ ~IsUnderWay(NoConn) /\ ~IsServed(NoConn)
  BY <1>1, SetConn DEF IsUnderWay, IsServed, NoConn
<1>5. places' + MainTakes' + 0 = places + MainTakes + 1 /\ places' \in Int /\ places' >= 0
  BY <1>2, <1>3, SMT
<1> QED
  BY <1>2, <1>3, <1>4, <1>5, ByConnection

LEMMA SendsStep == ASSUME OffInv, NEW c \in Conns, Sends(c) PROVE OffInv'
<1>1. WebTyped /\ Counted
  BY DEF OffInv
<1> DEFINE r == [conns[c] EXCEPT !.silent = 0]
<1>2. places \in Int /\ places >= 0 /\ main \in {"wait", "accept"} /\ conns' = [conns EXCEPT ![c] = r]
      /\ UNCHANGED <<places, main, use, off, keeps, due, age, webcount>>
  BY <1>1 DEF WebTyped, Counted, Sends
<1>3. r \in AConn /\ r.at = conns[c].at /\ r.poll = conns[c].poll
  BY <1>1, SetConn
<1>4. (IsUnderWay(r) <=> IsUnderWay(conns[c])) /\ (IsServed(r) <=> IsServed(conns[c]))
  BY <1>3 DEF IsUnderWay, IsServed
<1>5. MainTakes' = MainTakes
  BY <1>2, MainTakesNext
<1>6. (IF IsServed(r) THEN 1 ELSE 0) = (IF IsServed(conns[c]) THEN 1 ELSE 0)
  BY <1>4
<1> HIDE DEF r
<1> QED
  BY <1>2, <1>3, <1>4, <1>5, <1>6, ByConnection

LEMMA CountedKept ==
  ASSUME Counted, UNCHANGED <<places, main, conns>>, use'.busy = use.busy
  PROVE  Counted'
<1>1. UNCHANGED <<Served, UnderWay, MainTakes>>
  BY NoneMoves DEF MainTakes
<1> QED
  BY <1>1 DEF Counted

\* What was reported stays so while the clock stands, whatever is lost.
LEMMA ReportedKept ==
  ASSUME WebTyped, Reported, UNCHANGED webcount \/ Deed \/ Trouble, use'.next = use.next,
         age'.video = age.video \/ age'.video = 0, age'.web = age.web \/ age'.web = 0,
         off'.quiet = off.quiet \/ off'.quiet = 0
  PROVE  Reported'
<1>1. webcount' \in CountType /\ (HeardOf' = HeardOf \/ HeardOf' = HeardOf + Report)
  BY CountSteps
<1> DEFINE h == HeardOf
           hh == HeardOf'
           v == age.video
           vv == age'.video
           w == age.web
           ww == age'.web
           q == off.quiet
           qq == off'.quiet
           n == use.next
<1>2. h \in Nat /\ Report \in Nat /\ v \in Nat /\ w \in Nat /\ q \in Nat /\ n \in 0..Report /\ Report <= h
  BY HeardOfs, Reports, TypedOff, FieldsOff
<1>3. hh = h \/ hh = h + Report
  BY <1>1
<1>4. (v <= h - n \/ q <= h - n) /\ (w <= h - n \/ q <= h - n)
  BY DEF Reported
<1>5. (vv = v \/ vv = 0) /\ (ww = w \/ ww = 0) /\ (qq = q \/ qq = 0)
  OBVIOUS
<1>6. (vv <= hh - n \/ qq <= hh - n) /\ (ww <= hh - n \/ qq <= hh - n)
  <2> HIDE DEF h, hh, v, vv, w, ww, q, qq, n
  <2> QED
    BY <1>2, <1>3, <1>4, <1>5, SMT
<1> QED
  BY <1>6 DEF Reported

LEMMA ByMain ==
  ASSUME OffInv, UNCHANGED <<conns, use, off, keeps, due, age>>, UNCHANGED webcount \/ Trouble,
         main' \in {"wait", "accept"}, places' \in Int, places' >= 0,
         places' + MainTakes' = places + MainTakes
  PROVE  OffInv'
<1>1. WebTyped /\ Counted /\ ReportsDue /\ LeftAlone /\ Reported
  BY DEF OffInv
<1>2. UNCHANGED <<Served, UnderWay>>
  BY NoneMoves
<1>3. webcount' \in CountType
  BY <1>1, CountSteps
<1>4. WebTyped'
  <2>1. use' \in UseType /\ off' \in OffType /\ age' \in AgeType /\ keeps' \subseteq Keeps
        /\ due' \subseteq {"check", "report", "overlay", "empty"} /\ conns' \in [Conns -> AConn]
    <3>1. use \in UseType /\ off \in OffType /\ age \in AgeType
      BY <1>1, TypedOff
    <3> QED
      BY <3>1, <1>1 DEF WebTyped
  <2> QED
    BY <2>1, <1>1, <1>3, KeepsTyped
<1>5. Counted'
  <2> DEFINE p == places
             q == places'
             m == MainTakes
             n == MainTakes'
             s == Cardinality(Served)
  <2>1. p \in Int /\ q \in Int /\ m \in Nat /\ n \in Nat /\ s \in Nat
    BY <1>1, CountsAre DEF WebTyped, MainTakes
  <2>2. q + n = p + m /\ p + s + m = MaxConnections
    BY <1>1 DEF Counted
  <2>3. q + s + n = MaxConnections
    <3> HIDE DEF p, q, m, n, s
    <3> QED
      BY <2>1, <2>2, SMT
  <2> QED
    BY <2>3, <1>1, <1>2 DEF Counted
<1>6. ReportsDue'
  BY <1>1, <1>2 DEF ReportsDue
<1>7. LeftAlone'
  BY <1>1, <1>2 DEF LeftAlone, IdleLong
<1>8. Reported'
  BY <1>1, ReportedKept
<1> QED
  BY <1>4, <1>5, <1>6, <1>7, <1>8 DEF OffInv

LEMMA TakePlaceStep == OffInv /\ TakePlace => OffInv'
<1> SUFFICES ASSUME OffInv, TakePlace PROVE OffInv'
  OBVIOUS
<1>1. places \in Int /\ main = "wait" /\ main' = "accept" /\ places > 0 /\ places' = places - 1
      /\ UNCHANGED <<conns, use, off, keeps, due, age, webcount>>
  BY DEF OffInv, WebTyped, TakePlace
<1>2. MainTakes = 0 /\ MainTakes' = 1
  BY <1>1, MainTakesAs, MainTakesNext
<1>3. places' \in Int /\ places' >= 0 /\ places' + MainTakes' = places + MainTakes
  BY <1>1, <1>2, SMT
<1> QED
  BY <1>1, <1>3, ByMain

LEMMA AcceptFailsStep == OffInv /\ AcceptFails => OffInv'
<1> SUFFICES ASSUME OffInv, AcceptFails PROVE OffInv'
  OBVIOUS
<1>1. places \in Int /\ places >= 0 /\ main = "accept" /\ main' = "wait" /\ places' = places + 1
      /\ Trouble /\ UNCHANGED <<conns, use, off, keeps, due, age>>
  BY DEF OffInv, WebTyped, Counted, AcceptFails
<1>2. MainTakes = 1 /\ MainTakes' = 0
  BY <1>1, MainTakesAs, MainTakesNext
<1>3. places' \in Int /\ places' >= 0 /\ places' + MainTakes' = places + MainTakes
  BY <1>1, <1>2, SMT
<1> QED
  BY <1>1, <1>3, ByMain

\* What counts as use, of other than the page's polling
LEMMA UsedBy ==
  ASSUME WebTyped, NEW poll \in BOOLEAN, NEW d \in Int, Using(poll, d), WebUsed(poll)
  PROVE  /\ use' \in UseType /\ age' \in AgeType /\ use'.next = use.next /\ use'.converts = use.converts
         /\ age'.video = age.video /\ age'.web = age.web
         /\ poll => UNCHANGED <<use, age>>
         /\ ~poll => /\ use'.busy = use.busy + d /\ use'.used = 0 /\ age'.gap = 0 /\ age'.unused = 0
<1>1. use \in UseType /\ age \in AgeType /\ use.busy \in Int
  BY TypedOff, FieldsOff
<1>2. CASE poll
  BY <1>1, <1>2 DEF Using, WebUsed
<1>3. CASE ~poll
  <2> DEFINE u == [use EXCEPT !.busy = use.busy + d]
             g == [age EXCEPT !.gap = 0]
  <2>1. use' = [u EXCEPT !.used = 0] /\ age' = [g EXCEPT !.unused = 0]
    BY <1>3 DEF Using, WebUsed
  <2>2. use.busy + d \in Int /\ 0 \in 0..Report /\ 0 \in 0..Unused
    BY <1>1, Reports, SMT
  <2>3. u \in UseType /\ u.busy = use.busy + d /\ u.next = use.next /\ u.converts = use.converts
    BY <1>1, <2>2, SetUse
  <2>4. g \in AgeType /\ g.gap = 0 /\ g.video = age.video /\ g.web = age.web
    BY <1>1, <2>2, SetAge
  <2> HIDE DEF u, g
  <2>5. use' \in UseType /\ use'.used = 0 /\ use'.busy = u.busy /\ use'.next = u.next /\ use'.converts = u.converts
    BY <2>1, <2>2, <2>3, SetUse
  <2>6. age' \in AgeType /\ age'.unused = 0 /\ age'.gap = g.gap /\ age'.video = g.video /\ age'.web = g.web
    BY <2>1, <2>2, <2>4, SetAge
  <2> QED
    BY <1>3, <2>3, <2>4, <2>5, <2>6, Zenon
<1> QED
  BY <1>2, <1>3

\* A request that begins or ends
LEMMA ByRequest ==
  ASSUME OffInv, NEW c \in Conns, NEW r \in AConn, NEW d \in Int, conns' = [conns EXCEPT ![c] = r],
         (IsUnderWay(r) <=> ~IsUnderWay(conns[c])), (IsUnderWay(r) => d = 1) /\ (~IsUnderWay(r) => d = -1),
         Using(FALSE, d), WebUsed(FALSE), UNCHANGED <<main, off, keeps, due, webcount>>,
         IsServed(conns[c]), IF IsServed(r) THEN UNCHANGED places ELSE places' = places + 1
  PROVE  OffInv'
<1>1. WebTyped /\ Counted /\ ReportsDue /\ LeftAlone /\ Reported
  BY DEF OffInv
<1>2. /\ use' \in UseType /\ age' \in AgeType /\ use'.next = use.next /\ use'.converts = use.converts
      /\ age'.video = age.video /\ age'.web = age.web
      /\ use'.busy = use.busy + d /\ use'.used = 0 /\ age'.gap = 0 /\ age'.unused = 0
  BY <1>1, UsedBy
<1>3. /\ conns' \in [Conns -> AConn]
      /\ Cardinality(Served') = Cardinality(Served) + (IF IsServed(r) THEN 1 ELSE 0)
                                  - (IF IsServed(conns[c]) THEN 1 ELSE 0)
      /\ Cardinality(UnderWay') = Cardinality(UnderWay) + (IF IsUnderWay(r) THEN 1 ELSE 0)
                                    - (IF IsUnderWay(conns[c]) THEN 1 ELSE 0)
  BY <1>1, Moves
<1>4. places \in Int /\ places >= 0 /\ main \in {"wait", "accept"} /\ MainTakes' = MainTakes /\ MainTakes \in Nat
      /\ Cardinality(Served) \in Nat /\ Cardinality(UnderWay) \in Nat
  BY <1>1, CountsAre, MainTakesAs, MainTakesNext DEF WebTyped, Counted
<1>5. places' \in Int /\ places' >= 0
  BY <1>4, SMT
<1>6. WebTyped'
  <2>1. off' \in OffType /\ keeps' \subseteq Keeps /\ webcount' \in CountType
        /\ due' \subseteq {"check", "report", "overlay", "empty"}
    BY <1>1, TypedOff DEF WebTyped
  <2> QED
    BY <2>1, <1>1, <1>2, <1>3, <1>4, <1>5, KeepsTyped
<1>7. Cardinality(UnderWay') = Cardinality(UnderWay) + d
  <2>1. CASE IsUnderWay(r)
    BY <2>1, <1>3, <1>4
  <2>2. CASE ~IsUnderWay(r)
    BY <2>2, <1>3, <1>4
  <2> QED
    BY <2>1, <2>2
<1>8. places' + Cardinality(Served') = places + Cardinality(Served)
  <2>1. CASE IsServed(r)
    BY <2>1, <1>3, <1>4, SMT
  <2>2. CASE ~IsServed(r)
    BY <2>2, <1>3, <1>4, SMT
  <2> QED
    BY <2>1, <2>2
<1>9. Counted'
  BY <1>1, <1>2, <1>4, <1>5, <1>7, <1>8 DEF Counted
<1>10. ReportsDue'
  BY <1>1, <1>2, Reports DEF ReportsDue
<1>11. LeftAlone'
  <2>1. off.idle \in Nat /\ off.quiet \in Nat
    BY <1>1, TypedOff, FieldsOff
  <2> QED
    BY <2>1, <1>1, <1>2, Reports DEF LeftAlone, IdleLong
<1>12. Reported'
  BY <1>1, <1>2, ReportedKept
<1> QED
  BY <1>6, <1>9, <1>10, <1>11, <1>12 DEF OffInv

LEMMA ReadHeadStep == ASSUME OffInv, NEW c \in Conns, ReadHead(c) PROVE OffInv'
<1>1. WebTyped /\ Counted
  BY DEF OffInv
<1>2. conns[c].at = "head" /\ UNCHANGED <<main, off, keeps, due, webcount>> /\ places \in Int /\ places >= 0
      /\ main \in {"wait", "accept"}
  BY <1>1 DEF ReadHead, WebTyped, Counted
<1>3. ~IsUnderWay(conns[c]) /\ IsServed(conns[c]) /\ MainTakes' = MainTakes /\ MainTakes \in Nat
  BY <1>2, MainTakesAs, MainTakesNext DEF IsUnderWay, IsServed
<1>4. CASE Ends(c) /\ UNCHANGED <<use, age>>
  <2>1. NoConn \in AConn /\ ~IsUnderWay(NoConn) /\ ~IsServed(NoConn)
    BY <1>1, SetConn DEF IsUnderWay, IsServed, NoConn
  <2>2. conns' = [conns EXCEPT ![c] = NoConn] /\ places' = places + 1
    BY <1>4 DEF Ends
  <2>3. places' + MainTakes' + 0 = places + MainTakes + 1 /\ places' \in Int /\ places' >= 0
    BY <1>2, <1>3, <2>2, SMT
  <2> QED
    BY <1>2, <1>3, <1>4, <2>1, <2>2, <2>3, ByConnection
<1>5. ASSUME NEW poll \in BOOLEAN, conns' = [conns EXCEPT ![c] = [at |-> "handle", poll |-> poll, silent |-> 0]],
             Using(poll, 1), WebUsed(poll), UNCHANGED places
      PROVE  OffInv'
  <2> DEFINE r == [at |-> "handle", poll |-> poll, silent |-> 0]
  <2>1. r \in AConn /\ conns' = [conns EXCEPT ![c] = r]
    BY <1>1, <1>5, SetConn
  <2>2. IsServed(r) /\ (IsUnderWay(r) <=> ~poll)
    BY DEF IsServed, IsUnderWay
  <2> HIDE DEF r
  <2>3. CASE poll
    <3>1. UNCHANGED <<use, age>>
      BY <1>1, <1>5, <2>3 DEF Using, WebUsed
    <3>2. places' + MainTakes' + 1 = places + MainTakes + 1
      BY <1>3, <1>5
    <3>3. ~IsUnderWay(r)
      BY <2>2, <2>3
    <3> QED
      BY <1>2, <1>3, <1>5, <2>1, <2>2, <3>1, <3>2, <3>3, ByConnection
  <2>4. CASE ~poll
    <3>1. Using(FALSE, 1) /\ WebUsed(FALSE) /\ (IsUnderWay(r) <=> ~IsUnderWay(conns[c])) /\ IsUnderWay(r) /\ 1 \in Int
      <4>1. poll = FALSE
        BY <2>4
      <4> QED
        BY <1>3, <1>5, <2>2, <2>4, <4>1 DEF Using, WebUsed
    <3>2. (IsUnderWay(r) => 1 = 1) /\ (~IsUnderWay(r) => 1 = -1)
      BY <3>1
    <3> QED
      BY <1>2, <1>3, <1>5, <2>1, <2>2, <3>1, <3>2, ByRequest
  <2> QED
    BY <2>3, <2>4
<1> QED
  BY <1>4, <1>5 DEF ReadHead

LEMMA HandledStep == ASSUME OffInv, NEW c \in Conns, Handled(c) PROVE OffInv'
<1>1. WebTyped /\ Counted
  BY DEF OffInv
<1>2. /\ conns[c].at = "handle" /\ UNCHANGED <<main, off, keeps, due, webcount>>
      /\ Using(conns[c].poll, -1) /\ WebUsed(conns[c].poll)
      /\ places \in Int /\ places >= 0 /\ main \in {"wait", "accept"} /\ conns[c].poll \in BOOLEAN
  BY <1>1 DEF Handled, WebTyped, Counted, AConn
<1>3. /\ IsServed(conns[c]) /\ (IsUnderWay(conns[c]) <=> ~conns[c].poll)
      /\ MainTakes' = MainTakes /\ MainTakes \in Nat
  BY <1>2, MainTakesAs, MainTakesNext DEF IsUnderWay, IsServed
<1>4. ASSUME NEW r \in AConn, r.at \in {"drain", "none"}, conns' = [conns EXCEPT ![c] = r],
             IF IsServed(r) THEN UNCHANGED places ELSE places' = places + 1
      PROVE  OffInv'
  <2>1. ~IsUnderWay(r)
    BY <1>4 DEF IsUnderWay
  <2>2. CASE conns[c].poll
    <3>1. UNCHANGED <<use, age>> /\ ~IsUnderWay(conns[c])
      BY <1>2, <1>3, <2>2 DEF Using, WebUsed
    <3>2. places' + MainTakes' + (IF IsServed(r) THEN 1 ELSE 0)
            = places + MainTakes + (IF IsServed(conns[c]) THEN 1 ELSE 0) /\ places' \in Int /\ places' >= 0
      <4>1. CASE IsServed(r)
        BY <4>1, <1>2, <1>3, <1>4
      <4>2. CASE ~IsServed(r)
        BY <4>2, <1>2, <1>3, <1>4, SMT
      <4> QED
        BY <4>1, <4>2
    <3> QED
      BY <1>2, <1>4, <2>1, <3>1, <3>2, ByConnection
  <2>3. CASE ~conns[c].poll
    <3>1. Using(FALSE, -1) /\ WebUsed(FALSE) /\ -1 \in Int
      <4>1. conns[c].poll = FALSE
        BY <1>2, <2>3
      <4> QED
        BY <1>2, <4>1 DEF Using, WebUsed
    <3>2. (IsUnderWay(r) <=> ~IsUnderWay(conns[c]))
      BY <1>3, <2>1, <2>3 DEF IsUnderWay
    <3>3. (IsUnderWay(r) => -1 = 1) /\ (~IsUnderWay(r) => -1 = -1)
      BY <2>1
    <3> QED
      BY <1>2, <1>3, <1>4, <3>1, <3>2, <3>3, ByRequest
  <2> QED
    BY <2>2, <2>3
<1>5. CASE conns' = [conns EXCEPT ![c].at = "drain", ![c].silent = 0] /\ UNCHANGED places
  <2> DEFINE r == [conns[c] EXCEPT !.at = "drain", !.silent = 0]
  <2>1. r \in AConn /\ r.at = "drain"
    BY <1>1, SetConn DEF Wheres
  <2>2. conns' = [conns EXCEPT ![c] = r]
    BY <1>1, <1>5 DEF WebTyped
  <2>3. IsServed(r)
    BY <2>1 DEF IsServed
  <2> HIDE DEF r
  <2> QED
    BY <1>4, <1>5, <2>1, <2>2, <2>3
<1>6. CASE Ends(c)
  <2>1. NoConn \in AConn /\ NoConn.at = "none" /\ ~IsServed(NoConn)
    BY <1>1, SetConn DEF IsServed, NoConn
  <2> QED
    BY <1>4, <1>6, <2>1 DEF Ends
<1> QED
  BY <1>2, <1>5, <1>6 DEF Handled

Dues == {"check", "report", "overlay", "empty"}

\* What makes the time without use begin anew
LEMMA ByUse ==
  ASSUME OffInv, UNCHANGED <<places, main, conns, use>>, Used, UNCHANGED webcount \/ Deed \/ Trouble,
         off' \in OffType, off'.quiet = off.quiet \/ off'.quiet = 0, keeps' \subseteq Keeps,
         due' \subseteq Dues, "report" \in due' <=> "report" \in due
  PROVE  OffInv'
<1>1. WebTyped /\ Counted /\ ReportsDue /\ LeftAlone /\ Reported
  BY DEF OffInv
<1>2. UNCHANGED <<Served, UnderWay>>
  BY NoneMoves
<1>3. /\ age' \in AgeType /\ age'.unused = 0 /\ age'.web = age.web /\ age'.gap = age.gap
      /\ age'.video = age.video
  <2>1. age \in AgeType /\ 0 \in 0..Unused
    BY <1>1, TypedOff, Reports
  <2> QED
    BY <2>1, SetAge DEF Used
<1>4. WebTyped'
  <2>1. webcount' \in CountType /\ use' \in UseType
    BY <1>1, CountSteps, TypedOff
  <2> QED
    BY <2>1, <1>1, <1>3, KeepsTyped DEF WebTyped, Dues
<1>5. Counted'
  BY <1>1, CountedKept
<1>6. ReportsDue'
  BY <1>1, <1>2, <1>3 DEF ReportsDue
<1>7. LeftAlone'
  <2>1. off'.idle \in Nat /\ off'.quiet \in Nat /\ use.used \in Nat
    BY <1>1, TypedOff, FieldsOff
  <2> QED
    BY <2>1, <1>3, Reports DEF LeftAlone
<1>8. Reported'
  BY <1>1, <1>3, ReportedKept
<1> QED
  BY <1>4, <1>5, <1>6, <1>7, <1>8 DEF OffInv

\* What does not
LEMMA ByLook ==
  ASSUME OffInv, UNCHANGED <<places, main, conns, use, age>>, UNCHANGED webcount \/ Deed \/ Trouble,
         off' \in OffType, off'.idle = off.idle,
         off'.quiet = off.quiet \/ (off'.quiet = 0 /\ age.unused = 0), keeps' \subseteq keeps,
         due' \subseteq Dues, "report" \in due' <=> "report" \in due,
         "check" \notin due' /\ off'.going = "no" => age.unused = 0 \/ ~IdleLong'
  PROVE  OffInv'
<1>1. WebTyped /\ Counted /\ ReportsDue /\ LeftAlone /\ Reported
  BY DEF OffInv
<1>2. UNCHANGED <<Served, UnderWay>>
  BY NoneMoves
<1>3. WebTyped'
  <2>1. webcount' \in CountType /\ use' \in UseType /\ age' \in AgeType /\ keeps' \subseteq Keeps
    BY <1>1, CountSteps, TypedOff DEF WebTyped
  <2> QED
    BY <2>1, <1>1, KeepsTyped DEF WebTyped, Dues
<1>4. Counted'
  BY <1>1, CountedKept
<1>5. ReportsDue'
  BY <1>1, <1>2 DEF ReportsDue
<1>6. LeftAlone'
  <2>1. off.idle \in Nat /\ off.quiet \in Nat /\ use.used \in Nat
    BY <1>1, TypedOff, FieldsOff
  <2>2. keeps' # {} => keeps # {}
    OBVIOUS
  <2>3. use'.converts \/ keeps' # {} \/ UnderWay' # {} => age'.unused = 0
    BY <1>1, <1>2, <2>2 DEF LeftAlone
  <2>4. age'.unused <= off'.idle \/ off'.idle = Limit
    BY <1>1 DEF LeftAlone
  <2>5. use'.used < Report => age'.unused <= use'.used
    BY <1>1 DEF LeftAlone
  <2>6. age'.unused < off'.quiet + Report \/ off'.quiet = Limit
    <3>1. CASE off'.quiet = off.quiet
      BY <3>1, <1>1 DEF LeftAlone
    <3>2. CASE off'.quiet = 0 /\ age.unused = 0
      BY <3>2, Reports
    <3> QED
      BY <3>1, <3>2
  <2> QED
    BY <2>3, <2>4, <2>5, <2>6 DEF LeftAlone
<1>7. Reported'
  BY <1>1, ReportedKept
<1> QED
  BY <1>3, <1>4, <1>5, <1>6, <1>7 DEF OffInv

LEMMA InputStep == OffInv /\ Input => OffInv'
<1> SUFFICES ASSUME OffInv, Input PROVE OffInv'
  OBVIOUS
<1>1. off \in OffType /\ 0 \in 0..Limit /\ keeps \subseteq Keeps /\ due \subseteq Dues
  BY TypedOff, Reports DEF OffInv, WebTyped, Dues
<1>2. off' \in OffType /\ off'.quiet = off.quiet
  BY <1>1, SetOff DEF Input
<1> QED
  BY <1>1, <1>2, ByUse DEF Input

LEMMA ShutDownStep == OffInv /\ ShutDown => OffInv'
<1> SUFFICES ASSUME OffInv, ShutDown PROVE OffInv'
  OBVIOUS
<1>1. off \in OffType /\ 0 \in 0..Limit /\ keeps \subseteq Keeps /\ due \subseteq Dues
  BY TypedOff, Reports DEF OffInv, WebTyped, Dues
<1> DEFINE o == [off EXCEPT !.going = "shown"]
<1>2. o \in OffType /\ o.quiet = off.quiet
  BY <1>1, SetOff
<1>3. off' = [o EXCEPT !.idle = 0]
  BY DEF ShutDown
<1>4. off' \in OffType /\ off'.quiet = off.quiet
  <2> HIDE DEF o
  <2>1. o \in OffType /\ 0 \in 0..Limit
    BY <1>1, <1>2
  <2>2. [o EXCEPT !.idle = 0] \in OffType /\ [o EXCEPT !.idle = 0].quiet = o.quiet
    BY <2>1, SetOff, Zenon
  <2> QED
    BY <1>2, <1>3, <2>2, Zenon
<1>5. keeps' \subseteq Keeps /\ due' \subseteq Dues /\ ("report" \in due' <=> "report" \in due)
  BY <1>1 DEF ShutDown, Paused, Dues
<1> QED
  BY <1>4, <1>5, ByUse DEF ShutDown

LEMMA KeepsChangeStep == OffInv /\ KeepsChange => OffInv'
<1> SUFFICES ASSUME OffInv, KeepsChange PROVE OffInv'
  OBVIOUS
<1>1. off \in OffType /\ keeps \subseteq Keeps /\ due \subseteq Dues
  BY TypedOff DEF OffInv, WebTyped, Dues
<1>2. keeps' \subseteq Keeps /\ Deed /\ Used /\ UNCHANGED <<places, main, conns, use>>
  BY <1>1 DEF KeepsChange
<1>3. CASE off' = [off EXCEPT !.tried = FALSE] /\ due' = due \ {"empty"}
  <2>1. off' \in OffType /\ off'.quiet = off.quiet
    BY <1>1, <1>3, SetOff, Zenon
  <2> QED
    BY <1>1, <1>2, <1>3, <2>1, ByUse
<1>4. CASE UNCHANGED <<off, due>>
  BY <1>1, <1>2, <1>4, ByUse
<1> QED
  BY <1>3, <1>4 DEF KeepsChange

LEMMA BatteryEmptyStep == OffInv /\ BatteryEmpty => OffInv'
<1> SUFFICES ASSUME OffInv, BatteryEmpty PROVE OffInv'
  OBVIOUS
<1>1. off \in OffType /\ 0 \in 0..Limit /\ keeps \subseteq Keeps /\ due \subseteq Dues
  BY TypedOff, Reports DEF OffInv, WebTyped, Dues
<1>2. off' \in OffType /\ off'.quiet = off.quiet
  BY <1>1, SetOff DEF BatteryEmpty
<1>3. keeps' \subseteq Keeps /\ due' \subseteq Dues /\ ("report" \in due' <=> "report" \in due)
  BY <1>1 DEF BatteryEmpty, Paused, Dues
<1> QED
  BY <1>2, <1>3, ByUse DEF BatteryEmpty

LEMMA PowerOffLook ==
  ASSUME OffInv, NEW o \in OffType, o.idle = off.idle, o.quiet = off.quiet, PowerOff(o),
         UNCHANGED <<places, main, conns, use>>, keeps' \subseteq keeps,
         due' \subseteq Dues, "report" \in due' <=> "report" \in due
  PROVE  OffInv'
<1>1. CASE off' = [o EXCEPT !.going = "off"] /\ UNCHANGED <<age, webcount>>
  <2>1. off' \in OffType /\ off'.going = "off" /\ off'.idle = off.idle /\ off'.quiet = off.quiet
    BY <1>1, SetOff
  <2> QED
    BY <1>1, <2>1, ByLook
<1>2. CASE off' = [o EXCEPT !.going = "no", !.quiet = 0] /\ Used /\ Trouble
  <2> DEFINE m == [o EXCEPT !.going = "no"]
  <2>1. m \in OffType /\ 0 \in 0..Limit
    <3>1. m \in OffType
      BY SetOff, Zenon
    <3> QED
      BY <3>1, Reports
  <2>2. off' = [m EXCEPT !.quiet = 0]
    BY <1>2
  <2>3. off' \in OffType /\ off'.quiet = 0
    <3> HIDE DEF m
    <3> QED
      BY <2>1, <2>2, SetOff, Zenon
  <2>4. keeps' \subseteq Keeps
    BY DEF OffInv, WebTyped
  <2> QED
    BY <1>2, <2>3, <2>4, ByUse
<1> QED
  BY <1>1, <1>2 DEF PowerOff

LEMMA OverlayStep == OffInv /\ Overlay => OffInv'
<1> SUFFICES ASSUME OffInv, Overlay PROVE OffInv'
  OBVIOUS
<1>1. off \in OffType /\ due \subseteq Dues
  BY TypedOff DEF OffInv, WebTyped, Dues
<1>2. due' \subseteq Dues /\ ("report" \in due' <=> "report" \in due)
  BY <1>1 DEF Overlay
<1> QED
  BY <1>1, <1>2, PowerOffLook DEF Overlay

LEMMA EmptyOffStep == OffInv /\ EmptyOff => OffInv'
<1> SUFFICES ASSUME OffInv, EmptyOff PROVE OffInv'
  OBVIOUS
<1>1. off \in OffType /\ due \subseteq Dues /\ LeftAlone
  BY TypedOff DEF OffInv, WebTyped, Dues
<1> DEFINE o == [off EXCEPT !.tried = TRUE]
<1>2. o \in OffType /\ o.idle = off.idle /\ o.quiet = off.quiet /\ o.going = off.going
  BY <1>1, SetOff, Zenon
<1>3. /\ due' \subseteq Dues /\ ("report" \in due' <=> "report" \in due)
      /\ ("check" \in due' <=> "check" \in due)
      /\ Now(o) /\ UNCHANGED <<places, main, conns, use>>
  BY <1>1 DEF EmptyOff
<1> HIDE DEF o
<1>4. CASE o.going # "no"
  <2>1. off' = o /\ UNCHANGED <<keeps, age, webcount>>
    BY <1>3, <1>4 DEF Now
  <2>2. "check" \notin due' /\ off'.going = "no" => age.unused = 0 \/ ~IdleLong'
    BY <1>4, <2>1
  <2> QED
    BY <1>2, <1>3, <2>1, <2>2, ByLook
<1>5. CASE o.going = "no"
  <2>1. PowerOff(o) /\ keeps' \subseteq keeps
    BY <1>3, <1>5 DEF Now, Paused
  <2> QED
    BY <1>2, <1>3, <2>1, PowerOffLook
<1> QED
  BY <1>4, <1>5

LEMMA CheckStep == OffInv /\ Check => OffInv'
<1> SUFFICES ASSUME OffInv, Check PROVE OffInv'
  OBVIOUS
<1>1. off \in OffType /\ due \subseteq Dues /\ LeftAlone /\ 0 \in 0..Limit
  BY TypedOff, Reports DEF OffInv, WebTyped, Dues
<1>2. /\ due' \subseteq Dues /\ ("report" \in due' <=> "report" \in due)
      /\ UNCHANGED <<places, main, conns, use>>
  BY <1>1 DEF Check
<1>3. CASE off.going # "no" /\ UNCHANGED <<off, keeps, age, webcount>>
  BY <1>1, <1>2, <1>3, ByLook
<1>4. CASE keeps # {} /\ off' = [off EXCEPT !.quiet = 0] /\ UNCHANGED <<keeps, age, webcount>>
  <2>1. off' \in OffType /\ off'.quiet = 0 /\ off'.idle = off.idle
    BY <1>1, <1>4, SetOff
  <2>2. age.unused = 0
    BY <1>1, <1>4 DEF LeftAlone
  <2> QED
    BY <1>2, <1>4, <2>1, <2>2, ByLook
<1>5. CASE /\ keeps = {"playing"} /\ Trouble /\ UNCHANGED <<keeps, age>>
           /\ off' = IF IdleLong THEN [off EXCEPT !.going = "off"] ELSE off
  <2>1. off' \in OffType /\ off'.quiet = off.quiet /\ off'.idle = off.idle
    BY <1>1, <1>5, SetOff
  <2>2. age.unused = 0
    BY <1>1, <1>5 DEF LeftAlone
  <2> QED
    BY <1>2, <1>5, <2>1, <2>2, ByLook
<1>6. CASE off.going = "no" /\ keeps = {} /\ IdleLong /\ Now(off)
  <2>1. PowerOff(off) /\ keeps' \subseteq keeps
    BY <1>6 DEF Now, Paused
  <2> QED
    BY <1>1, <1>2, <2>1, PowerOffLook
<1>7. CASE ~IdleLong /\ UNCHANGED <<off, keeps, age, webcount>>
  <2>1. ~IdleLong'
    BY <1>7 DEF IdleLong
  <2> QED
    BY <1>1, <1>2, <1>7, <2>1, ByLook
<1> QED
  BY <1>3, <1>4, <1>5, <1>6, <1>7 DEF Check

LEMMA ConversionStep == OffInv /\ Conversion => OffInv'
<1> SUFFICES ASSUME OffInv, Conversion PROVE OffInv'
  OBVIOUS
<1>1. WebTyped /\ Counted /\ ReportsDue /\ LeftAlone /\ Reported
  BY DEF OffInv
<1>2. UNCHANGED <<Served, UnderWay, places, main, conns, off, keeps, due>>
      /\ (UNCHANGED webcount \/ Deed)
  BY NoneMoves DEF Conversion
<1>3. use \in UseType /\ age \in AgeType /\ use.converts \in BOOLEAN /\ 0 \in 0..Unused /\ 0 \in 0..Long
  BY <1>1, TypedOff, FieldsOff, Reports
<1>4. /\ use' \in UseType /\ use'.busy = use.busy /\ use'.used = use.used /\ use'.next = use.next
  <2>1. use' = [use EXCEPT !.converts = ~use.converts]
    BY DEF Conversion
  <2>2. /\ use \in [busy : Int, used : 0..Report, next : 0..Report, converts : BOOLEAN]
        /\ (~use.converts) \in BOOLEAN
    BY <1>3 DEF UseType
  <2> QED
    BY <2>1, <2>2, Zenon DEF UseType
<1>5. /\ age' \in AgeType /\ age'.unused = 0 /\ age'.video = 0 /\ age'.web = age.web /\ age'.gap = age.gap
  <2> DEFINE r == [age EXCEPT !.video = 0]
  <2>1. r \in AgeType /\ r.video = 0 /\ r.web = age.web /\ r.gap = age.gap
    BY <1>3, SetAge
  <2>2. age' = [r EXCEPT !.unused = 0]
    BY DEF Conversion
  <2> HIDE DEF r
  <2> QED
    BY <1>3, <2>1, <2>2, SetAge
<1>6. WebTyped'
  <2>1. webcount' \in CountType /\ off' \in OffType
    BY <1>1, <1>2, CountSteps, TypedOff
  <2> QED
    BY <2>1, <1>1, <1>2, <1>4, <1>5, KeepsTyped DEF WebTyped
<1>7. Counted'
  BY <1>1, <1>2, <1>4, CountedKept
<1>8. ReportsDue'
  BY <1>1, <1>2, <1>4, <1>5 DEF ReportsDue
<1>9. LeftAlone'
  <2>1. off.idle \in Nat /\ off.quiet \in Nat /\ use.used \in Nat
    BY <1>1, TypedOff, FieldsOff
  <2> QED
    BY <2>1, <1>2, <1>4, <1>5, Reports DEF LeftAlone
<1>10. Reported'
  BY <1>1, <1>2, <1>4, <1>5, ReportedKept
<1> QED
  BY <1>6, <1>7, <1>8, <1>9, <1>10 DEF OffInv

\* What is in use is told of, and what was in use lately too.
LEMMA InUseIs ==
  ASSUME WebTyped, Counted, ReportsDue
  PROVE  /\ InUse <=> UnderWay # {} \/ use.used < Report
         /\ age.web > 0 => InUse
<1>1. use.busy = Cardinality(UnderWay) /\ Cardinality(UnderWay) \in Nat
      /\ (Cardinality(UnderWay) = 0 <=> UnderWay = {})
  BY CountsAre DEF Counted
<1>2. InUse <=> UnderWay # {} \/ use.used < Report
  BY <1>1, SMT DEF InUse
<1>3. age.web > 0 => InUse
  BY <1>2 DEF ReportsDue
<1> QED
  BY <1>2, <1>3

LEMMA KeepAliveStep == OffInv /\ KeepAlive => OffInv'
<1> SUFFICES ASSUME OffInv, KeepAlive PROVE OffInv'
  OBVIOUS
<1>1. WebTyped /\ Counted /\ ReportsDue /\ LeftAlone /\ Reported
  BY DEF OffInv
<1>2. UNCHANGED <<Served, UnderWay, places, main, conns, keeps, age>> /\ "report" \in due
      /\ due' = due \ {"report"} /\ use' = [use EXCEPT !.next = Report]
  BY NoneMoves DEF KeepAlive
<1>3. use \in UseType /\ off \in OffType /\ age \in AgeType /\ Report \in 0..Report /\ 0 \in 0..Limit
  BY <1>1, TypedOff, Reports
<1>4. /\ use' \in UseType /\ use'.busy = use.busy /\ use'.used = use.used /\ use'.next = Report
      /\ use'.converts = use.converts
  BY <1>2, <1>3, SetUse
<1>5. use.next = 0
  BY <1>1, <1>2 DEF ReportsDue
<1>6. /\ HeardOf \in Nat /\ Report \in Nat /\ Report > 0 /\ Report <= HeardOf /\ off.idle \in Nat /\ off.quiet \in Nat
      /\ use.used \in Nat /\ age.unused \in Nat /\ age.video \in Nat /\ age.web \in Nat
  BY <1>1, HeardOfs, Reports, TypedOff, FieldsOff
<1>7. Counted'
  BY <1>1, <1>2, <1>4, CountedKept
<1>8. ReportsDue'
  BY <1>1, <1>2, <1>4, <1>6 DEF ReportsDue
<1>9. ASSUME off' \in OffType, UNCHANGED webcount \/ Trouble
      PROVE  WebTyped'
  <2>1. webcount' \in CountType /\ age' \in AgeType /\ keeps' \subseteq Keeps /\ main' \in {"wait", "accept"}
        /\ places' \in Int /\ conns' \in [Conns -> AConn] /\ due' \subseteq {"check", "report", "overlay", "empty"}
    BY <1>1, <1>2, <1>3, <1>9, CountSteps DEF WebTyped
  <2> QED
    BY <2>1, <1>1, <1>4, <1>9, KeepsTyped
<1>10. ASSUME off'.idle = off.idle, off'.going = off.going,
              off'.quiet = off.quiet \/ (off'.quiet = 0 /\ (InUse \/ use.converts))
       PROVE  LeftAlone'
  <2>1. age'.unused < off'.quiet + Report \/ off'.quiet = Limit
    <3>1. CASE off'.quiet = off.quiet
      BY <3>1, <1>1, <1>2 DEF LeftAlone
    <3>2. CASE off'.quiet = 0 /\ (InUse \/ use.converts)
      <4>1. age.unused = 0 \/ use.used < Report
        BY <3>2, <1>1, InUseIs DEF LeftAlone
      <4>2. age.unused < Report
        BY <4>1, <1>1, <1>6 DEF LeftAlone
      <4> QED
        BY <4>2, <3>2, <1>2, <1>6
    <3> QED
      BY <3>1, <3>2, <1>10
  <2>2. "check" \notin due' /\ off'.going = "no" => age'.unused = 0 \/ ~IdleLong'
    <3>1. "check" \notin due' => "check" \notin due
      BY <1>2
    <3>2. IdleLong' => IdleLong
      <4>1. 0 < Limit /\ Limit \in Nat
        <5>1. 0 \in 0..MaxTrouble
          BY Reports
        <5>2. Report * (1 + 0) < Limit /\ Report <= Report * (1 + 0) /\ Report * (1 + 0) \in Nat
          BY <5>1, Reports
        <5> QED
          BY <5>2, Reports
      <4>2. off'.quiet = off.quiet \/ off'.quiet = 0
        BY <1>10
      <4> QED
        BY <4>1, <4>2, <1>10 DEF IdleLong
    <3> QED
      BY <3>1, <3>2, <1>1, <1>2, <1>10 DEF LeftAlone
  <2> QED
    BY <2>1, <2>2, <1>1, <1>2, <1>4, <1>10 DEF LeftAlone
<1>11. CASE (InUse \/ use.converts) /\ off' = [off EXCEPT !.quiet = 0] /\ UNCHANGED webcount
  <2>1. off' \in OffType /\ off'.quiet = 0 /\ off'.idle = off.idle /\ off'.going = off.going
    <3>1. off \in OffType /\ 0 \in 0..Limit /\ off' = [off EXCEPT !.quiet = 0]
      BY <1>3, <1>11
    <3> QED
      BY <3>1, SetOff, Zenon
  <2>2. Reported'
    <3>1. HeardOf' = HeardOf
      BY <1>11 DEF HeardOf
    <3>2. 0 <= HeardOf' - use'.next
      BY <3>1, <1>4, <1>6
    <3> QED
      BY <3>2, <2>1 DEF Reported
  <2>3. WebTyped' /\ LeftAlone'
    BY <2>1, <1>9, <1>10, <1>11
  <2> QED
    BY <2>2, <2>3, <1>7, <1>8 DEF OffInv
<1>12. CASE Trouble /\ UNCHANGED off
  <2>1. Reported'
    <3>1. HeardOf' - use'.next = HeardOf - use.next
      <4>1. HeardOf' = HeardOf + Report
        BY <1>1, <1>12, CountSteps
      <4> QED
        BY <4>1, <1>4, <1>5, <1>6
    <3> QED
      BY <3>1, <1>1, <1>2, <1>12 DEF Reported
  <2>2. WebTyped' /\ LeftAlone'
    BY <1>3, <1>9, <1>10, <1>12
  <2> QED
    BY <2>1, <2>2, <1>7, <1>8 DEF OffInv
<1>13. CASE ~(InUse \/ use.converts) /\ UNCHANGED <<off, webcount>>
  <2>1. age.web = 0 /\ age.video = 0
    BY <1>1, <1>6, <1>13, InUseIs DEF ReportsDue
  <2>2. Reported'
    <3>1. HeardOf' = HeardOf
      BY <1>13 DEF HeardOf
    <3>2. 0 <= HeardOf' - use'.next
      BY <3>1, <1>4, <1>6
    <3> QED
      BY <3>2, <2>1, <1>2 DEF Reported
  <2>3. WebTyped' /\ LeftAlone'
    BY <1>3, <1>9, <1>10, <1>13
  <2> QED
    BY <2>2, <2>3, <1>7, <1>8 DEF OffInv
<1> QED
  BY <1>11, <1>12, <1>13 DEF KeepAlive

LEMMA WebRestartsStep == OffInv /\ WebRestarts => OffInv'
<1> SUFFICES ASSUME OffInv, WebRestarts PROVE OffInv'
  OBVIOUS
<1>1. WebTyped /\ Counted /\ ReportsDue /\ LeftAlone /\ Reported
  BY DEF OffInv
<1>2. /\ Trouble /\ use' = [WebFresh EXCEPT !.converts = use.converts] /\ UNCHANGED <<off, keeps>>
      /\ places' = MaxConnections /\ main' = "wait" /\ conns' = [c \in Conns |-> NoConn]
      /\ due' = due \ {"report"} /\ age' = [age EXCEPT !.web = 0, !.gap = Report]
  BY DEF WebRestarts
<1>3. use \in UseType /\ off \in OffType /\ age \in AgeType /\ use.converts \in BOOLEAN
      /\ Report \in 0..Report /\ 0 \in 0..Long /\ 0 \in 0..Report /\ Report \in Nat /\ MaxConnections \in Nat
  BY <1>1, TypedOff, FieldsOff, Reports, OffAssumption
<1>4. /\ use' \in UseType /\ use'.busy = 0 /\ use'.used = Report /\ use'.next = Report
      /\ use'.converts = use.converts
  <2>1. use' = [busy |-> 0, used |-> Report, next |-> Report, converts |-> use.converts]
    BY <1>2 DEF WebFresh
  <2> QED
    BY <1>3, <2>1 DEF UseType
<1>5. /\ age' \in AgeType /\ age'.web = 0 /\ age'.gap = Report /\ age'.video = age.video
      /\ age'.unused = age.unused
  <2> DEFINE r == [age EXCEPT !.web = 0]
  <2>1. r \in AgeType /\ r.web = 0 /\ r.video = age.video /\ r.unused = age.unused
    BY <1>3, SetAge
  <2>2. age' = [r EXCEPT !.gap = Report]
    BY <1>2
  <2> HIDE DEF r
  <2> QED
    BY <1>3, <2>1, <2>2, SetAge
<1>6. conns' \in [Conns -> AConn] /\ Served' = {} /\ UnderWay' = {} /\ MainTakes' = 0
  <2>1. NoConn \in AConn /\ NoConn.at = "none"
    BY DEF NoConn, AConn, Wheres
  <2> QED
    BY <1>2, <2>1, MainTakesNext DEF Served, UnderWay
<1>7. webcount' \in CountType /\ HeardOf' = HeardOf + Report
  BY <1>1, <1>2, CountSteps
<1>8. WebTyped'
  <2>1. keeps' \subseteq Keeps /\ due' \subseteq {"check", "report", "overlay", "empty"} /\ places' \in Int
        /\ off' \in OffType /\ main' \in {"wait", "accept"}
    BY <1>1, <1>2, <1>3 DEF WebTyped
  <2> QED
    BY <2>1, <1>1, <1>4, <1>5, <1>6, <1>7, KeepsTyped
<1>9. Counted'
  BY <1>2, <1>3, <1>4, <1>6, FS_EmptySet DEF Counted
<1>10. ReportsDue'
  BY <1>1, <1>2, <1>3, <1>4, <1>5, Reports DEF ReportsDue
<1>11. LeftAlone'
  <2>1. "check" \notin due' => "check" \notin due
    BY <1>2
  <2>2. ~(use'.used < Report)
    BY <1>3, <1>4
  <2>3. keeps' = keeps /\ off' = off /\ (IdleLong' <=> IdleLong)
    BY <1>2 DEF IdleLong
  <2> QED
    BY <1>1, <1>4, <1>5, <1>6, <2>1, <2>2, <2>3 DEF LeftAlone
<1>12. Reported'
  <2> DEFINE h == HeardOf
             v == age.video
             q == off.quiet
             n == use.next
  <2>1. h \in Nat /\ v \in Nat /\ q \in Nat /\ n \in 0..Report /\ Report <= h
    BY <1>1, HeardOfs, TypedOff, FieldsOff
  <2>2. v <= h - n \/ q <= h - n
    BY <1>1 DEF Reported
  <2>3. (v <= (h + Report) - Report \/ q <= (h + Report) - Report) /\ 0 <= (h + Report) - Report
    <3> HIDE DEF h, v, q, n
    <3> QED
      BY <2>1, <2>2, <1>3, SMT
  <2> QED
    BY <2>3, <1>2, <1>4, <1>5, <1>7 DEF Reported
<1> QED
  BY <1>8, <1>9, <1>10, <1>11, <1>12 DEF OffInv

\* A tick makes the ages one more, up to their bounds.
LEMMA CappedIs ==
  ASSUME NEW cap \in Nat, NEW n \in 0..cap
  PROVE  /\ Capped(n, cap) \in 0..cap /\ Capped(n, cap) <= n + 1 /\ Capped(n, cap) >= n
         /\ Capped(n, cap) = n + 1 \/ Capped(n, cap) = cap
         /\ (Capped(n, cap) = cap => n >= cap - 1)
  BY DEF Capped

LEMMA TickStep == OffInv /\ Tick => OffInv'
<1> SUFFICES ASSUME OffInv, Tick PROVE OffInv'
  OBVIOUS
<1>1. WebTyped /\ Counted /\ ReportsDue /\ LeftAlone /\ Reported
  BY DEF OffInv
<1>2. due = {} /\ due' = {"check"} \union (IF use.next = 1 THEN {"report"} ELSE {})
      /\ UNCHANGED <<places, main, keeps, webcount>>
  BY DEF Tick
<1> DEFINE un == use.next
           uu == use.used
           oi == off.idle
           oq == off.quiet
           ag == age.gap
           aw == age.web
           av == age.video
           au == age.unused
           gap == IF UnderWay = {} THEN Capped(age.gap, Report) ELSE 0
           web == IF gap < Report THEN Capped(age.web, Long) ELSE 0
           video == IF use.converts THEN Capped(age.video, Long) ELSE 0
           unused == IF use.converts \/ keeps # {} \/ UnderWay # {}
                     THEN 0 ELSE Capped(age.unused, Unused)
<1>3. /\ use \in UseType /\ off \in OffType /\ age \in AgeType /\ webcount \in CountType
      /\ un \in 0..Report /\ uu \in 0..Report /\ oi \in 0..Limit /\ oq \in 0..Limit
      /\ ag \in 0..Report /\ aw \in 0..Long /\ av \in 0..Long /\ au \in 0..Unused
      /\ use.busy \in Int /\ use.converts \in BOOLEAN
  BY <1>1, TypedOff, FieldsOff
<1>4. Report \in Nat /\ Report > 0 /\ Limit \in Nat /\ Long \in Nat /\ Unused \in Nat
      /\ Unused = Limit + Report + 1
  BY Reports
<1>5. un > 0
  BY <1>1, <1>2, <1>3 DEF ReportsDue
<1>6. /\ use' \in UseType /\ use'.next = un - 1 /\ use'.used = Capped(uu, Report)
      /\ use'.busy = use.busy /\ use'.converts = use.converts
  <2> DEFINE u == [use EXCEPT !.next = use.next - 1]
  <2>1. un - 1 \in 0..Report
    BY <1>3, <1>4, <1>5
  <2>2. u \in UseType /\ u.next = un - 1 /\ u.used = uu /\ u.busy = use.busy /\ u.converts = use.converts
    BY <1>3, <2>1, SetUse
  <2>3. use' = [u EXCEPT !.used = Capped(uu, Report)]
    BY DEF Tick
  <2>4. Capped(uu, Report) \in 0..Report
    BY <1>3, <1>4, CappedIs
  <2> HIDE DEF u
  <2> QED
    BY <2>2, <2>3, <2>4, SetUse
<1>7. /\ off' \in OffType /\ off'.idle = Capped(oi, Limit) /\ off'.quiet = Capped(oq, Limit)
      /\ off'.going = off.going
  <2> DEFINE o == [off EXCEPT !.idle = Capped(off.idle, Limit)]
  <2>1. Capped(oi, Limit) \in 0..Limit /\ Capped(oq, Limit) \in 0..Limit
    BY <1>3, <1>4, CappedIs
  <2>2. o \in OffType /\ o.idle = Capped(oi, Limit) /\ o.quiet = oq /\ o.going = off.going
    <3>1. off \in OffType /\ Capped(off.idle, Limit) \in 0..Limit
      BY <1>3, <2>1
    <3> QED
      BY <3>1, SetOff, Zenon
  <2>3. off' = [o EXCEPT !.quiet = Capped(oq, Limit)]
    BY DEF Tick
  <2> HIDE DEF o
  <2> QED
    BY <2>1, <2>2, <2>3, SetOff
<1>8. age' = [gap |-> gap, web |-> web, video |-> video, unused |-> unused]
  BY DEF Tick
<1>9. gap \in 0..Report /\ web \in 0..Long /\ video \in 0..Long /\ unused \in 0..Unused
  <2>1. /\ Capped(ag, Report) \in 0..Report /\ Capped(aw, Long) \in 0..Long
        /\ Capped(av, Long) \in 0..Long /\ Capped(au, Unused) \in 0..Unused
    BY <1>3, <1>4, CappedIs
  <2>2. 0 \in 0..Report /\ 0 \in 0..Long /\ 0 \in 0..Unused
    BY <1>4
  <2> QED
    BY <2>1, <2>2, Zenon
<1>10. age' \in AgeType /\ age'.gap = gap /\ age'.web = web /\ age'.video = video /\ age'.unused = unused
  <2> HIDE DEF gap, web, video, unused
  <2> QED
    BY <1>8, <1>9 DEF AgeType
<1>11. conns' \in [Conns -> AConn] /\ UNCHANGED <<Served, UnderWay>>
  <2>1. conns' = [c \in Conns |-> IF conns[c].at \in {"head", "handle"}
                                    THEN [conns[c] EXCEPT !.silent = @ + 1] ELSE conns[c]]
    BY DEF Tick
  <2>2. \A c \in Conns : /\ conns'[c] \in AConn /\ conns'[c].at = conns[c].at
                         /\ conns'[c].poll = conns[c].poll
    <3> TAKE c \in Conns
    <3>1. conns[c] \in AConn
      BY <1>1 DEF WebTyped
    <3>2. conns[c].silent + 1 \in Nat
      <4>1. conns[c].silent \in Nat
        BY <3>1 DEF AConn
      <4> QED
        BY <4>1
    <3>3. \A r \in AConn : \A n \in Nat : /\ [r EXCEPT !.silent = n] \in AConn /\ [r EXCEPT !.silent = n].at = r.at
                                          /\ [r EXCEPT !.silent = n].poll = r.poll
      BY Zenon DEF AConn
    <3>4. conns'[c] = [conns[c] EXCEPT !.silent = conns[c].silent + 1] \/ conns'[c] = conns[c]
      BY <2>1
    <3> QED
      BY <3>1, <3>2, <3>3, <3>4, Zenon
  <2>3. conns' \in [Conns -> AConn]
    BY <2>1, <2>2
  <2>4. Served' = Served /\ UnderWay' = UnderWay
    BY <2>2 DEF Served, UnderWay
  <2> QED
    BY <2>3, <2>4
<1> HIDE DEF un, uu, oi, oq, ag, aw, av, au, gap, web, video, unused
<1>12. WebTyped'
  <2>1. keeps' \subseteq Keeps /\ webcount' \in CountType /\ places' \in Int /\ main' \in {"wait", "accept"}
        /\ due' \subseteq {"check", "report", "overlay", "empty"}
    BY <1>1, <1>2, <1>3 DEF WebTyped
  <2> QED
    BY <2>1, <1>1, <1>6, <1>7, <1>10, <1>11, KeepsTyped
<1>13. Counted'
  BY <1>1, <1>2, <1>6, <1>11 DEF Counted, MainTakes
<1>14. ReportsDue'
  <2>1. use'.next = 0 <=> "report" \in due'
    <3>1. un = 1 <=> "report" \in due'
      BY <1>2 DEF un
    <3> QED
      BY <3>1, <1>3, <1>5, <1>6
  <2>2. UnderWay' = {} => use'.used = age'.gap
    BY <1>1, <1>6, <1>10, <1>11 DEF ReportsDue, uu, gap
  <2>3. age'.web > 0 => age'.gap < Report
    BY <1>10 DEF web
  <2>4. age'.video > 0 => use'.converts
    BY <1>6, <1>10 DEF video
  <2> QED
    BY <2>1, <2>2, <2>3, <2>4 DEF ReportsDue
<1>15. LeftAlone'
  <2>1. /\ Capped(uu, Report) \in 0..Report /\ Capped(uu, Report) >= uu
        /\ Capped(uu, Report) = uu + 1 \/ Capped(uu, Report) = Report
    BY <1>3, <1>4, CappedIs
  <2>2. /\ Capped(oi, Limit) \in 0..Limit /\ (Capped(oi, Limit) = oi + 1 \/ Capped(oi, Limit) = Limit)
    BY <1>3, <1>4, CappedIs
  <2>3. /\ Capped(oq, Limit) \in 0..Limit /\ (Capped(oq, Limit) = oq + 1 \/ Capped(oq, Limit) = Limit)
    BY <1>3, <1>4, CappedIs
  <2>4. unused <= au + 1 /\ unused >= 0
    <3>1. Capped(au, Unused) <= au + 1 /\ Capped(au, Unused) >= 0
      BY <1>3, <1>4, CappedIs
    <3> QED
      BY <3>1, <1>3 DEF unused, au
  <2>5. use'.converts \/ keeps' # {} \/ UnderWay' # {} => age'.unused = 0
    BY <1>2, <1>6, <1>10, <1>11 DEF unused
  <2>6. age'.unused <= off'.idle \/ off'.idle = Limit
    <3>1. au <= oi \/ oi = Limit
      BY <1>1 DEF LeftAlone, au, oi
    <3> QED
      BY <3>1, <2>2, <2>4, <1>3, <1>4, <1>7, <1>9, <1>10
  <2>7. use'.used < Report => age'.unused <= use'.used
    <3>1. uu < Report => au <= uu
      BY <1>1 DEF LeftAlone, au, uu
    <3> QED
      BY <3>1, <2>1, <2>4, <1>3, <1>4, <1>6, <1>9, <1>10
  <2>8. age'.unused < off'.quiet + Report \/ off'.quiet = Limit
    <3>1. au < oq + Report \/ oq = Limit
      BY <1>1 DEF LeftAlone, au, oq
    <3> QED
      BY <3>1, <2>3, <2>4, <1>3, <1>4, <1>7, <1>9, <1>10
  <2>9. "check" \in due'
    BY <1>2
  <2> QED
    BY <2>5, <2>6, <2>7, <2>8, <2>9 DEF LeftAlone
<1>16. Reported'
  <2> DEFINE h == HeardOf
             q == Capped(oq, Limit)
  <2>1. h \in Nat /\ HeardOf' = h /\ h < Limit
    BY <1>1, <1>2, HeardOfs DEF HeardOf
  <2>2. q = oq + 1 \/ (q = Limit /\ oq >= Limit - 1)
    BY <1>3, <1>4, CappedIs
  <2>3. video <= av + 1 /\ web <= aw + 1
    <3>1. Capped(av, Long) <= av + 1 /\ Capped(aw, Long) <= aw + 1
      BY <1>3, <1>4, CappedIs
    <3> QED
      BY <3>1, <1>3 DEF video, web, av, aw
  <2>4. (av <= h - un \/ oq <= h - un) /\ (aw <= h - un \/ oq <= h - un)
    BY <1>1 DEF Reported, av, aw, oq, un
  <2>5. q <= oq + 1 /\ q \in 0..Limit
    BY <1>3, <1>4, CappedIs
  <2>6. (video <= h - (un - 1) \/ q <= h - (un - 1)) /\ (web <= h - (un - 1) \/ q <= h - (un - 1))
    <3> HIDE DEF h, q
    <3> QED
      BY <2>1, <2>3, <2>4, <2>5, <1>3, <1>4, <1>9, SMT
  <2> QED
    BY <2>1, <2>6, <1>6, <1>7, <1>10 DEF Reported
<1> QED
  BY <1>12, <1>13, <1>14, <1>15, <1>16 DEF OffInv

LEMMA OffInitially == OffInit => OffInv
<1> SUFFICES ASSUME OffInit PROVE OffInv
  OBVIOUS
<1>1. /\ Report \in Nat /\ Report > 0 /\ Limit \in Nat /\ MaxTrouble \in Nat /\ MaxUses \in Nat
      /\ MaxConnections \in Nat /\ Long \in Nat /\ Unused \in Nat
  BY Reports, OffAssumption
<1>2. 0 \in 0..Report /\ Report \in 0..Report /\ 0 \in 0..Limit /\ 0 \in 0..Long /\ 0 \in 0..Unused
      /\ 0 \in 0..MaxTrouble /\ 0 \in 0..MaxUses
  BY <1>1
<1>3. use = [busy |-> 0, used |-> Report, next |-> Report, converts |-> FALSE]
      /\ use.busy = 0 /\ use.used = Report /\ use.next = Report /\ ~use.converts
  BY DEF OffInit, WebFresh
<1>4. off = [idle |-> 0, quiet |-> 0, going |-> "no", tried |-> FALSE]
      /\ off.idle = 0 /\ off.quiet = 0
  BY DEF OffInit, OffFresh
<1>5. age = [web |-> 0, gap |-> Report, video |-> 0, unused |-> 0]
      /\ age.web = 0 /\ age.gap = Report /\ age.video = 0 /\ age.unused = 0
  BY DEF OffInit
<1>6. webcount = [trouble |-> 0, changes |-> 0]
  BY DEF OffInit
<1>7. NoConn \in AConn /\ NoConn.at = "none"
  BY DEF NoConn, AConn, Wheres
<1>8. places = MaxConnections /\ main = "wait" /\ conns = [c \in Conns |-> NoConn] /\ keeps = {} /\ due = {}
  BY DEF OffInit
<1>9. Served = {} /\ UnderWay = {} /\ MainTakes = 0 /\ Cardinality({}) = 0
  BY <1>7, <1>8, FS_EmptySet DEF Served, UnderWay, MainTakes
<1>10. WebTyped
  <2>1. use \in UseType
    BY <1>2, <1>3 DEF UseType
  <2>2. off \in OffType
    BY <1>2, <1>4 DEF OffType
  <2>3. age \in AgeType
    BY <1>2, <1>5 DEF AgeType
  <2>4. webcount \in CountType
    BY <1>2, <1>6 DEF CountType
  <2> QED
    BY <2>1, <2>2, <2>3, <2>4, <1>1, <1>7, <1>8 DEF WebTyped, UseType, OffType, AgeType, CountType
<1>11. Counted
  BY <1>1, <1>3, <1>8, <1>9 DEF Counted
<1>12. ReportsDue
  BY <1>1, <1>3, <1>5, <1>8, <1>9 DEF ReportsDue
<1>13. LeftAlone
  BY <1>1, <1>3, <1>4, <1>5, <1>8, <1>9 DEF LeftAlone
<1>14. Reported
  <2>1. Report <= HeardOf /\ HeardOf \in Nat
    BY <1>10, HeardOfs
  <2> QED
    BY <2>1, <1>1, <1>3, <1>5 DEF Reported
<1> QED
  BY <1>10, <1>11, <1>12, <1>13, <1>14 DEF OffInv

LEMMA OffInductive == OffInv /\ [OffNext]_offVars => OffInv'
<1> SUFFICES ASSUME OffInv, [OffNext]_offVars PROVE OffInv'
  OBVIOUS
<1>1. CASE UNCHANGED offVars
  <2>1. UNCHANGED <<places, main, conns, use, off, keeps, due, age, webcount>>
    BY <1>1 DEF offVars
  <2>2. main \in {"wait", "accept"} /\ places \in Int /\ places >= 0
    BY DEF OffInv, WebTyped, Counted
  <2>3. MainTakes' = MainTakes
    BY <2>1, MainTakesNext
  <2> QED
    BY <2>1, <2>2, <2>3, ByMain
<1>2. CASE OffNext
  BY <1>2, ConnectsStep, AcceptStep, ReadHeadStep, HandledStep, DrainEndsStep, SendsStep, TakePlaceStep,
     AcceptFailsStep, ConversionStep, KeepAliveStep, WebRestartsStep, CheckStep, InputStep, ShutDownStep,
     OverlayStep, KeepsChangeStep, BatteryEmptyStep, EmptyOffStep, TickStep DEF OffNext
<1> QED
  BY <1>1, <1>2

\* No place for a connection is lost or taken twice, over any number of connections,
\* failures of accept() and threads, and restarts of rpod-web (rpod_web.c).
THEOREM PlacesInvariant == OffSpec => []PlacesExact
<1>1. OffInv => PlacesExact
  <2> SUFFICES ASSUME OffInv PROVE PlacesExact
    OBVIOUS
  <2>1. WebTyped /\ Counted
    BY DEF OffInv
  <2>2. Cardinality(Served) \in Nat /\ MainTakes \in Nat /\ places \in Int /\ MaxConnections \in Nat
    BY <2>1, CountsAre, MainTakesAs, OffAssumption DEF WebTyped
  <2>3. places \in 0..MaxConnections
    BY <2>1, <2>2 DEF Counted
  <2>4. use.busy \in 0..Cardinality(Conns)
    <3>1. UnderWay \subseteq Conns /\ IsFiniteSet(Conns)
      BY OffAssumption DEF UnderWay
    <3>2. Cardinality(UnderWay) \in Nat /\ Cardinality(Conns) \in Nat
      BY <3>1, FS_Subset, FS_CardinalityType
    <3>3. Cardinality(UnderWay) <= Cardinality(Conns)
      BY <3>1, FS_Subset
    <3> QED
      BY <3>2, <3>3, <2>1 DEF Counted
  <2> QED
    BY <2>1, <2>3, <2>4 DEF PlacesExact, OffTypes, WebTyped, Counted, MainTakes
<1> QED
  BY <1>1, OffInitially, OffInductive, PTL DEF OffSpec

\* Left alone, rPod goes off within the limit and a report's time, whatever the
\* limit, the number of clients and what goes wrong (shutdown.c, rpod_web.c).
THEOREM GoesOffInvariant == OffSpec => []GoesOffInTime
<1>1. OffInv => GoesOffInTime
  <2> SUFFICES ASSUME OffInv, due = {}, off.going = "no" PROVE age.unused <= Limit + Report
    BY DEF GoesOffInTime
  <2>1. WebTyped /\ LeftAlone
    BY DEF OffInv
  <2>2. age.unused \in Nat /\ off.idle \in 0..Limit /\ off.quiet \in 0..Limit /\ Limit \in Nat /\ Report \in Nat
    BY <2>1, TypedOff, FieldsOff, Reports
  <2> QED
    BY <2>1, <2>2 DEF LeftAlone, IdleLong
<1> QED
  BY <1>1, OffInitially, OffInductive, PTL DEF OffSpec

\* Auto-Off does not come upon a conversion, or a web UI in use, that has gone on for
\* longer than the reports that were lost can hide it (shutdown.c, rpod_web.c).
THEOREM StaysOn == OffSpec => StaysOnInUse
<1>1. OffInv /\ [OffNext]_offVars => [AutoOffs => age.video <= HeardOf /\ age.web <= HeardOf]_offVars
  <2> SUFFICES ASSUME OffInv, OffNext, AutoOffs PROVE age.video <= HeardOf /\ age.web <= HeardOf
    BY DEF AutoOffs, offVars
  <2>1. WebTyped /\ Reported
    BY DEF OffInv
  <2>2. Check
    <3>1. "check" \in due /\ "check" \notin due' /\ off.going = "no" /\ off'.going = "off"
      BY DEF AutoOffs
    <3>2. ~KeepAlive /\ ~WebRestarts /\ ~Overlay /\ ~EmptyOff /\ ~Tick
      BY <3>1 DEF KeepAlive, WebRestarts, Overlay, EmptyOff, Tick
    <3>3. ~KeepsChange
      BY <3>1 DEF KeepsChange
    <3>4. ~ShutDown /\ ~BatteryEmpty /\ ~Input /\ ~Conversion /\ ~TakePlace /\ ~AcceptFails
      BY <3>1 DEF ShutDown, BatteryEmpty, Input, Conversion, TakePlace, AcceptFails
    <3>5. \A c \in Conns : /\ ~Connects(c) /\ ~Accept(c) /\ ~ReadHead(c) /\ ~Handled(c) /\ ~DrainEnds(c)
                           /\ ~Sends(c)
      BY <3>1 DEF Connects, Accept, ReadHead, Handled, DrainEnds, Sends
    <3> QED
      BY <3>2, <3>3, <3>4, <3>5 DEF OffNext
  <2>3. IdleLong
    <3>1. off.going = "no" /\ off'.going = "off"
      BY DEF AutoOffs
    <3>2. off \in OffType /\ 0 \in 0..Limit
      BY <2>1, TypedOff, Reports
    <3>3. off' = [off EXCEPT !.quiet = 0] => off'.going = off.going
      BY <3>2, SetOff
    <3> QED
      BY <2>2, <3>1, <3>3 DEF Check
  <2> DEFINE h == HeardOf
             v == age.video
             w == age.web
             q == off.quiet
             n == use.next
  <2>4. h \in Nat /\ h < Limit /\ v \in Nat /\ w \in Nat /\ q \in 0..Limit /\ n \in Nat /\ Limit \in Nat
    BY <2>1, HeardOfs, TypedOff, FieldsOff, Reports
  <2>5. (v <= h - n \/ q <= h - n) /\ (w <= h - n \/ q <= h - n) /\ q >= Limit
    BY <2>1, <2>3 DEF Reported, IdleLong
  <2>6. v <= h /\ w <= h
    <3> HIDE DEF h, v, w, q, n
    <3> QED
      BY <2>4, <2>5, SMT
  <2> QED
    BY <2>6
<1> QED
  BY <1>1, OffInitially, OffInductive, PTL DEF OffSpec, StaysOnInUse

(***************************************************************************)
(* The control socket.                                                     *)
(***************************************************************************)
Peers == [at : {"out", "waiting", "inside", "answered", "dropped"},
          sent : {"nothing", "half", "line", "flood"}, closed : BOOLEAN, ahead : Nat, waited : Nat]

ControlTypes ==
  /\ backlog \in Seq(Clients) /\ peer \in [Clients -> Peers]
  /\ \A i, j \in 1..Len(backlog) : backlog[i] = backlog[j] => i = j
  /\ \A c \in DOMAIN inside : c \in Clients /\ inside[c] \in 1..Patience + 1
  /\ \A c \in Clients : peer[c].at = "out" => peer[c].waited = 0

\* Nobody comes in between: of those ahead of a client that waits, as many are gone
\* as are neither inside nor before it in the backlog.
InsideNow == Cardinality(DOMAIN inside)
Gone(i)   == peer[backlog[i]].ahead - InsideNow - (i - 1)

\* The polls a client waits come in rounds of Patience + 2.  In each, those that were
\* inside at its start, MaxClients, are gone or older than it is.
Old(r)  == {c \in DOMAIN inside : inside[c] >= r}
Turn(i) ==
  LET w == peer[backlog[i]].waited
  IN  w > 0 => \E j \in Nat, r \in 1..Patience + 2 :
                 /\ w = j * (Patience + 2) + r
                 /\ Gone(i) + Cardinality(Old(r)) >= (j + 1) * MaxClients
InTurn == \A i \in 1..Len(backlog) : Gone(i) >= 0 /\ Turn(i)

ControlInv == ControlTypes /\ LinesAnswered /\ InTurn

\* Where n clients were ahead and MaxClients of them are done in each round, j rounds
\* and r polls of one more are no more than n \div MaxClients rounds.
LEMMA InRounds ==
  ASSUME NEW j \in Nat, NEW r \in 1..Patience + 2, NEW n \in Nat,
         n >= (j + 1) * MaxClients
  PROVE  j * (Patience + 2) + r <= (n \div MaxClients) * (Patience + 2)
<1> DEFINE q == n \div MaxClients
           m == Patience + 2
<1>1. MaxClients \in Nat \ {0} /\ m \in Nat \ {0}
  BY ControlAssumption
<1>2. q \in Nat /\ n < (q + 1) * MaxClients
  <2>1. q \in Nat /\ n < q * MaxClients + MaxClients
    BY <1>1, SMT
  <2>2. \A x, y \in Nat : x * y + y = (x + 1) * y
    BY SMT
  <2> HIDE DEF q
  <2> QED
    BY <1>1, <2>1, <2>2
<1> HIDE DEF q
<1>3. j + 1 <= q
  <2>1. \A x, y, z \in Nat : x <= y => x * z <= y * z
    BY SMT
  <2> SUFFICES ASSUME q + 1 <= j + 1 PROVE FALSE
    BY <1>2
  <2>2. (q + 1) * MaxClients <= (j + 1) * MaxClients
    <3>1. q + 1 \in Nat /\ j + 1 \in Nat /\ MaxClients \in Nat
      BY <1>1, <1>2
    <3> QED
      BY <2>1, <3>1
  <2>3. (q + 1) * MaxClients \in Nat /\ (j + 1) * MaxClients \in Nat
    BY <1>1, <1>2, SMT
  <2> QED
    BY <1>2, <2>2, <2>3
<1>4. j * m + m <= q * m
  <2>1. \A x, y, z \in Nat : x + 1 <= y => x * z + z <= y * z
    <3> SUFFICES ASSUME NEW x \in Nat, NEW y \in Nat, NEW z \in Nat, x + 1 <= y PROVE x * z + z <= y * z
      OBVIOUS
    <3>1. PICK k \in Nat : y = x + 1 + k
      <4>1. y - x - 1 \in Nat /\ y = x + 1 + (y - x - 1)
        OBVIOUS
      <4> QED
        BY <4>1
    <3>2. (x + 1 + k) * z = x * z + z + k * z /\ k * z >= 0
      BY SMT
    <3>3. x * z \in Nat /\ k * z \in Nat
      BY SMT
    <3> QED
      BY <3>1, <3>2, <3>3
  <2> QED
    BY <1>1, <1>2, <1>3, <2>1
<1>5. r \in Nat /\ r <= m
  BY ControlAssumption
<1> HIDE DEF m
<1>6. j * m \in Nat /\ q * m \in Nat
  BY <1>1, <1>2, SMT
<1>7. \A x, y \in Nat : x + m <= y => x + r <= y
  BY <1>1, <1>5
<1>8. j * m + r <= q * m
  BY <1>4, <1>6, <1>7
<1> QED
  BY <1>8 DEF q, m

\* The smaller of two numbers
LEMMA MinOfTwo ==
  ASSUME NEW a \in Int, NEW b \in Int
  PROVE  Min({a, b}) = IF a <= b THEN a ELSE b
<1> DEFINE m == IF a <= b THEN a ELSE b
<1>1. m \in {a, b} /\ \A y \in {a, b} : m <= y
  OBVIOUS
<1>2. \A x \in {a, b} : (\A y \in {a, b} : x <= y) => x = m
  OBVIOUS
<1> QED
  BY <1>1, <1>2 DEF Min

LEMMA InsideFinite ==
  ASSUME ControlTypes
  PROVE  IsFiniteSet(DOMAIN inside) /\ InsideNow \in Nat
<1>1. DOMAIN inside \in SUBSET Clients /\ IsFiniteSet(Clients)
  BY ControlAssumption DEF ControlTypes
<1> QED
  BY <1>1, FS_Subset, FS_CardinalityType DEF InsideNow

\* A turn that comes in time
LEMMA TurnInTime ==
  ASSUME ControlTypes, NEW i \in 1..Len(backlog), Turn(i), MaxClients \in Nat \ {0}
  PROVE  peer[backlog[i]].waited <= (peer[backlog[i]].ahead \div MaxClients) * (Patience + 2)
<1> DEFINE c == backlog[i]
           w == peer[c].waited
           n == peer[c].ahead
<1>1. c \in Clients /\ w \in Nat /\ n \in Nat /\ Patience \in Nat
  BY ControlAssumption DEF ControlTypes, Peers
<1>2. CASE w = 0
  <2>1. n \div MaxClients \in Nat
    BY <1>1, SMT
  <2>2. \A x, y \in Nat : 0 <= x * y
    BY SMT
  <2> HIDE DEF n, w
  <2>3. Patience + 2 \in Nat
    BY <1>1
  <2>4. w <= (n \div MaxClients) * (Patience + 2)
    BY <1>2, <2>1, <2>2, <2>3
  <2> QED
    BY <2>4 DEF w, n
<1>3. CASE w > 0
  <2>1. PICK j \in Nat, r \in 1..Patience + 2 :
          w = j * (Patience + 2) + r /\ Gone(i) + Cardinality(Old(r)) >= (j + 1) * MaxClients
    BY <1>3 DEF Turn
  <2>2. Cardinality(Old(r)) \in Nat /\ Cardinality(Old(r)) <= InsideNow /\ InsideNow \in Nat
    <3>1. Old(r) \in SUBSET DOMAIN inside /\ IsFiniteSet(DOMAIN inside)
      BY InsideFinite DEF Old
    <3> QED
      BY <3>1, FS_Subset, FS_CardinalityType, InsideFinite DEF InsideNow
  <2>3. Gone(i) + Cardinality(Old(r)) <= n
    BY <1>1, <2>2 DEF Gone
  <2>4. (j + 1) * MaxClients \in Nat
    BY SMT
  <2>5. Gone(i) \in Int
    BY <1>1, <2>2 DEF Gone
  <2> HIDE DEF n
  <2>6. n >= (j + 1) * MaxClients
    BY <1>1, <2>1, <2>2, <2>3, <2>4, <2>5
  <2> QED
    BY <1>1, <2>1, <2>6, InRounds DEF n
<1> QED
  BY <1>1, <1>2, <1>3

LEMMA TurnsInTime ==
  ControlTypes /\ InTurn =>
    \A i \in 1..Len(backlog) :
      peer[backlog[i]].waited <= (peer[backlog[i]].ahead \div MaxClients) * (Patience + 2)
  BY TurnInTime, ControlAssumption DEF InTurn

LEMMA TurnsStayInTime ==
  (ControlTypes /\ InTurn =>
     \A i \in 1..Len(backlog) :
       peer[backlog[i]].waited <= (peer[backlog[i]].ahead \div MaxClients) * (Patience + 2))'
  BY TurnsInTime, PTL
LEMMA ControlStarts == ControlInit => ControlInv
<1> SUFFICES ASSUME ControlInit PROVE ControlInv
  OBVIOUS
<1>1. /\ backlog = <<>> /\ inside = <<>> /\ 1..Len(backlog) = {} /\ DOMAIN inside = {} /\ ToSet(backlog) = {}
      /\ backlog \in Seq(Clients)
  BY DEF ControlInit, ToSet
<1>2. /\ peer \in [Clients -> Peers]
      /\ \A c \in Clients : peer[c].at = "out" /\ peer[c].ahead = 0 /\ peer[c].waited = 0
  BY DEF ControlInit, Peers
<1>3. MaxClients \in Nat \ {0} /\ Cardinality({}) = 0
  BY ControlAssumption, FS_EmptySet
<1>4. ControlTypes /\ InTurn
  BY <1>1, <1>2 DEF ControlTypes, InTurn
<1>5. Answered
  BY <1>1, <1>2, <1>3 DEF Answered
<1>6. ServedInTime
  <2>1. \A k \in Nat \ {0}, m \in Nat : 0 <= (0 \div k) * m
    <3>1. \A k \in Nat \ {0} : 0 \div k = 0
      BY SMT
    <3> QED
      BY <3>1
  <2>2. Patience + 2 \in Nat
    BY ControlAssumption
  <2> QED
    BY <1>2, <1>3, <2>1, <2>2 DEF ServedInTime
<1> QED
  BY <1>4, <1>5, <1>6 DEF ControlInv, LinesAnswered

\* What a client does to itself, but for connecting
LEMMA SameTurns ==
  ASSUME ControlInv, UNCHANGED <<backlog, inside>>, peer' \in [Clients -> Peers],
         \A c \in Clients : /\ peer'[c].at = peer[c].at /\ peer'[c].ahead = peer[c].ahead
                            /\ peer'[c].waited = peer[c].waited
                            /\ (peer'[c].at = "dropped" => peer'[c].sent # "line")
  PROVE  ControlInv'
<1>1. ControlTypes'
  BY DEF ControlInv, ControlTypes
<1>2. Answered'
  BY DEF ControlInv, LinesAnswered, Answered
<1>3. ServedInTime'
  BY DEF ControlInv, LinesAnswered, ServedInTime
<1>4. InTurn'
  <2>1. \A i \in 1..Len(backlog) : backlog[i] \in Clients
    BY DEF ControlInv, ControlTypes
  <2>2. \A i \in 1..Len(backlog) : Gone(i)' = Gone(i)
    BY <2>1 DEF Gone, InsideNow
  <2>3. \A r : Old(r)' = Old(r)
    BY DEF Old
  <2>4. \A i \in 1..Len(backlog) : Turn(i)' = Turn(i)
    BY <2>1, <2>2, <2>3 DEF Turn
  <2> QED
    BY <2>2, <2>4 DEF ControlInv, InTurn
<1> QED
  BY <1>1, <1>2, <1>3, <1>4 DEF ControlInv, LinesAnswered

LEMMA ConnectKeeps ==
  ASSUME ControlInv, NEW c \in Clients, Connect(c)
  PROVE  ControlInv'
<1>0. PICK n \in Nat : n = Len(backlog)
  BY DEF ControlInv, ControlTypes
<1> DEFINE a == n + InsideNow
<1>1. /\ backlog \in Seq(Clients) /\ n \in Nat /\ peer \in [Clients -> Peers] /\ UNCHANGED inside
      /\ peer[c].at = "out" /\ backlog' = Append(backlog, c) /\ a \in Nat /\ InsideNow \in Nat
      /\ peer[c].waited = peer[c].waited
  BY <1>0, InsideFinite DEF ControlInv, ControlTypes, Connect
<1>2. /\ peer' \in [Clients -> Peers]
      /\ peer'[c].at = "waiting" /\ peer'[c].ahead = a /\ peer'[c].waited = peer[c].waited
      /\ \A d \in Clients \ {c} : peer'[d] = peer[d]
  <2>1. peer' = [peer EXCEPT ![c].at = "waiting", ![c].ahead = a]
    BY <1>0 DEF Connect, InsideNow
  <2> DEFINE q == [peer[c] EXCEPT !.at = "waiting", !.ahead = a]
  <2>2. q \in Peers /\ q.at = "waiting" /\ q.ahead = a /\ q.waited = peer[c].waited
    <3>1. peer[c] \in Peers /\ a \in Nat
      BY <1>1
    <3> HIDE DEF a
    <3> QED
      BY <3>1, Zenon DEF Peers
  <2>3. peer' = [peer EXCEPT ![c] = q]
    BY <1>1, <2>1
  <2> HIDE DEF q
  <2> QED
    BY <1>1, <2>2, <2>3
<1> HIDE DEF a
<1>3. /\ Len(backlog') = n + 1 /\ backlog'[n + 1] = c
      /\ \A i \in 1..n : backlog'[i] = backlog[i] /\ backlog[i] \in Clients
      /\ backlog' \in Seq(Clients)
  BY <1>0, <1>1
<1>4. c \notin ToSet(backlog) /\ c \notin DOMAIN inside /\ \A i \in 1..n : backlog[i] # c
  BY <1>0, <1>1 DEF ControlInv, LinesAnswered, Answered, ToSet
<1>5. ControlTypes'
  BY <1>0, <1>1, <1>2, <1>3, <1>4 DEF ControlInv, ControlTypes
<1>6. Answered'
  <2>1. ToSet(backlog') = ToSet(backlog) \union {c}
    BY <1>0, <1>1, <1>3 DEF ToSet
  <2> QED
    BY <1>1, <1>2, <1>4, <2>1 DEF ControlInv, LinesAnswered, Answered
<1>7. ServedInTime'
  <2>1. \A d \in Clients \ {c} : peer'[d].waited <= (peer'[d].ahead \div MaxClients) * (Patience + 2)
    BY <1>2 DEF ControlInv, LinesAnswered, ServedInTime
  <2>2. peer'[c].waited = 0
    BY <1>1, <1>2 DEF ControlInv, ControlTypes
  <2>3. a \in Nat
    BY <1>1 DEF a
  <2>4. 0 <= (a \div MaxClients) * (Patience + 2)
    <3>1. \A k \in Nat \ {0}, m \in Nat : m \div k \in Nat
      BY SMT
    <3>2. \A x, y \in Nat : 0 <= x * y
      BY SMT
    <3>3. a \div MaxClients \in Nat /\ Patience + 2 \in Nat
      BY <2>3, <3>1, ControlAssumption
    <3> QED
      BY <3>2, <3>3
  <2> QED
    BY <1>2, <2>1, <2>2, <2>4 DEF ServedInTime
<1>8. \A r : Old(r)' = Old(r) /\ InsideNow' = InsideNow
  BY <1>1 DEF Old, InsideNow
<1>9. \A i \in 1..n : Gone(i)' = Gone(i) /\ Turn(i)' = Turn(i)
  <2>1. \A i \in 1..n : peer'[backlog'[i]] = peer[backlog[i]]
    BY <1>2, <1>3, <1>4
  <2>2. \A i \in 1..n : Gone(i)' = Gone(i)
    BY <1>8, <2>1 DEF Gone
  <2> QED
    BY <1>8, <2>1, <2>2 DEF Turn
<1>10. Gone(n + 1)' = 0 /\ Turn(n + 1)'
  <2>1. peer'[backlog'[n + 1]].ahead = a /\ peer'[backlog'[n + 1]].waited = 0
    BY <1>1, <1>2, <1>3 DEF ControlInv, ControlTypes
  <2>2. Gone(n + 1)' = a - InsideNow - (n + 1 - 1)
    BY <1>8, <2>1 DEF Gone
  <2>3. Gone(n + 1)' = 0
    BY <1>1, <2>2 DEF a
  <2>4. Turn(n + 1)'
    BY <2>1 DEF Turn
  <2> QED
    BY <2>3, <2>4
<1>11. InTurn'
  <2>1. \A i \in 1..Len(backlog') : i \in 1..n \/ i = n + 1
    BY <1>1, <1>3
  <2>2. \A i \in 1..n : Gone(i) >= 0 /\ Turn(i)
    BY <1>0 DEF ControlInv, InTurn
  <2> QED
    BY <1>9, <1>10, <2>1, <2>2 DEF InTurn
<1> QED
  BY <1>5, <1>6, <1>7, <1>11 DEF ControlInv, LinesAnswered

\* As many clients as poll_cb() has room for, all of them different
LEMMA LetInFirst ==
  ASSUME ControlTypes, Answered
  PROVE  \E l \in 0..Len(backlog) :
           /\ l = LetIn /\ InsideNow + l <= MaxClients
           /\ l < Len(backlog) => InsideNow + l = MaxClients
           /\ Accepted = {backlog[i] : i \in 1..l} /\ Accepted \in SUBSET Clients
           /\ Accepted \intersect DOMAIN inside = {}
           /\ IsFiniteSet(DOMAIN inside \union Accepted)
           /\ Cardinality(DOMAIN inside \union Accepted) = InsideNow + l
<1>1. PICK n \in Nat : n = Len(backlog)
  BY DEF ControlTypes
<1>2. InsideNow \in Nat /\ IsFiniteSet(DOMAIN inside) /\ MaxClients \in Nat /\ InsideNow <= MaxClients
  BY InsideFinite, ControlAssumption DEF Answered, InsideNow
<1>3. LetIn = IF n <= MaxClients - InsideNow THEN n ELSE MaxClients - InsideNow
  <2>1. MaxClients - InsideNow \in Int /\ n \in Int
    BY <1>1, <1>2
  <2>2. LetIn = Min({n, MaxClients - InsideNow})
    BY <1>1 DEF LetIn, InsideNow
  <2> QED
    BY <2>1, <2>2, MinOfTwo
<1>4. PICK l \in 0..n : l = LetIn
  <2>1. LetIn \in 0..n
    BY <1>2, <1>3
  <2> QED
    BY <2>1
<1>5. InsideNow + l <= MaxClients /\ (l < n => InsideNow + l = MaxClients)
  BY <1>1, <1>2, <1>3, <1>4
<1>6. Accepted = {backlog[i] : i \in 1..l}
  BY <1>4 DEF Accepted
<1>7. \A i \in 1..l : i \in 1..Len(backlog) /\ backlog[i] \in Clients
  BY <1>1 DEF ControlTypes
<1>8. Accepted \in SUBSET Clients
  BY <1>6, <1>7
<1>9. Accepted \intersect DOMAIN inside = {}
  <2>1. \A i \in 1..l : peer[backlog[i]].at = "waiting"
    BY <1>7 DEF Answered, ToSet
  <2>2. \A c \in DOMAIN inside : c \in Clients /\ peer[c].at = "inside"
    BY DEF Answered, ControlTypes
  <2> QED
    BY <1>6, <2>1, <2>2
<1>10. IsFiniteSet(Accepted) /\ Cardinality(Accepted) = l
  <2> DEFINE f == [i \in 1..l |-> backlog[i]]
  <2>1. f \in Bijection(1..l, Accepted)
    <3>1. f \in Surjection(1..l, Accepted)
      BY <1>6 DEF Surjection
    <3>2. f \in Injection(1..l, Accepted)
      <4>1. \A i, j \in 1..l : backlog[i] = backlog[j] => i = j
        BY <1>7 DEF ControlTypes
      <4> QED
        BY <1>6, <4>1 DEF Injection, IsInjective
    <3> QED
      BY <3>1, <3>2 DEF Bijection
  <2>2. ExistsBijection(1..l, Accepted)
    BY <2>1 DEF ExistsBijection
  <2> HIDE DEF f
  <2>3. IsFiniteSet(1..l) /\ Cardinality(1..l) = l
    BY FS_Interval, <1>1
  <2> QED
    BY <2>2, <2>3, FS_Bijection
<1>11. /\ IsFiniteSet(DOMAIN inside \union Accepted)
       /\ Cardinality(DOMAIN inside \union Accepted) = InsideNow + l
  <2>1. DOMAIN inside \intersect Accepted = {} /\ Cardinality({}) = 0
    BY <1>9, FS_EmptySet
  <2>2. /\ IsFiniteSet(DOMAIN inside \union Accepted)
        /\ Cardinality(DOMAIN inside \union Accepted) =
             Cardinality(DOMAIN inside) + Cardinality(Accepted) - Cardinality(DOMAIN inside \intersect Accepted)
    BY <1>2, <1>10, FS_Union
  <2>3. Cardinality(DOMAIN inside) = InsideNow /\ l \in Nat
    BY <1>1 DEF InsideNow
  <2>4. \A a, b, u : a \in Nat /\ b \in Nat /\ u = a + b - 0 => u = a + b
    OBVIOUS
  <2>5. Cardinality(DOMAIN inside \union Accepted) = InsideNow + l - 0
    BY <1>10, <2>1, <2>2, <2>3, Zenon
  <2> QED
    BY <1>2, <2>2, <2>3, <2>4, <2>5, Zenon
<1> QED
  BY <1>1, <1>4, <1>5, <1>6, <1>8, <1>9, <1>11

\* What a poll does: who is here, `Here', stays or goes, and who is not waits on.
Here  == DOMAIN inside \union Accepted
Stays == DOMAIN inside'

LEMMA PollSteps ==
  ASSUME ControlTypes, Answered, Poll
  PROVE  /\ Stays \in SUBSET Here
         /\ peer' \in [Clients -> Peers]
         /\ \A c \in Here : /\ peer'[c].sent = peer[c].sent /\ peer'[c].ahead = peer[c].ahead
                            /\ peer'[c].waited = peer[c].waited
                            /\ peer'[c].at \in {"inside", "answered", "dropped"}
                            /\ (peer'[c].at = "inside") = (c \in Stays)
                            /\ peer'[c].at = "dropped" => peer[c].sent # "line"
         /\ \A c \in Clients \ Here :
              /\ peer'[c].at = peer[c].at /\ peer'[c].sent = peer[c].sent /\ peer'[c].ahead = peer[c].ahead
              /\ peer'[c].waited = IF peer[c].at = "waiting" THEN peer[c].waited + 1 ELSE peer[c].waited
         /\ \A c \in Stays : /\ inside'[c] \in 1..Patience + 1
                             /\ c \in DOMAIN inside => inside'[c] = inside[c] + 1
<1> DEFINE since(c) == IF c \in Accepted THEN 0 ELSE inside[c]
           to       == [c \in Here |-> Serve(c, since(c))]
           stay     == {c \in Here : to[c] = "inside"}
<1>1. /\ peer' = [c \in Clients |->
                    IF c \in Here THEN [peer[c] EXCEPT !.at = to[c]]
                    ELSE IF peer[c].at = "waiting" THEN [peer[c] EXCEPT !.waited = @ + 1] ELSE peer[c]]
      /\ inside' = [c \in stay |-> Min({since(c) + 1, Patience + 1})]
  BY DEF Poll, Here
<1>2. Stays = stay /\ stay \in SUBSET Here
  BY <1>1 DEF Stays
<1>3. Here \in SUBSET Clients /\ Accepted \intersect DOMAIN inside = {}
  BY LetInFirst DEF Here, ControlTypes
<1>4. \A c \in Here : /\ since(c) \in 0..Patience + 1
                      /\ c \in DOMAIN inside => since(c) = inside[c] /\ since(c) >= 1
  BY <1>3, ControlAssumption DEF Here, ControlTypes
<1>5. \A c \in Here : /\ to[c] \in {"inside", "answered", "dropped"}
                      /\ to[c] = "inside" => since(c) <= Patience
                      /\ to[c] = "dropped" => peer[c].sent # "line"
  <2> TAKE c \in Here
  <2> HIDE DEF since
  <2>1. to[c] = Serve(c, since(c)) /\ since(c) \in Int /\ Patience \in Int
    BY <1>4, ControlAssumption
  <2>2. peer[c].sent = "line" => to[c] = "answered"
    BY <2>1 DEF Serve
  <2>3. peer[c].sent # "line" => to[c] \in {"dropped", "inside"} /\ (to[c] = "inside" => ~(since(c) > Patience))
    BY <2>1 DEF Serve
  <2> QED
    BY <2>1, <2>2, <2>3
<1>6. \A c \in Stays : /\ inside'[c] \in 1..Patience + 1
                       /\ c \in DOMAIN inside => inside'[c] = inside[c] + 1
  <2> TAKE c \in Stays
  <2>1. inside'[c] = Min({since(c) + 1, Patience + 1})
    BY <1>1, <1>2
  <2>2. to[c] = "inside" /\ c \in Here
    BY <1>2
  <2> HIDE DEF since, to
  <2>3. since(c) \in 0..Patience /\ Patience \in Nat
    BY <1>4, <1>5, <2>2, ControlAssumption
  <2>4. inside'[c] = since(c) + 1
    <3>1. since(c) + 1 \in Int /\ Patience + 1 \in Int /\ since(c) + 1 <= Patience + 1
      BY <2>3
    <3> QED
      BY <2>1, <3>1, MinOfTwo
  <2> QED
    BY <1>4, <2>2, <2>3, <2>4
<1>7. \A c \in Here : /\ peer'[c] \in Peers
                      /\ peer'[c].sent = peer[c].sent /\ peer'[c].ahead = peer[c].ahead
                      /\ peer'[c].waited = peer[c].waited /\ peer'[c].at = to[c]
  <2> TAKE c \in Here
  <2> DEFINE q == [peer[c] EXCEPT !.at = to[c]]
  <2>1. peer'[c] = q /\ peer[c] \in Peers /\ to[c] \in {"inside", "answered", "dropped"}
    BY <1>1, <1>3, <1>5 DEF ControlTypes
  <2> HIDE DEF to
  <2>2. /\ q \in Peers /\ q.sent = peer[c].sent /\ q.ahead = peer[c].ahead
        /\ q.waited = peer[c].waited /\ q.at = to[c]
    BY <2>1, Zenon DEF Peers
  <2> QED
    BY <2>1, <2>2
<1>8. \A c \in Clients \ Here :
        /\ peer'[c] \in Peers
        /\ peer'[c].at = peer[c].at /\ peer'[c].sent = peer[c].sent /\ peer'[c].ahead = peer[c].ahead
        /\ peer'[c].waited = IF peer[c].at = "waiting" THEN peer[c].waited + 1 ELSE peer[c].waited
  <2> TAKE c \in Clients \ Here
  <2>1. peer'[c] = (IF peer[c].at = "waiting" THEN [peer[c] EXCEPT !.waited = @ + 1] ELSE peer[c]) /\ peer[c] \in Peers
    BY <1>1 DEF ControlTypes
  <2>2. peer[c].waited + 1 \in Nat
    BY <2>1 DEF Peers
  <2> DEFINE q == [peer[c] EXCEPT !.waited = @ + 1]
  <2>3. /\ q \in Peers /\ q.at = peer[c].at /\ q.sent = peer[c].sent /\ q.ahead = peer[c].ahead
        /\ q.waited = peer[c].waited + 1
    BY <2>1, <2>2, Zenon DEF Peers
  <2> HIDE DEF q
  <2>4. peer'[c] = IF peer[c].at = "waiting" THEN q ELSE peer[c]
    BY <2>1 DEF q
  <2> QED
    BY <2>1, <2>3, <2>4
<1>9. \A c \in Here : (peer'[c].at = "inside") = (c \in Stays)
  BY <1>2, <1>7
<1>10. peer' \in [Clients -> Peers]
  <2>1. \A c \in Clients : peer'[c] \in Peers
    BY <1>7, <1>8
  <2> HIDE DEF to
  <2>2. DOMAIN peer' = Clients /\ peer' = [c \in Clients |-> peer'[c]]
    BY <1>1
  <2> QED
    BY <2>1, <2>2
<1> HIDE DEF since, to, stay
<1> QED
  BY <1>2, <1>5, <1>6, <1>7, <1>8, <1>9, <1>10

\* A client that a poll passes by: the poll finds no slot free for it, so each of
\* MaxClients clients goes or grows older.
LEMMA TurnsKept ==
  ASSUME ControlTypes, Answered, InTurn, Poll,
         NEW l \in 0..Len(backlog), NEW i \in 1..Len(backlog) - l,
         Cardinality(Here) = MaxClients, IsFiniteSet(Here), InsideNow + l = MaxClients,
         backlog'[i] = backlog[l + i], backlog[l + i] \in Clients \ Here
  PROVE  Gone(i)' >= 0 /\ Turn(i)'
<1> DEFINE c == backlog[l + i]
           w == peer[c].waited
           K == MaxClients
           P == Patience + 2
<1>1. PICK m \in 1..Len(backlog) : m = l + i
  BY DEF ControlTypes
<1>2. c \in Clients /\ peer[c] \in Peers /\ w \in Nat /\ K \in Nat \ {0} /\ P \in Nat /\ Patience \in Nat
  BY ControlAssumption DEF ControlTypes, Peers
<1>3. peer[c].at = "waiting"
  BY <1>1, <1>2 DEF Answered, ToSet
<1>4. peer'[c].ahead = peer[c].ahead /\ peer'[c].waited = w + 1
  BY <1>3, PollSteps
<1>5. PICK s \in Nat : s = Cardinality(Stays)
  BY PollSteps, FS_Subset, FS_CardinalityType
<1>6. s <= K /\ IsFiniteSet(Stays)
  BY <1>5, PollSteps, FS_Subset
<1>7. InsideNow \in Nat /\ Cardinality(DOMAIN inside) = InsideNow
  BY InsideFinite DEF InsideNow
<1>8. PICK g \in Int : g = Gone(m) /\ g >= 0
  <2>1. Gone(m) \in Int
    BY <1>1, <1>2, <1>7 DEF Gone, Peers
  <2> QED
    BY <1>1, <2>1 DEF InTurn
<1>9. Gone(i)' = g + K - s
  <2>1. Gone(i)' = peer[c].ahead - s - (i - 1)
    BY <1>4, <1>5 DEF Gone, InsideNow, Stays
  <2>2. g = peer[c].ahead - InsideNow - (l + i - 1)
    BY <1>1, <1>8 DEF Gone
  <2>3. peer[c].ahead \in Nat /\ l \in Nat /\ i \in Nat
    BY <1>1, <1>2 DEF Peers, ControlTypes
  <2> HIDE DEF c
  <2>4. peer[c].ahead - s - (i - 1) = (peer[c].ahead - InsideNow - (l + i - 1)) + K - s
    <3>1. PICK a \in Nat, b \in Nat, k \in Nat, x \in Nat, y \in Nat :
            a = peer[c].ahead /\ b = InsideNow /\ k = K /\ x = l /\ y = i
      BY <1>2, <1>7, <2>3
    <3>2. b + x = k
      BY <3>1
    <3>3. a - s - (y - 1) = (a - b - (x + y - 1)) + k - s
      BY <3>2
    <3> QED
      BY <3>1, <3>3
  <2> QED
    BY <2>1, <2>2, <2>4
<1>10. Gone(i)' >= 0
  BY <1>2, <1>6, <1>8, <1>9
<1>11. Cardinality({d \in Stays : inside'[d] >= 1}) = s
  <2>1. {d \in Stays : inside'[d] >= 1} = Stays
    BY <1>2, PollSteps
  <2> QED
    BY <1>5, <2>1
<1> DEFINE Onwards == \E j \in Nat, r \in 1..Patience + 2 :
             /\ w + 1 = j * P + r
             /\ g + K - s + Cardinality({d \in Stays : inside'[d] >= r}) >= (j + 1) * K
<1>12. Onwards
  <2> HIDE DEF P, w, K
  <2>1. CASE w = 0
    <3>1. w + 1 = 0 * P + 1 /\ (0 + 1) * K = K
      BY <1>2, <2>1
    <3>2. g + K - s + s >= K
      BY <1>2, <1>5, <1>8
    <3>3. 0 \in Nat /\ 1 \in 1..Patience + 2
      BY <1>2
    <3> QED
      BY <1>11, <3>1, <3>2, <3>3
  <2>2. CASE w > 0
    <3>1. PICK j \in Nat, r \in 1..Patience + 2 :
            w = j * P + r /\ g + Cardinality(Old(r)) >= (j + 1) * K
      BY <1>1, <1>8, <2>2 DEF InTurn, Turn, P, w, K
    <3>2. Old(r) \in SUBSET DOMAIN inside /\ IsFiniteSet(Old(r)) /\ Cardinality(Old(r)) \in Nat
      <4>1. Old(r) \in SUBSET DOMAIN inside
        BY DEF Old
      <4> QED
        BY <4>1, InsideFinite, FS_Subset, FS_CardinalityType
    <3>3. (j + 1) * K \in Nat /\ (j + 1 + 1) * K = (j + 1) * K + K /\ (j + 1) * P = j * P + P /\ j * P \in Nat
      <4>1. \A x, y \in Nat : x * y \in Nat /\ (x + 1) * y = x * y + y
        BY SMT
      <4> QED
        BY <1>2, <4>1
    <3>4. CASE r = Patience + 2
      <4>1. Old(r) = {}
        BY <1>2, <3>4 DEF Old, ControlTypes
      <4>2. g >= (j + 1) * K
        BY <1>8, <3>1, <3>3, <4>1, FS_EmptySet
      <4>3. w + 1 = (j + 1) * P + 1
        BY <1>2, <3>1, <3>3, <3>4 DEF P
      <4>4. g + K - s + s >= (j + 1 + 1) * K
        BY <1>2, <1>5, <1>8, <3>3, <4>2
      <4>5. j + 1 \in Nat /\ 1 \in 1..Patience + 2
        BY <1>2
      <4> QED
        BY <1>11, <4>3, <4>4, <4>5
    <3>5. CASE r < Patience + 2
      <4> DEFINE N == {d \in Stays : inside'[d] >= r + 1}
      <4>1. w + 1 = j * P + (r + 1) /\ r + 1 \in 1..Patience + 2
        BY <1>2, <3>1, <3>3, <3>5
      <4>2. Old(r) \in SUBSET (N \union (Here \ Stays))
        <5>1. \A d \in Old(r) : d \in Here /\ (d \in Stays => inside'[d] >= r + 1)
          BY <1>2, PollSteps DEF Old, Here, ControlTypes
        <5> QED
          BY <5>1
      <4>3. IsFiniteSet(Here \ Stays) /\ Cardinality(Here \ Stays) = K - s
        <5>1. Here \intersect Stays = Stays
          BY PollSteps
        <5> QED
          BY <1>5, <5>1, FS_Difference DEF K
      <4>4. IsFiniteSet(N) /\ Cardinality(N) \in Nat
        <5>1. N \in SUBSET Stays
          OBVIOUS
        <5> QED
          BY <1>6, <5>1, FS_Subset, FS_CardinalityType
      <4>5. N \intersect (Here \ Stays) = {} /\ Cardinality({}) = 0
        BY FS_EmptySet
      <4> HIDE DEF N
      <4>6. IsFiniteSet(N \union (Here \ Stays)) /\ Cardinality(N \union (Here \ Stays)) = Cardinality(N) + (K - s)
        <5>1. /\ IsFiniteSet(N \union (Here \ Stays))
              /\ Cardinality(N \union (Here \ Stays)) = Cardinality(N) + Cardinality(Here \ Stays)
                                                         - Cardinality(N \intersect (Here \ Stays))
          BY <4>3, <4>4, FS_Union
        <5>2. \A x \in Nat : x + (K - s) - 0 = x + (K - s)
          BY <1>2, <1>5
        <5> QED
          BY <4>3, <4>4, <4>5, <5>1, <5>2
      <4>7. Cardinality(Old(r)) <= Cardinality(N) + (K - s)
        BY <4>2, <4>6, FS_Subset
      <4>8. g + K - s + Cardinality(N) >= (j + 1) * K
        <5>1. \A a, b, x \in Nat, k, y \in Nat, z \in Nat :
                z + a >= y /\ a <= b + (k - x) => z + k - x + b >= y
          OBVIOUS
        <5>2. g \in Nat /\ K \in Nat /\ g + Cardinality(Old(r)) >= (j + 1) * K
          BY <1>2, <1>8, <3>1
        <5> QED
          BY <1>5, <3>2, <3>3, <4>4, <4>7, <5>1, <5>2
      <4> QED
        BY <4>1, <4>8 DEF N
    <3>6. r = Patience + 2 \/ r < Patience + 2
      BY <1>2
    <3> HIDE DEF Onwards
    <3> QED
      BY <3>4, <3>5, <3>6
  <2> HIDE DEF Onwards
  <2> QED
    BY <1>2, <2>1, <2>2
<1>13. Turn(i)'
  <2>1. \A r : Old(r)' = {d \in Stays : inside'[d] >= r}
    BY DEF Old, Stays
  <2>2. peer'[backlog'[i]].waited = w + 1
    BY <1>4
  <2> HIDE DEF w, c
  <2>3. \E j \in Nat, r \in 1..Patience + 2 :
          /\ w + 1 = j * (Patience + 2) + r
          /\ Gone(i)' + Cardinality(Old(r)') >= (j + 1) * MaxClients
    BY <1>9, <1>12, <2>1
  <2> QED
    BY <2>2, <2>3 DEF Turn
<1> QED
  BY <1>10, <1>13

LEMMA PollKeeps ==
  ASSUME ControlInv, Poll
  PROVE  ControlInv'
<1>1. ControlTypes /\ Answered /\ ServedInTime /\ InTurn
  BY DEF ControlInv, LinesAnswered
<1>2. PICK n \in Nat : n = Len(backlog)
  BY <1>1 DEF ControlTypes
<1>3. PICK l \in 0..n :
        /\ l = LetIn /\ InsideNow + l <= MaxClients
        /\ l < n => InsideNow + l = MaxClients
        /\ Accepted = {backlog[i] : i \in 1..l} /\ Here \in SUBSET Clients
        /\ IsFiniteSet(Here) /\ Cardinality(Here) = InsideNow + l
  BY <1>1, <1>2, LetInFirst DEF Here, ControlTypes
<1>4. /\ Stays \in SUBSET Here
      /\ peer' \in [Clients -> Peers]
      /\ \A c \in Here : /\ peer'[c].sent = peer[c].sent /\ peer'[c].ahead = peer[c].ahead
                         /\ peer'[c].waited = peer[c].waited
                         /\ peer'[c].at \in {"inside", "answered", "dropped"}
                         /\ (peer'[c].at = "inside") = (c \in Stays)
                         /\ peer'[c].at = "dropped" => peer[c].sent # "line"
      /\ \A c \in Clients \ Here :
           /\ peer'[c].at = peer[c].at /\ peer'[c].sent = peer[c].sent /\ peer'[c].ahead = peer[c].ahead
           /\ peer'[c].waited = IF peer[c].at = "waiting" THEN peer[c].waited + 1 ELSE peer[c].waited
      /\ \A c \in Stays : inside'[c] \in 1..Patience + 1
  BY <1>1, PollSteps
<1>5. /\ backlog' \in Seq(Clients) /\ Len(backlog') = n - l
      /\ \A i \in 1..n - l : backlog'[i] = backlog[l + i] /\ l + i \in 1..n
  <2>1. backlog' = SubSeq(backlog, l + 1, n)
    BY <1>2, <1>3 DEF Poll
  <2>2. \A i \in (l + 1)..n : i \in 1..n /\ backlog[i] \in Clients
    BY <1>1, <1>2 DEF ControlTypes
  <2>3. /\ backlog' \in Seq(Clients)
        /\ Len(backlog') = IF l + 1 <= n THEN n - (l + 1) + 1 ELSE 0
        /\ \A i \in 1..n - (l + 1) + 1 : backlog'[i] = backlog[l + 1 + i - 1]
    BY <2>1, <2>2, SubSeqProperties
  <2>4. /\ n - (l + 1) + 1 = n - l /\ (~(l + 1 <= n) => n - l = 0)
        /\ \A i \in 1..n - l : l + 1 + i - 1 = l + i /\ l + i \in 1..n
    BY <1>2
  <2> QED
    BY <1>2, <2>3, <2>4
\* Of the backlog, the first ones are here, the others are not.
<1>6. \A i \in 1..n : backlog[i] \in Clients /\ peer[backlog[i]].at = "waiting" /\ (backlog[i] \in Here => i <= l)
  <2> TAKE i \in 1..n
  <2>1. backlog[i] \in Clients /\ peer[backlog[i]].at = "waiting"
    BY <1>1, <1>2 DEF Answered, ToSet, ControlTypes
  <2>2. backlog[i] \notin DOMAIN inside
    BY <1>1, <2>1 DEF Answered
  <2>3. backlog[i] \in Accepted => i <= l
    <3> SUFFICES ASSUME NEW k \in 1..l, backlog[i] = backlog[k] PROVE i <= l
      BY <1>3
    <3>1. k \in 1..Len(backlog) /\ i \in 1..Len(backlog)
      BY <1>2
    <3>2. i = k
      BY <1>1, <3>1 DEF ControlTypes
    <3> QED
      BY <1>2, <3>2
  <2> QED
    BY <2>1, <2>2, <2>3 DEF Here
<1>7. \A i \in 1..n - l : backlog'[i] \in Clients \ Here
  BY <1>2, <1>5, <1>6
<1>8. ControlTypes'
  <2>1. \A i, j \in 1..n - l : backlog'[i] = backlog'[j] => i = j
    <3> SUFFICES ASSUME NEW i \in 1..n - l, NEW j \in 1..n - l, backlog[l + i] = backlog[l + j] PROVE i = j
      BY <1>5
    <3>1. l + i \in 1..Len(backlog) /\ l + j \in 1..Len(backlog)
      BY <1>2, <1>5
    <3>2. l + i = l + j
      BY <1>1, <3>1 DEF ControlTypes
    <3> QED
      BY <1>2, <3>2
  <2>2. \A c \in Clients : peer'[c].at = "out" => peer'[c].waited = 0
    <3>1. \A c \in Here : peer'[c].at # "out"
      BY <1>4
    <3>2. \A c \in Clients \ Here : peer'[c].at = "out" => peer[c].at = "out" /\ peer'[c].waited = peer[c].waited
      BY <1>4
    <3> QED
      BY <1>1, <3>1, <3>2 DEF ControlTypes
  <2>3. \A c \in DOMAIN inside' : c \in Clients /\ inside'[c] \in 1..Patience + 1
    BY <1>3, <1>4 DEF Stays
  <2> QED
    BY <1>4, <1>5, <2>1, <2>2, <2>3 DEF ControlTypes
<1>9. Answered'
  <2>1. Cardinality(Stays) <= MaxClients
    <3>1. Cardinality(Stays) <= Cardinality(Here) /\ Cardinality(Stays) \in Nat
      BY <1>3, <1>4, FS_Subset, FS_CardinalityType
    <3>2. InsideNow \in Nat /\ MaxClients \in Nat
      BY <1>1, InsideFinite, ControlAssumption
    <3> QED
      BY <1>2, <1>3, <3>1, <3>2
  <2>2. ToSet(backlog') = {backlog'[i] : i \in 1..n - l} /\ ToSet(backlog) = {backlog[i] : i \in 1..n}
    <3>1. DOMAIN backlog = 1..n /\ DOMAIN backlog' = 1..n - l
      BY <1>1, <1>2, <1>5 DEF ControlTypes
    <3> QED
      BY <3>1 DEF ToSet
  <2> SUFFICES ASSUME NEW c \in Clients
               PROVE  /\ (c \in Stays) = (peer'[c].at = "inside")
                      /\ (c \in ToSet(backlog')) = (peer'[c].at = "waiting")
                      /\ peer'[c].at = "dropped" => peer'[c].sent # "line"
    BY <2>1 DEF Answered, Stays
  <2>3. CASE c \in Here
    <3>1. c \notin ToSet(backlog')
      BY <1>7, <2>2, <2>3
    <3> QED
      BY <1>4, <2>3, <3>1
  <2>4. CASE c \notin Here
    <3>1. peer'[c].at = peer[c].at /\ peer'[c].sent = peer[c].sent /\ c \notin Stays /\ c \notin DOMAIN inside
      BY <1>4, <2>4 DEF Here
    <3>2. peer[c].at # "inside" /\ (c \in ToSet(backlog)) = (peer[c].at = "waiting")
          /\ (peer[c].at = "dropped" => peer[c].sent # "line")
      BY <1>1, <3>1 DEF Answered
    <3>3. (c \in ToSet(backlog')) = (c \in ToSet(backlog))
      <4>1. ASSUME NEW i \in 1..n, c = backlog[i] PROVE \E k \in 1..n - l : c = backlog'[k]
        <5>1. ~(i <= l)
          <6> SUFFICES ASSUME i \in 1..l PROVE FALSE
            BY <1>2
          <6> QED
            BY <1>3, <2>4, <4>1 DEF Here
        <5>2. i - l \in 1..n - l /\ l + (i - l) = i
          BY <1>2, <5>1
        <5> QED
          BY <1>5, <4>1, <5>2
      <4> QED
        BY <1>5, <2>2, <4>1
    <3> QED
      BY <3>1, <3>2, <3>3
  <2> QED
    BY <2>3, <2>4
<1>10. InTurn'
  <2> SUFFICES ASSUME NEW i \in 1..n - l PROVE Gone(i)' >= 0 /\ Turn(i)'
    BY <1>5 DEF InTurn
  <2>1. l < n
    BY <1>2
  <2>2. /\ Cardinality(Here) = MaxClients /\ IsFiniteSet(Here) /\ InsideNow + l = MaxClients
        /\ backlog'[i] = backlog[l + i] /\ backlog[l + i] \in Clients \ Here
        /\ l \in 0..Len(backlog) /\ i \in 1..Len(backlog) - l
    BY <1>2, <1>3, <1>5, <1>7, <2>1
  <2> QED
    BY <1>1, <2>2, TurnsKept
<1>11. ServedInTime'
  <2> SUFFICES ASSUME NEW c \in Clients
               PROVE  peer'[c].waited <= (peer'[c].ahead \div MaxClients) * (Patience + 2)
    BY DEF ServedInTime
  <2>1. CASE peer'[c].at = "waiting"
    <3>1. PICK i \in 1..Len(backlog') : c = backlog'[i]
      BY <1>9, <2>1 DEF Answered, ToSet
    <3> QED
      BY <1>8, <1>10, <3>1, TurnsStayInTime
  <2>2. CASE peer'[c].at # "waiting"
    <3>1. peer'[c].waited = peer[c].waited /\ peer'[c].ahead = peer[c].ahead
      BY <1>4, <2>2
    <3> QED
      BY <1>1, <3>1 DEF ServedInTime
  <2> QED
    BY <2>1, <2>2
<1> QED
  BY <1>8, <1>9, <1>10, <1>11 DEF ControlInv, LinesAnswered

LEMMA ControlStep ==
  ASSUME ControlInv, [ControlNext]_controlVars
  PROVE  ControlInv'
<1>1. peer \in [Clients -> Peers] /\ \A c \in Clients : peer[c].at = "dropped" => peer[c].sent # "line"
  BY DEF ControlInv, ControlTypes, LinesAnswered, Answered
<1>2. CASE Poll
  BY <1>2, PollKeeps
<1>3. ASSUME NEW c \in Clients, Connect(c) PROVE ControlInv'
  BY <1>3, ConnectKeeps
<1>4. ASSUME NEW c \in Clients, HangUp(c) PROVE ControlInv'
  <2> DEFINE q == [peer[c] EXCEPT !.closed = TRUE]
  <2>1. peer[c] \in Peers /\ TRUE \in BOOLEAN
    BY <1>1
  <2>2. /\ q \in Peers /\ q.at = peer[c].at /\ q.sent = peer[c].sent /\ q.ahead = peer[c].ahead
        /\ q.waited = peer[c].waited
    BY <2>1, Zenon DEF Peers
  <2>3. peer' = [peer EXCEPT ![c] = q] /\ UNCHANGED <<backlog, inside>>
    BY <1>4, Zenon DEF HangUp
  <2> HIDE DEF q
  <2> QED
    BY <1>1, <2>2, <2>3, SameTurns
<1>5. ASSUME NEW c \in Clients, NEW what \in {"half", "line", "flood"}, Send(c, what) PROVE ControlInv'
  <2> DEFINE q == [peer[c] EXCEPT !.sent = what]
  <2>1. peer[c] \in Peers /\ peer[c].at \in {"waiting", "inside"}
    BY <1>1, <1>5 DEF Send
  <2>2. /\ q \in Peers /\ q.at = peer[c].at /\ q.ahead = peer[c].ahead /\ q.waited = peer[c].waited
    BY <2>1, Zenon DEF Peers
  <2>3. peer' = [peer EXCEPT ![c] = q] /\ UNCHANGED <<backlog, inside>>
    BY <1>5, Zenon DEF Send
  <2> HIDE DEF q
  <2> QED
    BY <1>1, <2>1, <2>2, <2>3, SameTurns
<1>6. CASE UNCHANGED controlVars
  BY <1>1, <1>6, SameTurns DEF controlVars
<1> QED
  BY <1>2, <1>3, <1>4, <1>5, <1>6 DEF ControlNext

\* Whoever sends its line before its time inside is over is answered, nobody is lost
\* between the backlog and the slots, and a client with n others ahead of it waits at
\* most n \div MAX_CLIENTS rounds of CLIENT_TIMEOUT_MS and two polls (poll_cb(), serve()).
THEOREM ControlInvariant == ControlSpec => []LinesAnswered
<1>1. ControlInit => ControlInv
  BY ControlStarts
<1>2. ControlInv /\ [ControlNext]_controlVars => ControlInv'
  BY ControlStep
<1>3. ControlInv => LinesAnswered
  BY DEF ControlInv
<1> QED
  BY <1>1, <1>2, <1>3, PTL DEF ControlSpec

(***************************************************************************)
(* The calls to MPD.                                                       *)
(***************************************************************************)
Sounds  == Tracks \union {Extra}
Liked   == [exists : BOOLEAN, list : Seq(Sounds)]
Befores == [away : BOOLEAN, gone : BOOLEAN, refused : BOOLEAN, meddled : BOOLEAN]
Pasts   == [before : Seq(Sounds), was : Befores]
Ats     == {"done", "ask", "song", "queue", "start", "add",
            "seek", "unpause", "remove", "look", "list", "delete"}
CallsOf == [name : {"none", "read", "status", "play", "extra", "toggle", "pick"},
            at : Ats,
            song : Sounds, found : SUBSET (1..MaxLiked), ok : BOOLEAN, in : BOOLEAN]

\* A call that has not done its first command yet.
First == <<call.name, call.at>> \in {<<"read", "ask">>, <<"status", "ask">>, <<"play", "queue">>, <<"extra", "add">>,
                                     <<"toggle", "look">>, <<"pick", "list">>, <<"pick", "add">>}

\* While MPD has been there all along, it is; and the connection is gone only
\* for a reason, which lies before the call until its first command is done.
LinkRight ==
  /\ link \in {"ok", "gone"} /\ up \in BOOLEAN /\ past \in Pasts
  /\ ~past.was.away => up
  /\ link = "gone" => past.was.away \/ past.was.gone

Mendable == ~past.was.away => link = "ok"
Reason  == past.was.away \/ past.was.gone \/ past.was.refused

CallInv ==
  /\ LinkRight
  /\ liked \in Liked /\ Len(liked.list) <= MaxLiked
  /\ call \in CallsOf
  /\ ~First => Mendable
  /\ call.at = "remove" => Reason
  /\ call.at = "done" /\ ~call.ok => Reason

LEMMA HappenedPasts ==
  ASSUME past \in Pasts, NEW what \in {"away", "gone", "refused", "meddled"}, Happened(what)
  PROVE  /\ past' \in Pasts /\ past'.before = past.before
         /\ past'.was[what] = TRUE
         /\ \A f \in {"away", "gone", "refused", "meddled"} : f # what => past'.was[f] = past.was[f]
<1> DEFINE w == [past.was EXCEPT ![what] = TRUE]
           p == [past EXCEPT !.was = w]
<1>1. past' = p
  BY DEF Happened
<1>2. past.was \in Befores /\ past.before \in Seq(Sounds)
  BY Zenon DEF Pasts
<1>3. w \in Befores /\ w[what] = TRUE /\ \A f \in {"away", "gone", "refused", "meddled"} : f # what => w[f] = past.was[f]
  BY <1>2 DEF Befores
<1> HIDE DEF w
<1>4. p \in Pasts /\ p.was = w /\ p.before = past.before
  BY <1>2, <1>3, Zenon DEF Pasts
<1> QED BY <1>1, <1>3, <1>4

\* What a command leaves, done or not: the connection is mended if MPD is there,
\* and what was not done has a reason.
LEMMA Commanded ==
  ASSUME CallInv, NEW refusable \in BOOLEAN, NEW clears \in BOOLEAN, clears => ~First,
         Failing(refusable, clears)
  PROVE  LinkRight' /\ Mendable' /\ Reason'
<1> HIDE DEF First
<1>0. LinkRight
  BY DEF CallInv
<1>a. past.was \in Befores
  BY <1>0, Zenon DEF LinkRight, Pasts
<1>2. CASE link = "ok" /\ link' = After("error", clears) /\ Happened("refused") /\ UNCHANGED <<up, mpdcount>>
  <2>1. /\ past' \in Pasts /\ past'.was["refused"] = TRUE /\ past'.was["away"] = past.was["away"]
        /\ past'.was["gone"] = past.was["gone"]
    BY <1>0, <1>2, HappenedPasts DEF LinkRight
  <2>2. link' = "ok"
    BY <1>2 DEF After, Cleared, Mended
  <2> QED BY <1>0, <1>2, <2>1, <2>2 DEF LinkRight, Mendable, Reason
<1>3. CASE Lost
  <2>1. Happened("away") /\ up' = FALSE /\ link' = "gone"
    BY <1>3 DEF Lost, MayEnd
  <2>2. past' \in Pasts /\ past'.was["away"] = TRUE
    BY <1>0, <2>1, HappenedPasts DEF LinkRight
  <2> QED BY <1>0, <2>1, <2>2 DEF LinkRight, Mendable, Reason
<1>4. CASE link # "ok" /\ link' = After(link, clears) /\ UNCHANGED <<up, past, mpdcount>>
  <2>1. link = "gone" /\ (past.was.away \/ past.was.gone)
    BY <1>0, <1>4 DEF LinkRight
  <2>2. CASE clears
    <3>1. Mendable
      BY <2>2 DEF CallInv
    <3> QED BY <1>0, <1>4, <2>1, <2>2, <3>1 DEF After, Cleared, LinkRight, Mendable, Reason
  <2>3. CASE ~clears
    BY <1>0, <1>4, <2>1, <2>3 DEF After, Mended, LinkRight, Mendable, Reason
  <2> QED BY <2>2, <2>3
<1> QED BY <1>2, <1>3, <1>4 DEF Failing

LEMMA CallReturns ==
  ASSUME CallInv, NEW ok \in BOOLEAN, Returns(ok), liked' \in Liked, Len(liked'.list) <= MaxLiked,
         LinkRight', Mendable', ~ok => Reason'
  PROVE  CallInv'
<1> DEFINE c == [call EXCEPT !.at = "done", !.ok = ok]
<1>1. c \in CallsOf /\ c.at = "done" /\ c.ok = ok
  BY Zenon DEF CallInv, CallsOf, Ats
<1> HIDE DEF c
<1>2. call' = c
  BY DEF c, Returns
<1> QED BY <1>1, <1>2 DEF CallInv

LEMMA CallGoesOn ==
  ASSUME CallInv, NEW at \in Ats \ {"done"}, GoesTo(at), UNCHANGED liked,
         LinkRight', Mendable', at = "remove" => Reason'
  PROVE  CallInv'
<1> DEFINE c == [call EXCEPT !.at = at]
<1>1. c \in CallsOf /\ c.at = at
  BY Zenon DEF CallInv, CallsOf, Ats
<1> HIDE DEF c
<1>2. call' = c
  BY DEF c, GoesTo
<1>3. at # "done"
  OBVIOUS
<1> QED BY <1>1, <1>2, <1>3 DEF CallInv

LEMMA LikedSame ==
  ASSUME CallInv, UNCHANGED liked
  PROVE  liked' \in Liked /\ Len(liked'.list) <= MaxLiked
  BY DEF CallInv

LEMMA DoneWell ==
  ASSUME CallInv, Done
  PROVE  LinkRight' /\ Mendable' /\ (Reason => Reason')
<1>1. link = "ok" /\ link' = link /\ up' = up /\ past' = past
  BY DEF Done
<1> QED BY <1>1 DEF CallInv, LinkRight, Mendable, Reason

LEMMA FailedFor ==
  ASSUME CallInv, NEW refusable \in BOOLEAN, Failed(refusable)
  PROVE  LinkRight' /\ Mendable' /\ Reason'
  BY Commanded, Zenon DEF Failed

LEMMA LostFor ==
  ASSUME CallInv, Lost
  PROVE  LinkRight' /\ Mendable' /\ Reason'
  BY FailedFor DEF Failed, Failing

LEMMA BeginsCall ==
  ASSUME CallInv, NEW name \in {"read", "status", "play", "extra", "toggle", "pick"}, NEW at \in Ats \ {"done"},
         NEW song \in Sounds, Begins(name, at, song),
         <<name, at>> \in {<<"read", "ask">>, <<"status", "ask">>, <<"play", "queue">>, <<"extra", "add">>,
                           <<"toggle", "look">>, <<"pick", "list">>, <<"pick", "add">>}
  PROVE  CallInv'
<1> DEFINE c == [NoCall EXCEPT !.name = name, !.at = at, !.song = song]
           w == [Clean EXCEPT !.away = ~up, !.gone = (link = "gone")]
           p == [before |-> liked.list, was |-> w]
<1>1. call' = c /\ past' = p /\ UNCHANGED <<link, up, liked, queue, mpdcount>>
  BY DEF Begins
<1>2. NoCall \in CallsOf
  BY DEF NoCall, CallsOf, Ats, Sounds
<1>3. c \in CallsOf /\ c.name = name /\ c.at = at
  BY <1>2, Zenon DEF CallsOf, Ats
<1>4. w \in Befores /\ w.away = ~up /\ w.gone = (link = "gone")
  BY DEF Clean, Befores, CallInv, LinkRight
<1> HIDE DEF w
<1>5. liked.list \in Seq(Sounds)
  BY Zenon DEF CallInv, Liked
<1>6. p \in Pasts /\ p.was = w
  BY <1>4, <1>5 DEF Pasts
<1> HIDE DEF c, p
<1>7. LinkRight'
  BY <1>1, <1>4, <1>6 DEF CallInv, LinkRight
<1>8. First'
  BY <1>1, <1>3 DEF First
<1>9. at # "done" /\ at # "remove"
  OBVIOUS
<1> QED BY <1>1, <1>3, <1>7, <1>8, <1>9 DEF CallInv

LEMMA AskOneCall ==
  ASSUME CallInv, AskOne
  PROVE  CallInv'
<1> USE LikedSame
<1>1. CASE Done /\ Returns(TRUE)
  BY <1>1, DoneWell, CallReturns DEF AskOne
<1>2. CASE Failed(TRUE) /\ Returns(FALSE)
  BY <1>2, FailedFor, CallReturns DEF AskOne
<1> QED BY <1>1, <1>2 DEF AskOne

LEMMA StatusCall ==
  ASSUME CallInv, Status
  PROVE  CallInv'
<1> USE LikedSame
<1>1. CASE Done /\ GoesTo("song")
  BY <1>1, DoneWell, CallGoesOn DEF Status, Ats
<1>2. CASE Failed(FALSE) /\ Returns(FALSE)
  BY <1>2, FailedFor, CallReturns DEF Status
<1>3. CASE CallAt("status", "song") /\ (Done \/ Failing(TRUE, TRUE)) /\ Returns(TRUE)
  <2>1. ~First
    BY <1>3 DEF CallAt, First
  <2>2. LinkRight' /\ Mendable'
    <3>1. CASE Done
      BY <3>1, DoneWell
    <3>2. CASE Failing(TRUE, TRUE)
      BY <2>1, <3>2, Commanded
    <3> QED BY <1>3, <3>1, <3>2
  <2> QED BY <1>3, <2>2, CallReturns DEF Status
<1> QED BY <1>1, <1>2, <1>3 DEF Status

LEMMA PlaySongsCall ==
  ASSUME CallInv, PlaySongs
  PROVE  CallInv'
<1> USE LikedSame
<1>1. CASE Done /\ GoesTo("start")
  BY <1>1, DoneWell, CallGoesOn DEF PlaySongs, Ats
<1>2. CASE Failed(TRUE) /\ Returns(FALSE)
  BY <1>2, FailedFor, CallReturns DEF PlaySongs
<1>3. CASE Done /\ Returns(TRUE)
  BY <1>3, DoneWell, CallReturns DEF PlaySongs
<1> QED BY <1>1, <1>2, <1>3 DEF PlaySongs

LEMMA PlayExtraCall ==
  ASSUME CallInv, PlayExtra
  PROVE  CallInv'
<1> USE LikedSame
<1> DEFINE gone == ExtraAt = {}
<1>1. CASE Done /\ (GoesTo("seek") \/ GoesTo("unpause"))
  BY <1>1, DoneWell, CallGoesOn DEF PlayExtra, Ats
<1>2. CASE Failed(TRUE) /\ Returns(FALSE)
  BY <1>2, FailedFor, CallReturns DEF PlayExtra
<1>3. CASE Lost /\ Returns(FALSE)
  BY <1>3, LostFor, CallReturns DEF PlayExtra
<1>4. CASE Failed(TRUE) /\ GoesTo("remove")
  BY <1>4, FailedFor, CallGoesOn DEF PlayExtra, Ats
<1>5. CASE Done /\ Returns(TRUE)
  BY <1>5, DoneWell, CallReturns DEF PlayExtra
<1>6. CASE CallAt("extra", "remove") /\ Done /\ Returns(FALSE)
  <2>1. Reason
    BY <1>6 DEF CallInv, CallAt
  <2>2. LinkRight' /\ Mendable' /\ Reason'
    BY <1>6, <2>1, DoneWell
  <2> QED BY <1>6, <2>2, CallReturns DEF PlayExtra
<1>7. CASE Failed(gone) /\ Returns(FALSE)
  <2>1. gone \in BOOLEAN
    OBVIOUS
  <2> HIDE DEF gone
  <2> QED BY <1>7, <2>1, FailedFor, CallReturns DEF PlayExtra
<1> QED BY <1>1, <1>2, <1>3, <1>4, <1>5, <1>6, <1>7 DEF PlayExtra

LEMMA TakeOutCall ==
  ASSUME CallInv, TakeOut
  PROVE  CallInv'
<1>1. LinkRight' /\ Mendable'
  BY DoneWell, FailedFor DEF TakeOut
<1>2. NoCall \in CallsOf /\ NoCall.at = "done" /\ NoCall.ok = TRUE
  BY DEF NoCall, CallsOf, Ats, Sounds
<1>3. call' = NoCall /\ UNCHANGED liked
  BY DEF TakeOut
<1> HIDE DEF NoCall
<1> QED BY <1>1, <1>2, <1>3, LikedSame DEF CallInv

LEMMA LookUpCall ==
  ASSUME CallInv, LookUp
  PROVE  CallInv'
<1> USE LikedSame
<1>1. CASE Done /\ GoesTo(IF Places # {} THEN "list" ELSE "add")
  BY <1>1, DoneWell, CallGoesOn DEF LookUp, Ats
<1>2. CASE Failed(~liked.exists) /\ GoesTo("add")
  <2>1. (~liked.exists) \in BOOLEAN
    OBVIOUS
  <2>2. LinkRight' /\ Mendable'
    BY <1>2, <2>1, FailedFor, Zenon
  <2> QED BY <1>2, <2>2, CallGoesOn DEF LookUp, Ats
<1> QED BY <1>1, <1>2 DEF LookUp

LEMMA AddCall ==
  ASSUME CallInv, Add
  PROVE  CallInv'
<1>1. CASE Failed(TRUE) /\ Returns(FALSE) /\ UNCHANGED liked
  BY <1>1, LikedSame, FailedFor, CallReturns
<1>2. CASE /\ Len(liked.list) < MaxLiked /\ (Done \/ Lost)
           /\ liked' = [exists |-> TRUE, list |-> Append(liked.list, call.song)]
           /\ call' = [call EXCEPT !.at = "done", !.ok = up', !.in = TRUE]
  <2> DEFINE l == Append(liked.list, call.song)
             c == [call EXCEPT !.at = "done", !.ok = up', !.in = TRUE]
  <2>1. liked.list \in Seq(Sounds) /\ call.song \in Sounds /\ call \in CallsOf
    BY Zenon DEF CallInv, Liked, CallsOf, Ats
  <2>2. l \in Seq(Sounds) /\ Len(l) = Len(liked.list) + 1
    BY <2>1
  <2>3. Len(liked.list) \in Nat /\ MaxLiked \in Nat
    BY <2>1, MpdAssumption
  <2> HIDE DEF l
  <2>4. liked' \in Liked /\ Len(liked'.list) <= MaxLiked
    BY <1>2, <2>2, <2>3 DEF Liked, l
  <2>5. LinkRight' /\ Mendable' /\ (~up' => Reason')
    <3>1. CASE Done
      <4>1. LinkRight' /\ Mendable'
        BY <3>1, DoneWell
      <4> QED BY <4>1 DEF LinkRight, Reason
    <3>2. CASE Lost
      BY <3>2, LostFor
    <3> QED BY <1>2, <3>1, <3>2
  <2>6. up' \in BOOLEAN
    BY <2>5 DEF LinkRight
  <2>7. c \in CallsOf /\ c.at = "done" /\ c.ok = up'
    BY <2>1, <2>6, Zenon DEF CallsOf, Ats
  <2> HIDE DEF c
  <2>8. call' = c
    BY <1>2 DEF c
  <2> QED BY <2>4, <2>5, <2>7, <2>8 DEF CallInv
<1> QED BY <1>1, <1>2 DEF Add

LEMMA PlacesThere == CallInv => Places \in SUBSET (1..MaxLiked)
<1> SUFFICES ASSUME CallInv PROVE Places \in SUBSET (1..MaxLiked)
  OBVIOUS
<1>1. liked.list \in Seq(Sounds) /\ Len(liked.list) <= MaxLiked
  BY Zenon DEF CallInv, Liked
<1>2. DOMAIN liked.list \subseteq 1..MaxLiked
  BY <1>1, MpdAssumption
<1> QED BY <1>2 DEF Places

LEMMA ListCall ==
  ASSUME CallInv, List
  PROVE  CallInv'
<1> USE LikedSame
<1>1. CASE Done /\ call' = [call EXCEPT !.at = "delete", !.found = Places]
  <2> DEFINE P == Places
             c == [call EXCEPT !.at = "delete", !.found = P]
  <2>1. P \in SUBSET (1..MaxLiked)
    BY PlacesThere
  <2> HIDE DEF P
  <2>2. c \in CallsOf /\ c.at = "delete"
    BY <2>1, Zenon DEF CallInv, CallsOf, Ats
  <2> HIDE DEF c
  <2>3. call' = c
    BY <1>1 DEF c, P
  <2>4. LinkRight' /\ Mendable'
    BY <1>1, DoneWell
  <2> QED BY <2>2, <2>3, <2>4 DEF List, CallInv
<1>2. CASE Failed(~liked.exists) /\ Returns(TRUE)
  <2>1. (~liked.exists) \in BOOLEAN
    OBVIOUS
  <2>2. LinkRight' /\ Mendable'
    BY <1>2, <2>1, FailedFor, Zenon
  <2> QED BY <1>2, <2>2, CallReturns DEF List
<1> QED BY <1>1, <1>2 DEF List

LEMMA DeleteCall ==
  ASSUME CallInv, Delete
  PROVE  CallInv'
<1>0. call.at = "delete"
  BY DEF Delete
<1>1. CASE call.found = {} /\ Returns(TRUE) /\ UNCHANGED <<link, up, liked, past, mpdcount>>
  <2>1. ~First
    BY <1>0 DEF First
  <2>2. LinkRight' /\ Mendable'
    BY <1>1, <2>1 DEF CallInv, LinkRight, Mendable
  <2> QED BY <1>1, <2>2, LikedSame, CallReturns
<1>2. CASE /\ call.found # {} /\ NextPlace \in DOMAIN liked.list
           /\ liked' = [liked EXCEPT !.list = RemoveAt(@, NextPlace)]
           /\ (Done /\ call' = [call EXCEPT !.found = @ \ {NextPlace}]) \/ (Lost /\ Returns(FALSE))
  <2> DEFINE i == NextPlace
             l == RemoveAt(liked.list, i)
             m == [liked EXCEPT !.list = l]
             f == call.found \ {i}
             c == [call EXCEPT !.found = f]
  <2>1. liked.list \in Seq(Sounds) /\ Len(liked.list) <= MaxLiked /\ liked \in Liked
    BY Zenon DEF CallInv, Liked
  <2>2. i \in 1..Len(liked.list)
    BY <1>2, <2>1
  <2> HIDE DEF i
  <2>3. l \in Seq(Sounds) /\ Len(l) <= Len(liked.list)
    <3> DEFINE b == SubSeq(liked.list, 1, i - 1)
               e == SubSeq(liked.list, i + 1, Len(liked.list))
    <3>1. b \in Seq(Sounds) /\ Len(b) = i - 1
      BY <2>1, <2>2
    <3>2. e \in Seq(Sounds) /\ Len(e) = Len(liked.list) - i
      BY <2>1, <2>2
    <3> HIDE DEF b, e
    <3>3. b \o e \in Seq(Sounds) /\ Len(b \o e) = Len(b) + Len(e)
      BY <3>1, <3>2
    <3>4. l = b \o e
      BY DEF RemoveAt, b, e
    <3> QED BY <2>1, <2>2, <3>1, <3>2, <3>3, <3>4
  <2> HIDE DEF l
  <2>4. m \in Liked /\ m.list = l
    BY <2>1, <2>3, Zenon DEF Liked
  <2>5. Len(l) <= MaxLiked
    BY <2>1, <2>3, MpdAssumption
  <2>6. call.found \in SUBSET (1..MaxLiked)
    BY Zenon DEF CallInv, CallsOf, Ats
  <2>7. f \in SUBSET (1..MaxLiked)
    BY <2>6
  <2> HIDE DEF m, f
  <2>8. liked' = m
    BY <1>2 DEF m, l, i
  <2>9. CASE Done /\ call' = [call EXCEPT !.found = @ \ {NextPlace}]
    <3>1. c \in CallsOf /\ c.at = "delete"
      BY <1>0, <2>7, Zenon DEF CallInv, CallsOf, Ats
    <3> HIDE DEF c
    <3>2. call' = c
      BY <2>9 DEF c, f, i
    <3>3. LinkRight' /\ Mendable'
      BY <2>9, DoneWell
    <3> QED BY <2>4, <2>5, <2>8, <3>1, <3>2, <3>3 DEF CallInv
  <2>10. CASE Lost /\ Returns(FALSE)
    BY <2>4, <2>5, <2>8, <2>10, LostFor, CallReturns
  <2> QED BY <1>2, <2>9, <2>10
<1>3. CASE Failed(NextPlace \notin DOMAIN liked.list) /\ Returns(FALSE) /\ UNCHANGED liked
  <2>1. (NextPlace \notin DOMAIN liked.list) \in BOOLEAN
    OBVIOUS
  <2>2. LinkRight' /\ Mendable' /\ Reason'
    BY <1>3, <2>1, FailedFor, Zenon
  <2> QED BY <1>3, <2>2, LikedSame, CallReturns
<1> QED BY <1>1, <1>2, <1>3 DEF Delete

LEMMA ReasonsKept ==
  ASSUME CallInv, NEW what \in {"away", "meddled"}, Happened(what)
  PROVE  past' \in Pasts /\ past'.was[what] = TRUE
         /\ (what = "meddled" => /\ past'.was.away = past.was.away /\ past'.was.gone = past.was.gone
                                 /\ past'.was.refused = past.was.refused)
  BY HappenedPasts DEF CallInv, LinkRight

LEMMA MpdEndsCall ==
  ASSUME CallInv, MpdEnds
  PROVE  CallInv'
<1>1. Happened("away") /\ up' = FALSE /\ link' = "gone" /\ UNCHANGED <<liked, queue, call>>
  BY DEF MpdEnds, MayEnd
<1>2. past' \in Pasts /\ past'.was["away"] = TRUE
  BY <1>1, ReasonsKept
<1> QED BY <1>1, <1>2 DEF CallInv, LinkRight, Mendable, Reason, First

LEMMA ComesUpCall ==
  ASSUME CallInv, ComesUp
  PROVE  CallInv'
  BY DEF CallInv, ComesUp, LinkRight, Mendable, Reason, First

LEMMA MeddlesCall ==
  ASSUME CallInv, Meddles
  PROVE  CallInv'
<1>1. Happened("meddled") /\ UNCHANGED <<link, up, call>>
  BY DEF Meddles
<1>2. past' \in Pasts /\ past'.was.away = past.was.away /\ past'.was.gone = past.was.gone
      /\ past'.was.refused = past.was.refused
  BY <1>1, ReasonsKept
<1>3. liked' \in Liked /\ Len(liked'.list) <= MaxLiked
  <2>1. CASE UNCHANGED liked
    BY <2>1, LikedSame
  <2>2. CASE liked.list # <<>> /\ liked' = [liked EXCEPT !.list = Tail(@)]
    <3> DEFINE l == Tail(liked.list)
               m == [liked EXCEPT !.list = l]
    <3>1. liked.list \in Seq(Sounds) /\ Len(liked.list) <= MaxLiked /\ liked \in Liked
      BY Zenon DEF CallInv, Liked
    <3>2. l \in Seq(Sounds) /\ Len(l) <= Len(liked.list) /\ Len(l) \in Nat /\ Len(liked.list) \in Nat
      BY <2>2, <3>1
    <3> HIDE DEF l
    <3>3. m \in Liked /\ m.list = l
      BY <3>1, <3>2, Zenon DEF Liked
    <3>4. liked' = m
      BY <2>2 DEF l
    <3> HIDE DEF m
    <3> QED BY <3>1, <3>2, <3>3, <3>4, MpdAssumption
  <2> QED BY <2>1, <2>2 DEF Meddles
<1>4. LinkRight' /\ Mendable' = Mendable /\ Reason' = Reason
  BY <1>1, <1>2 DEF CallInv, LinkRight, Mendable, Reason
<1> QED BY <1>1, <1>3, <1>4 DEF CallInv, First

LEMMA CallsCall ==
  ASSUME CallInv, Calls
  PROVE  CallInv'
<1>1. Extra \in Sounds /\ \A t \in Tracks : t \in Sounds
  BY DEF Sounds
<1>2. CASE Begins("read", "ask", Extra) \/ Begins("status", "ask", Extra) \/ Begins("play", "queue", Extra)
           \/ Begins("extra", "add", Extra)
  BY <1>1, <1>2, BeginsCall DEF Ats
<1>3. CASE \E t \in Tracks : Begins("toggle", "look", t) \/ Begins("pick", "list", t) \/ Begins("pick", "add", t)
  BY <1>1, <1>3, BeginsCall DEF Ats
<1> QED BY <1>2, <1>3 DEF Calls, PickerClick

LEMMA CallStarts == ClientInit => CallInv
<1> SUFFICES ASSUME ClientInit PROVE CallInv
  OBVIOUS
<1>1. liked \in Liked /\ Len(liked.list) <= MaxLiked
  <2>1. CASE \E t, u \in Tracks : liked = [exists |-> TRUE, list |-> <<t, t, u>>]
    <3>1. PICK t \in Tracks, u \in Tracks : liked = [exists |-> TRUE, list |-> <<t, t, u>>]
      BY <2>1
    <3> DEFINE l == <<t, t, u>>
    <3>2. l \in Seq(Sounds) /\ Len(l) = 3
      BY DEF Sounds
    <3> HIDE DEF l
    <3>3. liked = [exists |-> TRUE, list |-> l]
      BY <3>1 DEF l
    <3> QED BY <3>2, <3>3, MpdAssumption DEF Liked
  <2>2. CASE liked = [exists |-> FALSE, list |-> <<>>]
    <3>1. <<>> \in Seq(Sounds) /\ Len(<<>>) = 0
      OBVIOUS
    <3> DEFINE e == <<>>
    <3> HIDE DEF e
    <3>2. liked = [exists |-> FALSE, list |-> e]
      BY <2>2 DEF e
    <3>3. e \in Seq(Sounds) /\ Len(e) = 0
      BY <3>1 DEF e
    <3>4. liked.list = e /\ liked \in Liked
      BY <3>2, <3>3 DEF Liked
    <3> QED BY <3>3, <3>4, MpdAssumption
  <2> QED BY <2>1, <2>2 DEF ClientInit, LikedInit
<1>2. NoCall \in CallsOf /\ NoCall.at = "done" /\ NoCall.ok = TRUE
  BY DEF NoCall, CallsOf, Ats, Sounds
<1>3. Clean \in Befores /\ Clean.away = FALSE
  BY DEF Clean, Befores
<1>4. liked.list \in Seq(Sounds)
  BY <1>1, Zenon DEF Liked
<1> HIDE DEF NoCall, Clean
<1>5. past \in Pasts /\ past.was = Clean
  BY <1>3, <1>4 DEF ClientInit, Pasts
<1>6. link = "ok" /\ up = TRUE /\ call = NoCall
  BY DEF ClientInit
<1> QED BY <1>1, <1>2, <1>3, <1>5, <1>6 DEF CallInv, LinkRight, Mendable

LEMMA CallSteps == CallInv /\ [ClientNext]_clientVars => CallInv'
<1> SUFFICES ASSUME CallInv, [ClientNext]_clientVars PROVE CallInv'
  OBVIOUS
<1>1. CASE UNCHANGED clientVars
  BY <1>1 DEF clientVars, CallInv, LinkRight, Mendable, Reason, First
<1> QED BY <1>1, CallsCall, AskOneCall, StatusCall, PlaySongsCall, PlayExtraCall, TakeOutCall, LookUpCall, AddCall,
           ListCall, DeleteCall, MpdEndsCall, ComesUpCall, MeddlesCall DEF ClientNext

\* No failure of a call wedges the connection to MPD, and an end of MPD costs one
\* call, of however many and at whatever point of them (mpd_client.c).
THEOREM CallsInvariant == ClientSpec => []CallsRecover
<1>1. CallInv => CallsRecover
  <2> SUFFICES ASSUME CallInv PROVE CallsRecover
    OBVIOUS
  <2>1. link # "error" /\ link \in {"ok", "error", "gone"} /\ up \in BOOLEAN /\ Len(liked.list) <= MaxLiked
    BY DEF CallInv, LinkRight
  <2>2. call.found \in SUBSET (1..MaxLiked)
    BY Zenon DEF CallInv, CallsOf, Ats
  <2>3. call.at = "done" => (~past.was.away => link = "ok")
    BY DEF CallInv, First, Mendable
  <2>4. call.at = "done" /\ ~call.ok => Reason
    BY DEF CallInv
  <2> QED BY <2>1, <2>2, <2>3, <2>4 DEF CallsRecover, ClientTypes, Recovers, Reason
<1> QED BY <1>1, CallStarts, CallSteps, PTL DEF ClientSpec

(***************************************************************************)
(* What the calls to MPD do to the playlist and the queue.                 *)
(***************************************************************************)
\* Within a call on "Liked Songs" its other songs are as they were, those found are
\* those to delete, and what it said is so.
Was  == \E i \in DOMAIN past.before : past.before[i] = call.song
Away == past.was.away \/ past.was.gone
LikeRight ==
  ~past.was.meddled /\ call.name \in {"toggle", "pick"} =>
    /\ SameBut(call.song, liked.list, past.before)
    /\ call.at \in {"look", "list", "add"} => liked.list = past.before
    /\ call.at = "delete" => call.found = Places
    /\ call.at # "done" => ~call.in
    /\ call.at = "done" /\ call.ok /\ ~Away => call.in = (Places # {})

\* A like goes the way that the song was or was not in.
ToggleRight ==
  ~past.was.meddled /\ call.name = "toggle" =>
    /\ call.at \in {"list", "delete"} => Was
    /\ call.at = "add" => ~Was \/ Away
    /\ call.at = "done" /\ call.ok /\ ~Away => call.in = ~Was
ListRight == /\ ~liked.exists => liked.list = <<>>
             /\ call.name = "toggle" /\ call.at \in {"list", "delete"} => liked.exists
LikeInv == LikeRight /\ ToggleRight /\ ListRight

\* The queue a call is at is the one it has made, with no more than one extra sound.
PlayRight ==
  ~past.was.meddled /\ call.name = "play" =>
    /\ call.at = "start" => queue = [songs |-> Album, plays |-> FALSE]
    /\ call.at = "done" /\ call.ok => queue = [songs |-> Album, plays |-> TRUE]
ExtraRight ==
  ~past.was.meddled /\ call.name = "extra" =>
    /\ call.at = "add" => ExtraAt = {}
    /\ call.at # "done" => \A i, j \in ExtraAt : i = j
    /\ call.at = "done" /\ ~call.ok /\ ~past.was.away => ExtraAt = {}
Queues == [songs : Seq(Sounds), plays : BOOLEAN]
PlaceRight ==
  /\ call.name = "play" => call.at \in {"queue", "start", "done"}
  /\ call.name = "extra" => call.at \in {"add", "seek", "unpause", "remove", "done"}
QueueInv == queue \in Queues /\ PlaceRight /\ PlayRight /\ ExtraRight

ResultInv == CallInv /\ LikeInv /\ QueueInv
-----------------------------------------------------------------------------
\* A list without its i-th element.
LEMMA Without ==
  ASSUME NEW S, NEW l \in Seq(S), NEW i \in 1..Len(l)
  PROVE  /\ RemoveAt(l, i) \in Seq(S) /\ Len(RemoveAt(l, i)) = Len(l) - 1
         /\ \A j \in 1..(Len(l) - 1) : RemoveAt(l, i)[j] = l[IF j < i THEN j ELSE j + 1]
<1> DEFINE b == SubSeq(l, 1, i - 1)
           e == SubSeq(l, i + 1, Len(l))
<1>1. b \in Seq(S) /\ Len(b) = i - 1 /\ \A j \in 1..(i - 1) : b[j] = l[j]
  OBVIOUS
<1>2. e \in Seq(S) /\ Len(e) = Len(l) - i /\ \A j \in 1..(Len(l) - i) : e[j] = l[i + j]
  OBVIOUS
<1>3. RemoveAt(l, i) = b \o e
  BY DEF RemoveAt
<1> HIDE DEF b, e
<1>4. b \o e \in Seq(S) /\ Len(b \o e) = Len(b) + Len(e)
      /\ \A j \in 1..(Len(b) + Len(e)) : (b \o e)[j] = IF j <= Len(b) THEN b[j] ELSE e[j - Len(b)]
  BY <1>1, <1>2, ConcatProperties, Zenon
<1>5. ASSUME NEW j \in 1..(Len(l) - 1) PROVE RemoveAt(l, i)[j] = l[IF j < i THEN j ELSE j + 1]
  <2>1. Len(l) \in Nat
    OBVIOUS
  <2>2. CASE j < i
    BY <1>1, <1>2, <1>3, <1>4, <2>1, <2>2
  <2>3. CASE ~(j < i)
    <3>1. (b \o e)[j] = e[j - (i - 1)] /\ j - (i - 1) \in 1..(Len(l) - i)
      BY <1>1, <1>2, <1>4, <2>1, <2>3
    <3>2. e[j - (i - 1)] = l[i + (j - (i - 1))] /\ i + (j - (i - 1)) = j + 1
      BY <1>2, <3>1
    <3> QED BY <1>3, <2>3, <3>1, <3>2
  <2> QED BY <2>2, <2>3
<1> QED BY <1>1, <1>2, <1>3, <1>4, <1>5

\* A list has the songs it has, ...
LEMMA SameSelf ==
  ASSUME NEW l \in Seq(Sounds), NEW song
  PROVE  SameBut(song, l, l)
<1> DEFINE o == {i \in DOMAIN l : l[i] # song}
           f == [i \in o |-> i]
<1>1. o \subseteq Nat
  OBVIOUS
<1>2. f \in Bijection(o, o)
  BY DEF Bijection, Injection, Surjection, IsInjective
<1>3. (\A i \in o : l[f[i]] = l[i]) /\ \A i, j \in o : i < j => f[i] < f[j]
  OBVIOUS
<1> QED BY <1>2, <1>3 DEF SameBut

\* ... also if one of the song is added ...
LEMMA SameAdded ==
  ASSUME NEW l \in Seq(Sounds), NEW song \in Sounds, NEW m, SameBut(song, l, m)
  PROVE  SameBut(song, Append(l, song), m)
<1> DEFINE o(x) == {i \in DOMAIN x : x[i] # song}
           k == Append(l, song)
<1>1. k \in Seq(Sounds) /\ Len(k) = Len(l) + 1 /\ k[Len(l) + 1] = song /\ \A i \in 1..Len(l) : k[i] = l[i]
  OBVIOUS
<1>2. DOMAIN k = 1..(Len(l) + 1) /\ DOMAIN l = 1..Len(l) /\ Len(l) \in Nat
  BY <1>1
<1> HIDE DEF k
<1>3. o(k) = o(l)
  BY <1>1, <1>2
<1>4. \A i \in o(l) : k[i] = l[i]
  BY <1>1, <1>2
<1>5. PICK f \in Bijection(o(l), o(m)) :
        (\A i \in o(l) : m[f[i]] = l[i]) /\ \A i, j \in o(l) : i < j => f[i] < f[j]
  BY DEF SameBut
<1>6. f \in Bijection(o(k), o(m)) /\ (\A i \in o(k) : m[f[i]] = k[i]) /\ \A i, j \in o(k) : i < j => f[i] < f[j]
  BY <1>3, <1>4, <1>5
<1>7. SameBut(song, k, m)
  BY <1>6 DEF SameBut
<1> QED BY <1>7 DEF k

\* ... or taken out.
LEMMA SameWithout ==
  ASSUME NEW l \in Seq(Sounds), NEW song, NEW m, NEW i \in 1..Len(l), l[i] = song, SameBut(song, l, m)
  PROVE  SameBut(song, RemoveAt(l, i), m)
<1> DEFINE o(x) == {j \in DOMAIN x : x[j] # song}
           k == RemoveAt(l, i)
           At(j) == IF j < i THEN j ELSE j + 1
<1>1. k \in Seq(Sounds) /\ Len(k) = Len(l) - 1 /\ \A j \in 1..(Len(l) - 1) : k[j] = l[At(j)]
  BY Without
<1>2. DOMAIN k = 1..(Len(l) - 1) /\ DOMAIN l = 1..Len(l) /\ Len(l) \in Nat
  BY <1>1
<1> HIDE DEF k
<1>3. \A j \in o(k) : At(j) \in o(l) /\ k[j] = l[At(j)]
  BY <1>1, <1>2
<1>4. \A j, h \in o(k) : (j < h => At(j) < At(h)) /\ (At(j) = At(h) => j = h)
  BY <1>2
<1>5. ASSUME NEW h \in o(l) PROVE \E j \in o(k) : At(j) = h
  <2>1. h \in 1..Len(l) /\ h # i
    BY <1>2, <1>5
  <2> DEFINE j == IF h < i THEN h ELSE h - 1
  <2>2. j \in 1..(Len(l) - 1) /\ At(j) = h
    BY <1>2, <2>1
  <2>3. j \in o(k)
    BY <1>1, <1>2, <1>5, <2>2
  <2> QED BY <2>2, <2>3
<1>6. PICK f \in Bijection(o(l), o(m)) :
        (\A j \in o(l) : m[f[j]] = l[j]) /\ \A j, h \in o(l) : j < h => f[j] < f[h]
  BY DEF SameBut
<1>7. /\ f \in [o(l) -> o(m)] /\ \A x \in o(m) : \E h \in o(l) : f[h] = x
      /\ \A j, h \in o(l) : f[j] = f[h] => j = h
  BY <1>6, Zenon DEF Bijection, Injection, Surjection, IsInjective
<1> DEFINE g == [j \in o(k) |-> f[At(j)]]
<1> HIDE DEF o, At
<1>8. /\ g \in [o(k) -> o(m)] /\ (\A x \in o(m) : \E j \in o(k) : g[j] = x)
      /\ \A j, h \in o(k) : g[j] = g[h] => j = h
  <2>1. g \in [o(k) -> o(m)]
    BY <1>3, <1>7
  <2>2. ASSUME NEW x \in o(m) PROVE \E j \in o(k) : g[j] = x
    <3>1. PICK h \in o(l) : f[h] = x
      BY <1>7
    <3>2. PICK j \in o(k) : At(j) = h
      BY <1>5
    <3> QED BY <3>1, <3>2
  <2>3. ASSUME NEW j \in o(k), NEW h \in o(k), g[j] = g[h] PROVE j = h
    BY <1>3, <1>4, <1>7, <2>3
  <2> QED BY <2>1, <2>2, <2>3
<1>9. g \in Bijection(o(k), o(m))
  BY <1>8, Zenon DEF Bijection, Injection, Surjection, IsInjective
<1>10. (\A j \in o(k) : m[g[j]] = k[j]) /\ \A j, h \in o(k) : j < h => g[j] < g[h]
  BY <1>3, <1>4, <1>6
<1> HIDE DEF g
<1>11. SameBut(song, k, m)
  BY <1>9, <1>10 DEF SameBut, o
<1> QED BY <1>11 DEF k
-----------------------------------------------------------------------------
LEMMA ResultTypes ==
  ASSUME CallInv
  PROVE  /\ liked \in Liked /\ liked.list \in Seq(Sounds) /\ call \in CallsOf /\ call.song \in Sounds
         /\ call.in \in BOOLEAN /\ call.ok \in BOOLEAN /\ call.found \in SUBSET (1..MaxLiked)
         /\ past \in Pasts /\ past.was \in Befores
<1>1. liked.list \in Seq(Sounds)
  BY Zenon DEF CallInv, Liked
<1>2. call.song \in Sounds /\ call.in \in BOOLEAN /\ call.ok \in BOOLEAN /\ call.found \in SUBSET (1..MaxLiked)
  BY Zenon DEF CallInv, CallsOf
<1>3. past.was \in Befores
  BY Zenon DEF CallInv, LinkRight, Pasts
<1> QED BY <1>1, <1>2, <1>3 DEF CallInv, LinkRight

\* What a command leaves of the history: reasons are only added.
Grew == /\ past'.before = past.before /\ past'.was.meddled = past.was.meddled
        /\ Away => Away'
        /\ past.was.away => past'.was.away

LEMMA Grows ==
  ASSUME CallInv, NEW refusable \in BOOLEAN, NEW clears \in BOOLEAN,
         Done \/ Lost \/ Failing(refusable, clears)
  PROVE  Grew
<1>1. past \in Pasts
  BY ResultTypes
<1>2. CASE Happened("refused") \/ Happened("away")
  BY <1>1, <1>2, HappenedPasts DEF Grew, Away
<1>3. CASE past' = past
  BY <1>3 DEF Grew, Away
<1> QED BY <1>2, <1>3 DEF Done, Lost, MayEnd, Failing

LEMMA DoneGrows == ASSUME CallInv, Done PROVE Grew
  BY Grows
LEMMA LostGrows == ASSUME CallInv, Lost PROVE Grew /\ Away' /\ past'.was.away
<1>1. Grew
  BY Grows
<1>2. past \in Pasts /\ Happened("away")
  BY ResultTypes DEF Lost, MayEnd
<1>3. past'.was["away"] = TRUE
  BY <1>2, HappenedPasts
<1> QED BY <1>1, <1>3 DEF Away
LEMMA FailedGrows == ASSUME CallInv, NEW refusable \in BOOLEAN, Failed(refusable) PROVE Grew
  BY Grows DEF Failed

\* A command that fails at a place that MPD may not refuse has a reason.
LEMMA FailedAway ==
  ASSUME CallInv, Failed(FALSE) PROVE Away'
<1>1. CASE Lost
  BY <1>1, LostGrows
<1>2. CASE link # "ok" /\ UNCHANGED past
  BY <1>2 DEF CallInv, LinkRight, Away
<1> QED BY <1>1, <1>2 DEF Failed, Failing

\* What the call's record is after it goes on or returns.
LEMMA ReturnsWith ==
  ASSUME CallInv, NEW ok, Returns(ok)
  PROVE  /\ call'.at = "done" /\ call'.ok = ok /\ call'.name = call.name /\ call'.song = call.song
         /\ call'.found = call.found /\ call'.in = call.in
<1>1. call' = [call EXCEPT !.at = "done", !.ok = ok] /\ call \in CallsOf
  BY DEF Returns, CallInv
<1> QED BY <1>1, Zenon DEF CallsOf
LEMMA GoesOnWith ==
  ASSUME CallInv, NEW at, GoesTo(at)
  PROVE  /\ call'.at = at /\ call'.ok = call.ok /\ call'.name = call.name /\ call'.song = call.song
         /\ call'.found = call.found /\ call'.in = call.in
<1>1. call' = [call EXCEPT !.at = at] /\ call \in CallsOf
  BY DEF GoesTo, CallInv
<1> QED BY <1>1, Zenon DEF CallsOf

\* A call that is not about the playlist leaves it alone, and one that is, the queue.
LEMMA NotLiked ==
  ASSUME LikeInv, UNCHANGED liked, call'.name \notin {"toggle", "pick"}
  PROVE  LikeInv'
  BY DEF LikeInv, LikeRight, ToggleRight, ListRight
LEMMA NotQueue ==
  ASSUME QueueInv, queue' \in Queues, call'.name \notin {"play", "extra"}
  PROVE  QueueInv'
  BY DEF QueueInv, PlaceRight, PlayRight, ExtraRight

\* What another client or an end of MPD does between two commands.
LEMMA Meanwhile ==
  ASSUME LikeInv, QueueInv, UNCHANGED <<call, liked, queue>>, Grew
  PROVE  LikeInv' /\ QueueInv'
<1>1. Was' = Was /\ Places' = Places /\ ExtraAt' = ExtraAt
  BY DEF Was, Places, ExtraAt, Grew
<1>2. SameBut(call.song, liked.list, past.before) => SameBut(call'.song, liked'.list, past'.before)
  BY DEF Grew
<1>3. LikeRight'
  BY <1>1, <1>2 DEF LikeInv, LikeRight, Grew
<1>4. ToggleRight' /\ ListRight'
  BY <1>1 DEF LikeInv, ToggleRight, ListRight, Grew
<1>5. QueueInv'
  BY <1>1 DEF QueueInv, PlaceRight, PlayRight, ExtraRight, Grew
<1> QED BY <1>3, <1>4, <1>5 DEF LikeInv
-----------------------------------------------------------------------------
LEMMA BeginsResult ==
  ASSUME ResultInv, NEW name, NEW at, NEW song, Begins(name, at, song),
         <<name, at>> \in {<<"read", "ask">>, <<"status", "ask">>, <<"play", "queue">>, <<"extra", "add">>,
                           <<"toggle", "look">>, <<"pick", "list">>, <<"pick", "add">>},
         name = "extra" => ExtraAt = {}
  PROVE  LikeInv' /\ QueueInv'
<1> DEFINE w == [Clean EXCEPT !.away = ~up, !.gone = (link = "gone")]
<1>1. /\ call' = [NoCall EXCEPT !.name = name, !.at = at, !.song = song]
      /\ past' = [before |-> liked.list, was |-> w] /\ UNCHANGED <<link, up, liked, queue, mpdcount>>
  BY DEF Begins
<1>2. call'.name = name /\ call'.at = at /\ call'.song = song /\ call'.in = FALSE
  BY <1>1 DEF NoCall
<1> HIDE DEF w
<1>3. past'.before = liked.list /\ liked' = liked /\ queue' = queue
  BY <1>1
<1>4. liked.list \in Seq(Sounds)
  BY ResultTypes DEF ResultInv
<1>5. SameBut(song, liked.list, liked.list)
  BY <1>4, SameSelf
<1>6. LikeRight'
  BY <1>2, <1>3, <1>5 DEF LikeRight
<1>7. ToggleRight' /\ ListRight'
  BY <1>2, <1>3 DEF ResultInv, LikeInv, ToggleRight, ListRight
<1>8. ExtraAt' = ExtraAt
  BY <1>3 DEF ExtraAt
<1>9. QueueInv'
  BY <1>2, <1>3, <1>8 DEF ResultInv, QueueInv, PlaceRight, PlayRight, ExtraRight
<1> QED BY <1>6, <1>7, <1>9 DEF LikeInv

LEMMA AskResult ==
  ASSUME ResultInv, AskOne \/ Status
  PROVE  LikeInv' /\ QueueInv'
<1>1. call.name \in {"read", "status"} /\ UNCHANGED <<liked, queue>>
  BY DEF AskOne, Status, CallAt
<1>2. call'.name = call.name
  BY ReturnsWith, GoesOnWith DEF AskOne, Status, ResultInv
<1> QED BY <1>1, <1>2, NotLiked, NotQueue DEF ResultInv, QueueInv

\* The songs of an album are a list, and there are some.
LEMMA AlbumThere == Album \in Seq(Sounds) /\ Album # <<>>
<1>1. Cardinality(Tracks) \in Nat /\ ExistsBijection(1..Cardinality(Tracks), Tracks) /\ Cardinality(Tracks) # 0
  BY MpdAssumption, FS_CardinalityType, FS_EmptySet
<1> DEFINE n == Cardinality(Tracks)
<1>2. \E f \in [1..n -> Tracks] : IsInjective(f)
  BY <1>1, Zenon DEF ExistsBijection, Bijection, Injection
<1>3. Album \in [1..n -> Tracks]
  BY <1>2 DEF Album, SetToSeq
<1> HIDE DEF n
<1>4. n \in Nat /\ n # 0
  BY <1>1 DEF n
<1>5. Album \in Seq(Tracks) /\ Len(Album) = n
  BY <1>3, <1>4
<1>6. Album \in Seq(Sounds)
  BY <1>3, <1>4 DEF Sounds
<1> QED BY <1>4, <1>5, <1>6

LEMMA PlayResult ==
  ASSUME ResultInv, PlaySongs
  PROVE  LikeInv' /\ QueueInv'
<1>1. UNCHANGED liked /\ call.name = "play"
  BY DEF PlaySongs, CallAt
<1>2. call'.name = "play"
  BY <1>1, ReturnsWith, GoesOnWith DEF PlaySongs, ResultInv
<1>3. LikeInv'
  BY <1>1, <1>2, NotLiked DEF ResultInv
<1>4. ExtraRight'
  BY <1>2 DEF ExtraRight
<1>5. CASE Done /\ GoesTo("start") /\ queue' = [songs |-> Album, plays |-> FALSE]
  <2>1. queue' \in Queues
    BY <1>5, AlbumThere DEF Queues
  <2>2. call'.at = "start"
    BY <1>5, GoesOnWith DEF ResultInv
  <2> QED BY <1>2, <1>3, <1>4, <1>5, <2>1, <2>2 DEF QueueInv, PlaceRight, PlayRight
<1>6. CASE Returns(FALSE) /\ queue' \in Queues
  <2>1. call'.at = "done" /\ call'.ok = FALSE
    BY <1>6, ReturnsWith DEF ResultInv
  <2> QED BY <1>2, <1>3, <1>4, <1>6, <2>1 DEF QueueInv, PlaceRight, PlayRight
<1>7. CASE /\ CallAt("play", "start") /\ Done /\ Returns(TRUE)
           /\ queue' = [queue EXCEPT !.plays = @ \/ queue.songs # <<>>]
  <2>1. call'.at = "done" /\ call'.ok = TRUE
    BY <1>7, ReturnsWith DEF ResultInv
  <2>2. queue \in Queues
    BY DEF ResultInv, QueueInv
  <2>3. queue.plays \in BOOLEAN /\ queue.songs \in Seq(Sounds)
    BY <2>2, Zenon DEF Queues
  <2> DEFINE p == queue.plays \/ queue.songs # <<>>
  <2>4. p \in BOOLEAN
    OBVIOUS
  <2>5. queue' = [queue EXCEPT !.plays = p]
    BY <1>7
  <2> HIDE DEF p
  <2>6. queue' \in Queues
    BY <2>2, <2>4, <2>5, Zenon DEF Queues
  <2>7. past' = past
    BY <1>7 DEF Done
  <2>8. ASSUME ~past'.was.meddled PROVE queue' = [songs |-> Album, plays |-> TRUE]
    <3>1. queue = [songs |-> Album, plays |-> FALSE]
      BY <1>1, <1>7, <2>7, <2>8 DEF ResultInv, QueueInv, PlayRight, CallAt
    <3>2. p = TRUE
      BY <3>1, AlbumThere DEF p
    <3> QED BY <2>5, <3>1, <3>2
  <2>9. PlayRight'
    BY <2>1, <2>8 DEF PlayRight
  <2>10. PlaceRight'
    BY <1>2, <2>1 DEF PlaceRight
  <2> QED BY <1>3, <1>4, <2>6, <2>9, <2>10 DEF QueueInv
<1>8. ASSUME NEW n \in 0..Len(Album) - 1, queue' = [songs |-> SubSeq(Album, 1, n), plays |-> FALSE]
      PROVE  queue' \in Queues
  <2>1. SubSeq(Album, 1, n) \in Seq(Sounds)
    BY AlbumThere
  <2> QED BY <1>8, <2>1 DEF Queues
<1>9. UNCHANGED queue => queue' \in Queues
  BY DEF ResultInv, QueueInv
<1> QED BY <1>5, <1>6, <1>7, <1>8, <1>9 DEF PlaySongs
-----------------------------------------------------------------------------
\* The deletion of an extra sound leaves a list, and no other if there was one.
LEMMA DeleteIdLeaves ==
  ASSUME queue \in Queues, DeleteId
  PROVE  queue' \in Queues /\ ((\A i, j \in ExtraAt : i = j) => ExtraAt' = {})
<1>1. PICK i \in ExtraAt : queue' = [queue EXCEPT !.songs = RemoveAt(@, i)]
  BY DEF DeleteId
<1>2. queue.songs \in Seq(Sounds)
  BY Zenon DEF Queues
<1>3. i \in 1..Len(queue.songs)
  BY <1>2 DEF ExtraAt
<1> DEFINE l == queue.songs
           k == RemoveAt(l, i)
<1>4. k \in Seq(Sounds) /\ Len(k) = Len(l) - 1 /\ \A j \in 1..(Len(l) - 1) : k[j] = l[IF j < i THEN j ELSE j + 1]
  BY <1>2, <1>3, Without
<1> HIDE DEF k
<1>5. queue' = [queue EXCEPT !.songs = k]
  BY <1>1 DEF k
<1>6. queue' \in Queues /\ queue'.songs = k
  BY <1>4, <1>5, Zenon DEF Queues
<1>7. ASSUME \A h, j \in ExtraAt : h = j, NEW j \in ExtraAt' PROVE FALSE
  <2>1. Len(l) \in Nat /\ j \in 1..(Len(l) - 1) /\ k[j] = Extra
    BY <1>2, <1>4, <1>6, <1>7 DEF ExtraAt
  <2>2. (IF j < i THEN j ELSE j + 1) \in ExtraAt
    BY <1>2, <1>4, <2>1 DEF ExtraAt
  <2>3. (IF j < i THEN j ELSE j + 1) = i
    BY <1>7, <2>2
  <2> QED BY <1>3, <2>1, <2>3
<1> QED BY <1>6, <1>7

LEMMA ExtraResult ==
  ASSUME ResultInv, PlayExtra
  PROVE  LikeInv' /\ QueueInv'
<1>1. UNCHANGED liked /\ call.name = "extra"
  BY DEF PlayExtra, CallAt
<1>2. call'.name = "extra"
  BY <1>1, ReturnsWith, GoesOnWith DEF PlayExtra, ResultInv
<1>3. LikeInv'
  BY <1>1, <1>2, NotLiked DEF ResultInv
<1>4. PlayRight'
  BY <1>2 DEF PlayRight
<1>5. queue \in Queues
  BY DEF ResultInv, QueueInv
<1>6. SUFFICES queue' \in Queues /\ PlaceRight' /\ ExtraRight'
  BY <1>3, <1>4 DEF QueueInv
<1>a. \A ok : Returns(ok) => call'.at = "done" /\ call'.ok = ok /\ PlaceRight'
  BY <1>2, ReturnsWith DEF ResultInv, PlaceRight
<1>b. \A at \in {"seek", "unpause", "remove"} : GoesTo(at) => call'.at = at /\ PlaceRight'
  BY <1>2, GoesOnWith DEF ResultInv, PlaceRight
<1>c. UNCHANGED queue => queue' \in Queues /\ ExtraAt' = ExtraAt
  BY <1>5 DEF ExtraAt
<1>d. Done \/ Failed(TRUE) \/ Lost => past'.was.meddled = past.was.meddled
  BY DoneGrows, FailedGrows, LostGrows DEF ResultInv, Grew
<1>e. ~past.was.meddled => /\ call.at = "add" => ExtraAt = {}
                           /\ call.at # "done" => \A i, j \in ExtraAt : i = j
  BY <1>1 DEF ResultInv, QueueInv, ExtraRight
<1>7. CASE CallAt("extra", "add") /\ (Done \/ Lost) /\ queue' = [queue EXCEPT !.songs = Append(@, Extra)]
  <2> DEFINE l == queue.songs
             k == Append(l, Extra)
  <2>1. l \in Seq(Sounds) /\ Extra \in Sounds
    BY <1>5, Zenon DEF Queues, Sounds
  <2>2. k \in Seq(Sounds) /\ Len(k) = Len(l) + 1 /\ \A i \in 1..Len(l) : k[i] = l[i]
    BY <2>1
  <2> HIDE DEF k
  <2>3. queue' = [queue EXCEPT !.songs = k]
    BY <1>7 DEF k
  <2>4. queue' \in Queues /\ queue'.songs = k
    BY <1>5, <2>2, <2>3, Zenon DEF Queues
  <2>5. ~past'.was.meddled => ExtraAt = {}
    BY <1>7, <1>d, <1>e DEF CallAt
  <2>6. ExtraAt = {} => \A i \in ExtraAt' : i = Len(l) + 1
    <3>1. ASSUME ExtraAt = {}, NEW i \in ExtraAt' PROVE i = Len(l) + 1
      <4>1. i \in 1..(Len(l) + 1) /\ k[i] = Extra /\ Len(l) \in Nat
        BY <2>1, <2>2, <2>4, <3>1 DEF ExtraAt
      <4>2. i \in 1..Len(l) => i \in ExtraAt
        BY <2>1, <2>2, <4>1 DEF ExtraAt
      <4> QED BY <3>1, <4>1, <4>2
    <3> QED BY <3>1
  <2>7. ~past'.was.meddled => \A i, j \in ExtraAt' : i = j
    BY <2>5, <2>6
  <2>8. CASE Done /\ GoesTo("seek")
    BY <1>b, <2>4, <2>7, <2>8 DEF ExtraRight
  <2>9. CASE Lost /\ Returns(FALSE)
    <3>1. past'.was.away
      BY <2>9, LostGrows DEF ResultInv
    <3> QED BY <1>a, <2>4, <2>7, <2>9, <3>1 DEF ExtraRight
  <2>10. (Done /\ GoesTo("seek")) \/ (Lost /\ Returns(FALSE))
    <3>1. k # l
      BY <2>1, <2>2
    <3>2. ~UNCHANGED queue
      BY <2>4, <3>1
    <3> QED BY <1>7, <3>2 DEF PlayExtra, CallAt
  <2> QED BY <2>8, <2>9, <2>10
<1>8. CASE CallAt("extra", "add") /\ Failed(TRUE) /\ Returns(FALSE) /\ UNCHANGED queue
  BY <1>8, <1>a, <1>c, <1>d, <1>e DEF ExtraRight, CallAt
<1>9. CASE /\ call.at # "done" /\ UNCHANGED queue
           /\ (Done /\ GoesTo("unpause")) \/ (Failed(TRUE) /\ GoesTo("remove"))
  BY <1>9, <1>b, <1>c, <1>d, <1>e DEF ExtraRight
<1>10. CASE Done /\ Returns(TRUE) /\ queue' = [queue EXCEPT !.plays = TRUE]
  <2>1. queue' \in Queues
    BY <1>5, <1>10, Zenon DEF Queues
  <2> QED BY <1>10, <1>a, <2>1 DEF ExtraRight
<1>11. CASE CallAt("extra", "remove") /\ Returns(FALSE) /\ Done /\ DeleteId
  BY <1>5, <1>11, <1>a, <1>d, <1>e, DeleteIdLeaves DEF ExtraRight, CallAt
<1>12. CASE CallAt("extra", "remove") /\ Returns(FALSE) /\ Failed(ExtraAt = {}) /\ UNCHANGED queue
  <2>1. past.was.away \/ link = "ok"
    BY <1>12 DEF CallAt, ResultInv, CallInv, First, Mendable
  <2>2. past'.was.away \/ ExtraAt = {}
    <3>1. Grew
      BY <1>12, FailedGrows DEF ResultInv
    <3>2. CASE Lost
      BY <3>2, LostGrows DEF ResultInv
    <3> QED BY <1>12, <2>1, <3>1, <3>2 DEF Failed, Failing, Grew
  <2> QED BY <1>12, <1>a, <1>c, <2>2 DEF ExtraRight
<1> QED BY <1>7, <1>8, <1>9, <1>10, <1>11, <1>12 DEF PlayExtra, CallAt

LEMMA TakeOutResult ==
  ASSUME ResultInv, TakeOut
  PROVE  LikeInv' /\ QueueInv'
<1>1. UNCHANGED liked /\ call'.name = "none"
  BY DEF TakeOut, NoCall
<1>2. queue' \in Queues
  BY DeleteIdLeaves DEF TakeOut, ResultInv, QueueInv
<1> QED BY <1>1, <1>2, NotLiked, NotQueue DEF ResultInv
-----------------------------------------------------------------------------
\* A step of a call on the playlist that leaves the queue.
LEMMA QueueLeft ==
  ASSUME ResultInv, UNCHANGED queue, call.name \notin {"play", "extra"}, call'.name = call.name
  PROVE  QueueInv'
  BY NotQueue DEF ResultInv, QueueInv

LEMMA LookUpResult ==
  ASSUME ResultInv, LookUp
  PROVE  LikeInv' /\ QueueInv'
<1>1. call.name = "toggle" /\ call.at = "look" /\ UNCHANGED <<liked, queue>>
  BY DEF LookUp, CallAt
<1>2. PICK at \in {"list", "add"} : GoesTo(at) /\ (at = "list" => liked.exists /\ Done /\ Places # {})
                                   /\ (at = "add" => (Done /\ Places = {}) \/ Failed(~liked.exists))
  BY DEF LookUp
<1>3. call'.at = at /\ call'.name = "toggle" /\ call'.song = call.song /\ call'.in = call.in
  BY <1>1, <1>2, GoesOnWith DEF ResultInv
<1>4. (~liked.exists) \in BOOLEAN
  OBVIOUS
<1>5. Grew
  BY <1>2, <1>4, DoneGrows, FailedGrows DEF ResultInv
<1>6. Was' = Was
  BY <1>3, <1>5 DEF Was, Grew
<1>7. ~past.was.meddled => (Places # {} <=> Was)
  BY <1>1 DEF ResultInv, LikeInv, LikeRight, Places, Was
<1>8. ~liked.exists /\ ~past.was.meddled => ~Was
  BY <1>7 DEF ResultInv, LikeInv, ListRight, Places
<1>9. Failed(~liked.exists) => ~liked.exists \/ Away'
  <2>1. CASE Lost
    BY <2>1, LostGrows DEF ResultInv
  <2>2. CASE link # "ok" /\ UNCHANGED past
    BY <2>2 DEF ResultInv, CallInv, LinkRight, Away
  <2> QED BY <2>1, <2>2 DEF Failed, Failing
<1>10. LikeRight'
  <2>1. SameBut(call.song, liked.list, past.before) => SameBut(call'.song, liked'.list, past'.before)
    BY <1>1, <1>3, <1>5 DEF Grew
  <2> QED BY <1>1, <1>2, <1>3, <1>5, <2>1 DEF ResultInv, LikeInv, LikeRight, Grew
<1>11. ToggleRight'
  BY <1>1, <1>2, <1>3, <1>5, <1>6, <1>7, <1>8, <1>9 DEF ToggleRight, Grew
<1>12. ListRight'
  BY <1>1, <1>2, <1>3 DEF ResultInv, LikeInv, ListRight
<1> QED BY <1>1, <1>3, <1>10, <1>11, <1>12, QueueLeft DEF LikeInv

\* A call that returns with nothing done.
LEMMA FailsLike ==
  ASSUME ResultInv, UNCHANGED <<liked, queue>>, Returns(FALSE), Grew, call.name \notin {"play", "extra"}
  PROVE  LikeInv' /\ QueueInv'
<1>1. /\ call'.at = "done" /\ call'.ok = FALSE /\ call'.name = call.name /\ call'.song = call.song
  BY ReturnsWith DEF ResultInv
<1>2. SameBut(call.song, liked.list, past.before) => SameBut(call'.song, liked'.list, past'.before)
  BY <1>1 DEF Grew
<1>3. LikeRight' /\ ToggleRight'
  BY <1>1, <1>2 DEF ResultInv, LikeInv, LikeRight, ToggleRight, Grew
<1>4. ListRight'
  BY <1>1 DEF ResultInv, LikeInv, ListRight
<1> QED BY <1>1, <1>3, <1>4, QueueLeft DEF LikeInv

LEMMA AddResult ==
  ASSUME ResultInv, Add
  PROVE  LikeInv' /\ QueueInv'
<1>1. call.at = "add" /\ call.name \notin {"play", "extra"} /\ UNCHANGED queue
  BY DEF Add, ResultInv, QueueInv, PlaceRight
<1>2. CASE Failed(TRUE) /\ Returns(FALSE) /\ UNCHANGED liked
  BY <1>1, <1>2, FailedGrows, FailsLike DEF ResultInv
<1>3. CASE /\ Done \/ Lost
           /\ liked' = [exists |-> TRUE, list |-> Append(liked.list, call.song)]
           /\ call' = [call EXCEPT !.at = "done", !.ok = up', !.in = TRUE]
  <2>0. liked.list \in Seq(Sounds) /\ call.song \in Sounds /\ call \in CallsOf
    BY ResultTypes DEF ResultInv
  <2>1. /\ call'.at = "done" /\ call'.in = TRUE /\ call'.name = call.name /\ call'.song = call.song
    BY <1>3, <2>0, Zenon DEF CallsOf
  <2>2. Grew /\ (~Done => Away')
    BY <1>3, DoneGrows, LostGrows DEF ResultInv
  <2> DEFINE k == Append(liked.list, call.song)
  <2>3. SameBut(call.song, liked.list, past.before) => SameBut(call.song, k, past.before)
    BY <2>0, SameAdded
  <2>4. k \in Seq(Sounds) /\ Len(liked.list) + 1 \in DOMAIN k /\ k[Len(liked.list) + 1] = call.song
    BY <2>0
  <2> HIDE DEF k
  <2>5. liked' = [exists |-> TRUE, list |-> k]
    BY <1>3 DEF k
  <2>6. liked'.exists = TRUE /\ liked'.list = k
    BY <2>5
  <2>7. Places' # {}
    BY <2>1, <2>4, <2>6 DEF Places
  <2>8. SameBut(call.song, liked.list, past.before) => SameBut(call'.song, liked'.list, past'.before)
    BY <2>1, <2>2, <2>3, <2>6 DEF Grew
  <2>9. LikeRight'
    BY <2>1, <2>2, <2>7, <2>8 DEF ResultInv, LikeInv, LikeRight, Grew
  <2>10. Was' = Was
    BY <2>1, <2>2 DEF Was, Grew
  <2>11. ToggleRight'
    BY <1>1, <2>1, <2>2, <2>10 DEF ResultInv, LikeInv, ToggleRight, Grew
  <2>12. ListRight'
    BY <2>1, <2>6 DEF ListRight
  <2> QED BY <1>1, <2>1, <2>9, <2>11, <2>12, QueueLeft DEF LikeInv
<1> QED BY <1>2, <1>3 DEF Add

LEMMA ListResult ==
  ASSUME ResultInv, List
  PROVE  LikeInv' /\ QueueInv'
<1>1. call.at = "list" /\ call.name \notin {"play", "extra"} /\ UNCHANGED <<liked, queue>>
  BY DEF List, ResultInv, QueueInv, PlaceRight
<1>2. CASE liked.exists /\ Done /\ call' = [call EXCEPT !.at = "delete", !.found = Places]
  <2>1. /\ call'.at = "delete" /\ call'.found = Places /\ call'.name = call.name /\ call'.song = call.song
        /\ call'.in = call.in
    <3> DEFINE P == Places
    <3>1. call' = [call EXCEPT !.at = "delete", !.found = P] /\ call \in CallsOf
      BY <1>2, ResultTypes DEF ResultInv
    <3> HIDE DEF P
    <3>2. call'.found = P /\ call'.at = "delete" /\ call'.name = call.name /\ call'.song = call.song /\ call'.in = call.in
      BY <3>1, Zenon DEF CallsOf
    <3> QED BY <3>2 DEF P
  <2>2. Grew
    BY <1>2, DoneGrows DEF ResultInv
  <2>3. Places' = Places /\ Was' = Was
    BY <1>1, <2>1, <2>2 DEF Places, Was, Grew
  <2>4. SameBut(call.song, liked.list, past.before) => SameBut(call'.song, liked'.list, past'.before)
    BY <1>1, <2>1, <2>2 DEF Grew
  <2>5. LikeRight' /\ ToggleRight' /\ ListRight'
    BY <1>1, <1>2, <2>1, <2>2, <2>3, <2>4 DEF ResultInv, LikeInv, LikeRight, ToggleRight, ListRight, Grew
  <2> QED BY <1>1, <2>1, <2>5, QueueLeft DEF LikeInv
<1>3. CASE Failed(~liked.exists) /\ Returns(TRUE)
  <2>1. /\ call'.at = "done" /\ call'.name = call.name /\ call'.song = call.song /\ call'.in = call.in
    BY <1>3, ReturnsWith DEF ResultInv
  <2>2. (~liked.exists) \in BOOLEAN
    OBVIOUS
  <2>3. Grew
    BY <1>3, <2>2, FailedGrows DEF ResultInv
  <2>4. ~liked.exists \/ Away'
    <3>1. CASE Lost
      BY <3>1, LostGrows DEF ResultInv
    <3>2. CASE link # "ok" /\ UNCHANGED past
      BY <3>2 DEF ResultInv, CallInv, LinkRight, Away
    <3> QED BY <1>3, <3>1, <3>2 DEF Failed, Failing
  <2>5. ~liked.exists => Places = {}
    BY DEF ResultInv, LikeInv, ListRight, Places
  <2>6. Places' = Places /\ Was' = Was
    BY <1>1, <2>1, <2>3 DEF Places, Was, Grew
  <2>7. SameBut(call.song, liked.list, past.before) => SameBut(call'.song, liked'.list, past'.before)
    BY <1>1, <2>1, <2>3 DEF Grew
  <2>8. call.in \in BOOLEAN /\ call'.in \in BOOLEAN
    BY <2>1, ResultTypes DEF ResultInv
  <2>9. LikeRight'
    BY <1>1, <2>1, <2>3, <2>4, <2>5, <2>6, <2>7, <2>8 DEF ResultInv, LikeInv, LikeRight, Grew
  <2>10. ToggleRight' /\ ListRight'
    BY <1>1, <2>1, <2>3, <2>4 DEF ResultInv, LikeInv, ToggleRight, ListRight, Grew
  <2> QED BY <1>1, <2>1, <2>9, <2>10, QueueLeft DEF LikeInv
<1> QED BY <1>2, <1>3 DEF List

\* Of some positions there is a last one.
LEMMA LastOf ==
  ASSUME NEW n \in Nat, NEW P \in SUBSET (1..n), P # {}
  PROVE  \E i \in P : \A k \in P : k <= i
<1> DEFINE T == {k \in Nat : \E i \in P : k = n - i}
<1>1. T \subseteq Nat /\ T # {}
  <2>1. PICK i \in P : TRUE
    OBVIOUS
  <2>2. n - i \in Nat
    BY <2>1
  <2> QED BY <2>2
<1>2. PICK k \in T : \A h \in T : ~(<<h, k>> \in OpToRel(<, Nat))
  BY <1>1, NatLessThanWellFounded, WFMin
<1>3. \A h \in T : ~(h < k)
  BY <1>2 DEF OpToRel
<1>4. PICK i \in P : k = n - i
  BY <1>2
<1>5. ASSUME NEW j \in P PROVE j <= i
  <2>1. n - j \in T
    BY <1>5
  <2>2. ~(n - j < n - i)
    BY <1>3, <1>4, <2>1
  <2> QED BY <1>5, <2>2
<1> QED BY <1>5

LEMMA NextPlaceIs ==
  ASSUME CallInv, call.found # {}
  PROVE  NextPlace \in call.found /\ \A k \in call.found : k <= NextPlace
<1>1. call.found \in SUBSET (1..MaxLiked) /\ MaxLiked \in Nat
  BY ResultTypes, MpdAssumption
<1>2. \E i \in call.found : \A k \in call.found : k <= i
  BY <1>1, LastOf
<1> QED BY <1>2 DEF NextPlace

LEMMA DeleteResult ==
  ASSUME ResultInv, Delete
  PROVE  LikeInv' /\ QueueInv'
<1>1. call.at = "delete" /\ call.name \notin {"play", "extra"} /\ UNCHANGED queue
  BY DEF Delete, ResultInv, QueueInv, PlaceRight
<1>0. call.in \in BOOLEAN /\ liked \in Liked /\ liked.list \in Seq(Sounds) /\ call \in CallsOf
  BY ResultTypes DEF ResultInv
<1>2. CASE call.found = {} /\ Returns(TRUE) /\ UNCHANGED <<link, up, liked, past, mpdcount>>
  <2>1. /\ call'.at = "done" /\ call'.name = call.name /\ call'.song = call.song /\ call'.in = call.in
    BY <1>2, ReturnsWith DEF ResultInv
  <2>2. Places' = Places /\ Was' = Was /\ Away' = Away
    BY <1>2, <2>1 DEF Places, Was, Away
  <2>3. SameBut(call.song, liked.list, past.before) => SameBut(call'.song, liked'.list, past'.before)
    BY <1>2, <2>1
  <2>4. LikeRight'
    BY <1>0, <1>1, <1>2, <2>1, <2>2, <2>3 DEF ResultInv, LikeInv, LikeRight
  <2>5. ToggleRight' /\ ListRight'
    <3>1. call.name \in {"toggle", "pick"} /\ ~past.was.meddled => ~call.in
      BY <1>1 DEF ResultInv, LikeInv, LikeRight
    <3> QED BY <1>0, <1>1, <1>2, <2>1, <2>2, <3>1 DEF ResultInv, LikeInv, ToggleRight, ListRight
  <2> QED BY <1>1, <2>1, <2>4, <2>5, QueueLeft DEF LikeInv
<1>3. CASE /\ call.found # {} /\ NextPlace \in DOMAIN liked.list
           /\ liked' = [liked EXCEPT !.list = RemoveAt(@, NextPlace)]
           /\ (Done /\ call' = [call EXCEPT !.found = @ \ {NextPlace}]) \/ (Lost /\ Returns(FALSE))
  <2> DEFINE l == liked.list
             i == NextPlace
             k == RemoveAt(l, i)
             f == call.found \ {i}
  <2>1. i \in 1..Len(l) /\ i \in call.found /\ \A j \in call.found : j <= i
    BY <1>0, <1>3, NextPlaceIs DEF ResultInv
  <2> HIDE DEF i
  <2>2. k \in Seq(Sounds) /\ Len(k) = Len(l) - 1 /\ \A j \in 1..(Len(l) - 1) : k[j] = l[IF j < i THEN j ELSE j + 1]
    BY <1>0, <2>1, Without
  <2> DEFINE about == call.name \in {"toggle", "pick"} /\ ~past.was.meddled
  <2>3. about => /\ SameBut(call.song, l, past.before) /\ call.found = Places /\ ~call.in
    BY <1>1 DEF ResultInv, LikeInv, LikeRight
  <2>4. about => l[i] = call.song
    BY <2>1, <2>3 DEF Places
  <2>5. about => SameBut(call.song, k, past.before)
    BY <1>0, <2>1, <2>3, <2>4, SameWithout
  <2> HIDE DEF k
  <2>6. liked' = [liked EXCEPT !.list = k]
    BY <1>3 DEF k, i
  <2>7. liked'.list = k /\ liked'.exists = liked.exists
    BY <1>0, <2>6, Zenon DEF Liked
  <2>8. (Done /\ call' = [call EXCEPT !.found = f]) \/ (Lost /\ Returns(FALSE))
    BY <1>3 DEF i
  <2>9. /\ call'.name = call.name /\ call'.song = call.song /\ call'.in = call.in
        /\ (call'.at = "delete" /\ call'.found = f) \/ (call'.at = "done" /\ call'.ok = FALSE)
    <3>1. CASE Lost /\ Returns(FALSE)
      BY <3>1, ReturnsWith DEF ResultInv
    <3>2. CASE call' = [call EXCEPT !.found = f]
      <4> HIDE DEF f
      <4>1. /\ call'.name = call.name /\ call'.song = call.song /\ call'.in = call.in
            /\ call'.at = call.at /\ call'.found = f
        BY <1>0, <3>2, Zenon DEF CallsOf
      <4> QED BY <1>1, <4>1
    <3> QED BY <2>8, <3>1, <3>2
  <2>10. Grew
    BY <2>8, DoneGrows, LostGrows DEF ResultInv
  <2>11. about => Places' = f
    <3> SUFFICES ASSUME about PROVE Places' = f
      OBVIOUS
    <3>1. Places' = {j \in DOMAIN k : k[j] = call.song}
      BY <2>7, <2>9 DEF Places
    <3>2. DOMAIN k = 1..(Len(l) - 1) /\ Len(l) \in Nat /\ DOMAIN l = 1..Len(l)
      BY <1>0, <2>2
    <3>3. call.found = {j \in DOMAIN l : l[j] = call.song}
      BY <2>3 DEF Places
    <3>4. ASSUME NEW j \in f PROVE j \in Places'
      <4>1. j \in 1..(Len(l) - 1) /\ j < i /\ l[j] = call.song
        BY <2>1, <3>2, <3>3, <3>4
      <4>2. k[j] = l[j]
        BY <2>2, <4>1
      <4> QED BY <3>1, <3>2, <4>1, <4>2
    <3>5. ASSUME NEW j \in Places' PROVE j \in f
      <4>1. j \in 1..(Len(l) - 1) /\ k[j] = call.song
        BY <3>1, <3>2, <3>5
      <4>2. CASE j < i
        BY <2>1, <2>2, <3>2, <3>3, <4>1, <4>2
      <4>3. CASE ~(j < i)
        <5>1. k[j] = l[j + 1] /\ j + 1 \in 1..Len(l)
          BY <2>2, <3>2, <4>1, <4>3
        <5>2. j + 1 \in call.found
          BY <3>2, <3>3, <4>1, <5>1
        <5> QED BY <2>1, <3>2, <4>1, <4>3, <5>2
      <4> QED BY <4>2, <4>3
    <3> QED BY <3>4, <3>5
  <2>12. Was' = Was
    BY <2>9, <2>10 DEF Was, Grew
  <2> HIDE DEF f
  <2>13. about => SameBut(call'.song, liked'.list, past'.before)
    BY <2>5, <2>7, <2>9, <2>10 DEF Grew
  <2>14. LikeRight'
    BY <2>3, <2>9, <2>10, <2>11, <2>13 DEF LikeRight, Grew
  <2>15. ToggleRight'
    BY <1>1, <2>9, <2>10, <2>12 DEF ResultInv, LikeInv, ToggleRight, Grew
  <2>16. ListRight'
    <3>1. liked.exists
      BY <1>0, <2>1 DEF ResultInv, LikeInv, ListRight
    <3> QED BY <2>7, <3>1 DEF ListRight
  <2> QED BY <1>1, <2>9, <2>14, <2>15, <2>16, QueueLeft DEF LikeInv
<1>4. CASE Failed(NextPlace \notin DOMAIN liked.list) /\ Returns(FALSE) /\ UNCHANGED liked
  <2>1. (NextPlace \notin DOMAIN liked.list) \in BOOLEAN
    OBVIOUS
  <2> QED BY <1>1, <1>4, <2>1, FailedGrows, FailsLike DEF ResultInv
<1> QED BY <1>2, <1>3, <1>4 DEF Delete
-----------------------------------------------------------------------------
LEMMA WorldResult ==
  ASSUME ResultInv, MpdEnds \/ ComesUp \/ Meddles
  PROVE  LikeInv' /\ QueueInv'
<1>0. past \in Pasts
  BY ResultTypes DEF ResultInv
<1>1. CASE MpdEnds
  <2>1. Grew
    BY <1>0, <1>1, HappenedPasts DEF MpdEnds, MayEnd, Grew, Away
  <2> QED BY <1>1, <2>1, Meanwhile DEF ResultInv, MpdEnds
<1>2. CASE ComesUp
  BY <1>2, Meanwhile DEF ResultInv, ComesUp, Grew, Away
<1>3. CASE Meddles
  <2>1. Happened("meddled") /\ UNCHANGED call
    BY <1>3 DEF Meddles
  <2>2. past'.was["meddled"] = TRUE
    BY <1>0, <2>1, HappenedPasts
  <2>3. ListRight'
    <3>1. CASE UNCHANGED liked
      BY <2>1, <3>1 DEF ResultInv, LikeInv, ListRight
    <3>2. CASE liked.list # <<>> /\ liked' = [liked EXCEPT !.list = Tail(@)]
      <4>1. liked.exists
        BY <3>2 DEF ResultInv, LikeInv, ListRight
      <4>2. liked'.exists = liked.exists
        <5> DEFINE t == Tail(liked.list)
        <5> HIDE DEF t
        <5>1. liked' = [liked EXCEPT !.list = t] /\ liked \in Liked
          BY <3>2, ResultTypes DEF t, ResultInv
        <5> QED BY <5>1, Zenon DEF Liked
      <4> QED BY <4>1, <4>2 DEF ListRight
    <3> QED BY <1>3, <3>1, <3>2 DEF Meddles
  <2>4. LikeInv'
    BY <2>2, <2>3 DEF LikeInv, LikeRight, ToggleRight
  <2>5. queue' \in Queues
    <3>1. CASE UNCHANGED queue
      BY <3>1 DEF ResultInv, QueueInv
    <3>2. CASE queue' = [songs |-> <<>>, plays |-> FALSE]
      <4>1. <<>> \in Seq(Sounds)
        OBVIOUS
      <4> QED BY <3>2, <4>1 DEF Queues
    <3> QED BY <1>3, <3>1, <3>2 DEF Meddles
  <2>6. PlaceRight'
    BY <2>1 DEF ResultInv, QueueInv, PlaceRight
  <2>7. QueueInv'
    BY <2>2, <2>5, <2>6 DEF QueueInv, PlayRight, ExtraRight
  <2> QED BY <2>4, <2>7
<1> QED BY <1>1, <1>2, <1>3

LEMMA ResultStarts == ClientInit => ResultInv
<1> SUFFICES ASSUME ClientInit PROVE LikeInv /\ QueueInv
  BY CallStarts DEF ResultInv
<1>2. ~liked.exists => liked.list = <<>>
  BY DEF ClientInit, LikedInit
<1>3. call.name = "none"
  BY DEF ClientInit, NoCall
<1>4. <<>> \in Seq(Sounds)
  OBVIOUS
<1>5. queue \in Queues
  BY <1>4 DEF ClientInit, Queues
<1> QED BY <1>2, <1>3, <1>5 DEF LikeInv, LikeRight, ToggleRight, ListRight, QueueInv, PlaceRight, PlayRight, ExtraRight

LEMMA ResultSteps == ResultInv /\ [ClientNext]_clientVars => ResultInv'
<1> SUFFICES ASSUME ResultInv, [ClientNext]_clientVars PROVE LikeInv' /\ QueueInv'
  BY CallSteps DEF ResultInv
<1>1. CASE UNCHANGED clientVars
  BY <1>1, Meanwhile DEF clientVars, ResultInv, Grew, Away
<1>2. CASE Calls
  BY <1>2, BeginsResult DEF Calls, PickerClick
<1> QED BY <1>1, <1>2, AskResult, PlayResult, ExtraResult, TakeOutResult, LookUpResult, AddResult, ListResult,
           DeleteResult, WorldResult DEF ClientNext

\* A song liked or unliked is so, once, and no other is touched; what was to be
\* played is played whole, and a sound that could not be started is out of the queue
\* again (mpd_client.c, playlist_membership.c, playlist_picker.c).
THEOREM ResultsInvariant == ClientSpec => []ResultsTrue
<1>1. ResultInv => ResultsTrue
  BY DEF ResultInv, LikeInv, LikeRight, ToggleRight, QueueInv, PlayRight, ExtraRight,
         ResultsTrue, LikesTrue, PlaysWhole, Was, Away
<1> QED BY <1>1, ResultStarts, ResultSteps, PTL DEF ClientSpec
=============================================================================
