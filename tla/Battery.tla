------------------------------- MODULE Battery -------------------------------
(***************************************************************************)
(* The battery: the thread that reads the PiSugar and hands on what it     *)
(* read (src/src/power/battery.c), the gauge that makes a level and "about *)
(* empty" of it (src/src/power/gauge.c), and who acts on that              *)
(* (on_battery_changed() in src/src/app.c).                                *)
(*                                                                         *)
(* The chip and the cell are external: any reading may follow any other,   *)
(* or none may come.  The average, a double, is any voltage between the    *)
(* one before and the reading's.  Levels and times are scaled.             *)
(***************************************************************************)
EXTENDS Integers, Sequences

CONSTANTS Curve,     \* k_curve: <<voltage, level>>, the highest first
          Voltages,  \* the readings, in mV
          Charging,  \* CHARGING_MV
          Slack,     \* SLACK_LEVELS
          Critical,  \* RPOD_GAUGE_CRITICAL_LEVEL
          Warnings,  \* the levels at which a warning is shown
          StepTime,  \* CHARGE_STEP_MS
          LowTime,   \* CRITICAL_MS
          Delays,    \* times between two readings
          MaxReads   \* bound: readings, tried ones too

NoneYet == 100 \* g_battery_warned, when no warning has been shown: above any other

Voltage(i) == Curve[i][1]
Level(i)   == Curve[i][2]
ASSUME BatteryAssumption ==
  /\ DOMAIN Curve = 1..Len(Curve) /\ Len(Curve) \in Nat \ {0} /\ Level(Len(Curve)) = 0
  /\ \A i \in 1..Len(Curve) : Voltage(i) \in Int /\ Level(i) \in Int
  /\ \A i, j \in 1..Len(Curve) : i < j => Voltage(j) < Voltage(i) /\ Level(j) <= Level(i)
  /\ Voltages \subseteq Int /\ {Charging, Critical, MaxReads} \subseteq Int
  /\ {Slack, StepTime, LowTime} \subseteq Nat \ {0} /\ Delays \subseteq Nat \ {0}
  /\ Warnings \subseteq Nat /\ \A w \in Warnings : w < NoneYet

VARIABLES
  gauge,   \* rpod_gauge_t
  shared,  \* g.shared, and its g.seq
  pub,     \* g.pub and g.pub_seq of the LVGL thread
  app,     \* g_battery_warned, g_power_off_timer, g_powered_off, of the main program
  drain    \* history: for how long there was USB power, how often the level climbed in
           \* it, for how long it was low without it; the warnings on battery; the readings

batteryVars == <<gauge, shared, pub, app, drain>>

NoLevel  == -1
Fresh    == [level |-> NoLevel, usb |-> FALSE, avg |-> 0, rise |-> 0, low |-> 0, critical |-> FALSE]
Missing  == [present |-> FALSE, level |-> NoLevel, usb |-> FALSE, critical |-> FALSE]
Read(g)  == [present |-> TRUE, level |-> g.level, usb |-> g.usb, critical |-> g.critical]

BatteryInit ==
  /\ gauge = Fresh /\ shared = [is |-> Missing, seq |-> 0] /\ pub = shared
  /\ app = [warned |-> NoneYet, timer |-> FALSE, tried |-> FALSE]
  /\ drain = [usb |-> 0, climbed |-> 0, low |-> 0, warnings |-> <<>>, reads |-> 0]
-----------------------------------------------------------------------------
\* rpod_gauge_level_for_mv()
LevelFor(mv) ==
  LET under == {i \in 2..Len(Curve) : mv >= Voltage(i)}
      i     == CHOOSE k \in under : \A l \in under : k <= l
      dv    == Voltage(i - 1) - Voltage(i)
      dl    == Level(i - 1) - Level(i)
  IN  IF mv >= Voltage(1) THEN Level(1)
      ELSE IF under = {} THEN 0
      ELSE Level(i) + ((mv - Voltage(i)) * dl + dv \div 2) \div dv

ClimbedAtOnce(g, level, rise) ==  \* Mutant: what was waited is not used up.
  IF level <= g.level - Slack THEN [g EXCEPT !.level = level, !.rise = rise]
  ELSE IF level > g.level /\ rise >= StepTime THEN [g EXCEPT !.level = @ + 1, !.rise = rise]
  ELSE [g EXCEPT !.rise = IF rise > StepTime THEN StepTime ELSE rise]

\* On USB power the level climbs a point at a time, StepTime apart.
Climbed(g, level, rise) ==
  IF level <= g.level - Slack THEN [g EXCEPT !.level = level, !.rise = rise]
  ELSE IF level > g.level
       THEN IF rise >= StepTime THEN [g EXCEPT !.level = @ + 1, !.rise = rise - StepTime]
            ELSE [g EXCEPT !.rise = rise]
  ELSE [g EXCEPT !.rise = IF rise > StepTime THEN StepTime ELSE rise]

\* On battery it goes down, unless the average has moved well past it.
Drained(g, level) ==
  [g EXCEPT !.rise = 0, !.level = IF level < @ \/ level >= @ + Slack THEN level ELSE @]

\* rpod_gauge_feed() with the average it comes to
Fed(usb, avg, dt) ==
  LET first == gauge.level = NoLevel
      level == LevelFor(avg)
      now   == [gauge EXCEPT !.usb = usb, !.avg = avg]
      shown == IF first THEN [now EXCEPT !.level = level, !.rise = IF usb THEN dt ELSE 0]
               ELSE IF usb THEN Climbed(now, level, gauge.rise + dt) ELSE Drained(now, level)
      low   == gauge.low + IF first THEN 0 ELSE dt
  IN  IF ~usb /\ shown.level <= Critical
      THEN [shown EXCEPT !.low = low, !.critical = @ \/ low >= LowTime]
      ELSE [shown EXCEPT !.low = 0, !.critical = FALSE]

\* The averages a reading may bring about
Averages(mv, usb) ==
  LET rests == IF usb THEN mv - Charging ELSE mv
      all   == {rests} \union Voltages \union {v - Charging : v \in Voltages} \union {gauge.avg}
  IN  IF gauge.level = NoLevel THEN {rests}
      ELSE {v \in all : (gauge.avg <= v /\ v <= rests) \/ (rests <= v /\ v <= gauge.avg)}

\* publish()
Publish(b) == shared' = [is |-> b, seq |-> IF b = shared.is THEN shared.seq ELSE shared.seq + 1]

\* reader(), a sample: dt is 0 after the first, which comes with its own time.
Sample(mv, usb, dt) ==
  /\ drain.reads < MaxReads
  /\ \E avg \in Averages(mv, usb) :
       LET first == gauge.level = NoLevel
           g     == Fed(usb, avg, IF first THEN 0 ELSE dt)
       IN  /\ gauge' = g /\ Publish(Read(g))
           /\ drain' = [drain EXCEPT
                !.reads   = @ + 1,
                !.usb     = IF first \/ ~usb THEN 0 ELSE @ + dt,
                !.climbed = IF first \/ ~usb THEN 0
                            ELSE IF g.level > gauge.level THEN @ + (g.level - gauge.level) ELSE @,
                !.low     = IF first \/ usb \/ g.level > Critical THEN 0 ELSE @ + dt]
  /\ UNCHANGED <<pub, app>>

\* reader(), nothing answers: the gauge begins anew.
NoAnswer ==
  /\ drain.reads < MaxReads /\ gauge' = Fresh /\ Publish(Missing)
  /\ drain' = [drain EXCEPT !.reads = @ + 1, !.usb = 0, !.climbed = 0, !.low = 0]
  /\ UNCHANGED <<pub, app>>
-----------------------------------------------------------------------------
\* on_battery_changed()
Threshold(level) ==
  IF \E w \in Warnings : level <= w
  THEN CHOOSE w \in Warnings : level <= w /\ \A x \in Warnings : level <= x => w <= x
  ELSE NoneYet
OnBatteryChanged(b) ==
  \/ /\ ~b.present \/ b.usb
     /\ app' = [warned |-> NoneYet, timer |-> FALSE, tried |-> FALSE]
     /\ drain' = [drain EXCEPT !.warnings = <<>>]
  \/ /\ b.present /\ ~b.usb /\ b.critical /\ UNCHANGED drain
     /\ app' = [app EXCEPT !.timer = @ \/ ~app.tried]
  \/ /\ b.present /\ ~b.usb /\ ~b.critical
     /\ IF Threshold(b.level) < app.warned
        THEN /\ app' = [app EXCEPT !.warned = Threshold(b.level)]
             /\ drain' = [drain EXCEPT !.warnings = Append(@, Threshold(b.level))]
        ELSE UNCHANGED <<app, drain>>

\* deliver_cb()
Deliver ==
  /\ pub # shared /\ pub' = shared /\ UNCHANGED <<gauge, shared>>
  /\ IF shared.seq # pub.seq THEN OnBatteryChanged(shared.is) ELSE UNCHANGED <<app, drain>>

\* power_off_cb(), which is not done again if it fails
PowerOffFires ==
  /\ app.timer /\ app' = [app EXCEPT !.timer = FALSE, !.tried = TRUE]
  /\ UNCHANGED <<gauge, shared, pub, drain>>

BatteryNext ==
  \/ \E mv \in Voltages, usb \in BOOLEAN, dt \in Delays : Sample(mv, usb, dt)
  \/ NoAnswer \/ Deliver \/ PowerOffFires

BatterySpec == BatteryInit /\ [][BatteryNext]_batteryVars
-----------------------------------------------------------------------------
BatteryTypes ==
  /\ gauge.level \in {NoLevel} \union 0..Level(1) /\ {gauge.usb, gauge.critical} \subseteq BOOLEAN
  /\ pub.seq <= shared.seq /\ {app.timer, app.tried} \subseteq BOOLEAN

\* What is shown isn't far from what the average says: never above it on battery,
\* nor a slack below; on USB power, where it may take its time, not a slack above.
LevelTrue ==
  gauge.level # NoLevel =>
    LET level == LevelFor(gauge.avg)
    IN  IF gauge.usb THEN gauge.level < level + Slack
        ELSE gauge.level <= level /\ level < gauge.level + Slack

\* Over the time USB power is in, the level climbs no faster than a cell charges,
\* however the voltage runs ahead of the charge.
ClimbsSlowly == drain.climbed * StepTime <= drain.usb

\* It is about empty when it has been low for long enough, all of it on battery.
EmptyInTime == gauge.critical = (drain.low >= LowTime)

\* Told that it is about empty, rPod is going off or has tried to; with USB power
\* or without an answer from the chip it isn't, whatever it was told before.
OffWhenEmpty ==
  /\ pub.is.present /\ ~pub.is.usb /\ pub.is.critical => app.timer \/ app.tried
  /\ app.timer => pub.is.present /\ ~pub.is.usb

\* While it drains, each warning is shown once, in turn, and none is left out
\* that the level told has reached.  It drains anew, and warns anew, after USB
\* power, and also after the chip did not answer: the code re-arms them for both.
WarnsOnce ==
  /\ \A i \in 2..Len(drain.warnings) : drain.warnings[i] < drain.warnings[i - 1]
  /\ pub.is.present /\ ~pub.is.usb /\ ~pub.is.critical =>
       \A w \in Warnings : pub.is.level <= w =>
         \E i \in 1..Len(drain.warnings) : drain.warnings[i] <= w

\* The level shown is near the voltage's and climbs no faster than a cell charges;
\* each warning comes once as it drains; and empty on battery, and only then, it goes off
\* (gauge.c, battery.c, app.c).
BatteryRight ==
  BatteryTypes /\ LevelTrue /\ ClimbsSlowly /\ EmptyInTime /\ OffWhenEmpty /\ WarnsOnce
=============================================================================
