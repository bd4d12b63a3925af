----------------------------- MODULE AlarmClock -----------------------------
(***************************************************************************)
(* When the alarm goes off (src/src/ui/alarm.c): its settings, its check   *)
(* of the clock, the snooze and the file.  What the volume does then is in *)
(* SoundLevel, what the card and the music do in Screens.                  *)
(*                                                                         *)
(* All of it runs on the LVGL thread.  Time goes by in checks (CHECK_MS);  *)
(* a minute is a few of them and a day a few minutes.  The clock is the    *)
(* system's, which NTP may set (external).                                 *)
(***************************************************************************)
EXTENDS Integers

CONSTANTS MinuteLen,  \* checks in a minute
          DayLen,     \* minutes in a day
          SnoozeLen,  \* RPOD_ALARM_SNOOZE_MIN, in checks
          LastCheck,  \* bound: the time at which it all ends
          MaxClicks,  \* bound: changes of the settings
          MaxMishaps  \* bound: restarts, files not written, clocks set

ASSUME ClockAssumption ==
  /\ MinuteLen \in Nat \ {0} /\ DayLen \in Nat \ {0} /\ SnoozeLen \in Nat \ {0}
  /\ LastCheck \in Nat

VARIABLES
  now,    \* time(NULL)
  due,    \* the check of this second is yet to come
  al,     \* enabled, at (hour and minute), sound, ringing, snooze_at, last_minute
  afile,  \* the settings in the file
  clhist, \* history: the minute rPod began and those in which it went off on time, since
          \* its time was set; a snooze asked for and not cancelled; a file not written
  clcount

clockVars == <<now, due, al, afile, clhist, clcount>>

Never     == -1
NoSnooze  == 0
Minute(t) == t \div MinuteLen
OfDay(t)  == Minute(t) % DayLen

Settings(a) == [enabled |-> a.enabled, at |-> a.at, sound |-> a.sound]
Started(f, t) == [enabled |-> f.enabled, at |-> f.at, sound |-> f.sound, ringing |-> FALSE,
                  snooze |-> NoSnooze, last |-> Minute(t)]

ClockInit ==
  /\ now = MinuteLen /\ due = FALSE
  /\ afile = [enabled |-> TRUE, at |-> 2 % DayLen, sound |-> FALSE] /\ al = Started(afile, now)
  /\ clhist = [rang |-> {Minute(now)}, wish |-> FALSE, unsaved |-> FALSE]
  /\ clcount = [clicks |-> 0, mishaps |-> 0, set |-> FALSE]

Clicked == clcount.clicks < MaxClicks
Mishaps == clcount.mishaps < MaxMishaps
-----------------------------------------------------------------------------
\* go_off(), with ring() opening the card.
GoesOff(a) == [a EXCEPT !.ringing = TRUE, !.snooze = NoSnooze]

OnTimeAnyMinute ==  \* Mutant: the minute it went off in is not remembered.
  al.enabled /\ ~al.ringing /\ OfDay(now) = al.at

SnoozeOver == al.snooze # NoSnooze /\ now >= al.snooze
OnTime     == al.enabled /\ ~al.ringing /\ OfDay(now) = al.at /\ Minute(now) # al.last

\* check_cb()
Check ==
  /\ due /\ due' = FALSE
  /\ \/ SnoozeOver /\ al' = GoesOff(al) /\ clhist' = [clhist EXCEPT !.wish = FALSE]
     \/ /\ ~SnoozeOver /\ OnTime
        /\ al' = [GoesOff(al) EXCEPT !.last = Minute(now)]
        /\ clhist' = [clhist EXCEPT !.rang = @ \union {Minute(now)}, !.wish = FALSE]
     \/ ~SnoozeOver /\ ~OnTime /\ UNCHANGED <<al, clhist>>
  /\ UNCHANGED <<now, afile, clcount>>

\* The next check comes, once this one has been.
Tick ==
  /\ ~due /\ now < LastCheck /\ now' = now + 1 /\ due' = TRUE
  /\ UNCHANGED <<al, afile, clhist, clcount>>
-----------------------------------------------------------------------------
\* save(): a file renamed over the old one, or that one is left; `said' is what
\* the history makes of the change.
Changes(a, said) ==
  /\ Clicked /\ al' = a /\ UNCHANGED <<now, due>>
  /\ \/ /\ afile' = Settings(a) /\ clhist' = [said EXCEPT !.unsaved = FALSE]
        /\ clcount' = [clcount EXCEPT !.clicks = @ + 1]
     \/ /\ Mishaps /\ UNCHANGED afile /\ clhist' = [said EXCEPT !.unsaved = TRUE]
        /\ clcount' = [clcount EXCEPT !.clicks = @ + 1, !.mishaps = @ + 1]

\* rpod_alarm_set_enabled(), from the list or the control socket
Quieted(on) == IF on THEN al ELSE [al EXCEPT !.snooze = NoSnooze]
Said(on)    == [clhist EXCEPT !.wish = @ /\ on]
SetEnabled(on) ==
  \/ on # al.enabled /\ Changes([Quieted(on) EXCEPT !.enabled = on], Said(on))
  \/ /\ on = al.enabled /\ Clicked /\ al' = Quieted(on) /\ clhist' = Said(on)
     /\ clcount' = [clcount EXCEPT !.clicks = @ + 1] /\ UNCHANGED <<now, due, afile>>

\* rpod_alarm_set_time()
SetTime(m) == Changes([al EXCEPT !.at = m, !.last = Never], [clhist EXCEPT !.rang = {}])

\* rpod_alarm_set_sound(): a playlist or not
SetSound(x) == Changes([al EXCEPT !.sound = x], clhist)

\* rpod_alarm_snooze(), rpod_alarm_stop(), rpod_alarm_dismiss(), all from the card
Snooze ==
  /\ al.ringing /\ al' = [al EXCEPT !.ringing = FALSE, !.snooze = now + SnoozeLen]
  /\ clhist' = [clhist EXCEPT !.wish = TRUE] /\ UNCHANGED <<now, due, afile, clcount>>
Stop ==
  /\ al.ringing /\ al' = [al EXCEPT !.ringing = FALSE, !.snooze = NoSnooze]
  /\ UNCHANGED <<now, due, afile, clhist, clcount>>
Dismiss ==
  /\ al.ringing /\ al' = [al EXCEPT !.ringing = FALSE]
  /\ UNCHANGED <<now, due, afile, clhist, clcount>>

\* rPod ends and is started again, rpod_alarm_init(): not straight away, if it
\* starts during the alarm's minute.
Restart ==
  /\ Mishaps /\ clcount' = [clcount EXCEPT !.mishaps = @ + 1] /\ al' = Started(afile, now)
  /\ clhist' = [rang |-> {Minute(now)}, wish |-> FALSE, unsaved |-> FALSE]
  /\ UNCHANGED <<now, due, afile>>

\* NTP sets the clock, once, by a minute less than a day.
ClockSet ==
  \E t \in 1..LastCheck :
    /\ Mishaps /\ ~clcount.set /\ clcount' = [clcount EXCEPT !.mishaps = @ + 1, !.set = TRUE]
    /\ t # now /\ t - now <= (DayLen - 1) * MinuteLen /\ now - t <= (DayLen - 1) * MinuteLen
    /\ now' = t /\ UNCHANGED <<due, al, afile, clhist>>

ClockNext ==
  \/ Check \/ Tick \/ Snooze \/ Stop \/ Dismiss \/ Restart \/ ClockSet
  \/ (\E on \in BOOLEAN : SetEnabled(on) \/ SetSound(on)) \/ (\E m \in 0..DayLen - 1 : SetTime(m))
ClockSpec == ClockInit /\ [][ClockNext]_clockVars
-----------------------------------------------------------------------------
ClockTypes ==
  /\ al.at \in 0..DayLen - 1 /\ {al.enabled, al.sound, al.ringing, due} \subseteq BOOLEAN
  /\ al.last \in Int /\ al.snooze \in Int

\* It goes off in its minute, each day, also if its time was set for that very
\* minute, unless it rings already or rPod began in it.
RingsOnItsMinute ==
  [][Check /\ al.enabled /\ OfDay(now) = al.at => al'.ringing \/ Minute(now) \in clhist.rang]_clockVars

\* On time it goes off once in a minute, however often it is stopped or the clock
\* set, and not in the minute in which rPod began.
OncePerMinute ==
  [][Check /\ ~SnoozeOver /\ ~al.ringing /\ al'.ringing => Minute(now) \notin clhist.rang]_clockVars

\* A snooze is waited for as long as it is wanted, and no longer: switching off
\* cancels it, going off on time takes its place, and nothing rings meanwhile.
SnoozeAsWanted == (al.snooze # NoSnooze) = clhist.wish /\ (clhist.wish => ~al.ringing)

\* After a restart the alarm is as it was set, unless that wasn't written.
SetForGood == clhist.unsaved \/ afile = Settings(al)

\* The alarm goes off in its minute, once, unless rPod began in it or it rings; a
\* snooze is waited for while it is wanted; and a restart keeps what was set (alarm.c).
AlarmRight ==
  [](ClockTypes /\ SnoozeAsWanted /\ SetForGood) /\ RingsOnItsMinute /\ OncePerMinute
=============================================================================
