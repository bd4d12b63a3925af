----------------------------- MODULE SoundLevel -----------------------------
(***************************************************************************)
(* Who sets MPD's volume.  The volume memory (src/src/audio/               *)
(* volume_memory.c) keeps a level for each device and puts it back when    *)
(* the device takes over; it also lowers ("ducks") the volume for two      *)
(* others, which know nothing of each other: the fade-in of the alarm      *)
(* (src/src/ui/alarm.c) and the AirPods' Conversation Awareness            *)
(* (src/src/audio/airpods.c).  All of them run on the LVGL thread, each    *)
(* callback one step; MPD keeps the volume when rPod dies.                 *)
(***************************************************************************)
EXTENDS Integers, Sequences, FiniteSets

CONSTANTS Wired, Headsets, Speakers,  \* devices: their keys
          Buds,         \* the headset with Conversation Awareness
          Nobody,       \* no device: g.active is ""
          MaxDevices,   \* VM_MAX_DEVICES
          NewMax,       \* VM_NEW_DEVICE_MAX
          FadeStart, FadeStep,  \* FADE_START_PCT, FADE_STEP_PCT
          TalkPercents, \* what a conversation lowers the volume to
          Levels,       \* levels the user sets
          MaxFaults     \* bound: crashes of rPod and calls MPD does not answer

Devices == {Wired} \union Headsets \union Speakers
ASSUME SoundAssumption ==
  /\ Nobody \notin Devices /\ Buds \in Headsets
  /\ MaxDevices \in Nat \ {0} /\ FadeStep \in Nat \ {0}
  /\ Levels \subseteq 0..100 /\ NewMax \in 0..100
  /\ FadeStart \in 1..99 /\ TalkPercents \subseteq 0..99

VARIABLES
  s,        \* MPD's volume `vol' and the fields of the volume memory's g
  saved,    \* the entries in its file
  heads,    \* the headsets connected
  bluez,    \* bluetoothd answers
  speaker,  \* the AirPlay speaker that plays, or Nobody
  ringing,  \* of the alarm
  pct,      \* g.fade_pct of the alarm, 0 when it is not g.fading
  talking,  \* g.ducked of the AirPods
  slipped,  \* history: the volume was left at another level than the device's
  faults

outside == <<heads, bluez, speaker>>
fade    == <<ringing, pct>>
vars == <<s, saved, heads, bluez, speaker, ringing, pct, talking, slipped, faults>>

Unknown == -1  \* the level, when MPD does not say

\* Entries are pairs <<key, level>>, the device used last first.
Known(es, k)   == \E i \in DOMAIN es : es[i][1] = k
Index(es, k)   == CHOOSE i \in DOMAIN es : es[i][1] = k
LevelOf(es, k) == es[Index(es, k)][2]

\* remember(): to the front; what was before it moves up, into its old place or
\* onto the one used least when there are too many.
Remember(es, k, v) ==
  LET at  == IF Known(es, k) THEN Index(es, k)
             ELSE IF Len(es) < MaxDevices THEN Len(es) + 1 ELSE MaxDevices
      len == IF at > Len(es) THEN at ELSE Len(es)
  IN  [i \in 1..len |-> IF i = 1 THEN <<k, v>> ELSE IF i <= at THEN es[i - 1] ELSE es[i]]

\* MPD may answer a callback ("up"), not at all ("down"), or read the volume
\* and then fail to set it ("drops").
Get(t, mpd)    == IF mpd = "down" THEN Unknown ELSE t.vol
Put(t, v, mpd) == IF mpd = "up" THEN [t EXCEPT !.vol = v] ELSE t
Answers(mpd)   == /\ mpd \in {"up", "down", "drops"}
                  /\ faults' = IF mpd = "up" THEN faults ELSE faults + 1
                  /\ faults' <= MaxFaults

\* t.duck holds duck_base and duck_level while g.ducked.
NoDuck     == <<>>
Duck(b, l) == <<b, l>>
IsOn(t)    == t.duck # NoDuck
Base(t)    == t.duck[1]
Low(t)     == t.duck[2]
Lowered(t) == IsOn(t) /\ t.vol = Low(t)
-----------------------------------------------------------------------------
\* current_key(): any of the headsets connected may be the first of the list;
\* without bluetoothd the active device stays, or after a while it is Wired.
CurrentKeys(connected, answers) ==
  IF speaker # Nobody THEN {speaker}
  ELSE IF ~answers THEN (IF s.active # Nobody THEN {s.active} ELSE {Nobody, Wired})
  ELSE IF s.active \in connected THEN {s.active}
  ELSE IF connected = {} THEN {Wired} ELSE connected

\* switch_to()
Switched(t, key, mpd) ==
  LET cur    == IF IsOn(t) THEN Base(t) ELSE Get(t, mpd)
      noted  == IF t.active # Nobody /\ cur >= 0 THEN Remember(t.entries, t.active, cur)
                ELSE t.entries
      target == IF Known(noted, key) THEN LevelOf(noted, key)
                ELSE IF cur > NewMax THEN NewMax ELSE cur
      set    == IF target >= 0 /\ target # cur THEN Put(t, target, mpd) ELSE t
  IN  [set EXCEPT !.active = key, !.duck = NoDuck, !.dirty = FALSE,
                  !.entries = IF target >= 0 THEN Remember(noted, key, target) ELSE noted]

Evaluated(t, key, mpd) == IF key \in {t.active, Nobody} THEN t ELSE Switched(t, key, mpd)

\* The rest of poll_cb(): the level is noted, and saved once it has settled.
Recorded(t, mpd) ==
  LET v == Get(t, mpd) IN
  IF t.active = Nobody \/ v < 0 \/ (IsOn(t) /\ v = Low(t)) THEN t
  ELSE IF ~Known(t.entries, t.active) \/ LevelOf(t.entries, t.active) # v
       THEN [t EXCEPT !.duck = NoDuck, !.dirty = TRUE,
                      !.entries = Remember(t.entries, t.active, v)]
       ELSE [t EXCEPT !.duck = NoDuck, !.dirty = FALSE]

DuckedAgain(t, percent, mpd) ==  \* Mutant: a second duck starts from the lowered level.
  IF mpd = "down" THEN t
  ELSE IF percent >= 100
       THEN [(IF Lowered(t) THEN Put(t, Base(t), mpd) ELSE t) EXCEPT !.duck = NoDuck]
       ELSE LET low == (t.vol * percent) \div 100
            IN  [Put(t, low, mpd) EXCEPT !.duck = Duck(t.vol, low)]

DuckedOverTurn(t, percent, mpd) ==  \* Mutant: a level set by hand is not noticed.
  IF mpd = "down" THEN t
  ELSE IF percent >= 100
       THEN [(IF IsOn(t) THEN Put(t, Base(t), mpd) ELSE t) EXCEPT !.duck = NoDuck]
       ELSE LET base == IF IsOn(t) THEN Base(t) ELSE t.vol
                low  == (base * percent) \div 100
            IN  [Put(t, low, mpd) EXCEPT !.duck = Duck(base, low)]

\* rpod_volume_memory_duck(): down to `percent' of the level before the first
\* of several ducks, or back up; a level set by hand in between is real.
Ducked(t, percent, mpd) ==
  IF mpd = "down" THEN t
  ELSE IF percent >= 100
       THEN [(IF Lowered(t) THEN Put(t, Base(t), mpd) ELSE t) EXCEPT !.duck = NoDuck]
       ELSE LET base == IF Lowered(t) THEN Base(t) ELSE t.vol
                low  == (base * percent) \div 100
            IN  [Put(t, low, mpd) EXCEPT !.duck = Duck(base, low)]

\* rpod_volume_memory_ducked()
IsDucked(t, mpd) == mpd # "down" /\ Lowered(t)
-----------------------------------------------------------------------------
\* From t to u the volume is left at another level than it is then taken for:
\* the new device's, the one before it was lowered, or one set by hand.
Slips(t, u) ==
  \/ /\ u.active # t.active
     /\ ~Known(u.entries, u.active) \/ LevelOf(u.entries, u.active) # u.vol
  \/ /\ u.active = t.active /\ Lowered(t) /\ u # t
     /\ u.vol # IF IsOn(u) THEN Low(u) ELSE Base(t)

\* A callback ends with u; t is what a change of the device made of s.  The
\* file has been written if nothing is unsaved.
Becomes(t, u) ==
  /\ s' = u
  /\ saved' = IF u.dirty THEN saved ELSE u.entries
  /\ slipped' = (slipped \/ Slips(s, t) \/ Slips(t, u))
Sets(u) == Becomes(s, u)

Init ==
  /\ s \in [vol : Levels, active : {Nobody}, entries : {<<>>}, dirty : {FALSE},
            duck : {NoDuck}]
  /\ saved = <<>> /\ heads = {} /\ bluez = FALSE /\ speaker = Nobody
  /\ ringing = FALSE /\ pct = 0 /\ talking = FALSE
  /\ slipped = FALSE /\ faults = 0

\* poll_cb() of the volume memory, each second.
VolumePoll ==
  \E mpd \in {"up", "down", "drops"}, key \in CurrentKeys(heads, bluez) :
    /\ Answers(mpd)
    /\ LET t == Evaluated(s, key, mpd) IN Becomes(t, Recorded(t, mpd))
    /\ UNCHANGED <<outside, fade, talking>>

\* BlueZ's devices change.  The volume memory hears of it first, then the
\* AirPods, which forget their conversation when they are gone.
BtChange ==
  \E mpd \in {"up", "down", "drops"} :
    /\ Answers(mpd)
    /\ bluez' \in BOOLEAN /\ heads' \in SUBSET Headsets /\ (~bluez' => heads' = {})
    /\ <<bluez', heads'>> # <<bluez, heads>>
    /\ LET gone == talking /\ Buds \notin heads' IN
         /\ talking' = (talking /\ ~gone)
         /\ \E key \in CurrentKeys(heads', bluez') :
              LET t == Evaluated(s, key, mpd)
              IN  Becomes(t, IF gone THEN Ducked(t, 100, mpd) ELSE t)
    /\ UNCHANGED <<speaker, fade>>

\* The sinks' worker publishes a list in which another speaker, or none, plays.
SpeakerChange ==
  /\ speaker' \in (Speakers \union {Nobody}) \ {speaker}
  /\ UNCHANGED <<s, saved, heads, bluez, fade, talking, slipped, faults>>

\* The wheel, the web interface or another client of MPD sets the volume.
Turn(v) ==
  /\ s' = [s EXCEPT !.vol = v]
  /\ UNCHANGED <<saved, outside, fade, talking, slipped, faults>>
-----------------------------------------------------------------------------
\* go_off() of the alarm, on time or after a snooze.
AlarmGoesOff ==
  \E mpd \in {"up", "down", "drops"} :
    /\ ~ringing /\ ringing' = TRUE /\ Answers(mpd)
    /\ LET t == Ducked(s, FadeStart, mpd)
       IN  Sets(t) /\ pct' = IF IsDucked(t, mpd) THEN FadeStart ELSE 0
    /\ UNCHANGED <<outside, talking>>

\* end_fade()
EndFade(mpd) ==
  /\ pct' = 0
  /\ Sets(IF pct # 0 /\ IsDucked(s, mpd) THEN Ducked(s, 100, mpd) ELSE s)

\* fade_cb(): a step up, unless somebody else has set the volume.
Fade ==
  \E mpd \in {"up", "down", "drops"} :
    /\ pct # 0 /\ Answers(mpd)
    /\ IF ~IsDucked(s, mpd) THEN pct' = 0 /\ Sets(s)
       ELSE IF pct + FadeStep >= 100 THEN EndFade(mpd)
       ELSE pct' = pct + FadeStep /\ Sets(Ducked(s, pct', mpd))
    /\ UNCHANGED <<outside, ringing, talking>>

\* rpod_alarm_snooze(), rpod_alarm_stop().
AlarmEnds ==
  \E mpd \in {"up", "down", "drops"} :
    /\ ringing /\ ringing' = FALSE /\ Answers(mpd) /\ EndFade(mpd)
    /\ UNCHANGED <<outside, talking>>

\* rpod_alarm_dismiss(): the fade goes on.
AlarmDismissed ==
  /\ ringing /\ ringing' = FALSE
  /\ UNCHANGED <<s, saved, outside, pct, talking, slipped, faults>>

\* on_conversation() while its wearer talks.
Talk(percent) ==
  \E mpd \in {"up", "down", "drops"} :
    /\ Buds \in heads /\ talking' = TRUE /\ Answers(mpd)
    /\ Sets(Ducked(s, percent, mpd))
    /\ UNCHANGED <<outside, fade>>

\* on_conversation() at a level of 8 or 9, also when nobody had talked; or
\* unduck(): the buds are out of the ears, Conversation Awareness is switched
\* off, or the link is lost.
TalkEnds ==
  \E mpd \in {"up", "down", "drops"} :
    /\ Buds \in heads /\ talking' = FALSE /\ Answers(mpd)
    /\ Sets(Ducked(s, 100, mpd))
    /\ UNCHANGED <<outside, fade>>

\* rPod dies and is started again, with the levels of its file.
Crash ==
  /\ faults < MaxFaults /\ faults' = faults + 1
  /\ s' = [s EXCEPT !.active = Nobody, !.entries = saved, !.dirty = FALSE,
                    !.duck = NoDuck]
  /\ heads' = {} /\ bluez' = FALSE /\ speaker' = Nobody
  /\ ringing' = FALSE /\ pct' = 0 /\ talking' = FALSE
  /\ slipped' = (slipped \/ (IsOn(s) /\ \E d \in Devices : ~Known(saved, d)))
  /\ UNCHANGED saved

Next ==
  \/ VolumePoll \/ BtChange \/ SpeakerChange \/ Crash
  \/ AlarmGoesOff \/ Fade \/ AlarmEnds \/ AlarmDismissed
  \/ TalkEnds \/ (\E p \in TalkPercents : Talk(p)) \/ (\E v \in Levels : Turn(v))

Spec == Init /\ [][Next]_vars
-----------------------------------------------------------------------------
\* Types, and the list of levels: each device once, and no longer than it may be.
TypeOK ==
  /\ s.vol \in 0..100 /\ s.active \in Devices \union {Nobody}
  /\ IsOn(s) => 0 <= Low(s) /\ Low(s) <= Base(s) /\ Base(s) <= 100
  /\ Len(s.entries) <= MaxDevices
  /\ \A i, j \in DOMAIN s.entries : s.entries[i][1] = s.entries[j][1] => i = j
  /\ \A i \in DOMAIN s.entries : s.entries[i][2] \in 0..100
  /\ speaker \in Speakers \union {Nobody} /\ heads \subseteq Headsets

\* Every level remembered for a device, also across crashes, is one the user
\* set or the cap on a new device's: lowered ones are not, however the alarm and
\* a conversation overlap, unless the volume had slipped to another level than
\* the device's.
Real == Levels \union {NewMax}
LevelsChosen ==
  ~slipped => \A i \in DOMAIN s.entries : s.entries[i][2] \in Real

\* With neither the alarm nor a conversation lowering it, the volume is not
\* at a lowered level, unless that one was also set by hand.
NothingLeftLowered ==
  faults = 0 /\ pct = 0 /\ ~talking /\ Lowered(s) => Low(s) \in Real

\* Each device has one level in the memory, and it is one that was chosen; and
\* nothing is left lowered when nobody lowers it (volume_memory.c).
LevelsKept == TypeOK /\ LevelsChosen /\ NothingLeftLowered

\* The volume goes up by itself only from a level a duck had set, and not
\* above the one before it: a level set by hand stands.
RaisesOnlyItsOwn ==
  [][s'.vol > s.vol /\ s'.active = s.active /\ ~(\E v \in Levels : Turn(v))
       => Lowered(s) /\ s'.vol <= Base(s)]_vars
=============================================================================
