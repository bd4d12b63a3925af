------------------------------- MODULE MCDevice -------------------------------
(***************************************************************************)
(* The run of the parts of the device: the levels (SoundLevel), what       *)
(* counts as listened to (Scrobbler), the wheel and its gestures           *)
(* (ClickWheel), Home Assistant (HaQueue), the screens and who borrows     *)
(* playback (Screens), BlueZ's client (Bluetooth), ear detection (EarBuds) *)
(* and the alarm's clock (AlarmClock).  In the models they share no state, *)
(* so a behaviour runs the one that `part' names while the others stand    *)
(* still: TLC has the sum of their states, not the product.                *)
(***************************************************************************)
EXTENDS MCSoundLevel, Scrobbler, ClickWheel, AlarmClock, EarBuds, HaQueue, Screens, Bluetooth

VARIABLE part

partVars    == <<vars, scrobVars, wheelVars, haVars, screenVars, btVars, earVars>>
deviceVars  == <<part, partVars, clockVars>>

\* Of the songs, one is long enough to count and one is not; so is the video.
LengthOf == [x \in Songs \union {Video} |->
               CASE x = "long" -> 4 [] x = "short" -> 2 [] OTHER -> 3]

\* No button, one, two at once, and a finger on the wheel.
WheelSends ==
  LET pads == {{}, {Center}, {NextButton}, {PlayPause, NextButton}}
  IN  [buttons : pads, touched : {FALSE}, rotated : {FALSE}]
        \union [buttons : {{}}, touched : {TRUE}, rotated : {TRUE}]

\* What stands still does so in one of its initial states.
DeviceInit ==
  /\ part \in {"levels", "scrobbler", "wheel", "home", "screens",
              "bluetooth", "ears", "alarm"}
  /\ Init /\ (part # "levels" => s.vol = CHOOSE l \in Levels : TRUE)
  /\ ScrobInit /\ (part # "scrobbler" => mpd.song = CHOOSE x \in Songs : TRUE)
  /\ HaInit /\ (part # "home" => /\ ha.url = CHOOSE x \in Servers : TRUE
                                 /\ \A e \in Entities : home[ha.url][e] = "on")
  /\ ScreensInit /\ (part # "screens" => ui.mpd.state = "play")
  /\ BtInit /\ (part # "bluetooth" => g = NoBus /\ bz.powered /\ bz.devs = [d \in BtDevices |-> Absent])
  /\ WheelInit /\ EarInit
  /\ ClockInit

LevelsMove    == /\ part = "levels" /\ Next
                 /\ UNCHANGED <<part, scrobVars, wheelVars, haVars, screenVars, btVars, earVars, clockVars>>
ScrobblerMove == /\ part = "scrobbler" /\ ScrobNext
                 /\ UNCHANGED <<part, vars, wheelVars, haVars, screenVars, btVars, earVars, clockVars>>
WheelMove     == /\ part = "wheel" /\ WheelNext
                 /\ UNCHANGED <<part, vars, scrobVars, haVars, screenVars, btVars, earVars, clockVars>>
HomeMove      == /\ part = "home" /\ HaNext
                 /\ UNCHANGED <<part, vars, scrobVars, wheelVars, screenVars, btVars, earVars, clockVars>>
ScreensMove   == /\ part = "screens" /\ ScreensNext
                 /\ UNCHANGED <<part, vars, scrobVars, wheelVars, haVars, btVars, earVars, clockVars>>
BlueMove      == /\ part = "bluetooth" /\ BtNext
                 /\ UNCHANGED <<part, vars, scrobVars, wheelVars, haVars, screenVars, earVars, clockVars>>
EarMove       == /\ part = "ears" /\ EarNext
                 /\ UNCHANGED <<part, vars, scrobVars, wheelVars, haVars, screenVars, btVars, clockVars>>
AlarmMove     == part = "alarm" /\ ClockNext /\ UNCHANGED <<part, partVars>>

DeviceNext == \/ LevelsMove \/ ScrobblerMove \/ WheelMove \/ HomeMove
              \/ ScreensMove \/ BlueMove \/ EarMove \/ AlarmMove
DeviceSpec == DeviceInit /\ [][DeviceNext]_deviceVars

\* The view of a state: what stands still is the same in every state of a part,
\* so that states that agree here are the same.
PartView ==
  <<part, CASE part = "levels"    -> vars       [] part = "scrobbler" -> scrobVars
            [] part = "wheel"     -> wheelVars  [] part = "home"      -> haVars
            [] part = "screens"   -> screenVars [] part = "bluetooth" -> btVars
            [] part = "ears"      -> earVars    [] part = "alarm"     -> clockVars>>
=============================================================================
