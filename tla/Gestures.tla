------------------------------- MODULE Gestures -------------------------------
(***************************************************************************)
(* What presses of the five buttons mean (src/src/input/gestures.c) and    *)
(* what they do: the levels the encoder is given (input.c), the scan       *)
(* through a song (src/src/ui/seek_control.c), sleep and the dark screen   *)
(* (src/src/app.c).  All of it runs on the LVGL thread, one call after     *)
(* another, so it is written as operators on a record u: the state of the  *)
(* UI process, and the play state MPD is in.                               *)
(***************************************************************************)
EXTENDS Integers

CONSTANTS Center, Menu, PlayPause, Prev, NextButton,
          Buttons  \* those that are used, of the five

ASSUME ButtonsAssumption ==
  /\ Buttons \subseteq {Center, Menu, PlayPause, Prev, NextButton}
  /\ Menu # Center /\ PlayPause \notin {Center, Menu} /\ Prev \notin {Center, Menu, PlayPause}
  /\ NextButton \notin {Center, Menu, PlayPause, Prev}

Transport == Buttons \ {Center, Menu}
Scanners  == Buttons \intersect {Prev, NextButton}

\* rpod_gesture_btn_t; `began' and `acts' are history: how input was when the
\* button went down, and how often it has acted since.
Up == [down |-> FALSE, swallow |-> FALSE, held |-> FALSE, offered |-> FALSE,
       began |-> "awake", acts |-> 0]

Began(u) == IF ~u.asleep THEN "awake" ELSE IF u.dim THEN "dim" ELSE "asleep"
Acted(u, b) == [u EXCEPT !.btn[b].acts = @ + 1]
-----------------------------------------------------------------------------
\* rpod_seek_control_start(): a scan, with MPD paused meanwhile.
ScanStart(u) ==
  IF u.scan \/ u.mpd = "stop" THEN u
  ELSE [u EXCEPT !.scan = TRUE, !.was = (u.mpd = "play"), !.mpd = "pause"]

\* rpod_seek_control_stop(): MPD is as it was.
ScanStop(u) ==
  IF ~u.scan THEN u
  ELSE [u EXCEPT !.scan = FALSE, !.was = FALSE, !.mpd = IF u.was THEN "play" ELSE @]

\* Actions' wake: on_wake() lifts the curtain.
Woke(u) == [u EXCEPT !.asleep = FALSE, !.dim = FALSE, !.dark = FALSE]

\* rpod_gestures_wake()
Wake(u) == IF u.asleep THEN Woke(u) ELSE u

\* let_go(): every button that is down stops counting; a scan is ended.
Counting(u) == {b \in Buttons : u.btn[b].down /\ ~u.btn[b].swallow}
LetGo(u) ==
  LET v == IF \E b \in Scanners \intersect Counting(u) : u.btn[b].held THEN ScanStop(u) ELSE u
  IN  [v EXCEPT !.btn = [b \in Buttons |->
         IF b \in Counting(u)
         THEN [@[b] EXCEPT !.swallow = TRUE, !.began = "asleep", !.acts = 0] ELSE @[b]]]

\* drop_center(): the encoder lets go without a click.
DropCenter(before, u) == IF Center \in Counting(before) THEN [u EXCEPT !.center = FALSE] ELSE u

\* rpod_gestures_sleep(), rpod_input_sleep()
Sleep(u, dim) == DropCenter(u, LetGo([u EXCEPT !.dim = dim, !.asleep = TRUE]))

\* go_dark(): never lightens a full sleep.
GoDark(u, dim) == IF dim /\ u.asleep THEN u ELSE [Sleep(u, dim) EXCEPT !.dark = TRUE]

NightResumed(u) ==  \* Mutant: a scan still going is not ended first.
  GoDark([u EXCEPT !.timer = FALSE, !.mpd = IF @ = "play" THEN "pause" ELSE @, !.quiet = TRUE], FALSE)

\* on_sleep(): the sleep timer is off, a scan ends, MPD is paused.
Night(u) ==
  LET v == ScanStop([u EXCEPT !.timer = FALSE])
  IN  GoDark([v EXCEPT !.mpd = IF @ = "play" THEN "pause" ELSE @, !.quiet = TRUE], FALSE)

\* rpod_gestures_cancel(), rpod_input_release_all(): the source is gone.
Cancel(u) ==
  DropCenter(u, [LetGo(u) EXCEPT !.btn = [b \in Buttons |->
                   [@[b] EXCEPT !.down = FALSE, !.swallow = FALSE]]])

\* rpod_gestures_turn(): the wheel was touched or turned.
Turned(u) == IF u.asleep /\ u.dim THEN Woke(u) ELSE u
-----------------------------------------------------------------------------
\* on_play_pause(): MPD goes on or pauses, as the user now wants.
TogglePause(u) == [u EXCEPT !.mpd = IF @ = "play" THEN "pause" ELSE "play", !.quiet = FALSE]

\* rpod_gestures_feed(), down: while asleep a press only wakes, but for the
\* transport buttons when only the screen is off.
PressDown(u, b) ==
  LET swallowed == u.asleep /\ ~(u.dim /\ b \in Transport)
      v == [(IF u.asleep THEN Woke(u) ELSE u) EXCEPT !.btn[b] =
              [Up EXCEPT !.down = TRUE, !.swallow = swallowed, !.began = Began(u)]]
  IN  IF swallowed THEN v
      ELSE IF b = Center THEN Acted([v EXCEPT !.center = TRUE], b)
      ELSE IF b = Menu THEN Acted(v, b) ELSE v

\* rpod_gestures_feed(), up: a button with a hold acts on release, unless the
\* hold has.
ReleaseTwice(u, b) ==  \* Mutant: the tap follows the hold.
  LET v == [u EXCEPT !.btn[b].down = FALSE, !.btn[b].swallow = FALSE] IN
  IF u.btn[b].swallow THEN v
  ELSE IF b = Center THEN [v EXCEPT !.center = FALSE]
  ELSE IF b = PlayPause THEN Acted(TogglePause(v), b)
  ELSE IF b \in Scanners THEN (IF u.btn[b].held THEN ScanStop(v) ELSE Acted([v EXCEPT !.quiet = FALSE], b))
  ELSE v
Release(u, b) ==
  LET v == [u EXCEPT !.btn[b].down = FALSE, !.btn[b].swallow = FALSE] IN
  IF u.btn[b].swallow THEN v
  ELSE IF b = Center THEN [v EXCEPT !.center = FALSE]
  ELSE IF b = PlayPause /\ ~u.btn[b].held THEN Acted(TogglePause(v), b)
  ELSE IF b \in Scanners THEN (IF u.btn[b].held THEN ScanStop(v) ELSE Acted([v EXCEPT !.quiet = FALSE], b))
  ELSE v

Feed(u, b, pressed) == IF u.btn[b].down = pressed THEN u
                       ELSE IF pressed THEN PressDown(u, b) ELSE Release(u, b)

\* rpod_gestures_tick() for one button whose hold is due; `list' is whether the
\* screen has a device list to open.
Hold(u, b, list) ==
  IF b \notin Counting(u) \/ u.btn[b].held THEN u
  ELSE IF b = PlayPause /\ ~u.btn[b].offered
       THEN IF list THEN Acted([u EXCEPT !.btn[b].offered = TRUE, !.btn[b].held = TRUE], b)
            ELSE [u EXCEPT !.btn[b].offered = TRUE]
  ELSE IF b = PlayPause THEN Night([u EXCEPT !.btn[b].held = TRUE])
  ELSE IF b \in Scanners THEN Acted(ScanStart([u EXCEPT !.btn[b].held = TRUE]), b)
  ELSE u
=============================================================================
