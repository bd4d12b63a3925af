------------------------------- MODULE EarBuds -------------------------------
(***************************************************************************)
(* Ear detection (src/src/audio/airpods.c): the control channel to the     *)
(* AirPods, and the pause when a bud comes out and the resume when it is   *)
(* back.  It runs in poll_cb() on the LVGL thread; between its calls MPD   *)
(* is anybody's.  State it reads and the pause it then asks for are one    *)
(* step here.  Conversation Awareness is in SoundLevel.                    *)
(*                                                                         *)
(* The AirPods, their channel, MPD and the AirPlay sink are external.      *)
(***************************************************************************)
EXTENDS Integers, Sequences

CONSTANTS MaxMoves,    \* bound: buds put in or taken out
          MaxTouches,  \* bound: what the user does to playback, sinks and settings
          MaxLosses    \* bound: channels lost and calls that do not get through

VARIABLES
  ears,    \* g: link, setup_step, in_ear, paused_by_ear, resume_at, ctl[EAR_DETECTION]
  pods,    \* external: connected, buds worn, Ear Detection on, reports on
  reports, \* external: what they sent and is not read yet
  music,   \* external: MPD's state, and whether AirPlay plays it
  earhist, \* history: whose: who paused; unseen: the user took over and was not seen
           \* to; excuse: a pause of ours need not be resumed any more; moot: buds went
           \* back in while nothing was asked of them (Unasked)
  earcount

earVars == <<ears, pods, reports, music, earhist, earcount>>

NoSession == [link |-> "idle", step |-> 0, in_ear |-> -1, paused_by_ear |-> FALSE, resume_at |-> 0,
              ctl |-> "unknown"]

EarInit ==
  /\ ears = NoSession /\ reports = <<>>
  /\ pods = [connected |-> FALSE, worn |-> 2, detect |-> TRUE, tells |-> FALSE]
  /\ music = [state |-> "play", airplay |-> FALSE]
  /\ earhist = [whose |-> "nobody", unseen |-> FALSE, excuse |-> FALSE, moot |-> FALSE]
  /\ earcount = [moves |-> 0, touches |-> 0, losses |-> 0]

EarUses(bound, max) == /\ earcount[bound] < max
                       /\ earcount' = [earcount EXCEPT ![bound] = @ + 1]
-----------------------------------------------------------------------------
ResetKept(x, link) ==  \* Mutant: what ear detection paused is not forgotten.
  [x EXCEPT !.link = link, !.step = 0, !.in_ear = -1, !.ctl = "unknown"]

\* reset_session(), with close_link()
Reset(x, link) == [NoSession EXCEPT !.link = link, !.resume_at = x.resume_at]

\* A session ends; what was paused stays so.
Ends(link) ==
  /\ ears' = Reset(ears, link)
  /\ pods' = [pods EXCEPT !.tells = FALSE] /\ reports' = <<>>
  /\ earhist' = [earhist EXCEPT !.excuse = @ \/ ears.paused_by_ear, !.unseen = FALSE, !.moot = FALSE]

\* bt_changed_cb() and set_target()
Follow == /\ ~pods.connected /\ ears.link = "idle"
          /\ pods' = [pods EXCEPT !.connected = TRUE] /\ ears' = Reset(ears, "wait")
          /\ UNCHANGED <<reports, music, earhist, earcount>>
Unfollow == /\ pods.connected /\ EarUses("losses", MaxLosses)
            /\ ears' = Reset(ears, "idle") /\ reports' = <<>>
            /\ pods' = [pods EXCEPT !.connected = FALSE, !.tells = FALSE]
            /\ earhist' = [earhist EXCEPT !.excuse = @ \/ ears.paused_by_ear, !.unseen = FALSE, !.moot = FALSE]
            /\ UNCHANGED music

\* start_connect() and check_connect(), or fail()
Dial(next) == /\ ears.link \in {"wait", "connecting"}
              /\ next = (IF ears.link = "wait" THEN "connecting" ELSE "setup")
              /\ ears' = [ears EXCEPT !.link = next]
              /\ UNCHANGED <<pods, reports, music, earhist, earcount>>

\* setup_step(): handshake, features, notifications: the AirPods answer the last.
Setup ==
  /\ ears.link = "setup"
  /\ IF ears.step < 2
     THEN ears' = [ears EXCEPT !.step = @ + 1] /\ UNCHANGED <<pods, reports>>
     ELSE /\ ears' = [ears EXCEPT !.link = "ready"]
          /\ pods' = [pods EXCEPT !.tells = TRUE]
          /\ reports' = reports \o <<[kind |-> "ear", in |-> pods.worn],
                                     [kind |-> "detect", on |-> pods.detect]>>
  /\ UNCHANGED <<music, earhist, earcount>>

\* fail(): the channel is closed, does not come up or takes no commands.
Fail == /\ ears.link \in {"connecting", "setup", "ready"} /\ EarUses("losses", MaxLosses)
        /\ Ends("wait") /\ UNCHANGED music
-----------------------------------------------------------------------------
\* setting_on()
SettingOn == ears.ctl # "off"

\* What on_ear() does when fewer, or more, buds are in than before.
Stops(in) == /\ in < ears.in_ear /\ ~ears.paused_by_ear /\ ~music.airplay
             /\ music.state = "play"
Resumes(in) == in > ears.in_ear /\ ears.paused_by_ear /\ in >= ears.resume_at

\* History: buds that go back in resume nothing with Ear Detection off, and need
\* not on AirPlay (airpods.h:6-8); on_ear() does not ask there and may resume.
Unasked == ~SettingOn \/ music.airplay

\* on_ear(); `reached': MPD answers.
OnEar(in, reached) ==
  LET told == ears.in_ear >= 0 /\ in # ears.in_ear IN
  /\ IF told /\ SettingOn /\ Stops(in) /\ reached
     THEN /\ ears' = [ears EXCEPT !.in_ear = in, !.paused_by_ear = TRUE, !.resume_at = ears.in_ear]
          /\ music' = [music EXCEPT !.state = "pause"]
          /\ earhist' = [earhist EXCEPT !.whose = "ear", !.unseen = FALSE, !.excuse = FALSE, !.moot = FALSE]
     ELSE IF told /\ SettingOn /\ Resumes(in)
     THEN /\ ears' = [ears EXCEPT !.in_ear = in, !.paused_by_ear = FALSE]
          /\ music' = [music EXCEPT !.state = IF @ = "pause" /\ reached THEN "play" ELSE @]
          /\ earhist' = [earhist EXCEPT !.unseen = FALSE, !.excuse = @ \/ ~reached \/ Unasked]
     ELSE /\ ears' = [ears EXCEPT !.in_ear = in]
          /\ earhist' = [earhist EXCEPT !.moot = @ \/ (Resumes(in) /\ Unasked)]
          /\ UNCHANGED music
  /\ IF reached THEN UNCHANGED earcount ELSE EarUses("losses", MaxLosses)

\* The user's hand on playback, here or from any MPD client, or a stem
\* pressed: on_press()
Hand(to) == /\ music.state # to /\ music' = [music EXCEPT !.state = to]
            /\ earhist' = [earhist EXCEPT !.whose = IF to = "pause" THEN "user" ELSE @,
                                          !.unseen = ears.paused_by_ear]

\* poll_rx() and handle_packet()
Receive ==
  /\ ears.link \in {"setup", "ready"} /\ reports # <<>>
  /\ LET r == Head(reports) IN
     \/ r.kind = "ear" /\ \E reached \in BOOLEAN : OnEar(r.in, reached)
     \/ /\ r.kind = "detect" /\ ears' = [ears EXCEPT !.ctl = IF r.on THEN "on" ELSE "off"]
        /\ UNCHANGED <<music, earhist, earcount>>
     \/ /\ r.kind = "press" /\ Hand(IF music.state = "play" THEN "pause" ELSE "play")
        /\ UNCHANGED <<ears, earcount>>
  /\ reports' = Tail(reports) /\ UNCHANGED pods

\* poll_cb(), once a second while a pause of ours is pending
Look ==
  /\ ears.paused_by_ear
  /\ ears' = [ears EXCEPT !.paused_by_ear = (music.state = "pause")]
  /\ earhist' = [earhist EXCEPT !.unseen = @ /\ music.state = "pause"]
  /\ UNCHANGED <<pods, reports, music, earcount>>
-----------------------------------------------------------------------------
\* The AirPods: a bud goes in or comes out, a stem is pressed.
Move == /\ \E n \in 0..2 : /\ n \in {pods.worn - 1, pods.worn + 1} /\ pods' = [pods EXCEPT !.worn = n]
                           /\ reports' = IF pods.tells THEN Append(reports, [kind |-> "ear", in |-> n]) ELSE reports
        /\ EarUses("moves", MaxMoves) /\ UNCHANGED <<ears, music, earhist>>
Press == /\ pods.tells /\ reports' = Append(reports, [kind |-> "press"])
         /\ EarUses("touches", MaxTouches) /\ UNCHANGED <<ears, pods, music, earhist>>

\* The user plays, pauses or stops, turns to AirPlay and back, and
\* rpod_airpods_set(): Ear Detection on or off
UserPlays == /\ \E to \in {"play", "pause", "stop"} : Hand(to)
             /\ EarUses("touches", MaxTouches) /\ UNCHANGED <<ears, pods, reports>>
Redirect == /\ music' = [music EXCEPT !.airplay = ~@]
            /\ EarUses("touches", MaxTouches) /\ UNCHANGED <<ears, pods, reports, earhist>>
SetDetection == /\ ears.link = "ready" /\ ears.ctl # "unknown"
                /\ LET on == ears.ctl = "off" IN
                     /\ ears' = [ears EXCEPT !.ctl = IF on THEN "on" ELSE "off"]
                     /\ pods' = [pods EXCEPT !.detect = on]
                /\ EarUses("touches", MaxTouches) /\ UNCHANGED <<reports, music, earhist>>

EarNext ==
  \/ Follow \/ Unfollow \/ (\E next \in {"connecting", "setup"} : Dial(next)) \/ Setup \/ Fail
  \/ Receive \/ Look
  \/ Move \/ Press \/ UserPlays \/ Redirect \/ SetDetection
EarSpec == EarInit /\ [][EarNext]_earVars
-----------------------------------------------------------------------------
\* What a bud going back in would resume is what its coming out paused, still
\* paused: nobody's own pause, as far as a look once a second can tell.
ResumesItsOwn ==
  ears.paused_by_ear => earhist.unseen \/ (music.state = "pause" /\ earhist.whose = "ear")

\* And it is resumed once the buds are back: it is not left paused with as many
\* buds in as when it played, nor forgotten.  Nothing is asked of buds that go
\* back in while Ear Detection is off or the sound is on AirPlay, nor of a pause
\* whose session ended or for whose resume MPD was out of reach.
ComesBack ==
  /\ ears.paused_by_ear /\ ears.in_ear >= ears.resume_at => earhist.moot
  /\ music.state = "pause" /\ earhist.whose = "ear" => ears.paused_by_ear \/ earhist.excuse

\* A bud going back in resumes what its coming out paused, that only, and then
\* does where it is asked to (airpods.c, airpods.h:6-8).
EarsRight == ResumesItsOwn /\ ComesBack
=============================================================================
