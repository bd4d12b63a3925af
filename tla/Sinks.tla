-------------------------------- MODULE Sinks --------------------------------
(***************************************************************************)
(* Where the sound goes (src/src/audio/sinks.c): the headset, through one  *)
(* output of MPD, or an AirPlay speaker, through another that feeds        *)
(* OwnTone.  Screens ask (kick()); a worker thread that lives as long as   *)
(* there is something to do runs the calls, one step each here, and any of *)
(* them may fail; a third thread (follow()) stops OwnTone when MPD is      *)
(* paused.  MPD, OwnTone and the people who use them are external.         *)
(***************************************************************************)
EXTENDS Integers, FiniteSets

CONSTANTS Speakers,   \* AirPlay speakers
          Headset,    \* the Bluetooth headset, and MPD's output for it
          Feed,       \* MPD's output for OwnTone
          Nowhere,    \* no speaker
          Levels,     \* levels of MPD's mixers
          MaxAsks, MaxTrouble  \* bounds: screens asking; all else from outside

ASSUME SinksAssumption ==
  /\ Headset \notin Speakers /\ Nowhere \notin Speakers \union {Headset} /\ Feed # Headset
  /\ Levels \subseteq Nat /\ \A l, m \in Levels : l..m \subseteq Levels
  /\ MaxAsks \in Nat /\ MaxTrouble \in Nat

VARIABLES
  want,      \* want_refresh, want_select and selection of g
  running,   \* g.running
  w,         \* the worker: its next step `at' and its local variables
  current,   \* the sink that is current in g.sinks
  outs,      \* the outputs MPD has enabled
  mixer,     \* the level of each output
  owntone,   \* the speaker selected in OwnTone
  ownplays,  \* OwnTone plays
  play,      \* MPD's play state
  event,     \* MPD has a player event follow() has not waited for
  f,         \* follow(): its next step and its local variables
  sinkhist,  \* history: what failed or changed from outside, see below
  sinkcount  \* how much of each bound is used up

worker   == <<want, running, w, current>>
mpd      == <<outs, mixer, play, event>>
sinkVars == <<want, running, w, current, outs, mixer, owntone, ownplays, play,
              event, f, sinkhist, sinkcount>>

Places == Speakers \union {Headset}
Unknown == -1

\* clean: since the worker's pass began no call failed and nothing changed from
\* outside; chosen: the level somebody set last; raced: set between the worker's
\* reading of the level and its putting it back, or MPD started again since; hasty: the play state changed
\* before follow() was done with the change before or the speaker was current,
\* or the speaker changed before follow() was done.
Hist == [clean : BOOLEAN, chosen : Levels, raced : BOOLEAN, hasty : BOOLEAN]

Nothing == [refresh |-> FALSE, select |-> FALSE, sel |-> Headset]

SinksInit ==
  /\ want = Nothing
  /\ running = FALSE
  /\ w = [at |-> "gone", select |-> FALSE, sel |-> Headset, mpd |-> FALSE,
          feed |-> FALSE, before |-> Unknown, speaker |-> Nowhere]
  /\ current = Headset /\ owntone = Nowhere /\ ownplays = FALSE
  /\ outs = {Headset}
  /\ \E l \in Levels : /\ mixer \in [{Headset, Feed} -> Levels]
                       /\ mixer[Headset] = l
                       /\ sinkhist = [clean |-> TRUE, chosen |-> l, raced |-> FALSE, hasty |-> FALSE]
  /\ play = "play" /\ event = FALSE
  /\ f = [at |-> "wait", last |-> "play", seen |-> "stop"]
  /\ sinkcount = [asks |-> 0, calls |-> 0, outside |-> 0, toggles |-> 0]

Uses(bound) ==
  /\ sinkcount' = [sinkcount EXCEPT ![bound] = @ + 1]
  /\ sinkcount'.asks <= MaxAsks
  /\ sinkcount'.calls + sinkcount'.outside + sinkcount'.toggles <= MaxTrouble

\* A call of the worker: it is answered, or not.
Answer(ok) == IF ok THEN UNCHANGED <<sinkhist, sinkcount>>
              ELSE Uses("calls") /\ sinkhist' = [sinkhist EXCEPT !.clean = FALSE]
Outside == Uses("outside") /\ sinkhist' = [sinkhist EXCEPT !.clean = FALSE]

Following == event \/ f.at # "wait"  \* follow() is not done with what changed

Volume == IF outs = {} THEN Unknown  \* of MPD: the mean of the outputs'
          ELSE IF Cardinality(outs) = 2 THEN (mixer[Headset] + mixer[Feed]) \div 2
          ELSE mixer[CHOOSE o \in outs : TRUE]
SetMixers(v) == mixer' = [o \in {Headset, Feed} |-> IF o \in outs THEN v ELSE mixer[o]]
-----------------------------------------------------------------------------
\* kick(): a selection replaces one not yet taken up; a worker is started
\* unless there is one.
Kick(select, sel) ==
  /\ want' = [refresh |-> TRUE, select |-> select \/ want.select,
              sel |-> IF select THEN sel ELSE want.sel]
  /\ running' = TRUE
  /\ w' = IF running THEN w ELSE [w EXCEPT !.at = "take", !.mpd = FALSE]
  /\ UNCHANGED <<current, owntone, ownplays, f>> /\ UNCHANGED mpd

\* rpod_sinks_select(), and rpod_sinks_refresh() by a screen
Select(s) == /\ Kick(TRUE, s) /\ Uses("asks") /\ UNCHANGED sinkhist
Refresh   == /\ Kick(FALSE, Headset) /\ Uses("asks") /\ UNCHANGED sinkhist

\* speaker_check_cb()
Check == /\ current \in Speakers /\ Kick(FALSE, Headset)
         /\ UNCHANGED <<sinkhist, sinkcount>>

At(pc) == w.at = pc
TakeBlindly ==  \* Mutant: the worker stops after a pass without looking again.
  /\ At("take")
  /\ IF w.mpd
     THEN /\ running' = FALSE /\ w' = [w EXCEPT !.at = "gone"] /\ UNCHANGED <<want, sinkhist>>
     ELSE /\ w' = [w EXCEPT !.at = "connect", !.select = want.select, !.sel = want.sel]
          /\ want' = Nothing
          /\ sinkhist' = [sinkhist EXCEPT !.clean = TRUE] /\ UNCHANGED running
  /\ UNCHANGED <<current, owntone, ownplays, f, sinkcount>> /\ UNCHANGED mpd

\* worker(): what is wanted is taken under the lock, or the worker ends.
Take ==
  /\ At("take")
  /\ IF ~want.refresh /\ ~want.select
     THEN /\ running' = FALSE /\ w' = [w EXCEPT !.at = "gone"] /\ UNCHANGED <<want, sinkhist>>
     ELSE /\ w' = [w EXCEPT !.at = "connect", !.select = want.select, !.sel = want.sel]
          /\ want' = Nothing
          /\ sinkhist' = [sinkhist EXCEPT !.clean = TRUE] /\ UNCHANGED running
  /\ UNCHANGED <<current, owntone, ownplays, f, sinkcount>> /\ UNCHANGED mpd

\* After feed_speakers(): on to the rest of the selection, or of the pass.
Fed(u) == [u EXCEPT !.feed = FALSE, !.before = Unknown,
                    !.at = IF ~u.select THEN "publish" ELSE IF u.sel = Headset THEN "clear" ELSE "list"]

\* feed_speakers() does nothing without MPD.
ToFeed(u, speakers) == IF u.mpd THEN [u EXCEPT !.at = "read", !.feed = speakers] ELSE Fed(u)

\* worker(): MPD is asked for a connection if there is none.
Connect(ok) ==
  /\ At("connect") /\ (w.mpd => ok)
  /\ LET u == [w EXCEPT !.mpd = ok] IN
     w' = IF ~w.select THEN [u EXCEPT !.at = "list"]
          ELSE IF w.sel \in Speakers THEN [u EXCEPT !.at = "choose"]
          ELSE ToFeed(u, FALSE)
  /\ Answer(ok)
  /\ UNCHANGED <<want, running, current, owntone, ownplays, f>> /\ UNCHANGED mpd

\* apply_selection(): the speaker is selected, before the feed starts.  One
\* that is gone, or wants a PIN, leaves OwnTone with none selected.
Choose(ok) ==
  /\ At("choose")
  /\ owntone' = IF ok THEN w.sel ELSE Nowhere
  /\ ownplays' = (ownplays /\ ok)
  /\ w' = ToFeed(w, TRUE)
  /\ IF ok THEN UNCHANGED <<sinkhist, sinkcount>> ELSE Outside
  /\ UNCHANGED <<want, running, current, f>> /\ UNCHANGED mpd

\* feed_speakers(): the level is read ...
ReadLevel(ok) ==
  /\ At("read")
  /\ w' = [w EXCEPT !.at = "off", !.before = IF ok THEN Volume ELSE Unknown]
  /\ Answer(ok)
  /\ UNCHANGED <<want, running, current, owntone, ownplays, f>> /\ UNCHANGED mpd

Other(feed) == IF feed THEN Headset ELSE Feed
Wanted(feed) == IF feed THEN Feed ELSE Headset

\* ... one output is switched off before the other is switched on ...
OffOther(ok) ==
  /\ At("off")
  /\ w' = [w EXCEPT !.at = "on"]
  /\ outs' = IF ok THEN outs \ {Other(w.feed)} ELSE outs
  /\ Answer(ok)
  /\ UNCHANGED <<want, running, current, owntone, ownplays, mixer, play, event, f>>

OnWanted(ok) ==
  /\ At("on")
  /\ w' = [w EXCEPT !.at = "carry"]
  /\ outs' = IF ok THEN outs \union {Wanted(w.feed)} ELSE outs
  /\ Answer(ok)
  /\ UNCHANGED <<want, running, current, owntone, ownplays, mixer, play, event, f>>

CarryNothing(ok) ==  \* Mutant: the level is left as the output has it.
  /\ At("carry") /\ w' = Fed(w) /\ Answer(ok)
  /\ UNCHANGED <<want, running, current, owntone, ownplays, f>> /\ UNCHANGED mpd

\* ... and the level it was is put back, as the output has one of its own.
Carry(ok) ==
  /\ At("carry")
  /\ w' = Fed(w)
  /\ IF ok /\ w.before # Unknown /\ Volume # w.before THEN SetMixers(w.before) ELSE UNCHANGED mixer
  /\ Answer(ok)
  /\ UNCHANGED <<want, running, current, owntone, ownplays, outs, play, event, f>>

\* apply_selection(): the headset plays, so OwnTone is left without a speaker.
Clear(ok) ==
  /\ At("clear")
  /\ w' = [w EXCEPT !.at = "list"]
  /\ owntone' = IF ok THEN Nowhere ELSE owntone
  /\ ownplays' = (ownplays /\ ~ok)
  /\ Answer(ok)
  /\ UNCHANGED <<want, running, current, f>> /\ UNCHANGED mpd

\* worker(): OwnTone's speakers are listed (none if it does not answer); a
\* refresh then puts MPD's outputs right.
List(ok) ==
  /\ At("list")
  /\ LET u == [w EXCEPT !.speaker = IF ok THEN owntone ELSE Nowhere] IN
     w' = IF w.select THEN [u EXCEPT !.at = "publish"] ELSE ToFeed(u, u.speaker \in Speakers)
  /\ Answer(ok)
  /\ UNCHANGED <<want, running, current, owntone, ownplays, f>> /\ UNCHANGED mpd

\* worker(), publish(): a selected speaker takes "current" from the headset.
Publish ==
  /\ At("publish")
  /\ current' = IF w.speaker \in Speakers THEN w.speaker ELSE Headset
  /\ w' = [w EXCEPT !.at = "take", !.speaker = Nowhere]
  /\ sinkhist' = [sinkhist EXCEPT !.hasty = @ \/ (current' # current /\ Following)]
  /\ UNCHANGED <<want, running, owntone, ownplays, f, sinkcount>> /\ UNCHANGED mpd

WorkerStep == \/ Take \/ Publish
              \/ \E ok \in BOOLEAN :
                   \/ Connect(ok) \/ Choose(ok) \/ ReadLevel(ok) \/ OffOther(ok)
                   \/ OnWanted(ok) \/ Carry(ok) \/ Clear(ok) \/ List(ok)
-----------------------------------------------------------------------------
\* follow(): MPD's state is read; a play that ended while a speaker is current
\* stops OwnTone.
FollowRead ==
  /\ f.at = "read"
  /\ f' = IF f.last = "play" /\ play # "play" /\ current \in Speakers
          THEN [f EXCEPT !.at = "stop", !.seen = play]
          ELSE [f EXCEPT !.at = "wait", !.last = play]
  /\ UNCHANGED <<owntone, ownplays, sinkhist, sinkcount>>
  /\ UNCHANGED worker /\ UNCHANGED mpd

FollowStop ==
  /\ f.at = "stop"
  /\ f' = [f EXCEPT !.at = IF f.seen = "pause" THEN "seek" ELSE "wait", !.last = f.seen, !.seen = "stop"]
  /\ ownplays' = FALSE
  /\ UNCHANGED <<owntone, sinkhist, sinkcount>>
  /\ UNCHANGED worker /\ UNCHANGED mpd

\* A pause moves MPD back by what OwnTone had not played yet; MPD says so.
FollowSeek ==
  /\ f.at = "seek"
  /\ f' = [f EXCEPT !.at = "wait"]
  /\ event' = TRUE
  /\ UNCHANGED <<owntone, ownplays, outs, mixer, play, sinkhist, sinkcount>>
  /\ UNCHANGED worker

FollowWait ==
  /\ f.at = "wait" /\ event
  /\ f' = [f EXCEPT !.at = "read"]
  /\ event' = FALSE
  /\ UNCHANGED <<owntone, ownplays, outs, mixer, play, sinkhist, sinkcount>>
  /\ UNCHANGED worker

FollowStep == FollowRead \/ FollowStop \/ FollowSeek \/ FollowWait
-----------------------------------------------------------------------------
\* Outside: people and other programs use MPD, ...
Turn(v) ==
  /\ outs # {} /\ v # Volume
  /\ SetMixers(v)
  /\ Uses("outside")
  /\ sinkhist' = [sinkhist EXCEPT !.chosen = v, !.raced = At("off") \/ At("on") \/ At("carry")]
  /\ UNCHANGED <<owntone, ownplays, outs, play, event, f>> /\ UNCHANGED worker

Toggle(state) ==
  /\ state # play
  /\ play' = state /\ event' = TRUE
  /\ Uses("toggles")
  /\ sinkhist' = [sinkhist EXCEPT !.hasty = (@ /\ play # "play") \/ Following \/ current \notin Speakers]
  /\ UNCHANGED <<owntone, ownplays, outs, mixer, f>> /\ UNCHANGED worker

\* ... MPD starts again with both outputs on, as mpd.conf has them, ...
MpdRestarts ==
  /\ outs # {Headset, Feed} /\ outs' = {Headset, Feed}
  /\ Uses("outside")
  /\ sinkhist' = [sinkhist EXCEPT !.clean = FALSE, !.raced = TRUE]
  /\ UNCHANGED <<owntone, ownplays, mixer, play, event, f>> /\ UNCHANGED worker

\* ... a speaker drops out, and OwnTone starts when its feed does.
Drop ==
  /\ owntone # Nowhere /\ owntone' = Nowhere /\ ownplays' = FALSE
  /\ Outside
  /\ UNCHANGED f /\ UNCHANGED worker /\ UNCHANGED mpd

Autostart ==
  /\ ~ownplays /\ play = "play" /\ Feed \in outs /\ owntone # Nowhere
  /\ ownplays' = TRUE
  /\ UNCHANGED <<owntone, f, sinkhist, sinkcount>> /\ UNCHANGED worker /\ UNCHANGED mpd

SinksNext ==
  \/ \E s \in Places : Select(s)
  \/ Refresh \/ Check \/ WorkerStep \/ FollowStep
  \/ \E v \in Levels : Turn(v)
  \/ \E state \in {"play", "pause", "stop"} : Toggle(state)
  \/ MpdRestarts \/ Drop \/ Autostart

\* The threads run on; the check of the speaker is a timer.
SinksSpec == SinksInit /\ [][SinksNext]_sinkVars
SinksFairness == /\ WF_sinkVars(WorkerStep)
                 /\ WF_sinkVars(FollowStep)
                 /\ WF_sinkVars(Check)
-----------------------------------------------------------------------------
Steps == {"gone", "take", "connect", "choose", "read", "off", "on", "carry", "clear", "list", "publish"}

\* Types; the worker is there exactly while g.running says so.
SinksTypes ==
  /\ want \in [refresh : BOOLEAN, select : BOOLEAN, sel : Places] /\ running \in BOOLEAN
  /\ w \in [at : Steps, select : BOOLEAN, sel : Places, mpd : BOOLEAN, feed : BOOLEAN,
            before : Levels \union {Unknown}, speaker : Speakers \union {Nowhere}]
  /\ (w.at = "gone") = ~running
  /\ current \in Places /\ owntone \in Speakers \union {Nowhere}
  /\ outs \subseteq {Headset, Feed} /\ mixer \in [{Headset, Feed} -> Levels]
  /\ sinkhist \in Hist /\ ownplays \in BOOLEAN

\* While nothing has failed or changed from outside, the two outputs are never
\* both on, whatever was asked in whatever order; and when the worker has
\* ended after a pass in which nothing did, the one that is on is the one of
\* the sink the screens show.
PlaysWhereShown ==
  /\ sinkcount.calls = 0 /\ sinkcount.outside = 0 => outs # {Headset, Feed}
  /\ ~running /\ sinkhist.clean =>
       /\ outs = IF current \in Speakers THEN {Feed} ELSE {Headset}
       /\ current \in Speakers => owntone = current

\* A switch of the output does not change the level, although the outputs have
\* mixers of their own: what MPD says is the level somebody set last, but for
\* one set while the worker switched, and a restart of MPD with both on.
LevelCarried ==
  /\ sinkcount.calls = 0 /\ ~sinkhist.raced /\ Cardinality(outs) = 1
  /\ w.at \in {"gone", "take", "connect", "choose", "clear", "list", "publish"}
  => Volume = sinkhist.chosen

\* Where the sound goes: the two outputs are never both on without a fault, the
\* one that is on is the one of the sink the screens show, and a switch keeps
\* the level.
SinksRight == SinksTypes /\ PlaysWhereShown /\ LevelCarried

\* A selection or refresh that was asked for is taken up, also one made while
\* the worker was about to end.
EachAskTaken == want.select \/ want.refresh ~> ~want.select /\ ~want.refresh

\* A pause while a speaker plays stops OwnTone, unless the play state changed
\* twice in a row or the speaker was not known of yet.
PauseStopsSpeaker ==
  play # "play" /\ ownplays /\ current \in Speakers
    ~> ~ownplays \/ play = "play" \/ current \notin Speakers \/ sinkhist.hasty
=============================================================================
