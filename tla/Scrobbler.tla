------------------------------ MODULE Scrobbler ------------------------------
(***************************************************************************)
(* Which songs count as listened to (src/src/audio/scrobbler.c).  A timer  *)
(* asks MPD what plays - its status, then the song, two commands between   *)
(* which the song may change - and submits a listen when it has got far    *)
(* enough; a file remembers the last one, for a restart in the middle of a *)
(* song.  MPD and the user are external; a play is one song started from   *)
(* its beginning, and plays are numbered.                                  *)
(***************************************************************************)
EXTENDS Integers

CONSTANTS Songs, Video,   \* what MPD plays
          Silence,        \* no song
          Duration,       \* of each, in steps of some seconds
          MinDuration,    \* MIN_SCROBBLE_DURATION_S
          MaxThreshold,   \* MAX_SCROBBLE_THRESHOLD_S
          Grace,          \* RESUME_ELAPSED_GRACE_S
          MaxPlays, MaxDeeds  \* bounds: plays, and seeks, failures, crashes

ASSUME ScrobAssumption ==
  /\ Silence \notin Songs /\ Video \notin Songs \union {Silence}
  /\ Duration \in [Songs \union {Video} -> Nat]
  /\ MinDuration \in Nat /\ MaxThreshold \in Nat /\ Grace \in Nat

VARIABLES
  mpd,       \* song, play number n, pos, state
  scrob,     \* struct rpod_scrobbler, and the poll's next step `at' and locals
  file,      \* state_path: the song and where it was
  suspended, \* g_suspended, and what the video was started over
  plays,     \* history, of each play: its song, how far it got, how often it was
             \* submitted, and whether the poll saw it far enough
  sees,      \* history: cut: rPod died between submission and saving; torn:
             \* plays seen with the status of another; back: plays sought back
             \* by more than Grace from the farthest they got;
             \* again: plays of the song before once more without a poll that saw
             \* another, or of the one submitted last, first seen no earlier in it
  deeds

scrobVars == <<mpd, scrob, file, suspended, plays, sees, deeds>>

NoSong == [song |-> Silence, pos |-> 0]
\* a poll's `status' before it asks, and after
NoStatus == [state |-> "stop", pos |-> 0, dur |-> 0, n |-> 0]
\* after rpod_scrobbler_create()
Created(last) == [at |-> "idle", current |-> Silence, sent |-> FALSE, last |-> last,
                  status |-> NoStatus]
NewPlay(song) == [song |-> song, far |-> 0, times |-> 0, due |-> FALSE]

ScrobInit ==
  /\ \E s \in Songs : mpd = [song |-> s, n |-> 1, pos |-> 0, state |-> "play"]
                      /\ plays = <<NewPlay(s)>>
  /\ scrob = Created(NoSong) /\ file = NoSong
  /\ suspended = [on |-> FALSE, over |-> mpd]
  /\ sees = [cut |-> FALSE, torn |-> {}, back |-> {}, again |-> {}]
  /\ deeds = 0

Deed == deeds < MaxDeeds /\ deeds' = deeds + 1
Threshold(d) == IF d \div 2 > MaxThreshold THEN MaxThreshold ELSE d \div 2
-----------------------------------------------------------------------------
\* poll_cb(), rpod_mpd_get_status(): the first command.  A stopped MPD is cued
\* to its first song by rpod_mpd_get_status_settled(), see Stop.
PollStatus ==
  /\ scrob.at = "idle" /\ ~suspended.on
  /\ scrob' = [scrob EXCEPT !.at = "song",
                            !.status = [state |-> mpd.state, pos |-> mpd.pos, n |-> mpd.n,
                                        dur |-> IF mpd.song = Silence THEN 0 ELSE Duration[mpd.song]]]
  /\ UNCHANGED <<mpd, file, suspended, plays, sees, deeds>>

ResumeByName(song, pos) == song = scrob.last.song  \* Mutant: wherever it is.

\* "Same play we already scrobbled before a crash/restart"
Resume(song, pos) == song = scrob.last.song /\ pos + Grace >= scrob.last.pos

\* The second: a new song starts afresh unless it is the play that was submitted ...
PollSong ==
  /\ scrob.at = "song"
  /\ LET song  == mpd.song
         seen  == scrob.status
         fresh == song # scrob.current
         sent  == IF fresh THEN Resume(song, seen.pos) ELSE scrob.sent
         due   == /\ seen.state = "play" /\ song # Silence
                  /\ seen.dur >= MinDuration /\ seen.pos >= Threshold(seen.dur)
         sends == due /\ ~sent
     IN  /\ scrob' = [scrob EXCEPT !.at = IF sends THEN "save" ELSE "idle",
                                   !.current = song,
                                   !.sent = song # Silence /\ (sent \/ due),
                                   !.last = IF sends THEN [song |-> song, pos |-> seen.pos] ELSE @,
                                   !.status = NoStatus]
         \* ... and is submitted when it has got far enough
         /\ plays' = IF ~due THEN plays
                     ELSE [plays EXCEPT ![mpd.n].due = @ \/ mpd.n = seen.n,
                                        ![mpd.n].times = IF sends THEN @ + 1 ELSE @]
         /\ sees' = [sees EXCEPT !.torn = IF mpd.n # seen.n THEN @ \union {mpd.n} ELSE @,
                                 !.again = IF fresh /\ song = scrob.last.song /\ seen.pos + Grace >= scrob.last.pos
                                           THEN @ \union {mpd.n} ELSE @]
  /\ UNCHANGED <<mpd, file, suspended, deeds>>

\* save_state()
Save ==
  /\ scrob.at = "save" /\ scrob' = [scrob EXCEPT !.at = "idle"]
  /\ file' = scrob.last
  /\ UNCHANGED <<mpd, suspended, plays, sees, deeds>>

\* poll_cb(): MPD does not answer.
PollFails ==
  /\ scrob.at = "idle" /\ ~suspended.on /\ Deed
  /\ scrob' = [scrob EXCEPT !.current = Silence]
  /\ UNCHANGED <<mpd, file, suspended, plays, sees>>

\* rPod dies and starts again, load_state(); the file may have been truncated
\* by fopen() and not written yet.
Dies(truncated) ==
  /\ Deed /\ (truncated => scrob.at = "save")
  /\ file' = IF truncated THEN NoSong ELSE file
  /\ scrob' = Created(file')
  /\ sees' = [sees EXCEPT !.cut = @ \/ scrob.at = "save"]
  /\ suspended' = [suspended EXCEPT !.on = FALSE]
  /\ mpd' = IF suspended.on THEN suspended.over ELSE mpd  \* see VideoEnds
  /\ UNCHANGED plays
-----------------------------------------------------------------------------
\* MPD plays on, ...
PlayOn ==
  /\ mpd.state = "play" /\ mpd.song # Silence /\ ~suspended.on
  /\ mpd.pos < Duration[mpd.song]
  /\ mpd' = [mpd EXCEPT !.pos = @ + 1]
  /\ plays' = [plays EXCEPT ![mpd.n].far = IF @ < mpd.pos + 1 THEN mpd.pos + 1 ELSE @]
  /\ UNCHANGED <<scrob, file, suspended, sees, deeds>>

\* ... another song starts, or the same again, or the queue is empty, ...
NextSong(song) ==
  /\ mpd.n < MaxPlays /\ ~suspended.on
  /\ mpd' = [song |-> song, n |-> mpd.n + 1, pos |-> 0, state |-> "play"]
  /\ plays' = [n \in 1..(mpd.n + 1) |-> IF n <= mpd.n THEN plays[n] ELSE NewPlay(song)]
  /\ sees' = [sees EXCEPT !.again = IF song = scrob.current THEN @ \union {mpd.n + 1} ELSE @]
  /\ UNCHANGED <<scrob, file, suspended, deeds>>

\* ... it is paused or not, sought through, or starts again from a position
\* saved a moment ago.
Toggle == /\ ~suspended.on /\ mpd.song # Silence /\ Deed
          /\ mpd' = [mpd EXCEPT !.state = IF @ = "play" THEN "pause" ELSE "play"]
          /\ UNCHANGED <<scrob, file, suspended, plays, sees>>
SeekTo(pos) ==
  /\ ~suspended.on /\ mpd.song # Silence /\ pos # mpd.pos /\ pos <= Duration[mpd.song] /\ Deed
  /\ mpd' = [mpd EXCEPT !.pos = pos]
  /\ plays' = [plays EXCEPT ![mpd.n].far = IF @ < pos THEN pos ELSE @]
  /\ sees' = [sees EXCEPT !.back = IF pos + Grace < plays[mpd.n].far THEN @ \union {mpd.n} ELSE @]
  /\ UNCHANGED <<scrob, file, suspended>>

\* rpod_scrobbler_suspend()
Suspend(on) == suspended' = [on |-> on, over |-> IF on THEN mpd ELSE suspended.over]

\* The video player, between two polls: MPD plays the video, and later has its
\* song back where it was, paused.  (A crash leaves MPD at the video; that its
\* file is not in the library is not told apart here.)
VideoPlays ==
  /\ ~suspended.on /\ scrob.at = "idle" /\ mpd.n < MaxPlays /\ Deed
  /\ Suspend(TRUE)
  /\ mpd' = [song |-> Video, n |-> mpd.n + 1, pos |-> Duration[Video], state |-> "play"]
  /\ plays' = [n \in 1..(mpd.n + 1) |-> IF n <= mpd.n THEN plays[n] ELSE NewPlay(Video)]
  /\ UNCHANGED <<scrob, file, sees>>
VideoEnds ==
  /\ mpd.song = Video /\ scrob.at = "idle" /\ Suspend(FALSE)
  /\ mpd' = [suspended.over EXCEPT !.state = "pause"]
  /\ UNCHANGED <<scrob, file, plays, sees, deeds>>

ScrobNext ==
  \/ PollStatus \/ PollSong \/ Save \/ PollFails \/ PlayOn \/ Toggle \/ VideoPlays \/ VideoEnds
  \/ \E truncated \in BOOLEAN : Dies(truncated)
  \/ \E s \in Songs \union {Silence} : NextSong(s)
  \/ \E pos \in 0..(MaxThreshold + 1) : SeekTo(pos)
-----------------------------------------------------------------------------
\* A play counts once, over pauses, failures of MPD, videos in between and
\* restarts of rPod in the middle of the song, unless rPod died between the
\* submission and the saving, or the song was sought back or its status was another's.
CountsOnce ==
  \A n \in DOMAIN plays : plays[n].times <= 1 \/ sees.cut \/ n \in sees.back \/ sees.torn # {}

\* A play that was seen far enough in is submitted, also of a song submitted
\* before ("never mistaken for a resume"), unless the poll saw nothing between
\* it and the same song before, or came to it as late in the song as then.
Heard == \A n \in DOMAIN plays : plays[n].due => plays[n].times > 0 \/ n \in sees.again

\* What is submitted is a song long enough that got far enough, never a video,
\* unless the song changed between MPD's status and the song it named.
Deserved ==
  \A n \in DOMAIN plays :
    plays[n].times > 0 /\ n \notin sees.torn =>
      /\ plays[n].song \in Songs /\ Duration[plays[n].song] >= MinDuration
      /\ plays[n].far >= Threshold(Duration[plays[n].song])

ScrobSpec == ScrobInit /\ [][ScrobNext]_scrobVars

\* A play counts once, when it got far enough, and then it does (scrobbler.c).
ListensRight == CountsOnce /\ Heard /\ Deserved
=============================================================================
