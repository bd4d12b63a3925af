------------------------------- MODULE Screens -------------------------------
(***************************************************************************)
(* What is on the screen, and who has MPD: the screen stack and its        *)
(* overlay (src/src/ui/screens/screen_stack.c), the Screen Lock, the       *)
(* alarm's card, the AirPods' card, and the two that borrow playback, the  *)
(* video player (video_screens.c) and Music Quiz (music_quiz.c).  All run  *)
(* on the LVGL thread: a callback is a step, with every call it makes.     *)
(*                                                                         *)
(* MPD is external.  A song is a queue id: 0 is the music there was, ids   *)
(* from 1 on are songs the borrowers added, in order.                      *)
(***************************************************************************)
EXTENDS Integers, Sequences, SequencesExt

CONSTANTS StackMax,                  \* RPOD_SCREEN_STACK_MAX
          MaxExtras, MaxScreenDeeds  \* bounds: songs added; what comes from outside

ASSUME ScreensAssumption == StackMax \in Nat /\ StackMax >= 2  \* room for the Screen Lock

VARIABLES
  ui,         \* the LVGL thread's state and MPD's, see Home
  lockfile,  \* screen_lock.c: g.locked, and its file
  past,      \* history, see ScreensInit
  screendeeds

screenVars == <<ui, lockfile, past, screendeeds>>

NoTrack == -1
Alarms == -2  \* what the alarm plays instead of the queue there was
Card   == 0   \* the overlay's group; frame i has group i

\* a borrower of playback: player_t or quiz_t, and whether there is one.
\* `over' is the video of which poll_cb() found that it is over.
NoBorrower == [on |-> FALSE, borrowed |-> FALSE, spot |-> [song |-> NoTrack, state |-> "stop"],
               extra |-> NoTrack, taken |-> FALSE, leaving |-> FALSE, over |-> NoTrack, far |-> "start",
               done |-> FALSE]

\* rPod just started, with MPD as m: the main menu.  `input' is the group of the
\* wheel, `default' the one widgets join, `shown' the screen loaded.
Home(m) == [frames |-> <<"root">>, overlay |-> "none", locked |-> FALSE,
            input |-> 1, default |-> 1, shown |-> 1,
            player |-> NoBorrower, quiz |-> NoBorrower, suspended |-> FALSE, ringing |-> FALSE, mpd |-> m]

ScreensInit ==
  /\ \E state \in {"play", "pause", "stop"} : \E song \in {0, NoTrack} :
       /\ song = NoTrack => state = "stop"
       /\ ui = Home([song |-> song, state |-> state, queue |-> {0}, next |-> 1])
       /\ past = [was |-> [song |-> song, state |-> state],  \* MPD before anybody borrowed it
                  other |-> FALSE,    \* since then someone else took playback, MPD
                                      \* did not answer, or rPod died
                  ran |-> FALSE,      \* the quiz's song ran out, or would not play, and it
                                      \* has not played another since
                  litter |-> FALSE,   \* MPD did not answer a delete, or rPod died
                  nested |-> FALSE,   \* a video was started over the quiz
                  late |-> FALSE,     \* a player that was leaving was given a video
                  back |-> "none",    \* MPD's state as a video at its end was just left
                  early |-> FALSE]    \* a player went before its video was over
  /\ lockfile = FALSE /\ screendeeds = 0

ScreenDeed == screendeeds < MaxScreenDeeds /\ screendeeds' = screendeeds + 1
Top(s) == Len(s.frames)
Alone(s) == s.input = Top(s)  \* the wheel and Center reach the top screen
-----------------------------------------------------------------------------
\* MPD: rpod_mpd_play_extra(), rpod_mpd_delete_id(), which stops the one playing.
PlayExtra(m) == [song |-> m.next, state |-> "play", queue |-> m.queue \union {m.next}, next |-> m.next + 1]
Delete(m, id) ==
  [m EXCEPT !.queue = @ \ {id}, !.song = IF @ = id THEN NoTrack ELSE @,
            !.state = IF m.song = id THEN "stop" ELSE @]

\* rpod_mpd_restore_spot(): paused first if it was, then the seek, which leaves a
\* paused player paused and starts a stopped one.
Restore(m, spot) ==
  LET held == IF spot.state # "play" /\ m.state = "play" THEN "pause" ELSE m.state
  IN  IF spot.song = NoTrack THEN [m EXCEPT !.state = "stop"]
      ELSE IF spot.song \notin m.queue THEN [m EXCEPT !.state = held]
      ELSE [m EXCEPT !.song = spot.song,
                     !.state = IF spot.state = "stop" THEN "stop"
                               ELSE IF held = "pause" THEN "pause" ELSE "play"]

\* rpod_mpd_get_spot()
SpotOf(m, up) == IF up THEN [song |-> m.song, state |-> m.state] ELSE [song |-> NoTrack, state |-> "stop"]

BorrowAgain(s, who, up) ==  \* Mutant: at every video, not the first only.
  [s EXCEPT ![who] = [@ EXCEPT !.borrowed = TRUE, !.spot = SpotOf(s.mpd, up)], !.suspended = TRUE]

\* borrow(), of both; `up' when MPD answers
Borrow(s, who, up) ==
  IF s[who].borrowed THEN s
  ELSE [s EXCEPT ![who] = [@ EXCEPT !.borrowed = TRUE, !.extra = NoTrack, !.spot = SpotOf(s.mpd, up)],
                 !.suspended = TRUE]

\* start(), start_round(): the borrower's next song, in place of the one before.
\* MPD may not answer ("down"), or not play it ("refused").
MpdAnswers == {"ok", "refused", "down"}
NextExtra(s, who, ans) ==
  LET m == IF ans = "ok" THEN PlayExtra(s.mpd) ELSE s.mpd
  IN  [s EXCEPT !.mpd = IF ans # "down" /\ s[who].extra # NoTrack THEN Delete(m, s[who].extra) ELSE m,
                ![who] = [@ EXCEPT !.extra = IF ans = "ok" THEN s.mpd.next ELSE NoTrack, !.far = "start"]]

HandBack(s, who, m) ==
  [s EXCEPT !.mpd = IF s[who].extra # NoTrack THEN Delete(m, s[who].extra) ELSE m,
            ![who] = [@ EXCEPT !.extra = NoTrack, !.borrowed = FALSE], !.suspended = FALSE]

\* video_screens.c, give_back(): the music back where it was, paused
GiveBack(s, up) ==
  IF ~s.player.borrowed THEN s
  ELSE LET spot == [s.player.spot EXCEPT !.state = IF @ = "play" THEN "pause" ELSE @]
           m    == IF up /\ ~s.player.taken THEN Restore(s.mpd, spot) ELSE s.mpd
       IN  IF up THEN HandBack(s, "player", m) ELSE [HandBack(s, "player", m) EXCEPT !.mpd = m]

\* music_quiz.c, give_back(): only if its own song is still the current one
QuizGivesBack(s, up) ==
  IF ~s.quiz.borrowed THEN s
  ELSE LET mine == up /\ s.quiz.extra # NoTrack /\ s.mpd.song = s.quiz.extra
           m    == IF mine THEN Restore(s.mpd, s.quiz.spot) ELSE s.mpd
       IN  IF up THEN HandBack(s, "quiz", m) ELSE [HandBack(s, "quiz", m) EXCEPT !.mpd = m]
-----------------------------------------------------------------------------
\* The ctx_free of a frame: player_free(), quiz_free().
Freed(s, kind, up) ==
  CASE kind = "player" -> [GiveBack(s, up) EXCEPT !.player = NoBorrower]
    [] kind = "quiz"   -> [QuizGivesBack(s, up) EXCEPT !.quiz = NoBorrower]
    [] OTHER           -> s

\* rpod_screen_stack_push(); a full stack frees what was to be pushed.
Push(s, kind, up) ==
  IF Top(s) >= StackMax THEN Freed(s, kind, up)
  ELSE LET n == Top(s) + 1
       IN  [s EXCEPT !.frames = Append(@, kind), !.input = n, !.default = n, !.shown = n]

\* rpod_screen_stack_pop()
Pop(s, up) ==
  IF Top(s) <= 1 \/ s.locked THEN s
  ELSE LET n == Top(s) - 1
       IN  Freed([s EXCEPT !.frames = Front(@), !.input = n, !.default = n, !.shown = n],
                 s.frames[Top(s)], up)

\* rpod_screen_stack_open_overlay(), _close_overlay(); with the alarm's card
\* gone some other way, the alarm rings no more (card_delete_cb()).
OpenOverlay(s, kind) ==
  IF s.overlay # "none" THEN s ELSE [s EXCEPT !.overlay = kind, !.input = Card, !.default = Card]
CloseOverlayRinging(s) ==  \* Mutant: the card takes nothing with it.
  IF s.overlay = "none" THEN s
  ELSE [s EXCEPT !.overlay = "none", !.input = Top(s), !.default = Top(s)]
CloseOverlay(s) ==
  IF s.overlay = "none" THEN s
  ELSE [s EXCEPT !.overlay = "none", !.input = Top(s), !.default = Top(s),
                 !.ringing = @ /\ s.overlay # "alarm"]
-----------------------------------------------------------------------------
\* What the step from s to t adds to the history.
Noted(s, t, ans) ==
  LET first == ~s.player.borrowed /\ ~s.quiz.borrowed
  IN  [past EXCEPT
        !.was    = IF first THEN SpotOf(s.mpd, TRUE) ELSE @,
        !.other  = (@ /\ ~first) \/ ans = "down",
        !.ran    = \/ @ /\ ~first /\ t.quiz.extra \in {s.quiz.extra, NoTrack}
                   \/ t.quiz.borrowed /\ t.quiz.extra = NoTrack,
        !.litter = @ \/ ans = "down",
        !.nested = t.player.on /\ t.quiz.on,
        !.back   = IF s.player.far = "end" /\ s.player.borrowed /\ ~t.player.on /\ ~t.player.taken /\ ans # "down"
                   THEN t.mpd.state ELSE "none"]

Quietly(t)   == ui' = t /\ UNCHANGED <<lockfile, past, screendeeds>>
\* a callback that calls MPD
CallMpd(t, ans) ==
  /\ t.mpd.next <= MaxExtras + 1
  /\ ui' = t /\ past' = Noted(ui, t, ans) /\ UNCHANGED lockfile
  /\ IF ans = "ok" THEN UNCHANGED screendeeds ELSE ScreenDeed
Row(kind) == Alone(ui) /\ ui.frames[Top(ui)] = kind

\* push_player(): one player at a time.
StartVideo(s, ans) == NextExtra(Borrow(s, "player", ans # "down"), "player", ans)
PushPlayer(s, ans) ==
  IF s.player.on THEN StartVideo(s, ans)
  ELSE Push([StartVideo(s, ans) EXCEPT !.player.on = TRUE], "player", ans # "down")

\* new_game(), and its first round
NewGame(s, ans) == [NextExtra(Borrow(s, "quiz", ans # "down"), "quiz", ans) EXCEPT !.quiz.done = FALSE]

\* A row of a menu: another menu, a video, Music Quiz, or Lock.
PushMenu == (Row("root") \/ Row("menu")) /\ Quietly(Push(ui, "menu", TRUE))
\* OnVideo and rpod_music_quiz_push()
OnVideo(ans)  == Row("menu") /\ CallMpd(PushPlayer(ui, ans), ans)
PushQuiz(ans) == Row("menu") /\ CallMpd(Push([NewGame(ui, ans) EXCEPT !.quiz.on = TRUE], "quiz", ans # "down"), ans)
OnLock == /\ Row("menu") /\ Top(ui) < StackMax  \* its menu is on the third level of twelve
          /\ ScreenDeed
          /\ lockfile' = TRUE /\ ui' = [Push(ui, "lock", TRUE) EXCEPT !.locked = TRUE]
          /\ UNCHANGED past

\* unlock(): the right combination
Unlock ==
  /\ Row("lock") /\ lockfile' = FALSE
  /\ ui' = Pop([ui EXCEPT !.locked = FALSE], TRUE) /\ UNCHANGED <<past, screendeeds>>

\* on_menu()
OnMenu(ans) ==
  /\ ans # "refused"
  /\ CallMpd(IF ui.overlay # "none" THEN CloseOverlay(ui) ELSE Pop(ui, ans # "down"), ans)

\* on_play_video(), for the web UI: never over the Screen Lock
OnPlayVideo(ans) ==
  /\ ~ui.locked /\ ScreenDeed /\ UNCHANGED lockfile
  /\ LET t == PushPlayer(CloseOverlay(ui), ans)
     IN  /\ t.mpd.next <= MaxExtras + 1 /\ ui' = t
         /\ past' = [Noted(ui, t, ans) EXCEPT !.late = @ \/ ui.player.leaving]

\* Cards: the AirPods' own goes by itself, the sheet of outputs with a choice.
ShowCard  == ui.overlay = "none" /\ Quietly(OpenOverlay(ui, "card"))
CloseCard == ui.overlay = "card" /\ Quietly(CloseOverlay(ui))

\* rpod_screen_stack_rebuild(): another theme, from the web UI
Rebuild(s) == LET c == CloseOverlay(s)
              IN  [c EXCEPT !.input = Top(c), !.default = Top(c), !.shown = Top(c)]
OnThemeChange == ui.overlay # "none" /\ Quietly(Rebuild(ui))
-----------------------------------------------------------------------------
\* The alarm, check_cb() and go_off(): it plays its sound, or what a snooze had
\* paused, and opens its card in place of any other.
GoOff(up, again) ==
  /\ ~ui.ringing /\ ScreenDeed /\ UNCHANGED lockfile
  /\ LET m == IF ~up THEN ui.mpd
              ELSE IF again /\ ui.mpd.state # "stop" THEN [ui.mpd EXCEPT !.state = "play"]
              ELSE [ui.mpd EXCEPT !.song = Alarms, !.state = "play", !.queue = {Alarms}]
     IN  ui' = [OpenOverlay(CloseOverlay(ui), "alarm") EXCEPT !.ringing = TRUE, !.mpd = m]
  /\ past' = [past EXCEPT !.other = TRUE]

\* on_snooze(), on_stop()
EndAlarm == /\ ui.overlay = "alarm" /\ past' = [past EXCEPT !.other = TRUE] /\ UNCHANGED <<lockfile, screendeeds>>
            /\ ui' = CloseOverlay([ui EXCEPT !.ringing = FALSE,
                                           !.mpd.state = IF @ = "play" THEN "pause" ELSE @])
-----------------------------------------------------------------------------
\* Music Quiz, tick_cb(): the next round or the end, unless it is covered.
QuizRound(ans) ==
  /\ ui.quiz.on /\ ~ui.quiz.done /\ ui.overlay = "none" /\ ui.frames[ui.shown] = "quiz"
  /\ CallMpd(NextExtra(ui, "quiz", ans), ans)
QuizEnds(up) ==
  /\ ui.quiz.on /\ ~ui.quiz.done /\ ui.overlay = "none" /\ ui.frames[ui.shown] = "quiz"
  /\ CallMpd([QuizGivesBack(ui, up) EXCEPT !.quiz.done = TRUE], IF up THEN "ok" ELSE "down")
OnPlayAgain(ans) == Row("quiz") /\ ui.quiz.done /\ CallMpd(NewGame(ui, ans), ans)

\* leave_if_can()
LeaveIfCan(s, up) ==
  IF s.frames[s.shown] # "player" \/ s.overlay # "none" THEN s ELSE Pop(s, up)

Leave(t, ans) ==
  LET gone == LeaveIfCan(t, ans # "down")
  IN  /\ ui' = gone /\ UNCHANGED lockfile
      /\ IF ans = "ok" THEN UNCHANGED screendeeds ELSE ScreenDeed
      /\ past' = [Noted(ui, gone, ans) EXCEPT !.early = @ \/ (~gone.player.on /\ t.player.over # t.player.extra)]

\* The player's poll_cb(): it goes when it is leaving and can, ...
PollLeaving(ans) == ui.player.leaving /\ LeaveIfCan(ui, TRUE) # ui /\ Leave(ui, ans)

\* ... when MPD plays the video no more, it never got going, ...
Lost == /\ ui.player.on /\ ~ui.player.leaving /\ ui.player.extra # NoTrack
        /\ ui.mpd.song # ui.player.extra \/ ui.mpd.state = "stop"
PollNeverPlayed == Lost /\ ui.player.far = "start" /\ CallMpd(GiveBack(ui, TRUE), "ok")

\* ... or it is over, or another song plays, which then stands.
PollOver ==
  /\ Lost /\ ui.player.far # "start"
  /\ Leave([ui EXCEPT !.player.leaving = TRUE, !.player.over = ui.player.extra,
                     !.player.taken = ui.player.far # "end" /\ ui.mpd.song # ui.player.extra], "ok")

\* rpod_video_player_skip(+1): the next video, or past the last
SkipVideo(ans) == ui.player.on /\ ~ui.player.leaving /\ CallMpd(StartVideo(ui, ans), ans)
SkipLast == /\ ui.player.on /\ ~ui.player.leaving
            /\ Quietly([ui EXCEPT !.player.leaving = TRUE, !.player.over = ui.player.extra])
-----------------------------------------------------------------------------
\* MPD: the video plays on, or it or the quiz's song ends (or cannot be played):
\* MPD stops, or goes on with the music if it repeats.
VideoPlaysOn ==
  /\ ui.mpd.state = "play" /\ ui.player.on /\ ui.mpd.song = ui.player.extra /\ ui.player.far # "end"
  /\ Quietly([ui EXCEPT !.player.far = IF @ = "start" THEN "middle" ELSE "end"])
ExtraEnds(repeats) ==
  /\ ui.mpd.state = "play" /\ ui.mpd.song > 0
  /\ ui.mpd.song = ui.player.extra => ui.player.far # "middle"
  /\ repeats => 0 \in ui.mpd.queue
  /\ ui' = [ui EXCEPT !.mpd.song = IF repeats THEN 0 ELSE NoTrack,
                    !.mpd.state = IF repeats THEN "play" ELSE "stop"]
  /\ past' = [past EXCEPT !.ran = @ \/ ui.mpd.song = ui.quiz.extra,
                          !.other = @ \/ ui.mpd.song \notin {ui.player.extra, ui.quiz.extra}]
  /\ UNCHANGED <<lockfile, screendeeds>>

\* The user's Play/Pause, and another song of the queue, played from elsewhere.
PauseOrPlay == /\ ui.mpd.state # "stop"
               /\ Quietly([ui EXCEPT !.mpd.state = IF @ = "play" THEN "pause" ELSE "play"])
TakeOver == /\ \E song \in {0, Alarms} \intersect ui.mpd.queue :
                 /\ song # ui.mpd.song
                 /\ ui' = [ui EXCEPT !.mpd.song = song, !.mpd.state = "play"]
            /\ past' = [past EXCEPT !.other = TRUE] /\ ScreenDeed /\ UNCHANGED lockfile

\* rPod dies and starts again, rpod_screen_lock_restore(); MPD plays on.
RpodRestarts ==
  /\ ScreenDeed /\ UNCHANGED lockfile
  /\ ui' = IF lockfile THEN [Push(Home(ui.mpd), "lock", TRUE) EXCEPT !.locked = TRUE] ELSE Home(ui.mpd)
  /\ past' = [past EXCEPT !.other = TRUE, !.litter = TRUE, !.nested = FALSE]

ScreensNext ==
  \/ PushMenu \/ OnLock \/ Unlock \/ ShowCard \/ CloseCard \/ OnThemeChange \/ EndAlarm
  \/ PollNeverPlayed \/ PollOver \/ SkipLast \/ VideoPlaysOn \/ PauseOrPlay \/ TakeOver \/ RpodRestarts
  \/ \E ans \in MpdAnswers : OnVideo(ans) \/ PushQuiz(ans) \/ OnMenu(ans) \/ OnPlayVideo(ans)
                              \/ QuizRound(ans) \/ OnPlayAgain(ans) \/ SkipVideo(ans)
  \/ \E ans \in {"ok", "down"} : PollLeaving(ans)
  \/ \E up, again \in BOOLEAN : GoOff(up, again)
  \/ \E up, repeats \in BOOLEAN : QuizEnds(up) \/ ExtraEnds(repeats)

ScreensSpec == ScreensInit /\ [][ScreensNext]_screenVars
-----------------------------------------------------------------------------
\* The wheel drives the overlay if there is one, else the top screen, which is
\* the one loaded; what is built joins the same group.
WheelWhereShown ==
  /\ ui.input = IF ui.overlay # "none" THEN Card ELSE Top(ui)
  /\ ui.default = ui.input /\ ui.shown = Top(ui)

\* Locked, the lock screen is on top, with no player in sight, and over restarts.
LockHolds ==
  /\ lockfile = ui.locked
  /\ ui.locked = (ui.frames[Top(ui)] = "lock")
  /\ \A i \in 1..(Top(ui) - 1) : ui.frames[i] # "lock"

\* An alarm that rings shows its card, and the other way round.
RingShows == ui.ringing = (ui.overlay = "alarm")

\* There is a player, or a quiz, as long as it has its screen: one, and the
\* player's is on top.
OnePlayer ==
  /\ ui.player.on = (ui.frames[Top(ui)] = "player")
  /\ \A i \in 1..(Top(ui) - 1) : ui.frames[i] # "player"
  /\ ui.quiz.on = (\E i \in 1..Top(ui) : ui.frames[i] = "quiz")
  /\ ui.frames[1] = "root"

\* The queue holds no song of a borrower that is gone, or has gone on to another.
QueueLeftClean == past.litter \/ \A id \in ui.mpd.queue : id > 0 => id \in {ui.player.extra, ui.quiz.extra}

\* With both gone, MPD is at the song it was at before: unless someone else took
\* playback meanwhile; and unless the quiz's own song had run out or would not play.
\* give_back() looks for its own song only, so there it leaves the music where it is,
\* which is less than music_quiz.h promises.
Lends(s) == s.player.borrowed \/ s.quiz.borrowed
BackAt(spot) == IF spot.song = NoTrack THEN ui.mpd.state = "stop" ELSE ui.mpd.song = spot.song
MusicBack == ~Lends(ui) /\ ~past.other /\ ~past.ran => BackAt(past.was)

\* As the last of them gives it back, what was stopped is stopped; what plays had
\* played before, and a quiz gave it back (or MPD had stopped meanwhile: see
\* LeftPaused of MCScreens); and after a quiz that was not paused, by hand
\* or by a video over it, what had played plays.
PlaysAsBefore ==
  Lends(ui) /\ ~Lends(ui') /\ ~past'.other /\ ~past'.ran =>
    LET was == past.was.state  found == ui.mpd.state  left == ui'.mpd.state IN
    /\ was = "stop" => left = "stop"
    /\ left = "play" => found = "stop" \/ (was = "play" /\ ui.quiz.borrowed)
    /\ was = "play" /\ found = "play" /\ ui.quiz.borrowed => left = "play"

\* The scrobbler is suspended while a borrower has playback, a quiz under a
\* player aside, and never after.
SuspendedWhileBorrowed ==
  /\ ui.suspended => ui.player.borrowed \/ ui.quiz.borrowed
  /\ ui.player.borrowed => ui.suspended

\* A player goes by itself only when the video it was last given is over; but one
\* that was on its way out when it was given it does not wait (start() leaves
\* `leaving' set).
GoesWhenOver == past.late \/ ~past.early

\* The wheel drives what is shown; the lock, the alarm's card and the player
\* are on screen exactly while they hold, ring and play (screen_stack.c).
ScreensRight == WheelWhereShown /\ LockHolds /\ RingShows /\ OnePlayer

\* A video or a quiz gives playback back: the queue without its songs, the music
\* at its song, playing or not as it should, the scrobbler no longer suspended; and
\* a player goes by itself only when its video is over.  Not when someone else took
\* playback, nor when the quiz's own song had run out or would not play, nor for a
\* video given to a player on its way out (video_screens.c, music_quiz.c).
PlaybackLent ==
  /\ [](QueueLeftClean /\ MusicBack /\ SuspendedWhileBorrowed /\ GoesWhenOver)
  /\ [][PlaysAsBefore]_screenVars
=============================================================================
