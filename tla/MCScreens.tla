------------------------------ MODULE MCScreens ------------------------------
(***************************************************************************)
(* The runs of Screens that check what its documents say.  (What holds of  *)
(* it is checked by MCDevice.)                                             *)
(***************************************************************************)
EXTENDS Screens

\* "The scrobbler is suspended throughout" (docs/PLAN.md, of Music Quiz).
QuizUnheard == ui.quiz.borrowed => ui.suspended

\* A video at its end leaves the music paused ("Menu, or its end -- puts back the
\* song that was playing, where it was, paused", video_screens.h).
LeftPaused == past.back # "play"
=============================================================================
