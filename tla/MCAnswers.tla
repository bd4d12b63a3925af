------------------------------ MODULE MCAnswers ------------------------------
(***************************************************************************)
(* The run of two parts that owe somebody an answer: the sinks' worker     *)
(* (Sinks) and the video decoder's thread (VideoDecoder).  They share no   *)
(* state, so a behaviour runs the one that `part' names while the other    *)
(* stands still: TLC has the sum of their states, not the product.         *)
(***************************************************************************)
EXTENDS Sinks, VideoDecoder

VARIABLE part

vars == <<part, sinkVars, vidVars>>

\* What stands still does so in one of its initial states.
Init == /\ SinksInit /\ VideoInit
        /\ part \in {"sinks", "video"}
        /\ part # "sinks" => mixer = [o \in {Headset, Feed} |-> CHOOSE l \in Levels : TRUE]

SinksMove == part = "sinks" /\ SinksNext /\ UNCHANGED <<part, vidVars>>
VideoMove == part = "video" /\ VideoNext /\ UNCHANGED <<part, sinkVars>>
Next == SinksMove \/ VideoMove

\* The fairness of each, while it runs; Sinks has nothing to do while it does not.
Spec == /\ Init /\ [][Next]_vars
        /\ SinksFairness
        /\ WF_vidVars(part = "video" /\ DecodeStep)
        /\ WF_vidVars(part = "video" /\ FrameAt)
        /\ WF_vidVars(part = "video" /\ Advance)

\* Each selection or refresh is taken up, and a pause stops the speaker (sinks.c).
SinksAnswer == EachAskTaken /\ PauseStopsSpeaker
=============================================================================
