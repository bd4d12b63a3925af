------------------------------ MODULE MCQueues ------------------------------
(***************************************************************************)
(* The run of the two queues that are kept on disk over a crash: the       *)
(* listens to be sent (ListenQueue) and the uploads to be converted        *)
(* (VideoJobs).  They share no state, so a behaviour runs the one that     *)
(* `part' names while the other stands still: TLC has the sum of their     *)
(* states, not the product.                                                *)
(***************************************************************************)
EXTENDS MCListenQueue, VideoJobs

VARIABLE part

\* What stands still does so in one of its initial states.
QueuesInit ==
  /\ part \in {"listens", "videos"} /\ Init /\ JobsInit
  /\ part # "listens" => durable /\ refused = {}

ListensMove == part = "listens" /\ Next /\ UNCHANGED <<part, jobVars>>
VideosMove  == part = "videos" /\ JobsNext /\ UNCHANGED <<part, vars>>
QueuesNext  == ListensMove \/ VideosMove

\* The fairness of each (ListenQueue's Fairness, VideoJobs' JobsFairSpec), while it
\* runs.
QueuesSpec ==
  /\ QueuesInit /\ [][QueuesNext]_<<part, vars, jobVars>>
  /\ WF_vars(part = "listens" /\ Boot)
  /\ WF_vars(part = "listens" /\ Join)
  /\ WF_vars(part = "listens" /\ Worker)
  /\ SF_vars(part = "listens" /\ PostOk)
  /\ WF_jobVars(part = "videos" /\ Restart)
  /\ WF_jobVars(part = "videos" /\ Converter)
  /\ WF_jobVars(part = "videos" /\ ChildEnds)
=============================================================================
