---------------------------- MODULE MCVideoJobs ----------------------------
(***************************************************************************)
(* A sentence of videos.h that VideoJobs, as the code, doesn't keep.       *)
(***************************************************************************)
EXTENDS VideoJobs

\* Cancelling "stops a job, waiting or under way, and throws its upload away":
\* a cancelled job comes to an end.
CancelEndsJob ==
  \A u \in Uploads :
    LET stopping == \E i \in DOMAIN jobs :
                      jobs[i].upload = u /\ jobs[i].cancelled /\ Active(jobs[i])
    IN  stopping ~> ~stopping
=============================================================================
