--------------------------- MODULE MCListenQueue ---------------------------
(***************************************************************************)
(* Constants for ListenQueue, and two sentences of the source's own comments *)
(* that the code does not keep.                                            *)
(***************************************************************************)
EXTENDS ListenQueue

\* The listen the server may refuse each time it is tried.
MCRefusable == {2}

\* The flush "removes exactly the entries that were sent": a removal takes no
\* listen out of the file that the server does not have.
RemovesOnlySent ==
  [][worker = "remove" /\ worker' = "wait"
       => Range(file) \ Range(file') \subseteq Range(server)]_vars

\* A listen in the queue file survives a crash or power loss.
CrashKeepsQueue == [][ui' = "down" /\ ui # "down" => Range(file) \subseteq Range(file')]_vars
=============================================================================
