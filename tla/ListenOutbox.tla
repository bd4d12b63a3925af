---------------------------- MODULE ListenOutbox ----------------------------
(***************************************************************************)
(* What the scrobbling outbox of src/src/audio/listenbrainz.h promises:    *)
(* a listen, once taken, stays in the outbox until the server has it, and  *)
(* the server gets the listens oldest first.  Two outcomes end the         *)
(* promise (`degraded'): the cap of the queue dropped a listen, or the     *)
(* queue file was damaged.                                                 *)
(***************************************************************************)
EXTENDS Naturals, Sequences, Functions

VARIABLES outbox,     \* listens taken and not yet forgotten, oldest first
          delivered,  \* what the server has received, in order of arrival
          degraded    \* the promise no longer holds

Init ==
  /\ outbox = <<>>
  /\ delivered = <<>>
  /\ degraded \in BOOLEAN

\* A new listen joins at the tail.
Take ==
  /\ Len(outbox') = Len(outbox) + 1
  /\ \A i \in DOMAIN outbox : outbox'[i] = outbox[i]
  /\ UNCHANGED <<delivered, degraded>>

\* A listen is delivered (possibly again) only after all those before it.
Deliver ==
  /\ \E i \in DOMAIN outbox :
       /\ \A j \in 1..i-1 : outbox[j] \in Range(delivered)
       /\ delivered' = Append(delivered, outbox[i])
  /\ UNCHANGED <<outbox, degraded>>

\* Only listens the server has may be forgotten, from the head.
Forget ==
  /\ \E n \in 1..Len(outbox) :
       /\ \A j \in 1..n : outbox[j] \in Range(delivered)
       /\ outbox' = SubSeq(outbox, n + 1, Len(outbox))
  /\ UNCHANGED <<delivered, degraded>>

\* Overflow or damage: nothing is promised from here on.
Degrade == degraded' = TRUE

Next == (~degraded /\ (Take \/ Deliver \/ Forget)) \/ Degrade

Spec == Init /\ [][Next]_<<outbox, delivered, degraded>>
=============================================================================
