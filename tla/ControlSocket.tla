---------------------------- MODULE ControlSocket ----------------------------
(***************************************************************************)
(* The control socket (src/src/ui/control.c): every POLL_MS a timer on the *)
(* LVGL thread takes in clients while it has room, reads what each has     *)
(* sent, and answers a line once it is whole.  The kernel's backlog holds  *)
(* the clients that wait; they and what they send are external.            *)
(***************************************************************************)
EXTENDS Integers, FiniteSets, SequencesExt

CONSTANTS Clients,
          MaxClients,  \* MAX_CLIENTS
          Patience     \* CLIENT_TIMEOUT_MS, in polls

ASSUME ControlAssumption == IsFiniteSet(Clients) /\ MaxClients \in Nat \ {0} /\ Patience \in Nat

VARIABLES
  backlog,  \* clients not accepted yet, in order
  peer,     \* of each client: where it is, `sent': what it has sent of its line
            \* so far, `closed': it has hung up; history: how many were `ahead' of
            \* it when it connected, and how many polls it has `waited'
  inside    \* g.clients: of those inside, for how many polls they are (since)

controlVars == <<backlog, peer, inside>>

ControlInit ==
  /\ backlog = <<>> /\ inside = <<>>
  /\ peer = [c \in Clients |-> [at |-> "out", sent |-> "nothing", closed |-> FALSE,
                            ahead |-> 0, waited |-> 0]]

\* Clients connect, send half a line, or too much, or all of it, and hang up.
Connect(c) == /\ peer[c].at = "out"
              /\ peer' = [peer EXCEPT ![c].at = "waiting",
                                      ![c].ahead = Len(backlog) + Cardinality(DOMAIN inside)]
              /\ backlog' = Append(backlog, c) /\ UNCHANGED inside
Send(c, what) ==
  /\ peer[c].at \in {"waiting", "inside"} /\ ~peer[c].closed
  /\ peer[c].sent \in {"nothing", "half"} /\ what # peer[c].sent
  /\ peer' = [peer EXCEPT ![c].sent = what] /\ UNCHANGED <<backlog, inside>>
HangUp(c) == /\ peer[c].at \in {"waiting", "inside"} /\ ~peer[c].closed
             /\ peer' = [peer EXCEPT ![c].closed = TRUE] /\ UNCHANGED <<backlog, inside>>
-----------------------------------------------------------------------------
\* poll_cb(): the clients it accepts, as many as there are free slots for
LetIn == Min({Len(backlog), MaxClients - Cardinality(DOMAIN inside)})
Accepted == {backlog[i] : i \in 1..LetIn}

ServeImpatient(c, age) ==  \* Mutant: the time is looked at before what was sent.
  IF age > Patience THEN "dropped"
  ELSE IF peer[c].sent = "line" THEN "answered"
  ELSE IF peer[c].sent = "flood" \/ peer[c].closed THEN "dropped" ELSE "inside"
\* serve(): a whole line is answered; a line too long, the end of the stream and
\* one who says nothing for too long are dropped.
Serve(c, age) ==
  IF peer[c].sent = "line" THEN "answered"
  ELSE IF peer[c].sent = "flood" \/ peer[c].closed \/ age > Patience THEN "dropped"
  ELSE "inside"

Poll ==
  LET here   == DOMAIN inside \union Accepted
      age(c) == IF c \in Accepted THEN 0 ELSE inside[c]
      to     == [c \in here |-> Serve(c, age(c))]
      stay   == {c \in here : to[c] = "inside"}
  IN  /\ here # {}
      /\ backlog' = SubSeq(backlog, LetIn + 1, Len(backlog))
      /\ peer' = [c \in Clients |->
                    IF c \in here THEN [peer[c] EXCEPT !.at = to[c]]
                    ELSE IF peer[c].at = "waiting" THEN [peer[c] EXCEPT !.waited = @ + 1] ELSE peer[c]]
      /\ inside' = [c \in stay |-> Min({age(c) + 1, Patience + 1})]

ControlNext ==
  \/ Poll
  \/ \E c \in Clients : Connect(c) \/ HangUp(c) \/ \E what \in {"half", "line", "flood"} : Send(c, what)
ControlSpec == ControlInit /\ [][ControlNext]_controlVars
-----------------------------------------------------------------------------
\* Who has sent a line while it was not dropped is answered, however long it
\* waited; at most MAX_CLIENTS are inside, and nobody is lost in between.
Answered ==
  /\ Cardinality(DOMAIN inside) <= MaxClients
  /\ \A c \in Clients :
       /\ (c \in DOMAIN inside) = (peer[c].at = "inside")
       /\ (c \in ToSet(backlog)) = (peer[c].at = "waiting")
       /\ peer[c].at = "dropped" => peer[c].sent # "line"

\* Everybody's turn comes, and soon: those ahead hold their slots for their time
\* only, whatever they send or do not send, and then there is one free.
ServedInTime ==
  \A c \in Clients : peer[c].waited <= (peer[c].ahead \div MaxClients) * (Patience + 2)

\* Whoever sent a line and was not dropped is answered, nobody is lost between
\* the backlog and the slots, and everybody's turn comes in time (control.c).
LinesAnswered == Answered /\ ServedInTime
=============================================================================
