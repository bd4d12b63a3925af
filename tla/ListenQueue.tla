---------------------------- MODULE ListenQueue ----------------------------
(***************************************************************************)
(* The ListenBrainz client (src/src/audio/listenbrainz.c): the LVGL thread *)
(* submits listens and now-playing pings and sets the token; one worker    *)
(* thread posts them.  A listen goes into a queue file, rewritten whole by *)
(* each append and each removal; a ping goes into a small ring in memory.  *)
(* The mutex is held for whole critical sections only, so each critical    *)
(* section is one step; a POST in flight, which holds no lock, is a state. *)
(***************************************************************************)
EXTENDS Integers, Sequences, FiniteSets, Functions

CONSTANTS Tokens,      \* user tokens that token_ok() lets through
          NoToken,     \* the empty string: scrobbling off
          FileCap,     \* RPOD_LB_FILE_QUEUE_CAP
          RingCap,     \* RPOD_LB_QUEUE_CAP
          MaxListens,  \* bound: listens submitted in a behaviour
          MaxFaults,   \* bound: crashes, I/O errors and lost replies
          Refusable    \* listens the server may answer with a 4xx, each time

ASSUME TokenAssumption == NoToken \notin Tokens
ASSUME CapAssumption   == FileCap \in Nat \ {0} /\ RingCap \in Nat \ {0}
ASSUME BoundAssumption == MaxListens \in Nat /\ MaxFaults \in Nat
ASSUME RefusableAssumption == Refusable \subseteq Nat \ {0}

VARIABLES
  durable,   \* a queue_path was given
  file,      \* lines of the queue file
  ui,        \* the LVGL thread: "down", "idle", or "join" inside stop()
  worker,    \* the worker thread's place in thread_main()
  shutdown, enabled, token, ring,   \* fields of struct rpod_lb
  batch,     \* worker local: lines read by flush, or the ring entry popped
  sent,      \* worker local: how many of batch the server has confirmed
  wtoken,    \* worker local: its copy of the token
  refused,   \* listens this server refuses
  server,    \* history: listens the server recorded, in order
  accepted,  \* history: listens the queue file has taken
  drops,     \* history: lines the cap of the file dropped
  damaged,   \* history: a rewrite lost lines to a crash or an I/O error
  next,      \* number of the next listen
  faults     \* faults so far

disk     == <<file, accepted, drops, damaged>>
locals   == <<batch, sent, wtoken>>
settings == <<shutdown, enabled, token>>
vars == <<durable, file, ui, worker, shutdown, enabled, token, ring, batch,
          sent, wtoken, refused, server, accepted, drops, damaged, next, faults>>

\* A line is the number of its listen.  Torn is a line cut short, which the
\* server refuses as broken JSON; in the ring the same number is a ping.
Torn == 0
Ping == 0
Line == Nat

\* append_capped(): the new line at the tail, the oldest dropped at the cap.
Excess(lines) == IF Len(lines) > FileCap THEN Len(lines) - FileCap ELSE 0
DropFirst(lines, n) == SubSeq(lines, n + 1, Len(lines))
Appended(lines, l) ==
  LET grown == Append(lines, l) IN DropFirst(grown, Excess(grown))

\* The removal step of flush_listen_queue().
Removed(lines, n) == DropFirst(lines, IF n < Len(lines) THEN n ELSE Len(lines))

\* What fopen("w") and an unfinished write leave of the lines to be written.
Cut(lines) ==
  LET heads == {SubSeq(lines, 1, k) : k \in 0..Len(lines) - 1}
  IN  heads \union {Append(h, Torn) : h \in heads}

Fault == faults < MaxFaults /\ faults' = faults + 1
-----------------------------------------------------------------------------
StartKeepsShutdown ==  \* Mutant: the flag of the last stop() stays set.
  \/ enabled' = TRUE /\ worker' = "wait" /\ UNCHANGED shutdown
  \/ enabled' = FALSE /\ worker' = "off" /\ UNCHANGED shutdown

\* start(): the thread may fail to be created, then scrobbling stays off.
Start ==
  \/ enabled' = TRUE /\ worker' = "wait" /\ shutdown' = FALSE
  \/ enabled' = FALSE /\ worker' = "off" /\ shutdown' = FALSE

Init ==
  /\ durable \in BOOLEAN
  /\ refused \in {{}, Refusable}
  /\ file = <<>> /\ ring = <<>> /\ batch = <<>> /\ server = <<>>
  /\ ui = "down" /\ worker = "off"
  /\ shutdown = FALSE /\ enabled = FALSE
  /\ token = NoToken /\ wtoken = NoToken
  /\ sent = 0 /\ drops = 0 /\ faults = 0 /\ next = 1
  /\ accepted = {} /\ damaged = FALSE

\* rpod_lb_init() with the token the settings hold.
Boot ==
  /\ ui = "down" /\ ui' = "idle"
  /\ token' \in Tokens \union {NoToken}
  /\ IF token' = NoToken THEN UNCHANGED <<enabled, worker, shutdown>> ELSE Start
  /\ UNCHANGED <<durable, disk, ring, locals, refused, server, next, faults>>

\* rpod_lb_set_token() with a token: a running worker is left running.
SetToken(t) ==
  /\ ui = "idle" /\ token' = t
  /\ IF enabled THEN UNCHANGED <<enabled, worker, shutdown>> ELSE Start
  /\ UNCHANGED <<durable, disk, ui, ring, locals, refused, server, next, faults>>

TurnOffClearsFirst ==  \* Mutant: the token is cleared before the worker has stopped.
  /\ ui = "idle" /\ token' = NoToken
  /\ IF enabled
     THEN shutdown' = TRUE /\ ui' = "join"
     ELSE UNCHANGED <<shutdown, ui>>
  /\ UNCHANGED <<durable, disk, worker, enabled, ring, locals, refused, server,
                 next, faults>>

\* rpod_lb_set_token("") up to the join in stop().
TurnOff ==
  /\ ui = "idle"
  /\ IF enabled
     THEN shutdown' = TRUE /\ ui' = "join" /\ UNCHANGED token
     ELSE token' = NoToken /\ UNCHANGED <<shutdown, ui>>
  /\ UNCHANGED <<durable, disk, worker, enabled, ring, locals, refused, server,
                 next, faults>>

\* pthread_join() returns, and the token is cleared.
Join ==
  /\ ui = "join" /\ worker = "exited"
  /\ ui' = "idle" /\ worker' = "off" /\ enabled' = FALSE /\ token' = NoToken
  /\ UNCHANGED <<durable, disk, shutdown, ring, locals, refused, server, next, faults>>

EnqueuePastCap(e) ==  \* Mutant: full is noticed one entry late.
  ring' = IF Len(ring) > RingCap THEN ring ELSE Append(ring, e)

\* enqueue(): at a full ring the newest entry is dropped.
Enqueue(e) == ring' = IF Len(ring) = RingCap THEN ring ELSE Append(ring, e)

NowPlaying ==
  /\ ui = "idle" /\ enabled
  /\ Enqueue(Ping)
  /\ UNCHANGED <<durable, disk, ui, worker, settings, locals, refused, server,
                 next, faults>>

\* append_capped(), and how its fopen()s and writes can fail unnoticed: the
\* read sees no file, the write does not start, the write stops half way.
AppendCapped(l) ==
  \/ /\ file' = Appended(file, l)
     /\ accepted' = accepted \union {l}
     /\ drops' = drops + Excess(Append(file, l))
     /\ UNCHANGED <<damaged, faults>>
  \/ /\ Fault /\ file' = <<l>> /\ accepted' = accepted \union {l}
     /\ damaged' = TRUE /\ UNCHANGED drops
  \/ Fault /\ UNCHANGED disk
  \/ /\ Fault /\ file' \in Cut(Appended(file, l))
     /\ damaged' = TRUE /\ UNCHANGED <<accepted, drops>>

\* rpod_lb_submit_listen(): without a queue file the ring takes the listen.
SubmitListen ==
  /\ ui = "idle" /\ enabled /\ next <= MaxListens /\ next' = next + 1
  /\ IF durable
     THEN AppendCapped(next) /\ UNCHANGED ring
     ELSE Enqueue(next) /\ UNCHANGED <<disk, faults>>
  /\ UNCHANGED <<durable, ui, worker, settings, locals, refused, server>>
-----------------------------------------------------------------------------
\* The drain loop of thread_main(): pop the next ring entry and start its
\* POST, or go on to the queue file.
Drain ==
  IF ring # <<>>
  THEN /\ batch' = <<Head(ring)>> /\ ring' = Tail(ring) /\ wtoken' = token
       /\ sent' = 0 /\ worker' = "ping"
  ELSE /\ worker' = IF durable THEN "flush" ELSE "wait"
       /\ UNCHANGED <<ring, locals>>

\* pthread_cond_timedwait() returns: a signal, 60 s gone by, or spuriously.
Wake ==
  /\ worker = "wait"
  /\ IF shutdown THEN worker' = "exited" /\ UNCHANGED <<ring, locals>> ELSE Drain
  /\ UNCHANGED <<durable, disk, ui, settings, refused, server, next, faults>>

Deliver(l) == server' = Append(server, l)

\* The server takes batch[i] only if it is whole and acceptable.
Takes(i) == batch[i] # Torn /\ batch[i] \notin refused

\* The POST of a ring entry ends, well or not: it is never tried again.
PingDone ==
  /\ worker = "ping"
  /\ \/ UNCHANGED server
     \/ Takes(1) /\ Deliver(batch[1])
  /\ Drain
  /\ UNCHANGED <<durable, disk, ui, settings, refused, next, faults>>

\* flush_listen_queue() takes its copy of the file and of the token, and the
\* first POST starts; a read that fails looks like an empty file.
FlushStart ==
  /\ worker = "flush"
  /\ \/ /\ file # <<>>
        /\ batch' = file /\ sent' = 0 /\ wtoken' = token /\ worker' = "post"
        /\ UNCHANGED faults
     \/ file = <<>> /\ worker' = "wait" /\ UNCHANGED <<locals, faults>>
     \/ file # <<>> /\ Fault /\ worker' = "wait" /\ UNCHANGED locals
  /\ UNCHANGED <<durable, disk, ui, settings, ring, refused, server, next>>

\* A POST answered 2xx: the next line's POST starts, if there is one.
PostOk ==
  /\ worker = "post" /\ Takes(sent + 1)
  /\ Deliver(batch[sent + 1])
  /\ sent' = sent + 1
  /\ worker' = IF sent' < Len(batch) THEN "post" ELSE "remove"
  /\ UNCHANGED <<durable, disk, ui, settings, ring, batch, wtoken, refused, next, faults>>

PostFailCounted ==  \* Mutant: the line that failed counts as sent.
  /\ worker = "post" /\ worker' = "remove" /\ sent' = sent + 1
  /\ UNCHANGED <<durable, disk, ui, settings, ring, batch, wtoken, refused, server,
                 next, faults>>

\* No network, a 4xx, or (one fault) a reply lost after the server recorded
\* the listen: the flush stops at this line.
PostFail ==
  /\ worker = "post"
  /\ \/ UNCHANGED <<server, faults>>
     \/ Takes(sent + 1) /\ Deliver(batch[sent + 1]) /\ Fault
  /\ worker' = IF sent = 0 THEN "wait" ELSE "remove"
  /\ UNCHANGED <<durable, disk, ui, settings, ring, locals, refused, next>>

RemoveFromCopy ==  \* Mutant: what is written back comes from the copy, not the file.
  /\ worker = "remove" /\ worker' = "wait"
  /\ file' = Removed(batch, sent)
  /\ UNCHANGED <<durable, accepted, drops, damaged, ui, settings, ring, locals,
                 refused, server, next, faults>>

RemoveWholeBatch ==  \* Mutant: every line of the copy is removed, sent or not.
  /\ worker = "remove" /\ worker' = "wait"
  /\ file' = Removed(file, Len(batch))
  /\ UNCHANGED <<durable, accepted, drops, damaged, ui, settings, ring, locals,
                 refused, server, next, faults>>

\* flush_listen_queue() reads the file again and drops `sent' lines from its
\* front; the same three I/O errors as in AppendCapped.
RemoveSent ==
  /\ worker = "remove" /\ worker' = "wait"
  /\ \/ file' = Removed(file, sent) /\ UNCHANGED <<damaged, faults>>
     \/ Fault /\ file' = <<>> /\ damaged' = TRUE
     \/ Fault /\ UNCHANGED <<file, damaged>>
     \/ Fault /\ file' \in Cut(Removed(file, sent)) /\ damaged' = TRUE
  /\ UNCHANGED <<durable, accepted, drops, ui, settings, ring, locals, refused,
                 server, next>>
-----------------------------------------------------------------------------
\* Lines a rewrite can be in the middle of writing.
Rewrites ==
  (IF durable /\ ui = "idle" /\ enabled /\ next <= MaxListens
   THEN {Appended(file, next)} ELSE {})
  \union (IF worker = "remove" THEN {Removed(file, sent)} ELSE {})

\* The process dies: the file is whole, or a rewrite was cut short.
Crash ==
  /\ ui # "down" /\ Fault
  /\ \/ UNCHANGED <<file, damaged>>
     \/ \E lines \in Rewrites : file' \in Cut(lines) /\ damaged' = TRUE
  /\ ui' = "down" /\ worker' = "off"
  /\ shutdown' = FALSE /\ enabled' = FALSE /\ token' = NoToken
  /\ ring' = <<>> /\ batch' = <<>> /\ sent' = 0 /\ wtoken' = NoToken
  /\ UNCHANGED <<durable, accepted, drops, refused, server, next>>

Worker == Wake \/ PingDone \/ FlushStart \/ PostOk \/ PostFail \/ RemoveSent
Ui == TurnOff \/ Join \/ NowPlaying \/ SubmitListen \/ \E t \in Tokens : SetToken(t)
Next == Boot \/ Ui \/ Worker \/ Crash

\* The system restarts the player, threads run, and a server that takes a
\* line is reached at some point if it is tried again and again.
Fairness == WF_vars(Boot) /\ WF_vars(Join) /\ WF_vars(Worker) /\ SF_vars(PostOk)

Spec == Init /\ [][Next]_vars
FairSpec == Spec /\ Fairness
-----------------------------------------------------------------------------
\* Types, and the places each thread can be in together with its data.
TypeOK ==
  /\ durable \in BOOLEAN /\ damaged \in BOOLEAN
  /\ shutdown \in BOOLEAN /\ enabled \in BOOLEAN
  /\ file \in Seq(Line) /\ batch \in Seq(Line) /\ ring \in Seq(Line)
  /\ server \in Seq(Line) /\ Len(file) <= FileCap /\ Len(ring) <= RingCap
  /\ ui \in {"down", "idle", "join"}
  /\ worker \in {"off", "wait", "ping", "flush", "post", "remove", "exited"}
  /\ token \in Tokens \union {NoToken} /\ wtoken \in Tokens \union {NoToken}
  /\ refused \subseteq Nat /\ accepted \subseteq Nat \ {0}
  /\ sent \in Nat /\ drops \in Nat /\ faults \in Nat /\ next \in Nat \ {0}

Whole == ~damaged /\ drops = 0
Safe(l) == l \in Range(file) \/ l \in Range(server)

\* A listen the queue file took is in the file or with the server, unless a
\* cap or a failed rewrite cost lines: the copy, the POSTs without the lock
\* and the removal by count never lose one between them.
NothingLost == Whole => \A l \in accepted : Safe(l)

\* Each line the cap drops costs at most one listen, also when the drop comes
\* between a flush's copy of the file and its removal by count.
LossBounded == ~damaged => Cardinality({l \in accepted : ~Safe(l)}) <= drops

\* The server sees the listens oldest first: one that arrives after a younger
\* one had arrived before as well.
InOrder ==
  \A i, j \in DOMAIN server :
    i < j /\ server[j] < server[i] => \E k \in 1..i-1 : server[k] = server[j]

\* A listen is recorded twice only after a crash, an I/O error or a lost
\* reply: failed POSTs and switching scrobbling off and on never repeat one.
RepeatsNeedFault ==
  faults = 0 => \A i, j \in DOMAIN server : server[i] = server[j] => i = j

\* The server has each listen once and the oldest first, unless a fault or the cap
\* came in between, and then no more of them than those (listenbrainz.c).
SentInOrder == LossBounded /\ InOrder /\ RepeatsNeedFault

\* No POST is in flight without a token, nor with scrobbling off.
PostsHaveToken ==
  worker \in {"ping", "post"} => enabled /\ wtoken # NoToken

\* Whoever switches scrobbling off is not left waiting for the worker; and with it
\* left on and no more pings, every listen queued reaches the server, except those
\* behind a listen it refuses.
OutboxServed ==
  LET behind == {l \in accepted : \E r \in refused : r <= l}
  IN  <>[](enabled /\ ring = <<>>)
        => []<>(ui # "join" /\ (~Whole \/ accepted \ behind \subseteq Range(server)))

\* The client keeps the outbox's promise until the cap or damage costs lines;
\* without a queue file it promises nothing.
Outbox == INSTANCE ListenOutbox WITH
            outbox <- file, delivered <- server, degraded <- ~durable \/ ~Whole
ImplementsOutbox == Outbox!Spec
=============================================================================
