------------------------------ MODULE ClickWheel ------------------------------
(***************************************************************************)
(* From the wheel to what it does: rpod-wheel (src/daemon/rpod-wheel.c)    *)
(* decodes packets, drops what the hold switch suppresses and sends each   *)
(* change over a socket; the UI (src/src/input/wheel_input.c) reads the    *)
(* events when its timer comes, and Gestures says what they mean.  Either  *)
(* process may start again, and a client too slow is dropped.  The timers  *)
(* of the app that sleep, wake or power off run in between.                *)
(***************************************************************************)
EXTENDS Gestures, Sequences, FiniteSets

CONSTANTS Packets,      \* what the wheel may send: [buttons, touched, rotated]
          WheelClients,   \* RPOD_WHEEL_MAX_CLIENTS
          SocketBuffer, \* events a socket holds
          MaxPackets, MaxRestarts, MaxTimers  \* bounds

ASSUME WheelAssumption ==
  /\ Packets \subseteq [buttons : SUBSET Buttons, touched : BOOLEAN, rotated : BOOLEAN]
  /\ WheelClients \in Nat \ {0} /\ SocketBuffer \in Nat

VARIABLES
  sent,      \* g_state of the daemon: the buttons down, and whether touched
  table,     \* g_client_fds: the connections it has
  conn,      \* the UI's connection, 0 when w->fd is -1; they are numbered
  accepted,  \* the daemon has accepted it
  ended,     \* the daemon has closed it
  stream,    \* events in it
  u,         \* the UI process, see Gestures
  wheelcount \* how much of each bound is used up; history: `pads' is what was down
             \* with hold off when the wheel last sent something

wheelVars == <<sent, table, conn, accepted, ended, stream, u, wheelcount>>

Idle  == [buttons |-> {}, touched |-> FALSE]

Fresh(mpd, quiet, overlap) == [btn |-> [b \in Buttons |-> Up], asleep |-> FALSE, dim |-> FALSE,
  dark |-> FALSE, center |-> FALSE, scan |-> FALSE, was |-> FALSE, mpd |-> mpd,
  quiet |-> quiet, timer |-> FALSE, empty |-> FALSE, going |-> FALSE, off |-> FALSE,
  overlap |-> overlap]

WheelInit ==
  /\ sent = Idle /\ table = {} /\ conn = 0 /\ accepted = FALSE /\ ended = FALSE
  /\ stream = <<>> /\ u = Fresh("play", FALSE, FALSE)
  /\ wheelcount = [packets |-> 0, restarts |-> 0, conns |-> 0, timers |-> 0, pads |-> {}]

Counts(field, max) == /\ wheelcount[field] < max
                      /\ wheelcount' = [wheelcount EXCEPT ![field] = @ + 1]
-----------------------------------------------------------------------------
\* Events for what differs: buttons, touch, and rotation if `rotated'.
Event(type, code, value) == <<[type |-> type, code |-> code, value |-> value]>>
Edge(b, next) == IF (b \in sent.buttons) = (b \in next.buttons) THEN <<>>
                 ELSE Event("button", b, b \in next.buttons)
Edges(next, rotated) ==
  Edge(Center, next) \o Edge(Prev, next) \o Edge(NextButton, next) \o Edge(Menu, next) \o Edge(PlayPause, next)
    \o (IF sent.touched = next.touched THEN <<>> ELSE Event("touch", Center, next.touched))
    \o (IF rotated /\ sent.touched /\ next.touched THEN Event("wheel", Center, TRUE) ELSE <<>>)

\* clients_broadcast(): who cannot take an event is dropped.
Broadcast(events) ==
  LET fits == IF Len(events) <= SocketBuffer - Len(stream) THEN Len(events)
              ELSE SocketBuffer - Len(stream)
      mine == conn # 0 /\ conn \in table
  IN  /\ stream' = IF mine THEN stream \o SubSeq(events, 1, fits) ELSE stream
      /\ ended'  = (ended \/ (mine /\ fits < Len(events)))
      /\ table'  = IF events = <<>> THEN table
                   ELSE table \intersect (IF fits < Len(events) THEN {} ELSE {conn})

Sends(next, held) ==
  /\ wheelcount.packets < MaxPackets
  /\ wheelcount' = [wheelcount EXCEPT !.packets = @ + 1, !.pads = IF held THEN {} ELSE next.buttons]

\* handle_packet(), apply_state(): with the hold switch on the wheel is idle.
\* A packet that changes nothing is left out.
Packet(next, rotated, held) ==
  /\ Sends(next, held)
  /\ LET now == IF held THEN Idle ELSE next IN
     /\ now # sent \/ rotated
     /\ Broadcast(Edges(now, rotated /\ ~held))
     /\ sent' = now
  /\ UNCHANGED <<conn, accepted, u>>

AddUnpruned ==  \* Mutant: who has hung up keeps a place.
  /\ conn # 0 /\ ~accepted /\ ~ended /\ accepted' = TRUE
  /\ IF Cardinality(table) < WheelClients
     THEN table' = table \union {conn} /\ UNCHANGED ended
     ELSE table' = table /\ ended' = TRUE
  /\ UNCHANGED <<sent, conn, stream, u, wheelcount>>

\* clients_add(), clients_prune_closed_locked(): all but the UI's connection
\* have hung up (one that did before it was accepted is left out: the next
\* call prunes it), so nobody is ever refused.
Add ==
  /\ conn # 0 /\ ~accepted /\ ~ended /\ accepted' = TRUE
  /\ LET open == table \intersect {conn} IN
     IF Cardinality(open) < WheelClients
     THEN table' = open \union {conn} /\ UNCHANGED ended
     ELSE table' = open /\ ended' = TRUE
  /\ UNCHANGED <<sent, conn, stream, u, wheelcount>>

DaemonRestarts ==
  /\ wheelcount.restarts < MaxRestarts
  /\ wheelcount' = [wheelcount EXCEPT !.restarts = @ + 1, !.pads = {}]
  /\ sent' = Idle /\ table' = {} /\ ended' = (conn # 0)
  /\ UNCHANGED <<conn, accepted, stream, u>>
-----------------------------------------------------------------------------
Running == ~u.off
Drop(v) == /\ conn' = 0 /\ ended' = FALSE /\ accepted' = FALSE /\ stream' = <<>>
           /\ u' = v /\ UNCHANGED <<sent, table>>

\* poll_cb(), try_connect(): the daemon may not have accepted it yet.
Connect ==
  /\ Running /\ conn = 0
  /\ wheelcount' = [wheelcount EXCEPT !.conns = @ + 1] /\ conn' = wheelcount.conns + 1
  /\ UNCHANGED <<sent, table, accepted, ended, stream, u>>

\* handle_event()
Handle(e) == CASE e.type = "button" -> Feed(u, e.code, e.value)
               [] e.type = "touch"  -> IF e.value THEN Turned(u) ELSE u
               [] e.type = "wheel"  -> Turned(u)

\* poll_cb(): an event is read, ...
ReadEvent == /\ Running /\ stream # <<>>
           /\ u' = Handle(Head(stream)) /\ stream' = Tail(stream)
           /\ UNCHANGED <<sent, table, conn, accepted, ended, wheelcount>>

\* ... or the end of the stream: disconnect() lets go of everything.
HangUp == /\ Running /\ ended /\ stream = <<>> /\ Drop(Cancel(u)) /\ UNCHANGED wheelcount

\* hold_tick_cb(): the hold of a button is due.
HoldTick(b, list) ==
  /\ Running /\ b \in Counting(u) /\ ~u.btn[b].held /\ u' = Hold(u, b, list)
  /\ u' # u
  /\ UNCHANGED <<sent, table, conn, accepted, ended, stream, wheelcount>>

Timer(v) == /\ Running /\ Counts("timers", MaxTimers) /\ u' = v
            /\ UNCHANGED <<sent, table, conn, accepted, ended, stream>>

\* rpod_sleep_timer_set() on its screen, and fire_cb()
SetSleepTimer == ~u.asleep /\ Timer([u EXCEPT !.timer = TRUE])
SleepTimer    == u.timer /\ Timer(Night(u))

\* backlight.c, check_cb(): idle, so no button is down.
BacklightOff == ~u.asleep /\ (\A b \in Buttons : ~u.btn[b].down) /\ Timer(GoDark(u, TRUE))

\* on_alarm(), its music playing already
Alarm == Timer([Wake(u) EXCEPT !.mpd = "play", !.quiet = FALSE])

\* on_battery_changed(): nearly empty, or USB power calls it off.
BatteryEmpty == /\ ~u.empty
                /\ LET v == ScanStop(u) IN
                   Timer([Wake([v EXCEPT !.mpd = IF @ = "play" THEN "pause" ELSE @, !.quiet = TRUE])
                            EXCEPT !.empty = TRUE])
PowerIn == u.empty /\ Timer([u EXCEPT !.empty = FALSE])

\* rpod_shutdown_now(): MPD is paused; with a message the device goes later.
ShutDown(v, later) ==
  IF v.going THEN v
  ELSE LET w == [v EXCEPT !.going = TRUE, !.quiet = TRUE, !.overlap = v.scan,
                          !.mpd = IF @ = "play" THEN "pause" ELSE @]
       IN  IF later THEN Wake(w) ELSE [w EXCEPT !.off = TRUE]

\* Settings > Shut Down, chosen with the centre button
ChooseShutDown == /\ ~u.going /\ ~u.asleep /\ Timer(ShutDown(u, TRUE))
BatteryOff     == u.empty /\ ~u.going /\ Timer(ShutDown([u EXCEPT !.empty = FALSE], FALSE))
\* check_cb() of shutdown.c: idle for long, and nothing plays
IdleOff        == /\ ~u.going /\ u.mpd # "play" /\ (\A b \in Buttons : ~u.btn[b].down)
                  /\ Timer(ShutDown(u, FALSE))

\* power_off_cb(), put_back(): systemd stops rpod, or logind says no.
PowerOff(done) == /\ u.going
                  /\ Timer(IF done THEN [u EXCEPT !.off = TRUE] ELSE [u EXCEPT !.going = FALSE])

UiRestarts ==  \* with a scan on, MPD stays paused
  /\ ~u.off /\ Counts("restarts", MaxRestarts) /\ Drop(Fresh(u.mpd, u.quiet, u.overlap))

WheelNext ==
  \/ \E p \in Packets, held \in BOOLEAN :
        Packet([buttons |-> p.buttons, touched |-> p.touched], p.rotated, held)
  \/ Add \/ DaemonRestarts \/ Connect \/ ReadEvent \/ HangUp \/ UiRestarts
  \/ \E b \in Buttons, list \in BOOLEAN : HoldTick(b, list)
  \/ SetSleepTimer \/ SleepTimer \/ BacklightOff \/ Alarm \/ BatteryEmpty \/ PowerIn
  \/ ChooseShutDown \/ BatteryOff \/ IdleOff
  \/ \E done \in BOOLEAN : PowerOff(done)

\* The daemon's and the UI's threads run on.
WheelFairness == WF_wheelVars(Add) /\ WF_wheelVars(Connect) /\ WF_wheelVars(ReadEvent)
                 /\ WF_wheelVars(HangUp)
-----------------------------------------------------------------------------
WheelTypes ==
  /\ sent \in [buttons : SUBSET Buttons, touched : BOOLEAN]
  /\ Len(stream) <= SocketBuffer /\ (conn = 0 => stream = <<>> /\ ~ended /\ ~accepted)
  /\ u.mpd \in {"play", "pause", "stop"} /\ (u.scan => u.mpd # "stop")
  /\ DOMAIN u.btn = Buttons
  /\ u.asleep = u.dark /\ (u.dim => u.asleep)

\* What the events in a socket last say of a button, if they do.
LastSaid(events, b, before) ==
  LET said == {i \in DOMAIN events : events[i].type = "button" /\ events[i].code = b}
  IN  IF said = {} THEN before ELSE events[CHOOSE i \in said : \A j \in said : j <= i].value

\* No button, once every event has been read, stays down that the wheel
\* does not have down, or with the hold switch on: over the daemon's and the
\* UI's restarts, a client dropped, and releases nobody was there to receive.
After(b) == LastSaid(stream, b, u.btn[b].down)
NothingStuck == ~ended => \A b \in Buttons : After(b) => b \in wheelcount.pads

\* What the encoder is told of the centre button, which LVGL clicks on, is that
\* it is down and counts; and a scan goes on only while the button that
\* started it is down, whatever came in between: sleep, an alarm, the wheel gone.
LetGoEverywhere ==
  /\ Center \in Buttons => u.center = (Center \in Counting(u))
  /\ u.scan => \E b \in Scanners \intersect Counting(u) : u.btn[b].held

\* A press acts once, as a tap or as a hold, and one that began while asleep not
\* at all, nor one that was down when it went to sleep.
ActsOnceAwake ==
  \A b \in Buttons :
    /\ u.btn[b].acts <= 1
    /\ u.btn[b].acts > 0 => u.btn[b].began = "awake" \/ (u.btn[b].began = "dim" /\ b \in Transport)

\* What the daemon says is let go of is up once the UI has read it, over restarts,
\* a client dropped or the hold switch (rpod-wheel.c, wheel_input.c); a press acts
\* once, as a tap or as a hold, and not at all if it only woke the device; LVGL's
\* encoder and a scan let go with the button (gestures.c).
PressesRight == WheelTypes /\ NothingStuck /\ LetGoEverywhere /\ ActsOnceAwake

\* "Paused, it comes back paused rather than mid-song": once the device was put
\* to sleep or is going off, the music stays off until somebody asks for it.
QuietHolds == u.quiet => u.mpd # "play"

\* The same (app.c, shutdown.c) but for a shutdown that was chosen during a scan, whose end plays on.
StaysQuiet == ~u.overlap => QuietHolds

\* A UI that connects gets a place among the daemon's clients, however many
\* have come and gone before it.
LiveClientKept   == [][accepted' /\ ~accepted => ~ended']_wheelVars

WheelSpec == WheelInit /\ [][WheelNext]_wheelVars
=============================================================================
