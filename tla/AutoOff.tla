------------------------------- MODULE AutoOff -------------------------------
(***************************************************************************)
(* The web server's connections and how they keep rPod from switching      *)
(* itself off: web/rpod_web.c (a thread per connection, their places, what *)
(* is in use and the report of it), src/src/ui/shutdown.c (Auto-Off and    *)
(* Shut Down) and the battery's end in src/src/app.c.                      *)
(*                                                                         *)
(* Time goes by in Auto-Off's looks (CHECK_MS, 15 s), what is due in one   *)
(* in any order.  The browsers, logind, the battery, and what a request or *)
(* a conversion does are external.                                         *)
(***************************************************************************)
EXTENDS Integers, FiniteSets

CONSTANTS Conns,          \* browsers' connections
          MaxConnections, \* MAX_CONNECTIONS
          Report,         \* ACTIVE_EVERY_S, in looks
          IoTimeout,      \* IO_TIMEOUT_S, in looks
          Limit,          \* idle_min, in looks; more than Report, as the choices are
          MaxTrouble,     \* bound: reports lost, restarts of rpod-web, failures of others
          MaxUses         \* bound: inputs, conversions, changes of what else keeps rPod on

\* The choices of Auto-Off are long enough that no MaxTrouble reports in a row make it.
ASSUME OffAssumption ==
  /\ IsFiniteSet(Conns) /\ MaxConnections \in Nat /\ MaxTrouble \in Nat /\ MaxUses \in Nat
  /\ Report \in Nat \ {0} /\ IoTimeout \in Nat /\ Limit \in Nat
  /\ Report * (1 + MaxTrouble) < Limit

VARIABLES
  places, \* g_slots
  main,   \* the accepting thread: "wait" for a place, or "accept" with one
  conns,  \* each connection: where it is, whether it is the page's polling, for how
          \* long the client has been silent
  use,    \* g_busy and for how long g_used lies back; looks until the next report;
          \* whether a video is converted
  off,    \* how long there was no input, and nothing else (busy_ms); `going';
          \* g_power_off_timer's `g_powered_off'
  keeps,  \* external: what else keeps rPod on; an alarm that is set does as USB power does
  due,    \* timers due before the next look: "check", "report", "overlay", "empty"
  age,    \* history: for how long the web has been in use without a gap of a Report,
          \* a conversion has been under way, and nothing has used rPod
  webcount

offVars == <<places, main, conns, use, off, keeps, due, age, webcount>>

Keeps   == {"playing", "usb"}
NoConn  == [at |-> "none", poll |-> FALSE, silent |-> 0]
Unused  == Limit + Report + 1
Long    == Report * (1 + MaxTrouble) + 1
Capped(n, cap) == IF n < cap THEN n + 1 ELSE cap

WebFresh == [busy |-> 0, used |-> Report, next |-> Report, converts |-> FALSE]
OffFresh == [idle |-> 0, quiet |-> 0, going |-> "no", tried |-> FALSE]

OffInit ==
  /\ places = MaxConnections /\ main = "wait" /\ conns = [c \in Conns |-> NoConn]
  /\ use = WebFresh /\ off = OffFresh /\ keeps = {}
  /\ due = {} /\ age = [web |-> 0, gap |-> Report, video |-> 0, unused |-> 0]
  /\ webcount = [trouble |-> 0, changes |-> 0]

Trouble == webcount.trouble < MaxTrouble /\ webcount' = [webcount EXCEPT !.trouble = @ + 1]
Deed    == webcount.changes < MaxUses /\ webcount' = [webcount EXCEPT !.changes = @ + 1]
\* When the device is off, nothing is left to run.
On   == off.going # "off"
Used == age' = [age EXCEPT !.unused = 0]
-----------------------------------------------------------------------------
\* A browser connects: into the backlog.
Connects(c) ==
  /\ conns[c].at = "none" /\ conns' = [conns EXCEPT ![c] = [NoConn EXCEPT !.at = "backlog"]]
  /\ UNCHANGED <<places, main, use, off, keeps, due, age, webcount>>

\* main(): a place first, then a connection; the accept, calloc() or the thread
\* may fail.
TakePlace ==
  /\ main = "wait" /\ places > 0 /\ places' = places - 1 /\ main' = "accept"
  /\ UNCHANGED <<conns, use, off, keeps, due, age, webcount>>
AcceptFails ==
  /\ main = "accept" /\ Trouble /\ places' = places + 1 /\ main' = "wait"
  /\ UNCHANGED <<conns, use, off, keeps, due, age>>

AcceptLosing(c) ==  \* Mutant: without a thread the place is not given back.
  /\ main = "accept" /\ conns[c].at = "backlog" /\ main' = "wait" /\ UNCHANGED places
  /\ \/ conns' = [conns EXCEPT ![c].at = "head"] /\ UNCHANGED webcount
     \/ conns' = [conns EXCEPT ![c] = NoConn] /\ Trouble
  /\ UNCHANGED <<use, off, keeps, due, age>>

Accept(c) ==
  /\ main = "accept" /\ conns[c].at = "backlog" /\ main' = "wait"
  /\ \/ conns' = [conns EXCEPT ![c].at = "head"] /\ UNCHANGED <<places, webcount>>
     \/ conns' = [conns EXCEPT ![c] = NoConn] /\ places' = places + 1 /\ Trouble
  /\ UNCHANGED <<use, off, keeps, due, age>>

\* serve(), the end: the connection closed, the place given back
Ends(c) == conns' = [conns EXCEPT ![c] = NoConn] /\ places' = places + 1

UsingByAll(poll, delta) ==  \* Mutant: the page's polling counts as use.
  use' = [use EXCEPT !.busy = @ + delta, !.used = 0]

\* using(), but for the page's polling
Using(poll, delta) ==
  use' = IF poll THEN use ELSE [use EXCEPT !.busy = @ + delta, !.used = 0]
WebUsed(poll) == age' = IF poll THEN age ELSE [age EXCEPT !.gap = 0, !.unused = 0]

\* rpod_http_read_head(): a request, or the client's gone or talks nonsense.
ReadHead(c) ==
  /\ conns[c].at = "head" /\ UNCHANGED <<main, off, keeps, due, webcount>>
  /\ \/ Ends(c) /\ UNCHANGED <<use, age>>
     \/ \E poll \in BOOLEAN :
          /\ conns' = [conns EXCEPT ![c] = [at |-> "handle", poll |-> poll, silent |-> 0]]
          /\ Using(poll, 1) /\ WebUsed(poll) /\ UNCHANGED places

\* rpod_web_handle() is done, and what is left of the body is drained.
Handled(c) ==
  /\ conns[c].at = "handle" /\ Using(conns[c].poll, -1) /\ WebUsed(conns[c].poll)
  /\ \/ conns' = [conns EXCEPT ![c].at = "drain", ![c].silent = 0] /\ UNCHANGED places
     \/ Ends(c)
  /\ UNCHANGED <<main, off, keeps, due, webcount>>
DrainEnds(c) ==
  /\ conns[c].at = "drain" /\ Ends(c) /\ UNCHANGED <<main, use, off, keeps, due, age, webcount>>

\* The client sends or takes some more.
Sends(c) ==
  /\ conns[c].at \in {"head", "handle"} /\ conns[c].silent > 0
  /\ conns' = [conns EXCEPT ![c].silent = 0]
  /\ UNCHANGED <<places, main, use, off, keeps, due, age, webcount>>

\* rpod_videos_busy() from an upload until the last conversion is done
Conversion ==
  /\ (~use.converts => Deed) /\ (use.converts => UNCHANGED webcount)
  /\ use' = [use EXCEPT !.converts = ~@] /\ age' = [age EXCEPT !.video = 0, !.unused = 0]
  /\ UNCHANGED <<places, main, conns, off, keeps, due>>
-----------------------------------------------------------------------------
InUseNow ==  \* Mutant: a request that has just ended is not told of.
  use.busy > 0

\* keep_alive(): what it tells rPod of
InUse == use.busy > 0 \/ use.used < Report

\* The report, which rPod may not hear (rpod_ctl_request()'s timeouts).
KeepAlive ==
  /\ "report" \in due /\ due' = due \ {"report"} /\ use' = [use EXCEPT !.next = Report]
  /\ IF InUse \/ use.converts
     THEN (off' = [off EXCEPT !.quiet = 0] /\ UNCHANGED webcount) \/ (Trouble /\ UNCHANGED off)
     ELSE UNCHANGED <<off, webcount>>
  /\ UNCHANGED <<places, main, conns, keeps, age>>

\* rpod-web ends and systemd starts it again, with the conversions of before.
WebRestarts ==
  /\ Trouble /\ use' = [WebFresh EXCEPT !.converts = use.converts]
  /\ places' = MaxConnections /\ main' = "wait" /\ conns' = [c \in Conns |-> NoConn]
  /\ due' = due \ {"report"} /\ UNCHANGED <<off, keeps>>
  /\ age' = [age EXCEPT !.web = 0, !.gap = Report]
-----------------------------------------------------------------------------
\* power_off_cb(): logind does it, or put_back() makes everything as it was.
PowerOff(o) ==
  \/ off' = [o EXCEPT !.going = "off"] /\ UNCHANGED <<age, webcount>>
  \/ off' = [o EXCEPT !.going = "no", !.quiet = 0] /\ Used /\ Trouble

\* rpod_shutdown_now() without a message; the music is paused first.
Paused == keeps' = keeps \ {"playing"}
Now(o) ==
  IF o.going # "no" THEN off' = o /\ UNCHANGED <<keeps, age, webcount>> ELSE Paused /\ PowerOff(o)

\* check_cb(); if MPD doesn't tell that it plays, it counts as not playing.
IdleLong == off.idle >= Limit /\ off.quiet >= Limit
Check ==
  /\ "check" \in due /\ due' = due \ {"check"} /\ UNCHANGED <<places, main, conns, use>>
  /\ \/ off.going # "no" /\ UNCHANGED <<off, keeps, age, webcount>>
     \/ /\ off.going = "no" /\ keeps # {} /\ off' = [off EXCEPT !.quiet = 0]
        /\ UNCHANGED <<keeps, age, webcount>>
     \/ /\ off.going = "no" /\ keeps = {"playing"} /\ Trouble /\ UNCHANGED <<keeps, age>>
        /\ off' = IF IdleLong THEN [off EXCEPT !.going = "off"] ELSE off
     \/ off.going = "no" /\ keeps = {} /\ IdleLong /\ Now(off)
     \/ off.going = "no" /\ keeps = {} /\ ~IdleLong /\ UNCHANGED <<off, keeps, age, webcount>>

\* The wheel or a button
Input ==
  /\ Deed /\ off' = [off EXCEPT !.idle = 0] /\ Used
  /\ UNCHANGED <<places, main, conns, use, keeps, due>>

\* Settings > Shut Down: with a message, for MSG_MS.
ShutDown ==
  /\ off.going = "no" /\ Deed /\ off' = [off EXCEPT !.going = "shown", !.idle = 0] /\ Used
  /\ due' = due \union {"overlay"} /\ Paused /\ UNCHANGED <<places, main, conns, use>>
Overlay ==
  /\ "overlay" \in due /\ due' = due \ {"overlay"} /\ PowerOff(off)
  /\ UNCHANGED <<places, main, conns, use, keeps>>

\* Music, the alarm, or USB keeps, with which on_battery_changed() calls off what
\* an empty battery began
KeepsChange ==
  \E k \in Keeps :
    /\ Deed /\ Used /\ UNCHANGED <<places, main, conns, use>>
    /\ keeps' = IF k \in keeps THEN keeps \ {k} ELSE keeps \union {k}
    /\ IF k = "usb" /\ "usb" \in keeps' THEN off' = [off EXCEPT !.tried = FALSE] /\ due' = due \ {"empty"}
       ELSE UNCHANGED <<off, due>>

\* on_battery_changed() with the battery about empty: paused, and off in
\* POWER_OFF_DELAY_MS; once.
BatteryEmpty ==
  /\ "usb" \notin keeps /\ ~off.tried /\ "empty" \notin due /\ Deed /\ Used
  /\ Paused /\ due' = due \union {"empty"} /\ off' = [off EXCEPT !.idle = 0]
  /\ UNCHANGED <<places, main, conns, use>>
EmptyOff ==
  /\ "empty" \in due /\ due' = due \ {"empty"} /\ Now([off EXCEPT !.tried = TRUE])
  /\ UNCHANGED <<places, main, conns, use>>
-----------------------------------------------------------------------------
UnderWay == {c \in Conns : conns[c].at = "handle" /\ ~conns[c].poll}

\* Time goes by once nothing is due; a silent client is dropped in time, and a
\* drain (2 s) or a look for a connection that waits is over before.
Tick ==
  /\ due = {} /\ \A c \in Conns : conns[c].silent < IoTimeout /\ conns[c].at # "drain"
  /\ due' = {"check"} \union (IF use.next = 1 THEN {"report"} ELSE {})
  /\ use' = [use EXCEPT !.next = @ - 1, !.used = Capped(@, Report)]
  /\ off' = [off EXCEPT !.idle = Capped(@, Limit), !.quiet = Capped(@, Limit)]
  /\ conns' = [c \in Conns |-> IF conns[c].at \in {"head", "handle"}
                                 THEN [conns[c] EXCEPT !.silent = @ + 1] ELSE conns[c]]
  /\ LET gap == IF UnderWay = {} THEN Capped(age.gap, Report) ELSE 0
     IN  age' = [gap    |-> gap,
                 web    |-> IF gap < Report THEN Capped(age.web, Long) ELSE 0,
                 video  |-> IF use.converts THEN Capped(age.video, Long) ELSE 0,
                 unused |-> IF use.converts \/ keeps # {} \/ UnderWay # {}
                            THEN 0 ELSE Capped(age.unused, Unused)]
  /\ UNCHANGED <<places, main, keeps, webcount>>

OffNext ==
  /\ On
  /\ \/ \E c \in Conns : \/ Connects(c) \/ Accept(c) \/ ReadHead(c) \/ Handled(c)
                         \/ DrainEnds(c) \/ Sends(c)
     \/ TakePlace \/ AcceptFails \/ Conversion \/ KeepAlive \/ WebRestarts
     \/ Check \/ Input \/ ShutDown \/ Overlay \/ KeepsChange \/ BatteryEmpty \/ EmptyOff
     \/ Tick
OffSpec == OffInit /\ [][OffNext]_offVars
-----------------------------------------------------------------------------
OffTypes ==
  /\ places \in 0..MaxConnections /\ main \in {"wait", "accept"}
  /\ use.busy \in 0..Cardinality(Conns) /\ due \subseteq {"check", "report", "overlay", "empty"}

\* No place is lost and none is taken twice, however a connection ends; and what
\* counts as use is the requests under way (serve(), using()).
Served == {c \in Conns : conns[c].at \notin {"none", "backlog"}}
PlacesExact ==
  /\ OffTypes
  /\ places + Cardinality(Served) + (IF main = "accept" THEN 1 ELSE 0) = MaxConnections
  /\ use.busy = Cardinality(UnderWay)

\* Auto-Off waits for a conversion, or a web UI used without a gap of a minute,
\* once that has gone on for as long as it takes to hear of it; a restart or a
\* lost report delays that once.
AutoOffs == off.going = "no" /\ off'.going = "off" /\ "check" \in due /\ "check" \notin due'
HeardOf  == Report * (1 + webcount.trouble)
StaysOnInUse == [][AutoOffs => age.video <= HeardOf /\ age.web <= HeardOf]_offVars

\* Left alone, rPod goes off in time: neither the page's polling nor a client
\* that fell silent nor a report that came late keeps it on.
GoesOffInTime == due = {} /\ off.going = "no" => age.unused <= Limit + Report

\* "While it's in use -- a request under way ... -- it tells rPod so, which holds
\* off Auto-Off" (rpod_web.c).
NeverOffInUse == [][AutoOffs => UnderWay = {}]_offVars
=============================================================================
