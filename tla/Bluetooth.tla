------------------------------ MODULE Bluetooth ------------------------------
(***************************************************************************)
(* The BlueZ client (src/src/audio/bluetooth.c): on the LVGL thread, with  *)
(* every call to bluetoothd asynchronous, it keeps a mirror of BlueZ's     *)
(* adapter and devices, searches, pairs and connects, and asks paired      *)
(* headphones to reconnect.  Signals and replies come over one connection, *)
(* in the order bluetoothd sends them; it takes calls in order, and        *)
(* answers those that reach for a device when that device does.            *)
(*                                                                         *)
(* A call carries g.gen, which is compared to g.gen and nothing else: here *)
(* it is `stale' from when g.gen was counted up.  Every device plays       *)
(* sound.  bluetoothd, the bus and the devices are external.               *)
(***************************************************************************)
EXTENDS Integers, SequencesExt

CONSTANTS BtDevices,
          Pods,        \* those with Apple's accessory protocol
          MaxEvents    \* bound: what the user does, and what happens to bluetoothd,
                       \* the bus and the devices

ASSUME BtAssumption == IsFiniteSet(BtDevices) /\ BtDevices # {} /\ Pods \subseteq BtDevices

VARIABLES
  g,       \* g: the mirror and what is under way; `asked' are the calls bluetoothd
           \* has not taken yet, `pending' those not answered yet
  bz,      \* bluetoothd: its objects, whether it searches for us, and the `slow'
           \* calls it is at
  wire,    \* signals and replies not processed yet
  crossed, \* history: something said that a search was over, while another was asked
           \* for and not answered
  btcount

btVars == <<g, bz, wire, crossed, btcount>>

Absent == [there |-> FALSE, paired |-> FALSE, trusted |-> FALSE, connected |-> FALSE]
Found == [Absent EXCEPT !.there = TRUE]
Owned == [Found EXCEPT !.paired = TRUE, !.trusted = TRUE]
Bare == [there |-> FALSE, paired |-> FALSE, trusted |-> FALSE, connected |-> FALSE,
         op |-> "none", tried |-> FALSE]  \* device_t

\* close_bus(), before a bus is open
NoBus == [bus |-> FALSE, up |-> FALSE, adapter |-> FALSE, powered |-> FALSE, powering |-> FALSE,
          devs |-> [d \in BtDevices |-> Bare], due |-> FALSE, scan |-> FALSE, active |-> FALSE,
          pairs |-> 0, asked |-> <<>>, pending |-> {}]

\* The screen may be open before the bus; devices may be known, or just found.
BtInit ==
  /\ \E on \in BOOLEAN : g = [NoBus EXCEPT !.scan = on]
  /\ \E powered \in BOOLEAN, known \in [BtDevices -> {Absent, Found, Owned}] :
       bz = [up |-> TRUE, adapter |-> TRUE, powered |-> powered, search |-> FALSE, slow |-> {},
              devs |-> known]
  /\ wire = <<>> /\ crossed = FALSE /\ btcount = 0

BtEvent == btcount < MaxEvents /\ btcount' = btcount + 1
-----------------------------------------------------------------------------
\* send_call(); a call is about a device, or the `what' and flags say it all.
AnyDevice == CHOOSE d \in BtDevices : TRUE
AsSent(c) == [c EXCEPT !.stale = FALSE]
CallsInUse(x) == {AsSent(p) : p \in x.pending} \union bz.slow \union ToSet(x.asked)
                 \union {m.call : m \in {n \in ToSet(wire) : n.kind = "reply"}}
CallOf(i, what, d, flag) == [id |-> i, what |-> what, dev |-> d, flag |-> flag, stale |-> FALSE]
NewCall(x, what, d, flag) ==
  LET used == CallsInUse(x)
  IN  CallOf(CHOOSE i \in 1..(Cardinality(used) + 1) : CallOf(i, what, d, flag) \notin used, what, d, flag)
Sent(x, what, d, flag) ==
  LET c == NewCall(x, what, d, flag) IN [x EXCEPT !.asked = Append(@, c), !.pending = @ \union {c}]
SentPlain(x, what) == Sent(x, what, AnyDevice, "plain")

\* g.gen++
Outdated(x) == [x EXCEPT !.pending = {[c EXCEPT !.stale = TRUE] : c \in @}]

\* reset_mirror()
ResetMirror(x) ==
  [Outdated(x) EXCEPT !.adapter = FALSE, !.powered = FALSE, !.powering = FALSE, !.due = FALSE,
                      !.devs = [d \in BtDevices |-> Bare], !.active = FALSE, !.pairs = 0]

\* fetch_objects()
Fetch(x) == SentPlain(Outdated(x), "objects")

\* schedule_autoconnect()
Schedule(x) == [x EXCEPT !.due = TRUE, !.devs = [d \in BtDevices |-> [@[d] EXCEPT !.tried = FALSE]]]

\* update_discovery()
UpdateDiscovery(x) ==
  LET want == x.scan /\ x.adapter /\ x.powered /\ x.pairs = 0 IN
  IF want /\ ~x.active THEN [SentPlain(x, "start") EXCEPT !.active = TRUE]
  ELSE IF ~want /\ x.active
       THEN [(IF x.adapter /\ x.powered THEN SentPlain(x, "stop") ELSE x) EXCEPT !.active = FALSE]
  ELSE x

\* set_op() and finish_pair()
SetOp(x, d, op) == IF x.devs[d].there THEN [x EXCEPT !.devs[d].op = op] ELSE x
FinishPair(x)   == UpdateDiscovery([x EXCEPT !.pairs = IF @ > 0 THEN @ - 1 ELSE 0])

\* send_connect()
SendConnect(x, d, flag) == SetOp(Sent(x, "connect", d, flag), d, "connecting")

\* autoconnect_next(): AirPods first, unless one is connected already.
CanAsk(x, d) == LET e == x.devs[d] IN e.there /\ ~e.tried /\ e.paired /\ e.trusted /\ e.op = "none"
AutoconnectNext(x) ==
  LET able  == {d \in BtDevices : CanAsk(x, d)}
      first == IF able \intersect Pods # {} THEN able \intersect Pods ELSE able
  IN  IF \/ ~(x.bus /\ x.up /\ x.adapter /\ x.powered) \/ x.pairs > 0
         \/ (\E d \in BtDevices : x.devs[d].connected) \/ able = {}
      THEN x
      ELSE LET d == CHOOSE e \in first : TRUE
           IN  SendConnect([x EXCEPT !.devs[d].tried = TRUE], d, "auto")
-----------------------------------------------------------------------------
\* What is on the wire: signals, and replies.  A signal about a device carries
\* all that is known of it, which is what it changes and what has not changed.
\* Only the reply to GetManagedObjects has objects.
Empty == [adapter |-> FALSE, powered |-> FALSE, devs |-> [d \in BtDevices |-> Absent]]
Objects == IF bz.adapter THEN [adapter |-> TRUE, powered |-> bz.powered, devs |-> bz.devs] ELSE Empty
Reply(c, err)     == [kind |-> "reply", call |-> c, err |-> err, objects |-> Empty]
SignalOf(kind, on) == [kind |-> kind, on |-> on]
About(kind, d, e) == [kind |-> kind, dev |-> d, as |-> e]

\* adapter_prop()
Powered(x, on) ==
  LET y == [x EXCEPT !.powered = on, !.active = @ /\ on]
  IN  IF on /\ ~x.powered /\ x.up THEN Schedule(y) ELSE y

\* device_prop()
Mirrored(x, d, e) ==
  [x EXCEPT !.devs[d] = [@ EXCEPT !.there = TRUE, !.paired = e.paired, !.trusted = e.trusted,
                                  !.connected = e.connected]]

\* on_name_owner_changed()
OnNameOwner(x, on) == IF on THEN Fetch(x) ELSE [ResetMirror(x) EXCEPT !.up = FALSE]

\* and on_interfaces_added(), on_interfaces_removed(), on_properties_changed()
OnSignal(x, m) ==
  CASE m.kind = "name" -> OnNameOwner(x, m.on)
    [] m.kind = "adapter" -> IF x.up THEN UpdateDiscovery(Powered([x EXCEPT !.adapter = TRUE], m.on)) ELSE x
    [] m.kind = "unplugged" -> IF x.adapter THEN Fetch(ResetMirror(x)) ELSE x
    [] m.kind = "powered" -> IF x.adapter THEN UpdateDiscovery(Powered(x, m.on)) ELSE x
    [] m.kind = "added" -> IF ~x.up THEN x
                           ELSE UpdateDiscovery(IF x.adapter THEN Mirrored(x, m.dev, m.as) ELSE x)
    [] m.kind = "removed" -> [x EXCEPT !.devs[m.dev] = Bare]
    [] m.kind = "changed" -> IF x.devs[m.dev].there THEN Mirrored(x, m.dev, m.as) ELSE x

\* on_objects(): the mirror anew
OnObjects(x, c, err, o) ==
  IF c.stale THEN x
  ELSE IF err # "done" THEN [ResetMirror(x) EXCEPT !.up = FALSE]
  ELSE LET y == [ResetMirror(x) EXCEPT !.up = TRUE, !.adapter = o.adapter, !.powered = o.powered]
           z == [y EXCEPT !.devs = [d \in BtDevices |->
                   IF o.devs[d].there THEN Mirrored(y, d, o.devs[d]).devs[d] ELSE Bare]]
       IN  UpdateDiscovery(IF z.powered THEN Schedule(z) ELSE z)

\* on_start_discovery()
OnStart(x, c, err) == IF err = "failed" /\ ~c.stale THEN [x EXCEPT !.active = FALSE] ELSE x

\* set_trusted()
SetTrusted(x, d) == Sent(x, "trust", d, "plain")

\* on_connect()
OnConnect(x, c, err) ==
  IF c.stale THEN x
  ELSE LET y    == SetOp(x, c.dev, "none")
           fail == err = "failed"
           e    == y.devs[c.dev]
           z    == IF ~fail /\ e.there /\ e.paired /\ ~e.trusted THEN SetTrusted(y, c.dev) ELSE y
       IN  IF c.flag = "auto" THEN (IF fail THEN AutoconnectNext(y) ELSE y)
           ELSE IF c.flag = "pair" THEN FinishPair(z) ELSE z

OnPairUncounted(x, c, err) ==  \* Mutant: one that failed is still counted.
  IF c.stale THEN x
  ELSE IF err = "failed" THEN SetOp(x, c.dev, "none")
  ELSE SendConnect(SetTrusted(x, c.dev), c.dev, "pair")

\* on_pair(): trusted, then connected
OnPair(x, c, err) ==
  IF c.stale THEN x
  ELSE IF err = "failed" THEN FinishPair(SetOp(x, c.dev, "none"))
  ELSE SendConnect(SetTrusted(x, c.dev), c.dev, "pair")

\* A reply, or its timeout; on_disconnect(), on_set_powered(), on_reply_log()
Replied(x, c, err, o) ==
  LET mine == CHOOSE p \in x.pending : AsSent(p) = c
      y    == [x EXCEPT !.pending = @ \ {mine}]
  IN  CASE c.what = "objects"    -> OnObjects(y, mine, err, o)
        [] c.what = "start"      -> OnStart(y, mine, err)
        [] c.what = "connect"    -> OnConnect(y, mine, err)
        [] c.what = "pair"       -> OnPair(y, mine, err)
        [] c.what = "disconnect" -> IF mine.stale THEN y ELSE SetOp(y, c.dev, "none")
        [] c.what = "power"      -> IF mine.stale THEN y ELSE [y EXCEPT !.powering = FALSE]
        [] OTHER                 -> y

\* What says that no search runs
EndsSearch(m) ==
  IF m.kind = "reply" THEN m.call.what = "objects" \/ (m.call.what = "start" /\ m.err = "failed")
  ELSE m.kind \in {"name", "adapter", "unplugged", "powered"} /\ ~m.on
-----------------------------------------------------------------------------
\* poll_cb(): the bus is opened, the matches and the request for everything go in, ...
OpenBus == /\ ~g.bus /\ g' = Fetch([g EXCEPT !.bus = TRUE])
           /\ UNCHANGED <<bz, wire, crossed, btcount>>

\* ... a message is processed (a reply nobody waits for any more is dropped), ...
Process ==
  /\ wire # <<>>
  /\ LET m == Head(wire) IN
       /\ g' = IF m.kind # "reply" THEN OnSignal(g, m)
               ELSE IF \E p \in g.pending : AsSent(p) = m.call THEN Replied(g, m.call, m.err, m.objects)
               ELSE g
       /\ crossed' = (crossed \/ (g.active /\ EndsSearch(m) /\ \E c \in g.pending :
                         c.what = "start" /\ ~(m.kind = "reply" /\ m.call = AsSent(c))))
  /\ wire' = Tail(wire) /\ UNCHANGED <<bz, btcount>>

\* ... and headphones are asked to reconnect some time after Bluetooth came up.
AutoDue == /\ g.due /\ g' = AutoconnectNext([g EXCEPT !.due = FALSE])
           /\ UNCHANGED <<bz, wire, crossed, btcount>>

\* sd-bus gives up on a call.
Timeout ==
  /\ \E c \in g.pending : /\ c.what \in {"pair", "connect", "disconnect"}
                          /\ AsSent(c) \in bz.slow
                          /\ g' = Replied(g, AsSent(c), "failed", Empty)
  /\ BtEvent /\ UNCHANGED <<bz, wire, crossed>>

\* The user: rpod_bt_scan_start(), _scan_stop(), _set_powered(), _pair(),
\* _connect(), _disconnect(), _forget()
Asked(x) == g' = x /\ BtEvent /\ UNCHANGED <<bz, wire, crossed>>
Scan(on) == g.scan # on /\ Asked(UpdateDiscovery([g EXCEPT !.scan = on]))
SetPowered(on) == /\ g.adapter /\ ~g.powering /\ on # g.powered
                  /\ Asked([Sent(g, "power", AnyDevice, IF on THEN "on" ELSE "off") EXCEPT !.powering = TRUE])
DeviceIdle(d) == g.devs[d].there /\ g.devs[d].op = "none"
Pair(d) == /\ DeviceIdle(d)
           /\ Asked(SetOp(Sent(UpdateDiscovery([g EXCEPT !.pairs = @ + 1]), "pair", d, "plain"), d, "pairing"))
ConnectTo(d)  == DeviceIdle(d) /\ Asked(SendConnect(g, d, "plain"))
Disconnect(d) == DeviceIdle(d) /\ Asked(SetOp(Sent(g, "disconnect", d, "plain"), d, "disconnecting"))
Forget(d)     == g.devs[d].there /\ Asked(Sent(g, "remove", d, "plain"))
-----------------------------------------------------------------------------
\* bluetoothd: what a call does to it is told before the call is answered.
Tells(b, msgs) == bz' = b /\ wire' = IF g.bus THEN wire \o msgs ELSE wire
AboutEach(kind, S, b) ==
  [i \in 1..Cardinality(S) |-> About(kind, SetToSeq(S)[i], b.devs[SetToSeq(S)[i]])]
DevChanges(b, from) == AboutEach("changed", {d \in BtDevices : b.devs[d] # from.devs[d]}, b)
Fails(calls) == [i \in 1..Cardinality(calls) |-> Reply(SetToSeq(calls)[i], "failed")]

\* Without power nothing is connected, searched for or under way.
Unpowered(b) == [b EXCEPT !.powered = FALSE, !.search = FALSE, !.slow = {},
                          !.devs = [d \in BtDevices |-> [@[d] EXCEPT !.connected = FALSE]]]
Switch(on, more) ==
  LET b == IF on THEN [bz EXCEPT !.powered = TRUE] ELSE Unpowered(bz)
  IN  Tells(b, DevChanges(b, bz) \o (IF b.powered # bz.powered THEN <<SignalOf("powered", on)>> ELSE <<>>)
                \o Fails(bz.slow \ b.slow) \o more)

\* The next call: it is answered, or is one of the slow ones.
Take(ok) ==
  /\ g.asked # <<>>
  /\ LET c == Head(g.asked)
         e == bz.devs[c.dev]
         done(b) == Tells(b, DevChanges(b, bz) \o <<Reply(c, "done")>>)
         no(err) == Tells(bz, <<Reply(c, err)>>)
     IN  CASE ~bz.up -> ok /\ no("failed")
           [] bz.up /\ c.what = "objects" -> ok /\ Tells(bz, <<[Reply(c, "done") EXCEPT !.objects = Objects]>>)
           [] bz.up /\ c.what = "start" -> IF ~ok \/ ~bz.adapter \/ ~bz.powered THEN no("failed")
                                          ELSE IF bz.search THEN no("already") ELSE done([bz EXCEPT !.search = TRUE])
           [] bz.up /\ c.what = "stop"  -> ok /\ done([bz EXCEPT !.search = FALSE])
           [] bz.up /\ c.what = "power" -> IF ok /\ bz.adapter THEN Switch(c.flag = "on", <<Reply(c, "done")>>) ELSE no("failed")
           [] bz.up /\ c.what \in {"trust", "remove", "pair", "connect", "disconnect"} ->
                /\ ok
                /\ IF ~bz.adapter \/ ~e.there THEN no("failed")
                   ELSE CASE c.what = "trust"  -> done([bz EXCEPT !.devs[c.dev].trusted = TRUE])
                          [] c.what = "remove" ->
                               LET slow == {t \in bz.slow : t.dev = c.dev} IN
                               Tells([bz EXCEPT !.devs[c.dev] = Absent, !.slow = @ \ slow],
                                     Fails(slow) \o <<About("removed", c.dev, Absent), Reply(c, "done")>>)
                          [] OTHER -> IF ~bz.powered THEN no("failed")
                                      ELSE IF \/ c.what = "pair" /\ e.paired
                                              \/ c.what = "connect" /\ e.connected THEN no("already")
                                      ELSE Tells([bz EXCEPT !.slow = @ \union {c}], <<>>)
  /\ g' = [g EXCEPT !.asked = Tail(@)]
  /\ UNCHANGED crossed
  /\ IF ok THEN UNCHANGED btcount ELSE BtEvent

\* A slow one is done: the device paired, connected, or did not answer.
Done(c, ok) ==
  /\ c \in bz.slow
  /\ LET b == [bz EXCEPT !.slow = @ \ {c},
                         !.devs[c.dev] = IF ~ok THEN @
                           ELSE CASE c.what = "pair" -> [@ EXCEPT !.paired = TRUE, !.connected = TRUE]
                                  [] OTHER           -> [@ EXCEPT !.connected = (c.what = "connect")]]
     IN  Tells(b, DevChanges(b, bz) \o <<Reply(c, IF ok THEN "done" ELSE "failed")>>)
  /\ UNCHANGED <<g, crossed, btcount>>

\* A search finds a device in pairing mode.
Appear(d) == /\ bz.search /\ ~bz.devs[d].there
             /\ Tells([bz EXCEPT !.devs[d] = Found], <<About("added", d, Found)>>)
             /\ UNCHANGED <<g, crossed, btcount>>

Happens(b, msgs) == Tells(b, msgs) /\ BtEvent /\ UNCHANGED <<g, crossed>>

\* A device that was found is forgotten again, or one comes or goes by itself.
Vanish(d) == /\ bz.adapter /\ bz.devs[d].there /\ ~bz.devs[d].paired /\ \A c \in bz.slow : c.dev # d
             /\ Happens([bz EXCEPT !.devs[d] = Absent], <<About("removed", d, Absent)>>)
ComeOrGo(d) == /\ bz.adapter /\ bz.powered /\ bz.devs[d].paired
               /\ LET b == [bz EXCEPT !.devs[d].connected = ~@] IN Happens(b, DevChanges(b, bz))

\* Somebody else switches the adapter.
OthersSwitch == /\ bz.adapter /\ Switch(~bz.powered, <<>>)
                /\ BtEvent /\ UNCHANGED <<g, crossed>>

\* bluetoothd goes down, comes back, and finds its adapter a moment later; or
\* the adapter is lost.
Kept(b) == [b EXCEPT !.adapter = FALSE,
                     !.devs = [d \in BtDevices |-> IF @[d].paired THEN @[d] ELSE Absent]]
BluezDown == /\ bz.up
             /\ \E last \in BOOLEAN :
                  LET name == <<SignalOf("name", FALSE)>> IN
                  Happens([Kept(Unpowered(bz)) EXCEPT !.up = FALSE],
                          IF last THEN Fails(bz.slow) \o name ELSE name \o Fails(bz.slow))
BluezUp == /\ ~bz.up /\ Tells([bz EXCEPT !.up = TRUE], <<SignalOf("name", TRUE)>>)
           /\ UNCHANGED <<g, crossed, btcount>>
Unplug == /\ bz.adapter
          /\ Happens(Kept(Unpowered(bz)), Fails(bz.slow) \o <<SignalOf("unplugged", FALSE)>>)
Plug == /\ bz.up /\ ~bz.adapter
        /\ Tells([bz EXCEPT !.adapter = TRUE, !.powered = TRUE],
                 <<SignalOf("adapter", TRUE)>>
                   \o AboutEach("added", {d \in BtDevices : bz.devs[d].there}, bz))
        /\ UNCHANGED <<g, crossed, btcount>>

\* The bus is lost, with every call; close_bus()
LoseBus == /\ g.bus /\ g' = [NoBus EXCEPT !.scan = g.scan] /\ wire' = <<>>
           /\ bz' = [bz EXCEPT !.slow = {}, !.search = FALSE]
           /\ BtEvent /\ UNCHANGED crossed

BtNext ==
  \/ OpenBus \/ Process \/ AutoDue \/ Timeout
  \/ \E on \in BOOLEAN : Scan(on) \/ SetPowered(on)
  \/ \E d \in BtDevices : Pair(d) \/ ConnectTo(d) \/ Disconnect(d) \/ Forget(d)
  \/ \E ok \in BOOLEAN : Take(ok) \/ \E c \in bz.slow : Done(c, ok)
  \/ \E d \in BtDevices : Appear(d) \/ Vanish(d) \/ ComeOrGo(d)
  \/ OthersSwitch \/ BluezDown \/ BluezUp \/ Unplug \/ Plug \/ LoseBus

BtSpec == BtInit /\ [][BtNext]_btVars
-----------------------------------------------------------------------------
Awaited(what) == {c \in g.pending : ~c.stale /\ c.what = what}
Quiet == wire = <<>> /\ g.asked = <<>> /\ g.bus

\* Once every message is processed the mirror is what bluetoothd has, whatever
\* came between the request for its objects and the reply.
MirrorTrue ==
  wire = <<>> /\ g.bus /\ Awaited("objects") = {} =>
    /\ g.up = bz.up
    /\ g.adapter = (bz.up /\ bz.adapter)
    /\ g.adapter => /\ g.powered = bz.powered
                    /\ \A d \in BtDevices : \A f \in DOMAIN Absent : g.devs[d][f] = bz.devs[d][f]

\* A device shows an operation, and the power its "...", only while a call that
\* will take it away is awaited; and pairings are counted exactly.
CallsAwaited ==
  /\ \A d \in BtDevices : g.devs[d].op # "none" =>
       \E c \in g.pending : ~c.stale /\ c.dev = d /\ c.what \in {"pair", "connect", "disconnect"}
  /\ g.powering = (Awaited("power") # {})
  /\ g.pairs = Cardinality(Awaited("pair") \union {c \in Awaited("connect") : c.flag = "pair"})

\* The search is held only while the screen is open and nothing pairs; and once
\* all is answered bluetoothd searches exactly while it is, none left running and
\* none forgotten.  Not so after a search was `crossed'.
SearchOnlyWanted ==
  /\ g.active => g.scan /\ g.powered /\ g.pairs = 0
  /\ Quiet => bz.search = g.active \/ crossed

\* Once the signals and replies are in, the mirror is what bluetoothd has, over
\* its restarts and those of the bus; no operation or pairing is shown or counted
\* that nothing will end, and it searches exactly while that is wanted (bluetooth.c).
CallsAnswered == MirrorTrue /\ CallsAwaited /\ SearchOnlyWanted
=============================================================================
