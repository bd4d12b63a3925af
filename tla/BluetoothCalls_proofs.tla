----------------------- MODULE BluetoothCalls_proofs ------------------------
(***************************************************************************)
(* What every handler of Bluetooth, and every step of bluetoothd, does to  *)
(* the calls and to the wire, for any devices and any number of events.    *)
(* BtSound is the part of the inductive invariant that speaks of these     *)
(* alone: mirror, bluetoothd and wire are of their types; no two pending   *)
(* calls are the same call; what bluetoothd has not taken yet is pending,  *)
(* unanswered and not taken twice; a call is answered once, and only one   *)
(* that reaches a device is answered to a caller that has given it up (a   *)
(* timeout). The proofs of the other parts, in Bluetooth_proofs, cite its  *)
(* lemmas.                                                                 *)
(***************************************************************************)
EXTENDS Bluetooth, TLAPS, SequenceTheorems, FiniteSetTheorems

Whats   == {"objects", "start", "stop", "power", "trust", "remove", "pair", "connect", "disconnect"}
Reaches == {"pair", "connect", "disconnect"}
BtCalls == [id : Nat, what : Whats, dev : BtDevices, flag : {"plain", "auto", "pair", "on", "off"},
            stale : BOOLEAN]
BtFacts == [there : BOOLEAN, paired : BOOLEAN, trusted : BOOLEAN, connected : BOOLEAN]
BtShown == [there : BOOLEAN, paired : BOOLEAN, trusted : BOOLEAN, connected : BOOLEAN,
            op : {"none", "pairing", "connecting", "disconnecting"}, tried : BOOLEAN]
BtObjects == {o \in [adapter : BOOLEAN, powered : BOOLEAN, devs : [BtDevices -> BtFacts]] :
                o.adapter \/ o = Empty}
BtMirrors == [bus : BOOLEAN, up : BOOLEAN, adapter : BOOLEAN, powered : BOOLEAN, powering : BOOLEAN,
              devs : [BtDevices -> BtShown], due : BOOLEAN, scan : BOOLEAN, active : BOOLEAN,
              pairs : Nat, asked : Seq(BtCalls), pending : SUBSET BtCalls]
BtBluez == [up : BOOLEAN, adapter : BOOLEAN, powered : BOOLEAN, search : BOOLEAN,
            slow : SUBSET BtCalls, devs : [BtDevices -> BtFacts]]
BtReplies == [kind : {"reply"}, call : {c \in BtCalls : ~c.stale}, err : {"done", "failed", "already"}, objects : BtObjects]
BtSignals == [kind : {"name", "powered"}, on : BOOLEAN] \union [kind : {"adapter"}, on : {TRUE}]
             \union [kind : {"unplugged"}, on : {FALSE}]
BtAbouts  == [kind : {"added", "changed"}, dev : BtDevices, as : {e \in BtFacts : e.there}]
             \union [kind : {"removed"}, dev : BtDevices, as : BtFacts]
BtMsgs == BtReplies \union BtSignals \union BtAbouts

\* A set as a sequence lists every member, once.
LEMMA SetSeqSo ==
  ASSUME NEW S, IsFiniteSet(S)
  PROVE  /\ Cardinality(S) \in Nat
         /\ SetToSeq(S) \in [1..Cardinality(S) -> S]
         /\ \A i, j \in 1..Cardinality(S) : SetToSeq(S)[i] = SetToSeq(S)[j] => i = j
         /\ \A e \in S : \E i \in 1..Cardinality(S) : SetToSeq(S)[i] = e
<1> DEFINE n == Cardinality(S)
<1>0. n \in Nat BY FS_CardinalityType
<1>1. PICK f : f \in [1..n -> S] /\ IsInjective(f)
  <2>1. ExistsBijection(1..n, S) BY FS_CardinalityType
  <2> QED BY <2>1 DEF ExistsBijection, Bijection, Injection, IsInjective
<1>2. SetToSeq(S) \in [1..n -> S] /\ IsInjective(SetToSeq(S)) BY <1>1 DEF SetToSeq
<1>3. \A e \in S : \E i \in 1..n : SetToSeq(S)[i] = e
  <2> SUFFICES ASSUME NEW e \in S, \A i \in 1..n : SetToSeq(S)[i] # e PROVE FALSE OBVIOUS
  <2>1. IsFiniteSet(1..n) /\ Cardinality(1..n) = n BY <1>0, FS_Interval
  <2>2. IsFiniteSet(S \ {e}) /\ Cardinality(S \ {e}) = n - 1 BY FS_RemoveElement
  <2>3. SetToSeq(S) \in [1..n -> S \ {e}] BY <1>2
  <2>4. SetToSeq(S) \in Injection(1..n, S \ {e}) BY <1>2, <2>3 DEF Injection, IsInjective
  <2>5. Cardinality(1..n) <= Cardinality(S \ {e}) BY <2>1, <2>2, <2>4, FS_Injection
  <2> QED BY <1>0, <2>1, <2>2, <2>5
<1> QED BY <1>0, <1>2, <1>3 DEF IsInjective

\* What a mirror is made of, ...
LEMMA MirrorTypes ==
  ASSUME NEW x \in BtMirrors
  PROVE  /\ x.bus \in BOOLEAN /\ x.up \in BOOLEAN /\ x.adapter \in BOOLEAN /\ x.powered \in BOOLEAN
         /\ x.powering \in BOOLEAN /\ x.due \in BOOLEAN /\ x.scan \in BOOLEAN /\ x.active \in BOOLEAN
         /\ x.devs \in [BtDevices -> BtShown] /\ x.pairs \in Nat
         /\ x.asked \in Seq(BtCalls) /\ x.pending \in SUBSET BtCalls
BY Zenon DEF BtMirrors

\* ... a call, ...
LEMMA CallTypes ==
  ASSUME NEW c \in BtCalls
  PROVE  /\ c.id \in Nat /\ c.what \in Whats /\ c.dev \in BtDevices
         /\ c.flag \in {"plain", "auto", "pair", "on", "off"} /\ c.stale \in BOOLEAN
         /\ AsSent(c) \in BtCalls /\ ~AsSent(c).stale /\ AsSent(c).what = c.what
         /\ AsSent(c).dev = c.dev /\ AsSent(c).flag = c.flag /\ AsSent(c).id = c.id
         /\ (~c.stale => AsSent(c) = c) /\ (AsSent(c) = c => ~c.stale)
<1>1. /\ c.id \in Nat /\ c.what \in Whats /\ c.dev \in BtDevices
      /\ c.flag \in {"plain", "auto", "pair", "on", "off"} /\ c.stale \in BOOLEAN
  BY Zenon DEF BtCalls
<1> QED BY <1>1 DEF BtCalls, AsSent

\* ... and a message.
LEMMA ReplyTypes ==
  ASSUME NEW m \in BtMsgs, m.kind = "reply"
  PROVE  /\ m.call \in BtCalls /\ ~m.call.stale /\ m.err \in {"done", "failed", "already"}
         /\ m.objects \in BtObjects
<1>1. m \in BtReplies BY DEF BtMsgs, BtReplies, BtSignals, BtAbouts
<1> QED BY <1>1 DEF BtReplies

LEMMA SignalTypes ==
  ASSUME NEW m \in BtMsgs, m.kind # "reply"
  PROVE  /\ m.kind \in {"name", "powered", "adapter", "unplugged"} =>
              /\ m.on \in BOOLEAN /\ (m.kind = "adapter" => m.on) /\ (m.kind = "unplugged" => ~m.on)
         /\ m.kind \notin {"name", "powered", "adapter", "unplugged"} =>
              /\ m.kind \in {"added", "removed", "changed"} /\ m.dev \in BtDevices /\ m.as \in BtFacts
              /\ (m.kind # "removed" => m.as.there)
<1>1. m \in BtSignals \/ m \in BtAbouts BY DEF BtMsgs, BtReplies, BtSignals, BtAbouts
<1>2. CASE m \in BtSignals BY <1>2 DEF BtSignals
<1>3. CASE m \in BtAbouts BY <1>3 DEF BtAbouts
<1> QED BY <1>1, <1>2, <1>3

LEMMA ObjectTypes ==
  ASSUME NEW o \in BtObjects
  PROVE  /\ o.adapter \in BOOLEAN /\ o.powered \in BOOLEAN /\ o.devs \in [BtDevices -> BtFacts]
         /\ (o.adapter \/ o = Empty)
BY DEF BtObjects

LEMMA ShownTypes ==
  ASSUME NEW e \in BtShown
  PROVE  /\ e.there \in BOOLEAN /\ e.paired \in BOOLEAN /\ e.trusted \in BOOLEAN /\ e.connected \in BOOLEAN
         /\ e.op \in {"none", "pairing", "connecting", "disconnecting"} /\ e.tried \in BOOLEAN
BY Zenon DEF BtShown

LEMMA BareShown == Bare \in BtShown /\ [d \in BtDevices |-> Bare] \in [BtDevices -> BtShown]
BY DEF Bare, BtShown

\* The replies on a wire, as calls, ...
Answered(w) == {w[i].call : i \in {j \in 1..Len(w) : w[j].kind = "reply"}}

\* ... and what all that is asked and answered is: finite, so that a new call is new.
Finitely(x) == IsFiniteSet(x.pending) /\ IsFiniteSet(bz.slow)

LEMMA SeqFinite == ASSUME NEW S, NEW q \in Seq(S) PROVE IsFiniteSet(ToSet(q))
<1>1. IsFiniteSet(1..Len(q)) BY FS_Interval
<1>2. [i \in 1..Len(q) |-> q[i]] \in Surjection(1..Len(q), ToSet(q))
  BY LenProperties DEF Surjection, ToSet
<1> QED BY <1>1, <1>2, FS_Surjection

LEMMA NewCallSo ==
  ASSUME BtAssumption, NEW x \in BtMirrors, Finitely(x), wire \in Seq(BtMsgs),
         NEW what \in Whats, NEW d \in BtDevices, NEW flag \in {"plain", "auto", "pair", "on", "off"}
  PROVE  /\ NewCall(x, what, d, flag) \in BtCalls /\ ~NewCall(x, what, d, flag).stale
         /\ NewCall(x, what, d, flag).what = what /\ NewCall(x, what, d, flag).dev = d
         /\ NewCall(x, what, d, flag).flag = flag
         /\ NewCall(x, what, d, flag) \notin Answered(wire)
         /\ NewCall(x, what, d, flag) \notin bz.slow
         /\ NewCall(x, what, d, flag) \notin x.pending
         /\ \A i \in 1..Len(x.asked) : x.asked[i] # NewCall(x, what, d, flag)
         /\ \A p \in x.pending : AsSent(p) # NewCall(x, what, d, flag)
<1> DEFINE U == CallsInUse(x)
           n == Cardinality(U) + 1
           call(i) == CallOf(i, what, d, flag)
<1> HIDE DEF U, n
<1>1. IsFiniteSet(U)
  <2>1. IsFiniteSet({AsSent(p) : p \in x.pending})
    <3>1. [p \in x.pending |-> AsSent(p)] \in Surjection(x.pending, {AsSent(p) : p \in x.pending})
      BY DEF Surjection
    <3> QED BY <3>1, FS_Surjection DEF Finitely
  <2>2. IsFiniteSet(ToSet(x.asked)) BY MirrorTypes, SeqFinite
  <2>3. IsFiniteSet({m.call : m \in {k \in ToSet(wire) : k.kind = "reply"}})
    <3> DEFINE R == {k \in ToSet(wire) : k.kind = "reply"}
    <3>1. IsFiniteSet(R) BY SeqFinite, FS_Subset
    <3>2. [m \in R |-> m.call] \in Surjection(R, {m.call : m \in R}) BY DEF Surjection
    <3> HIDE DEF R
    <3>3. IsFiniteSet({m.call : m \in R}) BY <3>1, <3>2, FS_Surjection
    <3> QED BY <3>3 DEF R
  <2>4. IsFiniteSet(bz.slow) BY DEF Finitely
  <2> QED BY <2>1, <2>2, <2>3, <2>4, FS_Union DEF CallsInUse, U
<1>20. Cardinality(U) \in Nat BY <1>1, FS_CardinalityType
<1>21. n = Cardinality(U) + 1 BY DEF n
<1>2. n \in Nat /\ n = Cardinality(U) + 1 /\ Cardinality(U) \in Nat BY <1>20, <1>21
<1>3. \A i \in 1..n : call(i) \in BtCalls /\ ~call(i).stale /\ call(i).what = what /\ call(i).dev = d
                       /\ call(i).flag = flag /\ call(i).id = i
  BY <1>2 DEF CallOf, BtCalls
<1>4. \E i \in 1..n : call(i) \notin U
  <2> SUFFICES ASSUME \A i \in 1..n : call(i) \in U PROVE FALSE OBVIOUS
  <2> DEFINE f == [i \in 1..n |-> call(i)]
  <2>1. f \in [1..n -> U] OBVIOUS
  <2>2. \A i, j \in 1..n : f[i] = f[j] => i = j BY <1>3
  <2>3. f \in Injection(1..n, U) BY <2>1, <2>2 DEF Injection, IsInjective
  <2>4. Cardinality(1..n) <= Cardinality(U)
    <3> HIDE DEF f
    <3> QED BY <1>1, <2>3, FS_Injection
  <2>5. Cardinality(1..n) = n
    <3>1. 1 \in Int /\ n \in Int /\ n >= 1 BY <1>2
    <3> QED BY <3>1, FS_Interval
  <2> QED BY <1>2, <2>4, <2>5
<1>5. PICK k \in 1..n : NewCall(x, what, d, flag) = call(k) /\ call(k) \notin U
  BY <1>4 DEF NewCall, n, U
<1> HIDE DEF call
<1> DEFINE c == NewCall(x, what, d, flag)
<1>6. c \in BtCalls /\ ~c.stale /\ c.what = what /\ c.dev = d /\ c.flag = flag
  BY <1>3, <1>5
<1>7. c \notin U BY <1>5
<1> HIDE DEF c
<1>8. c \notin Answered(wire)
  <2> SUFFICES ASSUME NEW i \in 1..Len(wire), wire[i].kind = "reply", c = wire[i].call PROVE FALSE
    BY DEF Answered
  <2>1. wire[i] \in ToSet(wire) BY LenProperties DEF ToSet
  <2> QED BY <1>7, <2>1 DEF U, CallsInUse
<1>9. c \notin bz.slow BY <1>7 DEF U, CallsInUse
<1>10. \A p \in x.pending : AsSent(p) # c BY <1>7 DEF U, CallsInUse
<1>11. c \notin x.pending BY <1>6, <1>10, CallTypes
<1>12. \A i \in 1..Len(x.asked) : x.asked[i] # c
  <2>1. x.asked \in Seq(BtCalls) BY MirrorTypes
  <2>2. \A i \in 1..Len(x.asked) : x.asked[i] \in ToSet(x.asked) BY <2>1, LenProperties DEF ToSet
  <2> QED BY <1>7, <2>2 DEF U, CallsInUse
<1> QED BY <1>6, <1>8, <1>9, <1>10, <1>11, <1>12 DEF c
-----------------------------------------------------------------------------
SameAdapter(x, y) == y.bus = x.bus /\ y.scan = x.scan /\ y.up = x.up /\ y.adapter = x.adapter /\ y.powered = x.powered
SameCalls(x, y)   == y.asked = x.asked /\ y.pending = x.pending
SameOps(x, y)     == y.powering = x.powering /\ y.devs = x.devs /\ y.pairs = x.pairs

\* A call that is not in use.
Unused(x, c) ==
  /\ c \in BtCalls /\ ~c.stale /\ c \notin Answered(wire) /\ c \notin bz.slow /\ c \notin x.pending
  /\ \A i \in 1..Len(x.asked) : x.asked[i] # c
  /\ \A p \in x.pending : AsSent(p) # c

\* One call more is asked.
Added(x, y, c) == /\ y.asked = Append(x.asked, c) /\ y.pending = x.pending \union {c} /\ Unused(x, c)

\* A search is one with the adapter on.
Lit(x) == x.active => x.adapter /\ x.powered

\* Calls are not mistaken for each other: of those asked, at work on or answered,
\* each is there once, and of those answered or asked for that do not wait for a
\* device, each is awaited.
Once(w) == \A i, j \in 1..Len(w) :
  w[i].kind = "reply" /\ w[j].kind = "reply" /\ w[i].call = w[j].call => i = j
Apart(x, w, slow) ==
  /\ \A p, q \in x.pending : AsSent(p) = AsSent(q) => p = q
  /\ \A i, j \in 1..Len(x.asked) : x.asked[i] = x.asked[j] => i = j
  /\ \A i \in 1..Len(x.asked) : /\ ~x.asked[i].stale /\ x.asked[i] \notin slow
                                /\ \E p \in x.pending : AsSent(p) = x.asked[i]
  /\ Once(w)
  /\ \A c \in Answered(w) : c \notin slow
  /\ \A c \in Answered(w) : \A k \in 1..Len(x.asked) : x.asked[k] # c
  /\ \A c \in Answered(w) : c.what \notin Reaches => \E p \in x.pending : AsSent(p) = c

\* What every step of a handler keeps, with w on the wire.
BtOk(x, w) == x \in BtMirrors /\ Finitely(x) /\ Lit(x) /\ Apart(x, w, bz.slow)
Wires == {w \in Seq(BtMsgs) : Answered(w) \subseteq Answered(wire)}
BtBase == BtAssumption /\ wire \in Seq(BtMsgs)

SentBy(x, y, what, d, flag) ==
  /\ y \in BtMirrors /\ Finitely(y) /\ SameAdapter(x, y) /\ SameOps(x, y)
  /\ y.due = x.due /\ y.active = x.active
  /\ \E c : Added(x, y, c) /\ c.what = what /\ c.dev = d /\ c.flag = flag
Flags == {"plain", "auto", "pair", "on", "off"}

LEMMA SentSo ==
  ASSUME BtBase, NEW x \in BtMirrors, Finitely(x),
         NEW what, what \in Whats, NEW d, d \in BtDevices, NEW flag, flag \in Flags
  PROVE  SentBy(x, Sent(x, what, d, flag), what, d, flag)
<1> DEFINE y == Sent(x, what, d, flag)
<1> DEFINE c == NewCall(x, what, d, flag)
<1>1. c \in BtCalls /\ Unused(x, c) /\ c.what = what /\ c.dev = d /\ c.flag = flag
  BY NewCallSo DEF Unused, BtBase, Flags
<1>2. y = [x EXCEPT !.asked = Append(x.asked, c), !.pending = x.pending \union {c}] BY DEF Sent
<1> HIDE DEF c, y
<1>3. Append(x.asked, c) \in Seq(BtCalls)
  <2>1. x.asked \in Seq(BtCalls) BY MirrorTypes
  <2> QED BY <1>1, <2>1, AppendProperties
<1>4. x.pending \union {c} \in SUBSET BtCalls BY <1>1, MirrorTypes
<1>5. y \in BtMirrors BY <1>2, <1>3, <1>4 DEF BtMirrors
<1>6. /\ y.asked = Append(x.asked, c) /\ y.pending = x.pending \union {c}
      /\ SameAdapter(x, y) /\ SameOps(x, y) /\ y.due = x.due /\ y.active = x.active
  BY <1>2 DEF BtMirrors, SameAdapter, SameOps
<1>7. Finitely(y)
  <2>1. IsFiniteSet(x.pending) BY DEF Finitely
  <2>2. IsFiniteSet(x.pending \union {c}) BY <2>1, FS_AddElement
  <2> QED BY <1>6, <2>2 DEF Finitely
<1> QED BY <1>1, <1>5, <1>6, <1>7 DEF Added, SentBy, y

LEMMA AddedLen ==
  ASSUME NEW x \in BtMirrors, NEW y, NEW c, Added(x, y, c)
  PROVE  /\ Len(x.asked) \in Nat /\ Len(y.asked) = Len(x.asked) + 1
         /\ y.asked[Len(x.asked) + 1] = c
         /\ \A i \in 1..Len(x.asked) : y.asked[i] = x.asked[i]
<1>1. x.asked \in Seq(BtCalls) BY MirrorTypes
<1>2. c \in BtCalls BY DEF Added, Unused
<1> QED BY <1>1, <1>2 DEF Added

\* A new call is not mistaken for another.
LEMMA AddedApart ==
  ASSUME NEW x \in BtMirrors, NEW y \in BtMirrors, NEW c, NEW w \in Wires, Apart(x, w, bz.slow), Added(x, y, c)
  PROVE  Apart(y, w, bz.slow)
<1>1. Len(x.asked) \in Nat /\ Len(y.asked) = Len(x.asked) + 1 /\ y.asked[Len(x.asked) + 1] = c
      /\ \A i \in 1..Len(x.asked) : y.asked[i] = x.asked[i] BY AddedLen
<1>2. y.pending = x.pending \union {c} /\ Unused(x, c) BY DEF Added
<1>3. c \in BtCalls /\ ~c.stale /\ AsSent(c) = c BY <1>2, CallTypes DEF Unused
<1>4. ASSUME NEW p \in y.pending, NEW q \in y.pending, AsSent(p) = AsSent(q) PROVE p = q
  BY <1>2, <1>3, <1>4 DEF Apart, Unused
<1>5. ASSUME NEW i \in 1..Len(y.asked)
      PROVE (i \in 1..Len(x.asked) /\ y.asked[i] = x.asked[i]) \/ (i = Len(x.asked) + 1 /\ y.asked[i] = c)
  BY <1>1
<1>6. ASSUME NEW i \in 1..Len(y.asked), NEW j \in 1..Len(y.asked), y.asked[i] = y.asked[j] PROVE i = j
  <2>1. \A k \in 1..Len(x.asked) : x.asked[k] # c BY <1>2 DEF Unused
  <2>2. \A k, l \in 1..Len(x.asked) : x.asked[k] = x.asked[l] => k = l BY DEF Apart
  <2> QED BY <1>5, <1>6, <2>1, <2>2
<1>7. ASSUME NEW i \in 1..Len(y.asked)
      PROVE  ~y.asked[i].stale /\ y.asked[i] \notin bz.slow /\ \E p \in y.pending : AsSent(p) = y.asked[i]
  <2>1. CASE i \in 1..Len(x.asked) /\ y.asked[i] = x.asked[i] BY <1>2, <2>1 DEF Apart
  <2>2. CASE y.asked[i] = c BY <1>2, <1>3, <2>2 DEF Unused
  <2> QED BY <1>5, <2>1, <2>2
<1>8. ASSUME NEW e \in Answered(w)
      PROVE  /\ e \notin bz.slow /\ \A k \in 1..Len(y.asked) : y.asked[k] # e
             /\ e.what \notin Reaches => \E p \in y.pending : AsSent(p) = e
  <2>1. e # c BY <1>2 DEF Unused, Wires
  <2>2. \A k \in 1..Len(x.asked) : x.asked[k] # e BY DEF Apart
  <2>3. \A k \in 1..Len(y.asked) : y.asked[k] # e BY <1>5, <2>1, <2>2
  <2> QED BY <1>2, <2>3 DEF Apart
<1>9. Once(w) BY DEF Apart
<1> HIDE DEF Reaches
<1> QED BY <1>4, <1>6, <1>7, <1>8, <1>9 DEF Apart

\* Fields that are no calls do not matter to them.
LEMMA SameApart ==
  ASSUME NEW x, NEW y, NEW w, NEW slow, SameCalls(x, y), Apart(x, w, slow)
  PROVE  Apart(y, w, slow)
BY DEF SameCalls, Apart

Sane(x) == x \in BtMirrors /\ Finitely(x) /\ Lit(x)

\* Whether a search is wanted.
Wanted(x) == x.scan /\ x.adapter /\ x.powered /\ x.pairs = 0

LEMMA UpdateDiscoverySo ==
  ASSUME BtBase, NEW x, Sane(x), NEW y, y = UpdateDiscovery(x)
  PROVE  /\ Sane(y) /\ SameAdapter(x, y) /\ SameOps(x, y) /\ y.due = x.due
         /\ y.active = Wanted(x)
         /\ y.active = x.active => SameCalls(x, y)
         /\ y.active # x.active => \E c : Added(x, y, c) /\ c.what = IF y.active THEN "start" ELSE "stop"
<1>1. /\ x \in BtMirrors /\ Finitely(x) /\ (x.active => x.adapter /\ x.powered)
      /\ x.scan \in BOOLEAN /\ x.adapter \in BOOLEAN /\ x.powered \in BOOLEAN /\ x.active \in BOOLEAN
  BY MirrorTypes DEF Sane, Lit
<1>2. Wanted(x) \in BOOLEAN BY DEF Wanted
<1>3. CASE Wanted(x) /\ ~x.active
  <2> DEFINE z == SentPlain(x, "start")
  <2>1. z = Sent(x, "start", AnyDevice, "plain") BY DEF SentPlain
  <2>2. AnyDevice \in BtDevices /\ "start" \in Whats /\ "plain" \in Flags
    BY DEF AnyDevice, BtBase, BtAssumption, Whats, Flags
  <2>3. /\ z \in BtMirrors /\ Finitely(z) /\ SameAdapter(x, z) /\ SameOps(x, z) /\ z.due = x.due
        /\ \E c : Added(x, z, c) /\ c.what = "start"
    <3>1. SentBy(x, z, "start", AnyDevice, "plain") BY <1>1, <2>1, <2>2, SentSo
    <3> HIDE DEF z
    <3> QED BY <3>1 DEF SentBy
  <2>4. y = [z EXCEPT !.active = TRUE] BY <1>3 DEF UpdateDiscovery, Wanted
  <2> HIDE DEF z
  <2>5. y \in BtMirrors /\ y.active = TRUE /\ SameAdapter(z, y) /\ SameOps(z, y) /\ SameCalls(z, y)
        /\ y.due = z.due
    BY <2>3, <2>4 DEF BtMirrors, SameAdapter, SameOps, SameCalls
  <2>6. \E c : Added(x, y, c) /\ c.what = "start" BY <2>3, <2>5 DEF Added, SameCalls
  <2>7. Finitely(y) BY <2>3, <2>5 DEF Finitely, SameCalls
  <2>8. SameAdapter(x, y) /\ SameOps(x, y) /\ y.due = x.due BY <2>3, <2>5 DEF SameAdapter, SameOps
  <2>9. Lit(y) BY <1>3, <2>8 DEF Lit, Wanted, SameAdapter
  <2> QED BY <1>1, <1>3, <2>5, <2>6, <2>7, <2>8, <2>9 DEF Sane
<1>4. CASE ~Wanted(x) /\ x.active
  <2> DEFINE z == SentPlain(x, "stop")
  <2>1. z = Sent(x, "stop", AnyDevice, "plain") BY DEF SentPlain
  <2>2. AnyDevice \in BtDevices /\ "stop" \in Whats /\ "plain" \in Flags
    BY DEF AnyDevice, BtBase, BtAssumption, Whats, Flags
  <2>3. /\ z \in BtMirrors /\ Finitely(z) /\ SameAdapter(x, z) /\ SameOps(x, z) /\ z.due = x.due
        /\ \E c : Added(x, z, c) /\ c.what = "stop"
    <3>1. SentBy(x, z, "stop", AnyDevice, "plain") BY <1>1, <2>1, <2>2, SentSo
    <3> HIDE DEF z
    <3> QED BY <3>1 DEF SentBy
  <2>4. y = [z EXCEPT !.active = FALSE] BY <1>1, <1>4 DEF UpdateDiscovery, Wanted
  <2> HIDE DEF z
  <2>5. y \in BtMirrors /\ y.active = FALSE /\ SameAdapter(z, y) /\ SameOps(z, y) /\ SameCalls(z, y)
        /\ y.due = z.due
    BY <2>3, <2>4 DEF BtMirrors, SameAdapter, SameOps, SameCalls
  <2>6. \E c : Added(x, y, c) /\ c.what = "stop" BY <2>3, <2>5 DEF Added, SameCalls
  <2>7. Finitely(y) BY <2>3, <2>5 DEF Finitely, SameCalls
  <2>8. SameAdapter(x, y) /\ SameOps(x, y) /\ y.due = x.due BY <2>3, <2>5 DEF SameAdapter, SameOps
  <2>9. Lit(y) BY <2>5 DEF Lit
  <2> QED BY <1>1, <1>2, <1>4, <2>5, <2>6, <2>7, <2>8, <2>9 DEF Sane
<1>5. CASE Wanted(x) = x.active
  <2>1. y = x BY <1>1, <1>2, <1>5 DEF UpdateDiscovery, Wanted
  <2> QED BY <1>5, <2>1 DEF Sane, SameAdapter, SameOps, SameCalls
<1> QED BY <1>1, <1>2, <1>3, <1>4, <1>5

BtOps == {"none", "pairing", "connecting", "disconnecting"}
SetBy(x, y, d, op) ==
  /\ Sane(y) /\ SameAdapter(x, y) /\ SameCalls(x, y) /\ y.due = x.due /\ y.active = x.active
  /\ y.powering = x.powering /\ y.pairs = x.pairs
  /\ \A e \in BtDevices : y.devs[e] = IF e = d /\ x.devs[d].there THEN [x.devs[d] EXCEPT !.op = op]
                                    ELSE x.devs[e]

LEMMA SetOpSo ==
  ASSUME NEW x, Sane(x), NEW d, d \in BtDevices, NEW op, op \in BtOps
  PROVE  SetBy(x, SetOp(x, d, op), d, op)
<1> DEFINE y == SetOp(x, d, op)
<1>1. x \in BtMirrors /\ x.devs \in [BtDevices -> BtShown] /\ x.devs[d] \in BtShown BY MirrorTypes DEF Sane
<1>2. CASE ~x.devs[d].there
  <2>1. y = x BY <1>2 DEF SetOp
  <2> QED BY <1>2, <2>1 DEF SameAdapter, SameCalls, SetBy
<1>3. CASE x.devs[d].there
  <2> DEFINE e == [x.devs[d] EXCEPT !.op = op]
             f == [x.devs EXCEPT ![d] = e]
  <2>1. y = [x EXCEPT !.devs = f] BY <1>3 DEF SetOp
  <2> HIDE DEF y
  <2>2. e \in BtShown BY <1>1 DEF BtShown, BtOps
  <2>3. f \in [BtDevices -> BtShown] /\ \A k \in BtDevices : f[k] = IF k = d THEN e ELSE x.devs[k]
    <3> HIDE DEF e
    <3> QED BY <1>1, <2>2
  <2> HIDE DEF f
  <2>4. y \in BtMirrors /\ y.devs = f /\ SameAdapter(x, y) /\ SameCalls(x, y) /\ y.due = x.due
        /\ y.active = x.active /\ y.powering = x.powering /\ y.pairs = x.pairs
    BY <1>1, <2>1, <2>3 DEF BtMirrors, SameAdapter, SameCalls
  <2>5. Sane(y) BY <2>4 DEF Sane, Finitely, Lit, SameAdapter, SameCalls
  <2> QED BY <1>3, <2>3, <2>4, <2>5 DEF SetBy, y
<1>4. x.devs[d].there \in BOOLEAN BY <1>1, ShownTypes
<1> QED BY <1>2, <1>3, <1>4

LEMMA FinishPairSo ==
  ASSUME BtBase, NEW x, Sane(x), NEW y, y = FinishPair(x)
  PROVE  \E z : /\ Sane(z) /\ SameAdapter(x, z) /\ SameCalls(x, z) /\ z.due = x.due /\ z.active = x.active
                /\ z.powering = x.powering /\ z.devs = x.devs
                /\ z.pairs = (IF x.pairs > 0 THEN x.pairs - 1 ELSE 0)
                /\ y = UpdateDiscovery(z)
<1> DEFINE n == IF x.pairs > 0 THEN x.pairs - 1 ELSE 0
           z == [x EXCEPT !.pairs = n]
<1>1. x \in BtMirrors /\ x.pairs \in Nat BY MirrorTypes DEF Sane
<1>2. n \in Nat BY <1>1
<1>3. y = UpdateDiscovery(z) BY DEF FinishPair
<1> HIDE DEF n
<1>4. z \in BtMirrors /\ SameAdapter(x, z) /\ SameCalls(x, z) /\ z.due = x.due /\ z.active = x.active
      /\ z.powering = x.powering /\ z.devs = x.devs /\ z.pairs = n
  BY <1>1, <1>2 DEF BtMirrors, SameAdapter, SameCalls
<1>5. Sane(z) BY <1>4 DEF Sane, Finitely, Lit, SameAdapter, SameCalls
<1> QED BY <1>3, <1>4, <1>5 DEF n

LEMMA SendConnectSo ==
  ASSUME BtBase, NEW x, Sane(x), NEW d \in BtDevices, NEW flag \in {"plain", "auto", "pair", "on", "off"},
         NEW y, y = SendConnect(x, d, flag)
  PROVE  /\ Sane(y) /\ SameAdapter(x, y) /\ y.due = x.due /\ y.active = x.active
         /\ y.powering = x.powering /\ y.pairs = x.pairs
         /\ \A e \in BtDevices : y.devs[e] = IF e = d /\ x.devs[d].there THEN [x.devs[d] EXCEPT !.op = "connecting"]
                                           ELSE x.devs[e]
         /\ \E c : Added(x, y, c) /\ c.what = "connect" /\ c.dev = d /\ c.flag = flag
<1> DEFINE z == Sent(x, "connect", d, flag)
<1>1. /\ z \in BtMirrors /\ Finitely(z) /\ SameAdapter(x, z) /\ SameOps(x, z) /\ z.due = x.due /\ z.active = x.active
      /\ \E c : Added(x, z, c) /\ c.what = "connect" /\ c.dev = d /\ c.flag = flag
  <2>1. x \in BtMirrors /\ Finitely(x) BY DEF Sane
  <2>2. "connect" \in Whats /\ flag \in Flags BY DEF Whats, Flags
  <2>3. SentBy(x, z, "connect", d, flag) BY <2>1, <2>2, SentSo
  <2> HIDE DEF z
  <2> QED BY <2>3 DEF SentBy
<1> DEFINE o == "connecting"
<1>2. y = SetOp(z, d, o) /\ o \in BtOps BY DEF SendConnect, BtOps
<1> HIDE DEF z, o
<1>3. Sane(z) BY <1>1 DEF Sane, Lit, SameAdapter
<1>4. /\ Sane(y) /\ SameAdapter(z, y) /\ SameCalls(z, y) /\ y.due = z.due /\ y.active = z.active
      /\ y.powering = z.powering /\ y.pairs = z.pairs
      /\ \A e \in BtDevices : y.devs[e] = IF e = d /\ z.devs[d].there THEN [z.devs[d] EXCEPT !.op = o]
                                        ELSE z.devs[e]
  <2>1. SetBy(z, y, d, o) BY <1>2, <1>3, SetOpSo
  <2> QED BY <2>1 DEF SetBy
<1>5. \E c : Added(x, y, c) /\ c.what = "connect" /\ c.dev = d /\ c.flag = flag
  BY <1>1, <1>4 DEF Added, SameCalls
<1>6. SameAdapter(x, y) BY <1>1, <1>4 DEF SameAdapter
<1>7. z.devs = x.devs /\ z.powering = x.powering /\ z.pairs = x.pairs BY <1>1 DEF SameOps
<1> QED BY <1>1, <1>4, <1>5, <1>6, <1>7 DEF o

\* Asking the next headphones asks none, or one that shows nothing yet.
LEMMA AutoconnectNextSo ==
  ASSUME BtBase, NEW x, Sane(x), NEW y, y = AutoconnectNext(x)
  PROVE  \/ y = x
         \/ \E d \in BtDevices :
              /\ Sane(y) /\ SameAdapter(x, y) /\ y.due = x.due /\ y.active = x.active
              /\ y.powering = x.powering /\ y.pairs = x.pairs /\ x.devs[d].there /\ x.up /\ x.adapter
              /\ \A e \in BtDevices : y.devs[e] = IF e = d THEN [x.devs[d] EXCEPT !.tried = TRUE, !.op = "connecting"]
                                                ELSE x.devs[e]
              /\ \E c : Added(x, y, c) /\ c.what = "connect" /\ c.dev = d /\ c.flag = "auto"
<1> SUFFICES ASSUME y # x
             PROVE  \E d \in BtDevices :
              /\ Sane(y) /\ SameAdapter(x, y) /\ y.due = x.due /\ y.active = x.active
              /\ y.powering = x.powering /\ y.pairs = x.pairs /\ x.devs[d].there /\ x.up /\ x.adapter
              /\ \A e \in BtDevices : y.devs[e] = IF e = d THEN [x.devs[d] EXCEPT !.tried = TRUE, !.op = "connecting"]
                                                ELSE x.devs[e]
              /\ \E c : Added(x, y, c) /\ c.what = "connect" /\ c.dev = d /\ c.flag = "auto"
  OBVIOUS
<1> DEFINE able == {d \in BtDevices : CanAsk(x, d)}
           first == IF able \intersect Pods # {} THEN able \intersect Pods ELSE able
           d == CHOOSE e \in first : TRUE
           e == [x.devs[d] EXCEPT !.tried = TRUE]
           f == [x.devs EXCEPT ![d] = e]
           z == [x EXCEPT !.devs = f]
<1>1. x.up /\ x.adapter /\ able # {} /\ y = SendConnect([x EXCEPT !.devs[d].tried = TRUE], d, "auto")
  BY DEF AutoconnectNext
<1>2. d \in able BY <1>1
<1>3. y = SendConnect(z, d, "auto") BY <1>1
<1>4. d \in BtDevices /\ CanAsk(x, d) BY <1>2
<1> HIDE DEF d, able, first
<1>5. x \in BtMirrors /\ x.devs \in [BtDevices -> BtShown] /\ x.devs[d] \in BtShown BY <1>4, MirrorTypes DEF Sane
<1>6. x.devs[d].there BY <1>4 DEF CanAsk
<1>7. e \in BtShown /\ e.there /\ [e EXCEPT !.op = "connecting"] = [x.devs[d] EXCEPT !.tried = TRUE, !.op = "connecting"]
  BY <1>5, <1>6 DEF BtShown
<1> DEFINE k == [x.devs[d] EXCEPT !.tried = TRUE, !.op = "connecting"]
<1>8. [e EXCEPT !.op = "connecting"] = k BY <1>7
<1> HIDE DEF e, k
<1>9. f \in [BtDevices -> BtShown] /\ f[d] = e /\ \A j \in BtDevices : j # d => f[j] = x.devs[j] BY <1>4, <1>5, <1>7
<1> HIDE DEF f
<1>10. z \in BtMirrors /\ z.devs = f /\ SameAdapter(x, z) /\ SameCalls(x, z) /\ z.due = x.due
       /\ z.active = x.active /\ z.powering = x.powering /\ z.pairs = x.pairs
  BY <1>5, <1>9 DEF BtMirrors, SameAdapter, SameCalls
<1> HIDE DEF z
<1>11. Sane(z) BY <1>10 DEF Sane, Finitely, Lit, SameAdapter, SameCalls
<1>12. /\ Sane(y) /\ SameAdapter(z, y) /\ y.due = z.due /\ y.active = z.active
       /\ y.powering = z.powering /\ y.pairs = z.pairs
       /\ \A j \in BtDevices : y.devs[j] = IF j = d /\ z.devs[d].there THEN [z.devs[d] EXCEPT !.op = "connecting"]
                                         ELSE z.devs[j]
       /\ \E c : Added(z, y, c) /\ c.what = "connect" /\ c.dev = d /\ c.flag = "auto"
  BY <1>3, <1>4, <1>11, SendConnectSo
<1>13. \A j \in BtDevices : y.devs[j] = IF j = d THEN k ELSE x.devs[j]
  BY <1>7, <1>8, <1>9, <1>10, <1>12
<1>14. SameAdapter(x, y) BY <1>10, <1>12 DEF SameAdapter
<1>15. \E c : Added(x, y, c) /\ c.what = "connect" /\ c.dev = d /\ c.flag = "auto"
  BY <1>10, <1>12 DEF Added, SameCalls, Unused
<1> QED BY <1>1, <1>4, <1>6, <1>10, <1>12, <1>13, <1>14, <1>15 DEF k

FactsOf(e) == [there |-> e.there, paired |-> e.paired, trusted |-> e.trusted, connected |-> e.connected]
AlikeDevs(x, y) == \A d \in BtDevices : FactsOf(y.devs[d]) = FactsOf(x.devs[d]) /\ y.devs[d].op = x.devs[d].op

LEMMA ScheduleSo ==
  ASSUME NEW x, Sane(x), NEW y, y = Schedule(x)
  PROVE  /\ Sane(y) /\ SameAdapter(x, y) /\ SameCalls(x, y) /\ y.active = x.active
         /\ y.powering = x.powering /\ y.pairs = x.pairs /\ AlikeDevs(x, y)
         /\ \A d \in BtDevices : x.devs[d] = Bare => y.devs[d] = Bare
<1> DEFINE f == [d \in BtDevices |-> [x.devs[d] EXCEPT !.tried = FALSE]]
<1>1. x \in BtMirrors /\ x.devs \in [BtDevices -> BtShown] BY MirrorTypes DEF Sane
<1>2. y = [x EXCEPT !.due = TRUE, !.devs = f] BY DEF Schedule
<1>3. \A d \in BtDevices : /\ f[d] \in BtShown /\ FactsOf(f[d]) = FactsOf(x.devs[d]) /\ f[d].op = x.devs[d].op
                         /\ (x.devs[d] = Bare => f[d] = Bare)
  <2> TAKE d \in BtDevices
  <2>1. x.devs[d] \in BtShown BY <1>1
  <2>2. f[d] = [x.devs[d] EXCEPT !.tried = FALSE] OBVIOUS
  <2> HIDE DEF f
  <2>3. f[d] \in BtShown /\ FactsOf(f[d]) = FactsOf(x.devs[d]) /\ f[d].op = x.devs[d].op
    BY <2>1, <2>2 DEF BtShown, FactsOf
  <2>4. [Bare EXCEPT !.tried = FALSE] = Bare
    <3>1. \A e \in BtShown : e.tried = FALSE => [e EXCEPT !.tried = FALSE] = e BY DEF BtShown
    <3>2. Bare \in BtShown /\ Bare.tried = FALSE BY BareShown DEF Bare
    <3> QED BY <3>1, <3>2
  <2>5. x.devs[d] = Bare => f[d] = Bare BY <2>2, <2>4
  <2> QED BY <2>3, <2>5
<1>4. f \in [BtDevices -> BtShown] BY <1>3
<1> HIDE DEF f
<1>5. y \in BtMirrors /\ y.devs = f /\ SameAdapter(x, y) /\ SameCalls(x, y) /\ y.active = x.active
      /\ y.powering = x.powering /\ y.pairs = x.pairs
  BY <1>1, <1>2, <1>4 DEF BtMirrors, SameAdapter, SameCalls
<1>6. Sane(y) BY <1>5 DEF Sane, Finitely, Lit, SameAdapter, SameCalls
<1> QED BY <1>3, <1>5, <1>6 DEF AlikeDevs

LEMMA AlikeRefl == ASSUME NEW x, NEW y, y.devs = x.devs PROVE AlikeDevs(x, y)
BY DEF AlikeDevs

LEMMA AlikeTrans == ASSUME NEW x, NEW y, NEW z, AlikeDevs(x, y), AlikeDevs(y, z) PROVE AlikeDevs(x, z)
BY DEF AlikeDevs

\* Every call that was asked is an old one.
Stale(c) == [c EXCEPT !.stale = TRUE]
Aged(x, y) == y.asked = x.asked /\ y.pending = {Stale(c) : c \in x.pending}

LEMMA StaleSo ==
  ASSUME NEW c \in BtCalls
  PROVE  Stale(c) \in BtCalls /\ Stale(c).stale /\ AsSent(Stale(c)) = AsSent(c) /\ Stale(c).what = c.what
BY DEF BtCalls, Stale, AsSent

LEMMA OutdatedSo ==
  ASSUME NEW x \in BtMirrors, Finitely(x), NEW y, y = Outdated(x)
  PROVE  /\ y \in BtMirrors /\ Finitely(y) /\ SameAdapter(x, y) /\ SameOps(x, y) /\ Aged(x, y)
         /\ y.due = x.due /\ y.active = x.active
<1> DEFINE p == {Stale(c) : c \in x.pending}
<1>1. y = [x EXCEPT !.pending = p] BY DEF Outdated, Stale
<1>2. x.pending \in SUBSET BtCalls BY MirrorTypes
<1>3. p \in SUBSET BtCalls BY <1>2, StaleSo
<1>4. IsFiniteSet(p)
  <2>1. [c \in x.pending |-> Stale(c)] \in Surjection(x.pending, p) BY DEF Surjection
  <2> HIDE DEF p
  <2> QED BY <2>1, FS_Surjection DEF Finitely
<1>5. p = {Stale(c) : c \in x.pending} OBVIOUS
<1> HIDE DEF p
<1>6. y \in BtMirrors /\ y.pending = p /\ y.asked = x.asked /\ SameAdapter(x, y) /\ SameOps(x, y)
      /\ y.due = x.due /\ y.active = x.active
  BY <1>1, <1>3 DEF BtMirrors, SameAdapter, SameOps
<1> QED BY <1>4, <1>5, <1>6 DEF Finitely, Aged

LEMMA AgedApart ==
  ASSUME NEW x \in BtMirrors, NEW y, NEW w, NEW slow, Aged(x, y), Apart(x, w, slow)
  PROVE  Apart(y, w, slow)
<1>1. y.asked = x.asked /\ x.pending \in SUBSET BtCalls /\ y.pending = {Stale(c) : c \in x.pending}
  BY MirrorTypes DEF Aged
<1>2. \A c \in x.pending : Stale(c) \in y.pending /\ AsSent(Stale(c)) = AsSent(c) BY <1>1, StaleSo
<1>3. \A p \in y.pending : \E c \in x.pending : p = Stale(c) /\ AsSent(p) = AsSent(c) BY <1>1, StaleSo
<1>4. \A p, q \in x.pending : AsSent(p) = AsSent(q) => p = q BY DEF Apart
<1>5. ASSUME NEW p \in y.pending, NEW q \in y.pending, AsSent(p) = AsSent(q) PROVE p = q
  BY <1>3, <1>4, <1>5
<1>6. \A i \in 1..Len(x.asked) : /\ ~x.asked[i].stale /\ x.asked[i] \notin slow
                                /\ \E p \in y.pending : AsSent(p) = x.asked[i]
  BY <1>2 DEF Apart
<1>7. \A c \in Answered(w) : c.what \notin Reaches => \E p \in y.pending : AsSent(p) = c
  BY <1>2 DEF Apart
<1> HIDE DEF Reaches
<1> QED BY <1>1, <1>5, <1>6, <1>7 DEF Apart

LEMMA ResetMirrorSo ==
  ASSUME NEW x \in BtMirrors, Finitely(x), NEW y, y = ResetMirror(x)
  PROVE  /\ Sane(y) /\ Aged(x, y) /\ y.bus = x.bus /\ y.scan = x.scan /\ y.up = x.up
         /\ ~y.adapter /\ ~y.powered /\ ~y.powering /\ ~y.active /\ y.pairs = 0
         /\ \A d \in BtDevices : y.devs[d] = Bare
<1> DEFINE z == Outdated(x)
           f == [d \in BtDevices |-> Bare]
<1>1. z \in BtMirrors /\ Finitely(z) /\ SameAdapter(x, z) /\ Aged(x, z)
  <2>1. z = Outdated(x) OBVIOUS
  <2> HIDE DEF z
  <2> QED BY <2>1, OutdatedSo
<1>2. f \in [BtDevices -> BtShown] /\ \A d \in BtDevices : f[d] = Bare BY BareShown
<1>3. y = [z EXCEPT !.adapter = FALSE, !.powered = FALSE, !.powering = FALSE, !.due = FALSE,
                    !.devs = f, !.active = FALSE, !.pairs = 0] BY DEF ResetMirror
<1> HIDE DEF z, f
<1>6. y \in BtMirrors
  <2> DEFINE a == [z EXCEPT !.adapter = FALSE, !.powered = FALSE, !.powering = FALSE]
             b == [a EXCEPT !.due = FALSE, !.devs = f]
  <2>1. a \in BtMirrors BY <1>1 DEF BtMirrors
  <2>2. b \in BtMirrors
    <3> HIDE DEF a
    <3> QED BY <1>2, <2>1 DEF BtMirrors
  <2> DEFINE n == 0
  <2>3. y = [b EXCEPT !.active = FALSE, !.pairs = n] BY <1>3
  <2>4. n \in Nat OBVIOUS
  <2> HIDE DEF a, b, n
  <2> QED BY <2>2, <2>3, <2>4 DEF BtMirrors
<1>7. y.bus = z.bus /\ y.scan = z.scan /\ y.up = z.up /\ y.asked = z.asked /\ y.pending = z.pending
  BY <1>1, <1>3 DEF BtMirrors
<1>8. y.devs = f /\ ~y.adapter /\ ~y.powered /\ ~y.powering /\ ~y.active /\ y.pairs = 0
  BY <1>1, <1>3 DEF BtMirrors
<1>4. /\ y \in BtMirrors /\ SameCalls(z, y) /\ y.bus = z.bus /\ y.scan = z.scan /\ y.up = z.up /\ y.devs = f
      /\ ~y.adapter /\ ~y.powered /\ ~y.powering /\ ~y.active /\ y.pairs = 0
  BY <1>6, <1>7, <1>8 DEF SameCalls
<1>5. Sane(y) BY <1>1, <1>4 DEF Sane, Finitely, Lit, SameCalls
<1> QED BY <1>1, <1>2, <1>4, <1>5 DEF SameAdapter, SameCalls, Aged

LEMMA FetchSo ==
  ASSUME BtBase, NEW x, Sane(x), NEW y, y = Fetch(x)
  PROVE  /\ Sane(y) /\ SameAdapter(x, y) /\ SameOps(x, y) /\ y.active = x.active
         /\ \E z, c : Sane(z) /\ Aged(x, z) /\ Added(z, y, c) /\ c.what = "objects"
<1> DEFINE z == Outdated(x)
<1>1. /\ z \in BtMirrors /\ Finitely(z) /\ SameAdapter(x, z) /\ SameOps(x, z) /\ Aged(x, z)
      /\ z.due = x.due /\ z.active = x.active
  <2>1. z = Outdated(x) OBVIOUS
  <2> HIDE DEF z
  <2> QED BY <2>1, OutdatedSo DEF Sane
<1>2. y = Sent(z, "objects", AnyDevice, "plain") BY DEF Fetch, SentPlain
<1> HIDE DEF z
<1>3. AnyDevice \in BtDevices /\ "objects" \in Whats /\ "plain" \in Flags
  BY DEF AnyDevice, BtBase, BtAssumption, Whats, Flags
<1>4. SentBy(z, y, "objects", AnyDevice, "plain") BY <1>1, <1>2, <1>3, SentSo
<1>5. Sane(z) BY <1>1 DEF Sane, Lit, SameAdapter
<1>6. /\ y \in BtMirrors /\ Finitely(y) /\ SameAdapter(z, y) /\ SameOps(z, y) /\ y.active = z.active
      /\ \E c : Added(z, y, c) /\ c.what = "objects"
  BY <1>4 DEF SentBy
<1>7. SameAdapter(x, y) /\ SameOps(x, y) BY <1>1, <1>6 DEF SameAdapter, SameOps
<1>8. Sane(y) BY <1>1, <1>6, <1>7 DEF Sane, Lit, SameAdapter
<1> QED BY <1>1, <1>5, <1>6, <1>7, <1>8

PoweredAs(x, y, on) ==
  /\ Sane(y) /\ y.bus = x.bus /\ y.scan = x.scan /\ y.up = x.up /\ y.adapter = x.adapter
  /\ y.powered = on /\ y.active = (IF on THEN x.active ELSE FALSE) /\ SameCalls(x, y)
  /\ y.powering = x.powering /\ y.pairs = x.pairs /\ AlikeDevs(x, y)

LEMMA PoweredSo ==
  ASSUME NEW x, Sane(x), NEW on, on \in BOOLEAN
  PROVE  PoweredAs(x, Powered(x, on), on)
<1> DEFINE y == Powered(x, on)
<1> DEFINE a == x.active /\ on
           z == [x EXCEPT !.powered = on, !.active = a]
<1>1. x \in BtMirrors /\ x.active \in BOOLEAN BY MirrorTypes DEF Sane
<1>2. a \in BOOLEAN /\ (a => x.active /\ on) /\ a = (IF on THEN x.active ELSE FALSE) BY <1>1
<1>3. y = z \/ y = Schedule(z)
  <2>1. y = IF on /\ ~x.powered /\ x.up THEN Schedule(z) ELSE z BY DEF Powered
  <2> HIDE DEF z
  <2> QED BY <2>1
<1> HIDE DEF a, y
<1>4. /\ z \in BtMirrors /\ z.bus = x.bus /\ z.scan = x.scan /\ z.up = x.up /\ z.adapter = x.adapter
      /\ z.powered = on /\ z.active = a /\ SameCalls(x, z)
      /\ z.powering = x.powering /\ z.pairs = x.pairs /\ z.devs = x.devs
  BY <1>1, <1>2 DEF BtMirrors, SameCalls
<1> HIDE DEF z
<1>5. Sane(z) BY <1>2, <1>4 DEF Sane, Finitely, Lit, SameCalls
<1>6. AlikeDevs(x, z) BY <1>4, AlikeRefl
<1>9. z.active = (IF on THEN x.active ELSE FALSE) BY <1>2, <1>4
<1>7. ASSUME y = z PROVE PoweredAs(x, y, on)
  <2> USE <1>7
  <2>1. /\ Sane(y) /\ y.bus = x.bus /\ y.scan = x.scan /\ y.up = x.up /\ y.adapter = x.adapter
        /\ y.powered = on /\ SameCalls(x, y)
        /\ y.powering = x.powering /\ y.pairs = x.pairs /\ AlikeDevs(x, y)
    BY <1>4, <1>5, <1>6
  <2>2. y.active = (IF on THEN x.active ELSE FALSE) BY <1>9
  <2> QED BY <2>1, <2>2, Zenon DEF PoweredAs
<1>8. ASSUME y = Schedule(z) PROVE PoweredAs(x, y, on)
  <2>1. /\ Sane(y) /\ SameAdapter(z, y) /\ SameCalls(z, y) /\ y.active = z.active
        /\ y.powering = z.powering /\ y.pairs = z.pairs /\ AlikeDevs(z, y)
    BY <1>5, <1>8, ScheduleSo
  <2>2. AlikeDevs(x, y) BY <1>6, <2>1, AlikeTrans
  <2>3. SameCalls(x, y) BY <1>4, <2>1 DEF SameCalls
  <2>4. /\ y.bus = x.bus /\ y.scan = x.scan /\ y.up = x.up /\ y.adapter = x.adapter /\ y.powered = on
    BY <1>4, <2>1 DEF SameAdapter
  <2>5. y.active = (IF on THEN x.active ELSE FALSE) BY <1>9, <2>1
  <2>6. y.powering = x.powering /\ y.pairs = x.pairs BY <1>4, <2>1
  <2> QED BY <2>1, <2>2, <2>3, <2>4, <2>5, <2>6, Zenon DEF PoweredAs
<1>10. PoweredAs(x, y, on) BY <1>3, <1>7, <1>8
<1> QED BY <1>10 DEF y

LEMMA MirroredSo ==
  ASSUME NEW x, Sane(x), NEW d \in BtDevices, NEW e \in BtFacts, e.there, NEW y, y = Mirrored(x, d, e)
  PROVE  /\ Sane(y) /\ SameAdapter(x, y) /\ SameCalls(x, y) /\ y.active = x.active
         /\ y.powering = x.powering /\ y.pairs = x.pairs
         /\ FactsOf(y.devs[d]) = e /\ y.devs[d].op = x.devs[d].op
         /\ \A k \in BtDevices : k # d => y.devs[k] = x.devs[k]
<1> DEFINE n == [x.devs[d] EXCEPT !.there = TRUE, !.paired = e.paired, !.trusted = e.trusted,
                                  !.connected = e.connected]
           f == [x.devs EXCEPT ![d] = n]
<1>1. x \in BtMirrors /\ x.devs \in [BtDevices -> BtShown] /\ x.devs[d] \in BtShown BY MirrorTypes DEF Sane
<1>2. y = [x EXCEPT !.devs = f] BY DEF Mirrored
<1>3. n \in BtShown /\ n.op = x.devs[d].op /\ FactsOf(n) = e BY <1>1 DEF BtShown, BtFacts, FactsOf
<1> HIDE DEF n
<1>4. f \in [BtDevices -> BtShown] /\ f[d] = n /\ \A k \in BtDevices : k # d => f[k] = x.devs[k] BY <1>1, <1>3
<1> HIDE DEF f
<1>5. y \in BtMirrors /\ y.devs = f /\ SameAdapter(x, y) /\ SameCalls(x, y) /\ y.active = x.active
      /\ y.powering = x.powering /\ y.pairs = x.pairs
  BY <1>1, <1>2, <1>4 DEF BtMirrors, SameAdapter, SameCalls
<1>6. Sane(y) BY <1>5 DEF Sane, Finitely, Lit, SameAdapter, SameCalls
<1> QED BY <1>3, <1>4, <1>5, <1>6
-----------------------------------------------------------------------------
\* What stays as calls are answered and handlers run.
LEMMA UpdateDiscoveryOk ==
  ASSUME BtBase, NEW w \in Wires, NEW x, BtOk(x, w)
  PROVE  BtOk(UpdateDiscovery(x), w)
<1> DEFINE y == UpdateDiscovery(x)
<1>1. Sane(x) /\ x \in BtMirrors BY DEF BtOk, Sane
<1>2. /\ Sane(y) /\ y \in BtMirrors /\ y.active \in BOOLEAN
      /\ y.active = x.active => SameCalls(x, y)
      /\ y.active # x.active => \E c : Added(x, y, c)
  <2>1. y = UpdateDiscovery(x) OBVIOUS
  <2> HIDE DEF y
  <2>2. Sane(y) /\ (y.active = x.active => SameCalls(x, y)) /\ (y.active # x.active => \E c : Added(x, y, c))
    BY <1>1, <2>1, UpdateDiscoverySo
  <2> QED BY <2>2, MirrorTypes DEF Sane
<1>3. Apart(x, w, bz.slow) BY DEF BtOk
<1> HIDE DEF y
<1>4. Apart(y, w, bz.slow) BY <1>1, <1>2, <1>3, SameApart, AddedApart
<1> QED BY <1>2, <1>4 DEF BtOk, Sane, y

LEMMA SentOk ==
  ASSUME BtBase, NEW w \in Wires, NEW x, BtOk(x, w),
         NEW what, what \in Whats, NEW d, d \in BtDevices, NEW flag, flag \in Flags
  PROVE  BtOk(Sent(x, what, d, flag), w)
<1> DEFINE y == Sent(x, what, d, flag)
<1>1. x \in BtMirrors /\ Finitely(x) /\ Lit(x) /\ Apart(x, w, bz.slow) BY DEF BtOk
<1>2. SentBy(x, y, what, d, flag) BY <1>1, SentSo
<1> HIDE DEF y
<1>3. /\ y \in BtMirrors /\ Finitely(y) /\ Lit(y) /\ \E c : Added(x, y, c)
  BY <1>1, <1>2 DEF SentBy, Lit, SameAdapter
<1>4. Apart(y, w, bz.slow) BY <1>1, <1>3, AddedApart
<1> QED BY <1>3, <1>4 DEF BtOk, y

\* A change of what is no call.
LEMMA SameOk ==
  ASSUME NEW w, NEW x, NEW y, BtOk(x, w), Sane(y), SameCalls(x, y)
  PROVE  BtOk(y, w)
BY SameApart DEF BtOk, Sane

LEMMA AddedOk ==
  ASSUME NEW w \in Wires, NEW x, NEW y, BtOk(x, w), Sane(y), \E c : Added(x, y, c)
  PROVE  BtOk(y, w)
BY AddedApart DEF BtOk, Sane

LEMMA AgedOk ==
  ASSUME NEW w, NEW x, NEW y, BtOk(x, w), Sane(y), Aged(x, y)
  PROVE  BtOk(y, w)
BY AgedApart DEF BtOk, Sane

LEMMA SetOpOk ==
  ASSUME NEW w, NEW x, BtOk(x, w), NEW d, d \in BtDevices, NEW op, op \in BtOps
  PROVE  BtOk(SetOp(x, d, op), w)
<1>1. SetBy(x, SetOp(x, d, op), d, op) BY SetOpSo DEF BtOk, Sane
<1> QED BY <1>1, SameOk DEF SetBy

LEMMA FinishPairOk ==
  ASSUME BtBase, NEW w \in Wires, NEW x, BtOk(x, w)
  PROVE  BtOk(FinishPair(x), w)
<1> DEFINE y == FinishPair(x)
<1>1. PICK z : Sane(z) /\ SameCalls(x, z) /\ y = UpdateDiscovery(z)
  <2>1. y = FinishPair(x) /\ Sane(x) BY DEF BtOk, Sane
  <2> HIDE DEF y
  <2> QED BY <2>1, FinishPairSo
<1>2. BtOk(z, w) BY <1>1, SameOk
<1> QED BY <1>1, <1>2, UpdateDiscoveryOk

LEMMA SendConnectOk ==
  ASSUME BtBase, NEW w \in Wires, NEW x, BtOk(x, w), NEW d, d \in BtDevices, NEW flag, flag \in Flags
  PROVE  BtOk(SendConnect(x, d, flag), w)
<1>1. "connect" \in Whats /\ "connecting" \in BtOps BY DEF Whats, BtOps
<1>2. BtOk(Sent(x, "connect", d, flag), w) BY <1>1, SentOk
<1> QED BY <1>1, <1>2, SetOpOk DEF SendConnect

LEMMA AutoconnectNextOk ==
  ASSUME BtBase, NEW w \in Wires, NEW x, BtOk(x, w)
  PROVE  BtOk(AutoconnectNext(x), w)
<1> DEFINE y == AutoconnectNext(x)
<1>1. y = x \/ (Sane(y) /\ \E c : Added(x, y, c))
  <2>1. y = AutoconnectNext(x) /\ Sane(x) BY DEF BtOk, Sane
  <2> HIDE DEF y
  <2> QED BY <2>1, AutoconnectNextSo
<1> HIDE DEF y
<1>2. BtOk(y, w) BY <1>1, AddedOk
<1> QED BY <1>2 DEF y

LEMMA ResetMirrorOk ==
  ASSUME NEW w, NEW x, BtOk(x, w)
  PROVE  BtOk(ResetMirror(x), w)
<1> DEFINE y == ResetMirror(x)
<1>1. Sane(y) /\ Aged(x, y)
  <2>1. y = ResetMirror(x) /\ x \in BtMirrors /\ Finitely(x) BY DEF BtOk
  <2> HIDE DEF y
  <2> QED BY <2>1, ResetMirrorSo
<1> HIDE DEF y
<1>2. BtOk(y, w) BY <1>1, AgedOk
<1> QED BY <1>2 DEF y

LEMMA FetchOk ==
  ASSUME BtBase, NEW w \in Wires, NEW x, BtOk(x, w)
  PROVE  BtOk(Fetch(x), w)
<1> DEFINE y == Fetch(x)
<1>1. Sane(y) /\ \E z, c : Sane(z) /\ Aged(x, z) /\ Added(z, y, c)
  <2>1. y = Fetch(x) /\ Sane(x) BY DEF BtOk, Sane
  <2> HIDE DEF y
  <2> QED BY <2>1, FetchSo
<1> HIDE DEF y
<1>2. BtOk(y, w) BY <1>1, AgedOk, AddedOk
<1> QED BY <1>2 DEF y

LEMMA PoweredOk ==
  ASSUME NEW w, NEW x, BtOk(x, w), NEW on, on \in BOOLEAN
  PROVE  BtOk(Powered(x, on), w)
<1> DEFINE y == Powered(x, on)
<1>1. Sane(y) /\ SameCalls(x, y)
  <2>1. Sane(x) BY DEF BtOk, Sane
  <2> QED BY <2>1, PoweredSo DEF PoweredAs
<1> HIDE DEF y
<1>2. BtOk(y, w) BY <1>1, SameOk
<1> QED BY <1>2 DEF y

LEMMA MirroredOk ==
  ASSUME NEW w, NEW x, BtOk(x, w), NEW d, d \in BtDevices, NEW e, e \in BtFacts, e.there
  PROVE  BtOk(Mirrored(x, d, e), w)
<1> DEFINE y == Mirrored(x, d, e)
<1>1. Sane(y) /\ SameCalls(x, y)
  <2>1. y = Mirrored(x, d, e) /\ Sane(x) BY DEF BtOk, Sane
  <2> HIDE DEF y
  <2> QED BY <2>1, MirroredSo
<1> HIDE DEF y
<1>2. BtOk(y, w) BY <1>1, SameOk
<1> QED BY <1>2 DEF y

\* A mirror of nothing.
Emptied(x, y) ==
  /\ Sane(y) /\ Aged(x, y) /\ y.bus = x.bus /\ y.scan = x.scan
  /\ ~y.adapter /\ ~y.powered /\ ~y.powering /\ ~y.active /\ y.pairs = 0
  /\ \A d \in BtDevices : y.devs[d] = Bare

LEMMA EmptiedSo ==
  ASSUME NEW x \in BtMirrors, Finitely(x)
  PROVE  /\ Emptied(x, ResetMirror(x)) /\ ResetMirror(x).up = x.up
         /\ Emptied(x, [ResetMirror(x) EXCEPT !.up = FALSE]) /\ [ResetMirror(x) EXCEPT !.up = FALSE].up = FALSE
<1> DEFINE y == ResetMirror(x)
           z == [y EXCEPT !.up = FALSE]
<1>1. Emptied(x, y) /\ y.up = x.up
  <2>1. y = ResetMirror(x) OBVIOUS
  <2> HIDE DEF y
  <2> QED BY <2>1, ResetMirrorSo DEF Emptied
<1> HIDE DEF y
<1>2. y \in BtMirrors BY <1>1 DEF Emptied, Sane
<1>3. /\ z \in BtMirrors /\ SameCalls(y, z) /\ SameOps(y, z) /\ z.bus = y.bus /\ z.scan = y.scan /\ z.up = FALSE
      /\ z.adapter = y.adapter /\ z.powered = y.powered /\ z.active = y.active
  BY <1>2 DEF BtMirrors, SameCalls, SameOps
<1>4. Sane(z) BY <1>1, <1>3 DEF Emptied, Sane, Finitely, Lit, SameCalls
<1>5. Emptied(x, z) BY <1>1, <1>3, <1>4 DEF Emptied, SameCalls, SameOps, Aged
<1> QED BY <1>1, <1>3, <1>5 DEF y

\* Mirroring what bluetoothd has, as all that was asked is an old call.
Renewed(x, z, o) ==
  /\ Sane(z) /\ Aged(x, z) /\ z.bus = x.bus /\ z.scan = x.scan
  /\ z.up /\ z.adapter = o.adapter /\ z.powered = o.powered
  /\ ~z.powering /\ ~z.active /\ z.pairs = 0
  /\ \A d \in BtDevices : /\ FactsOf(z.devs[d]) = (IF o.devs[d].there THEN o.devs[d] ELSE Absent)
                        /\ z.devs[d].op = "none"
  /\ ~o.adapter => \A d \in BtDevices : z.devs[d] = Bare

LEMMA OnObjectsSo ==
  ASSUME NEW x, Sane(x), NEW c, NEW err, NEW o \in BtObjects
  PROVE  /\ c.stale => OnObjects(x, c, err, o) = x
         /\ ~c.stale /\ err # "done" => /\ Emptied(x, OnObjects(x, c, err, o))
                                        /\ ~OnObjects(x, c, err, o).up
         /\ ~c.stale /\ err = "done" =>
              \E z : Renewed(x, z, o) /\ OnObjects(x, c, err, o) = UpdateDiscovery(z)
<1>0. x \in BtMirrors /\ Finitely(x) BY DEF Sane
<1>1. c.stale => OnObjects(x, c, err, o) = x BY DEF OnObjects
<1>2. ASSUME ~c.stale, err # "done"
      PROVE Emptied(x, OnObjects(x, c, err, o)) /\ ~OnObjects(x, c, err, o).up
  <2>1. OnObjects(x, c, err, o) = [ResetMirror(x) EXCEPT !.up = FALSE] BY <1>2 DEF OnObjects
  <2> QED BY <1>0, <2>1, EmptiedSo
<1>3. ASSUME ~c.stale, err = "done"
      PROVE  \E z : Renewed(x, z, o) /\ OnObjects(x, c, err, o) = UpdateDiscovery(z)
  <2> DEFINE r == ResetMirror(x)
             y == [r EXCEPT !.up = TRUE, !.adapter = o.adapter, !.powered = o.powered]
             f == [d \in BtDevices |-> IF o.devs[d].there THEN Mirrored(y, d, o.devs[d]).devs[d] ELSE Bare]
             z == [y EXCEPT !.devs = f]
             s == IF z.powered THEN Schedule(z) ELSE z
  <2>1. OnObjects(x, c, err, o) = UpdateDiscovery(s) BY <1>3 DEF OnObjects
  <2>2. Emptied(x, r) BY <1>0, EmptiedSo
  <2>3. o.adapter \in BOOLEAN /\ o.powered \in BOOLEAN /\ o.devs \in [BtDevices -> BtFacts]
        /\ (o.adapter \/ o = Empty) BY ObjectTypes
  <2> HIDE DEF r
  <2>4. r \in BtMirrors BY <2>2 DEF Emptied, Sane
  <2>5. /\ y \in BtMirrors /\ SameCalls(r, y) /\ SameOps(r, y) /\ y.bus = r.bus /\ y.scan = r.scan /\ y.up = TRUE
        /\ y.adapter = o.adapter /\ y.powered = o.powered /\ y.active = r.active
    BY <2>3, <2>4 DEF BtMirrors, SameCalls, SameOps
  <2>6. Sane(y) BY <2>2, <2>5 DEF Emptied, Sane, Finitely, Lit, SameCalls
  <2>7. \A d \in BtDevices : y.devs[d] = Bare BY <2>2, <2>5 DEF Emptied, SameOps
  <2> HIDE DEF y
  <2>8. ASSUME NEW d \in BtDevices
        PROVE  /\ f[d] \in BtShown /\ FactsOf(f[d]) = (IF o.devs[d].there THEN o.devs[d] ELSE Absent)
               /\ f[d].op = "none" /\ (~o.devs[d].there => f[d] = Bare)
    <3>1. CASE o.devs[d].there
      <4> DEFINE e == o.devs[d]
                 m == Mirrored(y, d, e)
      <4>1. e \in BtFacts /\ e.there BY <2>3, <3>1
      <4>2. f[d] = m.devs[d] BY <3>1
      <4> HIDE DEF f, e
      <4>3. Sane(m) /\ FactsOf(m.devs[d]) = e /\ m.devs[d].op = y.devs[d].op
        <5>1. m = Mirrored(y, d, e) OBVIOUS
        <5> HIDE DEF m
        <5> QED BY <2>6, <4>1, <5>1, MirroredSo
      <4> HIDE DEF m
      <4>4. m.devs[d] \in BtShown BY <4>3, MirrorTypes DEF Sane
      <4>5. y.devs[d].op = "none" BY <2>7 DEF Bare
      <4> QED BY <3>1, <4>2, <4>3, <4>4, <4>5 DEF e
    <3>2. CASE ~o.devs[d].there
      <4>1. f[d] = Bare BY <3>2
      <4> QED BY <3>2, <4>1, BareShown DEF Bare, Absent, FactsOf
    <3> QED BY <3>1, <3>2
  <2>9. f \in [BtDevices -> BtShown] BY <2>8
  <2> HIDE DEF f
  <2>10. y \in BtMirrors BY <2>5
  <2>11. /\ z \in BtMirrors /\ SameCalls(y, z) /\ SameAdapter(y, z) /\ z.devs = f /\ z.active = y.active
         /\ z.powering = y.powering /\ z.pairs = y.pairs
    BY <2>9, <2>10 DEF BtMirrors, SameCalls, SameAdapter
  <2> HIDE DEF z
  <2>12. Sane(z) BY <2>6, <2>11 DEF Sane, Finitely, Lit, SameCalls, SameAdapter
  <2>13. ~o.adapter => \A d \in BtDevices : z.devs[d] = Bare
    <3>1. \A d \in BtDevices : ~Empty.devs[d].there BY DEF Empty, Absent
    <3> QED BY <2>3, <2>8, <2>11, <3>1
  <2>14. /\ Sane(s) /\ SameCalls(z, s) /\ SameAdapter(z, s) /\ s.active = z.active
         /\ s.powering = z.powering /\ s.pairs = z.pairs /\ AlikeDevs(z, s)
         /\ \A d \in BtDevices : z.devs[d] = Bare => s.devs[d] = Bare
    <3>1. CASE s = z BY <2>12, <3>1, AlikeRefl DEF SameCalls, SameAdapter
    <3>2. CASE s = Schedule(z)
      <4> HIDE DEF s
      <4> QED BY <2>12, <3>2, ScheduleSo
    <3> QED BY <3>1, <3>2
  <2> HIDE DEF s
  <2>15. /\ s.bus = x.bus /\ s.scan = x.scan /\ s.up /\ s.adapter = o.adapter /\ s.powered = o.powered
         /\ ~s.powering /\ ~s.active /\ s.pairs = 0
    BY <2>2, <2>5, <2>11, <2>14 DEF Emptied, SameAdapter, SameOps
  <2>16. Aged(x, s) BY <2>2, <2>5, <2>11, <2>14 DEF Emptied, Aged, SameCalls
  <2>17. \A d \in BtDevices : /\ FactsOf(s.devs[d]) = (IF o.devs[d].there THEN o.devs[d] ELSE Absent)
                            /\ s.devs[d].op = "none"
    BY <2>8, <2>11, <2>14 DEF AlikeDevs
  <2>18. Renewed(x, s, o) BY <2>13, <2>14, <2>15, <2>16, <2>17 DEF Renewed
  <2> QED BY <2>1, <2>18
<1> QED BY <1>1, <1>2, <1>3

\* The adapter is there, switched on or off.
Switched(x, z, on) ==
  /\ Sane(z) /\ z.bus = x.bus /\ z.scan = x.scan /\ z.up = x.up /\ z.adapter /\ z.powered = on
  /\ z.active = (IF on THEN x.active ELSE FALSE) /\ SameCalls(x, z)
  /\ z.powering = x.powering /\ z.pairs = x.pairs /\ AlikeDevs(x, z)

\* A device is shown as it is.
ShownAs(x, z, d, e) ==
  /\ Sane(z) /\ SameAdapter(x, z) /\ SameCalls(x, z) /\ z.active = x.active
  /\ z.powering = x.powering /\ z.pairs = x.pairs
  /\ FactsOf(z.devs[d]) = e /\ (z.devs[d].op = x.devs[d].op \/ z.devs[d].op = "none")
  /\ (~e.there => z.devs[d] = Bare)
  /\ \A k \in BtDevices : k # d => z.devs[k] = x.devs[k]

LEMMA SwitchedSo ==
  ASSUME NEW x, Sane(x), NEW on, on \in BOOLEAN
  PROVE  /\ x.up => Switched(x, Powered([x EXCEPT !.adapter = TRUE], on), on)
         /\ x.adapter => Switched(x, Powered(x, on), on)
<1> DEFINE z == [x EXCEPT !.adapter = TRUE]
<1>1. x \in BtMirrors BY DEF Sane
<1>2. /\ z \in BtMirrors /\ SameCalls(x, z) /\ SameOps(x, z) /\ z.bus = x.bus /\ z.scan = x.scan /\ z.up = x.up
      /\ z.adapter = TRUE /\ z.powered = x.powered /\ z.active = x.active
  BY <1>1 DEF BtMirrors, SameCalls, SameOps
<1> HIDE DEF z
<1>3. Sane(z) BY <1>2 DEF Sane, Finitely, Lit, SameCalls
<1>4. ASSUME NEW v, Sane(v), v.adapter PROVE Switched(v, Powered(v, on), on)
  <2> DEFINE y == Powered(v, on)
  <2>1. /\ Sane(y) /\ y.bus = v.bus /\ y.scan = v.scan /\ y.up = v.up /\ y.adapter = v.adapter
        /\ y.powered = on /\ y.active = (IF on THEN v.active ELSE FALSE) /\ SameCalls(v, y)
        /\ y.powering = v.powering /\ y.pairs = v.pairs /\ AlikeDevs(v, y)
    <3>1. PoweredAs(v, y, on) BY <1>4, PoweredSo
    <3> HIDE DEF y
    <3> QED BY <3>1 DEF PoweredAs
  <2> HIDE DEF y
  <2>2. Switched(v, y, on) BY <1>4, <2>1 DEF Switched
  <2> QED BY <2>2 DEF y
<1>5. Switched(z, Powered(z, on), on) BY <1>2, <1>3, <1>4
<1> DEFINE y == Powered(z, on)
<1>6. Switched(z, y, on) BY <1>5
<1> HIDE DEF y
<1>7. Switched(x, y, on) BY <1>2, <1>6 DEF Switched, SameCalls, SameOps, AlikeDevs
<1>8. Switched(x, Powered(z, on), on) BY <1>7 DEF y
<1>9. x.adapter => Switched(x, Powered(x, on), on) BY <1>4
<1> QED BY <1>8, <1>9 DEF z

LEMMA ShownAsSo ==
  ASSUME NEW x, Sane(x), NEW d, d \in BtDevices
  PROVE  /\ \A e \in BtFacts : e.there => ShownAs(x, Mirrored(x, d, e), d, e)
         /\ ShownAs(x, [x EXCEPT !.devs[d] = Bare], d, Absent)
<1>1. ASSUME NEW e \in BtFacts, e.there PROVE ShownAs(x, Mirrored(x, d, e), d, e)
  <2> DEFINE y == Mirrored(x, d, e)
  <2>1. y = Mirrored(x, d, e) OBVIOUS
  <2> HIDE DEF y
  <2>2. ShownAs(x, y, d, e) BY <1>1, <2>1, MirroredSo DEF ShownAs
  <2> QED BY <2>2 DEF y
<1> DEFINE f == [x.devs EXCEPT ![d] = Bare]
           y == [x EXCEPT !.devs = f]
<1>2. x \in BtMirrors /\ x.devs \in [BtDevices -> BtShown] BY MirrorTypes DEF Sane
<1>3. f \in [BtDevices -> BtShown] /\ f[d] = Bare /\ \A k \in BtDevices : k # d => f[k] = x.devs[k] BY <1>2, BareShown
<1> HIDE DEF f
<1>4. y \in BtMirrors /\ y.devs = f /\ SameAdapter(x, y) /\ SameCalls(x, y) /\ y.active = x.active
      /\ y.powering = x.powering /\ y.pairs = x.pairs
  BY <1>2, <1>3 DEF BtMirrors, SameAdapter, SameCalls
<1> HIDE DEF y
<1>5. Sane(y) BY <1>4 DEF Sane, Finitely, Lit, SameAdapter, SameCalls
<1>6. FactsOf(Bare) = Absent /\ Bare.op = "none" BY DEF FactsOf, Bare, Absent
<1>7. ShownAs(x, y, d, Absent) BY <1>3, <1>4, <1>5, <1>6 DEF ShownAs
<1> QED BY <1>1, <1>7 DEF y, f

\* What a signal does.
LEMMA OnSignalSo ==
  ASSUME BtBase, NEW x, Sane(x), NEW m \in BtMsgs, m.kind # "reply"
  PROVE  /\ m.kind = "name" /\ m.on => OnSignal(x, m) = Fetch(x)
         /\ m.kind = "name" /\ ~m.on => Emptied(x, OnSignal(x, m)) /\ ~OnSignal(x, m).up
         /\ m.kind = "adapter" /\ ~x.up => OnSignal(x, m) = x
         /\ m.kind = "adapter" /\ x.up => \E z : Switched(x, z, m.on) /\ OnSignal(x, m) = UpdateDiscovery(z)
         /\ m.kind = "unplugged" /\ ~x.adapter => OnSignal(x, m) = x
         /\ m.kind = "unplugged" /\ x.adapter => \E z : Emptied(x, z) /\ z.up = x.up /\ OnSignal(x, m) = Fetch(z)
         /\ m.kind = "powered" /\ ~x.adapter => OnSignal(x, m) = x
         /\ m.kind = "powered" /\ x.adapter => \E z : Switched(x, z, m.on) /\ OnSignal(x, m) = UpdateDiscovery(z)
         /\ m.kind = "added" /\ ~x.up => OnSignal(x, m) = x
         /\ m.kind = "added" /\ x.up /\ ~x.adapter => OnSignal(x, m) = UpdateDiscovery(x)
         /\ m.kind = "added" /\ x.up /\ x.adapter =>
              \E z : ShownAs(x, z, m.dev, m.as) /\ OnSignal(x, m) = UpdateDiscovery(z)
         /\ m.kind = "removed" => ShownAs(x, OnSignal(x, m), m.dev, Absent)
         /\ m.kind = "changed" /\ ~x.devs[m.dev].there => OnSignal(x, m) = x
         /\ m.kind = "changed" /\ x.devs[m.dev].there => ShownAs(x, OnSignal(x, m), m.dev, m.as)
<1>0. x \in BtMirrors /\ Finitely(x) BY DEF Sane
<1>1. /\ m.kind \in {"name", "powered", "adapter", "unplugged"} =>
              /\ m.on \in BOOLEAN /\ (m.kind = "adapter" => m.on) /\ (m.kind = "unplugged" => ~m.on)
      /\ m.kind \notin {"name", "powered", "adapter", "unplugged"} =>
              /\ m.kind \in {"added", "removed", "changed"} /\ m.dev \in BtDevices /\ m.as \in BtFacts
              /\ (m.kind # "removed" => m.as.there)
  BY SignalTypes
<1>2. CASE m.kind = "name"
  <2>1. OnSignal(x, m) = IF m.on THEN Fetch(x) ELSE [ResetMirror(x) EXCEPT !.up = FALSE]
    BY <1>2 DEF OnSignal, OnNameOwner
  <2>2. Emptied(x, [ResetMirror(x) EXCEPT !.up = FALSE]) /\ [ResetMirror(x) EXCEPT !.up = FALSE].up = FALSE
    BY <1>0, EmptiedSo
  <2> QED BY <1>2, <2>1, <2>2
<1>3. CASE m.kind = "adapter"
  <2>1. OnSignal(x, m) = IF x.up THEN UpdateDiscovery(Powered([x EXCEPT !.adapter = TRUE], m.on)) ELSE x
    BY <1>3 DEF OnSignal
  <2>2. x.up => Switched(x, Powered([x EXCEPT !.adapter = TRUE], m.on), m.on) BY <1>1, <1>3, SwitchedSo
  <2> QED BY <1>3, <2>1, <2>2
<1>4. CASE m.kind = "unplugged"
  <2>1. OnSignal(x, m) = IF x.adapter THEN Fetch(ResetMirror(x)) ELSE x BY <1>4 DEF OnSignal
  <2>2. Emptied(x, ResetMirror(x)) /\ ResetMirror(x).up = x.up BY <1>0, EmptiedSo
  <2> QED BY <1>4, <2>1, <2>2
<1>5. CASE m.kind = "powered"
  <2>1. OnSignal(x, m) = IF x.adapter THEN UpdateDiscovery(Powered(x, m.on)) ELSE x BY <1>5 DEF OnSignal
  <2>2. x.adapter => Switched(x, Powered(x, m.on), m.on) BY <1>1, <1>5, SwitchedSo
  <2> QED BY <1>5, <2>1, <2>2
<1>6. CASE m.kind = "added"
  <2>1. OnSignal(x, m) = IF ~x.up THEN x ELSE UpdateDiscovery(IF x.adapter THEN Mirrored(x, m.dev, m.as) ELSE x)
    BY <1>6 DEF OnSignal
  <2>2. ShownAs(x, Mirrored(x, m.dev, m.as), m.dev, m.as) BY <1>1, <1>6, ShownAsSo
  <2> QED BY <1>6, <2>1, <2>2
<1>7. CASE m.kind = "removed"
  <2>1. OnSignal(x, m) = [x EXCEPT !.devs[m.dev] = Bare] BY <1>7 DEF OnSignal
  <2>2. ShownAs(x, [x EXCEPT !.devs[m.dev] = Bare], m.dev, Absent) BY <1>1, <1>7, ShownAsSo
  <2> QED BY <1>7, <2>1, <2>2
<1>8. CASE m.kind = "changed"
  <2>1. OnSignal(x, m) = IF x.devs[m.dev].there THEN Mirrored(x, m.dev, m.as) ELSE x BY <1>8 DEF OnSignal
  <2>2. ShownAs(x, Mirrored(x, m.dev, m.as), m.dev, m.as) BY <1>1, <1>8, ShownAsSo
  <2> QED BY <1>8, <2>1, <2>2
<1> QED BY <1>1, <1>2, <1>3, <1>4, <1>5, <1>6, <1>7, <1>8

LEMMA OnSignalOk ==
  ASSUME BtBase, NEW w \in Wires, NEW x, BtOk(x, w), NEW m \in BtMsgs, m.kind # "reply"
  PROVE  BtOk(OnSignal(x, m), w)
<1>1. Sane(x) BY DEF BtOk, Sane
<1> DEFINE y == OnSignal(x, m)
<1>2. \/ y = x \/ y = Fetch(x) \/ Emptied(x, y) \/ y = UpdateDiscovery(x)
      \/ \E z : (Sane(z) /\ SameCalls(x, z)) /\ (y = z \/ y = UpdateDiscovery(z))
      \/ \E z : Emptied(x, z) /\ y = Fetch(z)
  <2>1. m.kind \in {"name", "adapter", "unplugged", "powered", "added", "removed", "changed"} BY SignalTypes
  <2>2. CASE m.kind = "name" BY <1>1, <2>2, OnSignalSo
  <2>3. CASE m.kind = "adapter"
    <3>1. y = x \/ \E z : Switched(x, z, m.on) /\ y = UpdateDiscovery(z) BY <1>1, <2>3, OnSignalSo
    <3> HIDE DEF y
    <3> QED BY <3>1 DEF Switched
  <2>4. CASE m.kind = "unplugged" BY <1>1, <2>4, OnSignalSo
  <2>5. CASE m.kind = "powered"
    <3>1. y = x \/ \E z : Switched(x, z, m.on) /\ y = UpdateDiscovery(z) BY <1>1, <2>5, OnSignalSo
    <3> HIDE DEF y
    <3> QED BY <3>1 DEF Switched
  <2>6. CASE m.kind = "added"
    <3>1. y = x \/ y = UpdateDiscovery(x) \/ \E z : ShownAs(x, z, m.dev, m.as) /\ y = UpdateDiscovery(z)
      BY <1>1, <2>6, OnSignalSo
    <3> HIDE DEF y
    <3> QED BY <3>1 DEF ShownAs
  <2>7. CASE m.kind = "removed"
    <3>1. ShownAs(x, y, m.dev, Absent) BY <1>1, <2>7, OnSignalSo
    <3> HIDE DEF y
    <3> QED BY <3>1 DEF ShownAs
  <2>8. CASE m.kind = "changed"
    <3>1. y = x \/ ShownAs(x, y, m.dev, m.as) BY <1>1, <2>8, OnSignalSo
    <3> HIDE DEF y
    <3> QED BY <3>1 DEF ShownAs
  <2> QED BY <2>1, <2>2, <2>3, <2>4, <2>5, <2>6, <2>7, <2>8
<1> HIDE DEF y
<1>3. ASSUME Emptied(x, y) PROVE BtOk(y, w) BY <1>3, AgedOk DEF Emptied
<1>4. ASSUME NEW z, Sane(z), SameCalls(x, z), y = z \/ y = UpdateDiscovery(z) PROVE BtOk(y, w)
  <2>1. BtOk(z, w) BY <1>4, SameOk
  <2> QED BY <1>4, <2>1, UpdateDiscoveryOk
<1>5. ASSUME NEW z, Emptied(x, z), y = Fetch(z) PROVE BtOk(y, w)
  <2>1. BtOk(z, w) BY <1>5, AgedOk DEF Emptied
  <2> QED BY <1>5, <2>1, FetchOk
<1>6. BtOk(y, w) BY <1>2, <1>3, <1>4, <1>5, FetchOk, UpdateDiscoveryOk
<1> QED BY <1>6 DEF y

-----------------------------------------------------------------------------
\* A call is no longer awaited.
Released(x, y, mine) ==
  /\ Sane(y) /\ SameAdapter(x, y) /\ SameOps(x, y) /\ y.due = x.due /\ y.active = x.active
  /\ y.asked = x.asked /\ y.pending = x.pending \ {mine}

\* A call that is not asked any more, and is not answered later.
Over(x, w, c) ==
  /\ \A i \in 1..Len(x.asked) : x.asked[i] # c
  /\ \A e \in Answered(w) : e.what \notin Reaches => e # c

LEMMA ReleasedSo ==
  ASSUME NEW x, Sane(x), NEW mine, mine \in x.pending
  PROVE  Released(x, [x EXCEPT !.pending = x.pending \ {mine}], mine)
<1> DEFINE p == x.pending \ {mine}
           y == [x EXCEPT !.pending = p]
<1>1. x \in BtMirrors /\ x.pending \in SUBSET BtCalls /\ IsFiniteSet(x.pending) /\ IsFiniteSet(bz.slow)
  BY MirrorTypes DEF Sane, Finitely
<1>2. p \in SUBSET BtCalls /\ IsFiniteSet(p) BY <1>1, FS_Subset
<1>3. p = x.pending \ {mine} OBVIOUS
<1> HIDE DEF p
<1>4. /\ y \in BtMirrors /\ SameAdapter(x, y) /\ SameOps(x, y) /\ y.due = x.due /\ y.active = x.active
      /\ y.asked = x.asked /\ y.pending = p
  BY <1>1, <1>2 DEF BtMirrors, SameAdapter, SameOps
<1> HIDE DEF y
<1>5. Sane(y) BY <1>1, <1>2, <1>4 DEF Sane, Finitely, Lit, SameAdapter
<1>6. Released(x, y, mine) BY <1>3, <1>4, <1>5 DEF Released
<1> QED BY <1>6 DEF y, p

LEMMA ReleasedOk ==
  ASSUME NEW w, NEW x, BtOk(x, w), NEW mine, mine \in x.pending, Over(x, w, AsSent(mine)),
         NEW y, Released(x, y, mine)
  PROVE  BtOk(y, w)
<1>1. Apart(x, w, bz.slow) BY DEF BtOk
<1>2. y.asked = x.asked /\ y.pending = x.pending \ {mine} BY DEF Released
<1>3. \A i \in 1..Len(y.asked) : /\ ~y.asked[i].stale /\ y.asked[i] \notin bz.slow
                                /\ \E p \in y.pending : AsSent(p) = y.asked[i]
  BY <1>1, <1>2 DEF Apart, Over
<1>4. ASSUME NEW c \in Answered(w), c.what \notin Reaches PROVE \E p \in y.pending : AsSent(p) = c
  <2>1. PICK p \in x.pending : AsSent(p) = c BY <1>1, <1>4 DEF Apart
  <2>2. c # AsSent(mine) BY <1>4 DEF Over
  <2> QED BY <1>2, <2>1, <2>2
<1>5. \A p, q \in y.pending : AsSent(p) = AsSent(q) => p = q BY <1>1, <1>2 DEF Apart
<1>6. \A i, j \in 1..Len(y.asked) : y.asked[i] = y.asked[j] => i = j BY <1>1, <1>2 DEF Apart
<1>7. Once(w) /\ (\A c \in Answered(w) : c \notin bz.slow)
      /\ (\A c \in Answered(w) : \A k \in 1..Len(y.asked) : y.asked[k] # c)
  BY <1>1, <1>2 DEF Apart
<1>8. Apart(y, w, bz.slow)
  <2> HIDE DEF Reaches
  <2> QED BY <1>3, <1>4, <1>5, <1>6, <1>7, Zenon DEF Apart
<1> QED BY <1>8 DEF Released, BtOk, Sane

\* What a reply does is what its handler does once nobody waits for it any more.
RepliedAs(x, r, c, err, o) ==
  \E mine, y :
    /\ mine \in x.pending
    /\ AsSent(mine) = c /\ Released(x, y, mine)
    /\ c.what = "objects"    => r = OnObjects(y, mine, err, o)
    /\ c.what = "start"      => r = OnStart(y, mine, err)
    /\ c.what = "connect"    => r = OnConnect(y, mine, err)
    /\ c.what = "pair"       => r = OnPair(y, mine, err)
    /\ c.what = "disconnect" => r = IF mine.stale THEN y ELSE SetOp(y, c.dev, "none")
    /\ c.what = "power"      => r = IF mine.stale THEN y ELSE [y EXCEPT !.powering = FALSE]
    /\ c.what \notin {"objects", "start", "connect", "pair", "disconnect", "power"} => r = y

LEMMA RepliedSo ==
  ASSUME NEW x, Sane(x), NEW c, \E p \in x.pending : AsSent(p) = c, NEW err, NEW o
  PROVE  RepliedAs(x, Replied(x, c, err, o), c, err, o)
<1> DEFINE mine == CHOOSE p \in x.pending : AsSent(p) = c
           y == [x EXCEPT !.pending = x.pending \ {mine}]
           r == Replied(x, c, err, o)
<1>1. mine \in x.pending /\ AsSent(mine) = c OBVIOUS
<1>2. r = CASE c.what = "objects"    -> OnObjects(y, mine, err, o)
            [] c.what = "start"      -> OnStart(y, mine, err)
            [] c.what = "connect"    -> OnConnect(y, mine, err)
            [] c.what = "pair"       -> OnPair(y, mine, err)
            [] c.what = "disconnect" -> IF mine.stale THEN y ELSE SetOp(y, c.dev, "none")
            [] c.what = "power"      -> IF mine.stale THEN y ELSE [y EXCEPT !.powering = FALSE]
            [] OTHER                 -> y
  BY DEF Replied
<1> HIDE DEF mine, r
<1>3. Released(x, y, mine) BY <1>1, ReleasedSo
<1> HIDE DEF y
<1>4. /\ c.what = "objects"    => r = OnObjects(y, mine, err, o)
      /\ c.what = "start"      => r = OnStart(y, mine, err)
      /\ c.what = "connect"    => r = OnConnect(y, mine, err)
      /\ c.what = "pair"       => r = OnPair(y, mine, err)
      /\ c.what = "disconnect" => r = IF mine.stale THEN y ELSE SetOp(y, c.dev, "none")
      /\ c.what = "power"      => r = IF mine.stale THEN y ELSE [y EXCEPT !.powering = FALSE]
      /\ c.what \notin {"objects", "start", "connect", "pair", "disconnect", "power"} => r = y
  BY <1>2
<1>5. RepliedAs(x, r, c, err, o) BY <1>1, <1>3, <1>4 DEF RepliedAs
<1> QED BY <1>5 DEF r

\* Changing what is no call, one field at a time.
LEMMA NotActiveSo ==
  ASSUME NEW x, Sane(x), NEW y, y = [x EXCEPT !.active = FALSE]
  PROVE  Sane(y) /\ SameAdapter(x, y) /\ SameOps(x, y) /\ SameCalls(x, y) /\ y.due = x.due /\ ~y.active
<1>1. x \in BtMirrors BY DEF Sane
<1>2. y \in BtMirrors /\ SameAdapter(x, y) /\ SameOps(x, y) /\ SameCalls(x, y) /\ y.due = x.due /\ y.active = FALSE
  BY <1>1 DEF BtMirrors, SameAdapter, SameOps, SameCalls
<1> QED BY <1>2 DEF Sane, Finitely, Lit, SameCalls

LEMMA PoweringSo ==
  ASSUME NEW x, Sane(x), NEW on \in BOOLEAN, NEW y, y = [x EXCEPT !.powering = on]
  PROVE  /\ Sane(y) /\ SameAdapter(x, y) /\ SameCalls(x, y) /\ y.active = x.active /\ y.powering = on
         /\ y.devs = x.devs /\ y.pairs = x.pairs /\ y.due = x.due
<1>1. x \in BtMirrors BY DEF Sane
<1>2. y \in BtMirrors /\ SameAdapter(x, y) /\ SameCalls(x, y) /\ y.due = x.due /\ y.active = x.active
      /\ y.powering = on /\ y.devs = x.devs /\ y.pairs = x.pairs
  BY <1>1 DEF BtMirrors, SameAdapter, SameCalls
<1> QED BY <1>2 DEF Sane, Finitely, Lit, SameCalls, SameAdapter

\* on_connect(), after it: no operation, perhaps trust, and then what the call was for.
OnConnectAs(x, r, c, err) ==
  \/ c.stale /\ r = x
  \/ /\ ~c.stale
     /\ \E y, z : /\ SetBy(x, y, c.dev, "none")
                  /\ (z = y \/ (SentBy(y, z, "trust", c.dev, "plain") /\ err # "failed"))
                  /\ \/ c.flag = "auto" /\ (r = y \/ r = AutoconnectNext(y))
                     \/ c.flag = "pair" /\ r = FinishPair(z)
                     \/ c.flag \notin {"auto", "pair"} /\ r = z

LEMMA OnConnectSo ==
  ASSUME BtBase, NEW x, Sane(x), NEW c \in BtCalls, NEW err
  PROVE  OnConnectAs(x, OnConnect(x, c, err), c, err)
<1> DEFINE r == OnConnect(x, c, err)
<1>1. CASE c.stale
  <2>1. r = x BY <1>1 DEF OnConnect
  <2> QED BY <1>1, <2>1 DEF OnConnectAs
<1>2. CASE ~c.stale
  <2> DEFINE y == SetOp(x, c.dev, "none")
             fail == err = "failed"
             e == y.devs[c.dev]
             z == IF ~fail /\ e.there /\ e.paired /\ ~e.trusted THEN SetTrusted(y, c.dev) ELSE y
  <2>1. r = IF c.flag = "auto" THEN (IF fail THEN AutoconnectNext(y) ELSE y)
            ELSE IF c.flag = "pair" THEN FinishPair(z) ELSE z
    BY <1>2 DEF OnConnect
  <2>2. c.dev \in BtDevices BY CallTypes
  <2>3. "none" \in BtOps /\ "trust" \in Whats /\ "plain" \in Flags BY DEF BtOps, Whats, Flags
  <2>4. SetBy(x, y, c.dev, "none") BY <2>2, <2>3, SetOpSo
  <2> HIDE DEF y, r
  <2>5. y \in BtMirrors /\ Finitely(y) BY <2>4 DEF SetBy, Sane
  <2>6. SentBy(y, SetTrusted(y, c.dev), "trust", c.dev, "plain") BY <2>2, <2>3, <2>5, SentSo DEF SetTrusted
  <2>7. z = y \/ (SentBy(y, z, "trust", c.dev, "plain") /\ err # "failed") BY <2>6
  <2> HIDE DEF z
  <2>8. \/ c.flag = "auto" /\ (r = y \/ r = AutoconnectNext(y))
        \/ c.flag = "pair" /\ r = FinishPair(z)
        \/ c.flag \notin {"auto", "pair"} /\ r = z
    BY <2>1
  <2>9. OnConnectAs(x, r, c, err) BY <1>2, <2>4, <2>7, <2>8 DEF OnConnectAs
  <2> QED BY <2>9 DEF r
<1> QED BY <1>1, <1>2

\* on_pair()
OnPairAs(x, r, c, err) ==
  \/ c.stale /\ r = x
  \/ ~c.stale /\ err = "failed" /\ \E y : SetBy(x, y, c.dev, "none") /\ r = FinishPair(y)
  \/ ~c.stale /\ err # "failed" /\ \E y : SentBy(x, y, "trust", c.dev, "plain") /\ r = SendConnect(y, c.dev, "pair")

LEMMA OnPairSo ==
  ASSUME BtBase, NEW x, Sane(x), NEW c \in BtCalls, NEW err
  PROVE  OnPairAs(x, OnPair(x, c, err), c, err)
<1> DEFINE r == OnPair(x, c, err)
<1>1. c.dev \in BtDevices BY CallTypes
<1>2. "none" \in BtOps /\ "trust" \in Whats /\ "plain" \in Flags BY DEF BtOps, Whats, Flags
<1>3. CASE c.stale
  <2>1. r = x BY <1>3 DEF OnPair
  <2> QED BY <1>3, <2>1 DEF OnPairAs
<1>4. CASE ~c.stale /\ err = "failed"
  <2>1. r = FinishPair(SetOp(x, c.dev, "none")) BY <1>4 DEF OnPair
  <2>2. SetBy(x, SetOp(x, c.dev, "none"), c.dev, "none") BY <1>1, <1>2, SetOpSo
  <2> HIDE DEF r
  <2>3. OnPairAs(x, r, c, err) BY <1>4, <2>1, <2>2 DEF OnPairAs
  <2> QED BY <2>3 DEF r
<1>5. CASE ~c.stale /\ err # "failed"
  <2>1. r = SendConnect(SetTrusted(x, c.dev), c.dev, "pair") BY <1>5 DEF OnPair
  <2>2. SentBy(x, SetTrusted(x, c.dev), "trust", c.dev, "plain")
    <3>1. x \in BtMirrors /\ Finitely(x) BY DEF Sane
    <3> QED BY <1>1, <1>2, <3>1, SentSo DEF SetTrusted
  <2> HIDE DEF r
  <2>3. OnPairAs(x, r, c, err) BY <1>5, <2>1, <2>2 DEF OnPairAs
  <2> QED BY <2>3 DEF r
<1> QED BY <1>3, <1>4, <1>5

LEMMA OnConnectOk ==
  ASSUME BtBase, NEW w \in Wires, NEW x, BtOk(x, w), NEW c \in BtCalls, NEW err, NEW r, OnConnectAs(x, r, c, err)
  PROVE  BtOk(r, w)
<1>1. CASE r = x BY <1>1
<1>2. CASE ~(r = x)
  <2>1. PICK y, z : /\ SetBy(x, y, c.dev, "none")
                    /\ (z = y \/ (SentBy(y, z, "trust", c.dev, "plain") /\ err # "failed"))
                    /\ \/ c.flag = "auto" /\ (r = y \/ r = AutoconnectNext(y))
                       \/ c.flag = "pair" /\ r = FinishPair(z)
                       \/ c.flag \notin {"auto", "pair"} /\ r = z
    BY <1>2 DEF OnConnectAs
  <2>2. BtOk(y, w) BY <2>1, SameOk DEF SetBy
  <2>3. BtOk(z, w)
    <3>1. CASE z = y BY <2>2, <3>1
    <3>2. CASE SentBy(y, z, "trust", c.dev, "plain")
      <4>1. Sane(z) /\ \E k : Added(y, z, k) BY <2>2, <3>2 DEF SentBy, Sane, BtOk, Lit, SameAdapter
      <4> QED BY <2>2, <4>1, AddedOk
    <3> QED BY <2>1, <3>1, <3>2
  <2> QED BY <2>1, <2>2, <2>3, AutoconnectNextOk, FinishPairOk
<1> QED BY <1>1, <1>2

LEMMA OnPairOk ==
  ASSUME BtBase, NEW w \in Wires, NEW x, BtOk(x, w), NEW c \in BtCalls, NEW err, NEW r, OnPairAs(x, r, c, err)
  PROVE  BtOk(r, w)
<1>1. CASE r = x BY <1>1
<1>2. ASSUME NEW y, SetBy(x, y, c.dev, "none"), r = FinishPair(y) PROVE BtOk(r, w)
  BY <1>2, SameOk, FinishPairOk DEF SetBy
<1>3. ASSUME NEW y, SentBy(x, y, "trust", c.dev, "plain"), r = SendConnect(y, c.dev, "pair") PROVE BtOk(r, w)
  <2>1. Sane(y) /\ \E k : Added(x, y, k) BY <1>3 DEF SentBy, Sane, BtOk, Lit, SameAdapter
  <2>2. BtOk(y, w) BY <2>1, AddedOk
  <2>3. c.dev \in BtDevices /\ "pair" \in Flags BY CallTypes DEF Flags
  <2> QED BY <1>3, <2>2, <2>3, SendConnectOk
<1> QED BY <1>1, <1>2, <1>3 DEF OnPairAs

LEMMA RepliedOk ==
  ASSUME BtBase, NEW w \in Wires, NEW x, BtOk(x, w), NEW c \in BtCalls, \E p \in x.pending : AsSent(p) = c,
         Over(x, w, c), NEW err, NEW o \in BtObjects
  PROVE  BtOk(Replied(x, c, err, o), w)
<1> DEFINE r == Replied(x, c, err, o)
<1>1. Sane(x) BY DEF BtOk, Sane
<1>2. RepliedAs(x, r, c, err, o) BY <1>1, RepliedSo
<1> HIDE DEF r
<1>3. PICK mine, y :
        /\ mine \in x.pending
        /\ AsSent(mine) = c /\ Released(x, y, mine)
        /\ c.what = "objects"    => r = OnObjects(y, mine, err, o)
        /\ c.what = "start"      => r = OnStart(y, mine, err)
        /\ c.what = "connect"    => r = OnConnect(y, mine, err)
        /\ c.what = "pair"       => r = OnPair(y, mine, err)
        /\ c.what = "disconnect" => r = IF mine.stale THEN y ELSE SetOp(y, c.dev, "none")
        /\ c.what = "power"      => r = IF mine.stale THEN y ELSE [y EXCEPT !.powering = FALSE]
        /\ c.what \notin {"objects", "start", "connect", "pair", "disconnect", "power"} => r = y
  BY <1>2 DEF RepliedAs
<1>4. BtOk(y, w) BY <1>3, ReleasedOk
<1>5. mine \in BtCalls BY <1>1, <1>3, MirrorTypes DEF Sane
<1>6. Sane(y) BY <1>3 DEF Released
<1>7. ASSUME c.what = "objects" PROVE BtOk(r, w)
  <2>1. /\ mine.stale => r = y
        /\ ~mine.stale /\ err # "done" => Emptied(y, r)
        /\ ~mine.stale /\ err = "done" => \E z : Renewed(y, z, o) /\ r = UpdateDiscovery(z)
    BY <1>3, <1>6, <1>7, OnObjectsSo
  <2>2. ASSUME Emptied(y, r) PROVE BtOk(r, w) BY <1>4, <2>2, AgedOk DEF Emptied
  <2>3. ASSUME NEW z, Renewed(y, z, o), r = UpdateDiscovery(z) PROVE BtOk(r, w)
    <3>1. BtOk(z, w) BY <1>4, <2>3, AgedOk DEF Renewed
    <3> QED BY <2>3, <3>1, UpdateDiscoveryOk
  <2> QED BY <1>4, <2>1, <2>2, <2>3
<1>8. ASSUME c.what = "start" PROVE BtOk(r, w)
  <2>1. r = y \/ r = [y EXCEPT !.active = FALSE] BY <1>3, <1>8 DEF OnStart
  <2>2. BtOk([y EXCEPT !.active = FALSE], w) BY <1>4, <1>6, NotActiveSo, SameOk
  <2> QED BY <1>4, <2>1, <2>2
<1>9. ASSUME c.what = "connect" PROVE BtOk(r, w)
  <2>1. OnConnectAs(y, r, mine, err) BY <1>3, <1>5, <1>6, <1>9, OnConnectSo
  <2> QED BY <1>4, <1>5, <2>1, OnConnectOk
<1>10. ASSUME c.what = "pair" PROVE BtOk(r, w)
  <2>1. OnPairAs(y, r, mine, err) BY <1>3, <1>5, <1>6, <1>10, OnPairSo
  <2> QED BY <1>4, <1>5, <2>1, OnPairOk
<1>11. ASSUME c.what = "disconnect" PROVE BtOk(r, w)
  <2>1. "none" \in BtOps /\ c.dev \in BtDevices BY CallTypes DEF BtOps
  <2> QED BY <1>3, <1>4, <1>11, <2>1, SetOpOk
<1>12. ASSUME c.what = "power" PROVE BtOk(r, w)
  <2>1. BtOk([y EXCEPT !.powering = FALSE], w) BY <1>4, <1>6, PoweringSo, SameOk
  <2> QED BY <1>3, <1>4, <1>12, <2>1
<1>13. BtOk(r, w) BY <1>3, <1>4, <1>7, <1>8, <1>9, <1>10, <1>11, <1>12
<1> QED BY <1>13 DEF r
-----------------------------------------------------------------------------
\* A message comes off the wire.
LEMMA HeadSo ==
  ASSUME NEW w, w \in Seq(BtMsgs), w # <<>>
  PROVE  /\ Head(w) \in BtMsgs /\ Head(w) = w[1] /\ Tail(w) \in Seq(BtMsgs) /\ Len(Tail(w)) = Len(w) - 1
         /\ Len(w) \in Nat /\ Len(w) >= 1
         /\ \A i \in 1..Len(Tail(w)) : Tail(w)[i] = w[i + 1] /\ i + 1 \in 1..Len(w)
         /\ Answered(Tail(w)) \subseteq Answered(w)
         /\ Head(w).kind = "reply" => Head(w).call \in Answered(w)
         /\ Once(w) => Once(Tail(w)) /\ (Head(w).kind = "reply" => Head(w).call \notin Answered(Tail(w)))
<1>1. /\ Head(w) \in BtMsgs /\ Head(w) = w[1] /\ Tail(w) \in Seq(BtMsgs) /\ Len(Tail(w)) = Len(w) - 1
      /\ Len(w) \in Nat /\ Len(w) >= 1
      /\ \A i \in 1..Len(Tail(w)) : Tail(w)[i] = w[i + 1]
  BY HeadTailProperties, EmptySeq, LenProperties
<1>2. \A i \in 1..Len(Tail(w)) : Tail(w)[i] = w[i + 1] /\ i + 1 \in 1..Len(w) BY <1>1
<1> DEFINE t == Tail(w)
<1>3. t = Tail(w) OBVIOUS
<1> HIDE DEF t
<1>4. ASSUME NEW c \in Answered(t) PROVE \E i \in 1..Len(w) : i > 1 /\ w[i].kind = "reply" /\ w[i].call = c
  <2>1. PICK i \in 1..Len(t) : t[i].kind = "reply" /\ t[i].call = c BY <1>4 DEF Answered
  <2> QED BY <1>1, <1>2, <1>3, <2>1
<1>5. Answered(t) \subseteq Answered(w) BY <1>4 DEF Answered
<1>6. Head(w).kind = "reply" => Head(w).call \in Answered(w) BY <1>1 DEF Answered
<1>7. ASSUME Once(w) PROVE Once(t)
  <2> SUFFICES ASSUME NEW i \in 1..Len(t), NEW j \in 1..Len(t),
                      t[i].kind = "reply", t[j].kind = "reply", t[i].call = t[j].call
               PROVE  i = j BY DEF Once
  <2>1. i + 1 = j + 1 BY <1>2, <1>3, <1>7 DEF Once
  <2> QED BY <2>1
<1>8. ASSUME Once(w), Head(w).kind = "reply" PROVE Head(w).call \notin Answered(t)
  BY <1>1, <1>4, <1>8 DEF Once
<1> QED BY <1>1, <1>2, <1>3, <1>5, <1>6, <1>7, <1>8

LEMMA TailOk ==
  ASSUME BtBase, wire # <<>>, NEW x, BtOk(x, wire)
  PROVE  /\ Tail(wire) \in Wires /\ BtOk(x, Tail(wire))
         /\ Head(wire).kind = "reply" => Over(x, Tail(wire), Head(wire).call)
<1> DEFINE t == Tail(wire)
           m == Head(wire)
<1>1. Apart(x, wire, bz.slow) BY DEF BtOk
<1>2. /\ m \in BtMsgs /\ t \in Seq(BtMsgs) /\ Answered(t) \subseteq Answered(wire)
      /\ m.kind = "reply" => m.call \in Answered(wire) /\ m.call \notin Answered(t)
      /\ Once(t)
  <2>1. Once(wire) BY <1>1 DEF Apart
  <2> QED BY <2>1, HeadSo DEF BtBase
<1> HIDE DEF t, m
<1>3. t \in Wires BY <1>2 DEF Wires
<1>4. Apart(x, t, bz.slow)
  <2> HIDE DEF Reaches
  <2> QED BY <1>1, <1>2 DEF Apart
<1>5. BtOk(x, t) BY <1>4 DEF BtOk
<1>6. m.kind = "reply" => Over(x, t, m.call) BY <1>1, <1>2 DEF Apart, Over
<1> QED BY <1>3, <1>5, <1>6 DEF t, m

LEMMA ProcessOk ==
  ASSUME BtBase, BtOk(g, wire), Process
  PROVE  BtOk(g', Tail(wire)) /\ Tail(wire) \in Seq(BtMsgs)
<1>1. wire # <<>> /\ Tail(wire) \in Wires /\ BtOk(g, Tail(wire))
      /\ (Head(wire).kind = "reply" => Over(g, Tail(wire), Head(wire).call))
  BY TailOk DEF Process
<1>2. Head(wire) \in BtMsgs BY <1>1, HeadSo DEF BtBase
<1> DEFINE m == Head(wire)
<1>3. g' = IF m.kind # "reply" THEN OnSignal(g, m)
           ELSE IF \E p \in g.pending : AsSent(p) = m.call THEN Replied(g, m.call, m.err, m.objects)
           ELSE g
  BY DEF Process
<1> DEFINE t == Tail(wire)
<1> HIDE DEF m, t
<1>4. CASE m.kind # "reply"
  <2>1. BtOk(OnSignal(g, m), t) BY <1>1, <1>2, <1>4, OnSignalOk DEF m, t
  <2> QED BY <1>1, <1>3, <1>4, <2>1 DEF t, Wires
<1>5. CASE m.kind = "reply"
  <2>1. m.call \in BtCalls /\ m.objects \in BtObjects BY <1>2, <1>5, ReplyTypes DEF m
  <2>2. (\E p \in g.pending : AsSent(p) = m.call) => BtOk(Replied(g, m.call, m.err, m.objects), t)
    BY <1>1, <1>5, <2>1, RepliedOk DEF m, t
  <2> QED BY <1>1, <1>3, <1>5, <2>2 DEF t, Wires
<1> QED BY <1>4, <1>5

-----------------------------------------------------------------------------
\* What bluetoothd says.
LEMMA OneSo ==
  ASSUME NEW m \in BtMsgs
  PROVE  /\ <<m>> \in Seq(BtMsgs) /\ Len(<<m>>) = 1 /\ <<m>>[1] = m /\ Once(<<m>>)
         /\ Answered(<<m>>) = IF m.kind = "reply" THEN {m.call} ELSE {}
<1> DEFINE w == <<m>>
<1>1. w \in Seq(BtMsgs) /\ Len(w) = 1 /\ w[1] = m OBVIOUS
<1> HIDE DEF w
<1>2. \A i \in 1..Len(w) : i = 1 BY <1>1
<1>3. Once(w) BY <1>2 DEF Once
<1>4. Answered(w) = IF m.kind = "reply" THEN {m.call} ELSE {} BY <1>1, <1>2 DEF Answered
<1> QED BY <1>1, <1>3, <1>4 DEF w

LEMMA NoneSo == <<>> \in Seq(BtMsgs) /\ Len(<<>>) = 0 /\ Once(<<>>) /\ Answered(<<>>) = {}
<1> DEFINE w == <<>>
<1>1. w \in Seq(BtMsgs) /\ Len(w) = 0 OBVIOUS
<1> HIDE DEF w
<1>2. 1..Len(w) = {} BY <1>1
<1> QED BY <1>1, <1>2 DEF Once, Answered, w

LEMMA CatSo ==
  ASSUME NEW u, u \in Seq(BtMsgs), NEW v, v \in Seq(BtMsgs)
  PROVE  /\ u \o v \in Seq(BtMsgs) /\ Len(u) \in Nat /\ Len(v) \in Nat /\ Len(u \o v) = Len(u) + Len(v)
         /\ \A i \in 1..Len(u) : (u \o v)[i] = u[i]
         /\ \A i \in 1..Len(v) : (u \o v)[Len(u) + i] = v[i]
         /\ Answered(u \o v) = Answered(u) \union Answered(v)
         /\ Once(u) /\ Once(v) /\ Answered(u) \intersect Answered(v) = {} => Once(u \o v)
<1> DEFINE w == u \o v
           n == Len(u)
           k == Len(v)
<1>1. /\ w \in Seq(BtMsgs) /\ n \in Nat /\ k \in Nat /\ Len(w) = n + k
      /\ \A i \in 1..n : w[i] = u[i]
      /\ \A i \in 1..k : w[n + i] = v[i]
  BY ConcatProperties, LenProperties
<1> HIDE DEF w
<1>2. ASSUME NEW i \in 1..Len(w)
      PROVE  (i \in 1..n /\ w[i] = u[i]) \/ (\E j \in 1..k : i = n + j /\ w[i] = v[j])
  <2>1. CASE i <= n BY <1>1, <2>1
  <2>2. CASE i > n
    <3>1. i - n \in 1..k /\ i = n + (i - n) BY <1>1, <2>2
    <3> QED BY <1>1, <3>1
  <2> QED BY <1>1, <2>1, <2>2
<1>3. Answered(w) = Answered(u) \union Answered(v)
  <2>1. ASSUME NEW c \in Answered(w) PROVE c \in Answered(u) \union Answered(v)
    <3>1. PICK i \in 1..Len(w) : w[i].kind = "reply" /\ w[i].call = c BY <2>1 DEF Answered
    <3> QED BY <1>2, <3>1 DEF Answered
  <2>2. ASSUME NEW c \in Answered(u) PROVE c \in Answered(w)
    <3>1. PICK i \in 1..n : u[i].kind = "reply" /\ u[i].call = c BY <2>2 DEF Answered
    <3>2. i \in 1..Len(w) /\ w[i] = u[i] BY <1>1, <3>1
    <3> QED BY <3>1, <3>2 DEF Answered
  <2>3. ASSUME NEW c \in Answered(v) PROVE c \in Answered(w)
    <3>1. PICK i \in 1..k : v[i].kind = "reply" /\ v[i].call = c BY <2>3 DEF Answered
    <3>2. n + i \in 1..Len(w) /\ w[n + i] = v[i] BY <1>1, <3>1
    <3> QED BY <3>1, <3>2 DEF Answered
  <2> QED BY <2>1, <2>2, <2>3
<1>4. ASSUME Once(u), Once(v), Answered(u) \intersect Answered(v) = {} PROVE Once(w)
  <2> SUFFICES ASSUME NEW i \in 1..Len(w), NEW j \in 1..Len(w),
                      w[i].kind = "reply", w[j].kind = "reply", w[i].call = w[j].call
               PROVE  i = j BY DEF Once
  <2>1. \A e \in 1..n : u[e].kind = "reply" => u[e].call \in Answered(u) BY DEF Answered
  <2>2. \A e \in 1..k : v[e].kind = "reply" => v[e].call \in Answered(v) BY DEF Answered
  <2>3. CASE i \in 1..n /\ w[i] = u[i] /\ j \in 1..n /\ w[j] = u[j] BY <1>4, <2>3 DEF Once
  <2>4. CASE i \in 1..n /\ w[i] = u[i] /\ \E e \in 1..k : j = n + e /\ w[j] = v[e] BY <1>4, <2>1, <2>2, <2>4
  <2>5. CASE j \in 1..n /\ w[j] = u[j] /\ \E e \in 1..k : i = n + e /\ w[i] = v[e] BY <1>4, <2>1, <2>2, <2>5
  <2>6. CASE (\E e \in 1..k : i = n + e /\ w[i] = v[e]) /\ (\E e \in 1..k : j = n + e /\ w[j] = v[e])
    BY <1>4, <2>6 DEF Once
  <2> QED BY <1>2, <2>3, <2>4, <2>5, <2>6
<1> QED BY <1>1, <1>3, <1>4 DEF w

\* Every one of the calls fails, in some order.
LEMMA FailsSo ==
  ASSUME NEW S, S \subseteq BtCalls, IsFiniteSet(S), \A c \in S : ~c.stale
  PROVE  /\ Fails(S) \in Seq(BtMsgs) /\ Len(Fails(S)) = Cardinality(S) /\ Cardinality(S) \in Nat
         /\ \A i \in 1..Len(Fails(S)) : \E c \in S : Fails(S)[i] = Reply(c, "failed")
         /\ Once(Fails(S)) /\ Answered(Fails(S)) = S
<1> DEFINE n == Cardinality(S)
           q == SetToSeq(S)
           w == Fails(S)
<1>1. /\ n \in Nat /\ q \in [1..n -> S] /\ (\A i, j \in 1..n : q[i] = q[j] => i = j)
      /\ \A e \in S : \E i \in 1..n : q[i] = e
  BY SetSeqSo
<1>2. w = [i \in 1..n |-> Reply(q[i], "failed")] BY DEF Fails
<1> HIDE DEF n, q
<1>3. \A c \in S : Reply(c, "failed") \in BtMsgs
  <2> TAKE c \in S
  <2>1. c \in BtCalls /\ ~c.stale OBVIOUS
  <2>2. Empty \in BtObjects BY DEF BtObjects, Empty, Absent, BtFacts
  <2> QED BY <2>1, <2>2 DEF Reply, BtMsgs, BtReplies
<1>4. w \in [1..n -> BtMsgs] BY <1>1, <1>2, <1>3
<1>5. w \in Seq(BtMsgs) /\ Len(w) = n BY <1>1, <1>4, SeqDef, LenProperties
<1>6. \A i \in 1..n : w[i] = Reply(q[i], "failed") /\ w[i].kind = "reply" /\ w[i].call = q[i] /\ q[i] \in S
  BY <1>1, <1>2 DEF Reply
<1> HIDE DEF w
<1>7. Once(w) BY <1>1, <1>5, <1>6 DEF Once
<1>8. Answered(w) = S
  <2>1. \A c \in Answered(w) : c \in S BY <1>5, <1>6 DEF Answered
  <2>2. \A c \in S : c \in Answered(w) BY <1>1, <1>5, <1>6 DEF Answered
  <2> QED BY <2>1, <2>2
<1> QED BY <1>1, <1>5, <1>6, <1>7, <1>8 DEF w, n

\* Something is said about each of the devices, in some order.
EachOf(w, n, q, kind, S, b) ==
  /\ w \in Seq(BtMsgs) /\ n \in Nat /\ Len(w) = n
  /\ \A i \in 1..n : \E d \in S : w[i] = About(kind, d, b.devs[d]) /\ q[i] = d
  /\ \A d \in S : \E i \in 1..n : q[i] = d
LEMMA AboutEachSo ==
  ASSUME BtAssumption, NEW kind, kind \in {"added", "changed"}, NEW S, S \subseteq BtDevices,
         NEW b, \A d \in S : b.devs[d] \in BtFacts /\ b.devs[d].there
  PROVE  /\ EachOf(AboutEach(kind, S, b), Cardinality(S), SetToSeq(S), kind, S, b)
         /\ AboutEach(kind, S, b) \in Seq(BtMsgs)
         /\ Once(AboutEach(kind, S, b)) /\ Answered(AboutEach(kind, S, b)) = {}
<1> DEFINE n == Cardinality(S)
           q == SetToSeq(S)
           w == AboutEach(kind, S, b)
<1>0. IsFiniteSet(S) BY FS_Subset DEF BtAssumption
<1>1. /\ n \in Nat /\ q \in [1..n -> S] /\ (\A i, j \in 1..n : q[i] = q[j] => i = j)
      /\ \A e \in S : \E i \in 1..n : q[i] = e
  BY <1>0, SetSeqSo
<1>2. w = [i \in 1..n |-> About(kind, q[i], b.devs[q[i]])] BY DEF AboutEach
<1> HIDE DEF n, q
<1>3. \A d \in S : About(kind, d, b.devs[d]) \in BtMsgs /\ About(kind, d, b.devs[d]).kind # "reply"
  BY DEF About, BtMsgs, BtAbouts
<1>4. w \in [1..n -> BtMsgs] BY <1>1, <1>2, <1>3
<1>5. w \in Seq(BtMsgs) /\ Len(w) = n BY <1>1, <1>4, SeqDef, LenProperties
<1>6. \A i \in 1..n : \E d \in S : w[i] = About(kind, d, b.devs[d]) /\ q[i] = d /\ w[i].kind # "reply"
  BY <1>1, <1>2, <1>3
<1> HIDE DEF w
<1>7. Once(w) BY <1>5, <1>6 DEF Once
<1>8. Answered(w) = {} BY <1>5, <1>6 DEF Answered
<1>9. EachOf(w, n, q, kind, S, b) BY <1>1, <1>5, <1>6 DEF EachOf
<1> QED BY <1>5, <1>7, <1>8, <1>9 DEF w, n, q

\* What bluetoothd has: nothing is powered or under way without its adapter.
BzOk(b) ==
  /\ b \in BtBluez /\ IsFiniteSet(b.slow)
  /\ b.adapter => b.up
  /\ b.powered => b.adapter
  /\ b.search => b.powered
  /\ b.slow # {} => b.powered
  /\ \A d \in BtDevices : b.devs[d].there \/ b.devs[d] = Absent
  /\ \A c \in b.slow : ~c.stale /\ c.what \in Reaches /\ b.devs[c.dev].there

LEMMA BzTypes ==
  ASSUME NEW b \in BtBluez
  PROVE  /\ b.up \in BOOLEAN /\ b.adapter \in BOOLEAN /\ b.powered \in BOOLEAN /\ b.search \in BOOLEAN
         /\ b.slow \subseteq BtCalls /\ b.devs \in [BtDevices -> BtFacts]
BY DEF BtBluez

LEMMA FactTypes ==
  ASSUME NEW e \in BtFacts
  PROVE  e.there \in BOOLEAN /\ e.paired \in BOOLEAN /\ e.trusted \in BOOLEAN /\ e.connected \in BOOLEAN
BY DEF BtFacts

LEMMA AbsentSo == /\ Absent \in BtFacts /\ ~Absent.there /\ ~Absent.paired /\ ~Absent.connected
                  /\ Found \in BtFacts /\ Found.there
BY DEF Absent, Found, BtFacts

\* Calls, messages and bluetoothd go together.
BtSound == wire \in Seq(BtMsgs) /\ BtOk(g, wire) /\ BzOk(bz)

\* The first call asked is taken, or none.
Moved(x, y, a) ==
  \/ y = x /\ a = {}
  \/ x.asked # <<>> /\ y = [x EXCEPT !.asked = Tail(x.asked)] /\ a = {Head(x.asked)}

\* What a step of bluetoothd tells, having taken the calls of a.
TellsWell(b, msgs, a) ==
  /\ BzOk(b) /\ msgs \in Seq(BtMsgs) /\ Once(msgs) /\ Moved(g, g', a) /\ Tells(b, msgs)
  /\ b.slow \subseteq bz.slow \union a /\ Answered(msgs) \subseteq bz.slow \union a
  /\ Answered(msgs) \intersect b.slow = {}

LEMMA MovedSo ==
  ASSUME NEW x \in BtMirrors, NEW y, NEW a, Moved(x, y, a)
  PROVE  /\ y \in BtMirrors /\ y.pending = x.pending /\ SameAdapter(x, y) /\ SameOps(x, y)
         /\ y.due = x.due /\ y.active = x.active
         /\ \/ y.asked = x.asked /\ a = {}
            \/ /\ Len(x.asked) \in Nat /\ Len(x.asked) >= 1 /\ Len(y.asked) = Len(x.asked) - 1
               /\ a = {x.asked[1]} /\ Head(x.asked) = x.asked[1]
               /\ \A i \in 1..Len(y.asked) : y.asked[i] = x.asked[i + 1]
<1>1. CASE y = x /\ a = {} BY <1>1 DEF SameAdapter, SameOps
<1>2. CASE x.asked # <<>> /\ y = [x EXCEPT !.asked = Tail(x.asked)] /\ a = {Head(x.asked)}
  <2> DEFINE q == x.asked
             t == Tail(q)
  <2>1. q \in Seq(BtCalls) BY MirrorTypes
  <2>2. /\ t \in Seq(BtCalls) /\ Len(t) = Len(q) - 1 /\ Len(q) \in Nat /\ Len(q) >= 1 /\ Head(q) = q[1]
        /\ \A i \in 1..Len(t) : t[i] = q[i + 1]
    BY <1>2, <2>1, HeadTailProperties, EmptySeq, LenProperties
  <2>3. y = [x EXCEPT !.asked = t] BY <1>2
  <2> HIDE DEF t
  <2>4. y \in BtMirrors /\ y.asked = t /\ y.pending = x.pending /\ SameAdapter(x, y) /\ SameOps(x, y)
        /\ y.due = x.due /\ y.active = x.active
    BY <2>2, <2>3 DEF BtMirrors, SameAdapter, SameOps
  <2> QED BY <1>2, <2>2, <2>4
<1> QED BY <1>1, <1>2 DEF Moved

LEMMA MovedApart ==
  ASSUME NEW x \in BtMirrors, NEW y, NEW a, Moved(x, y, a), NEW w \in Seq(BtMsgs), NEW slow, Apart(x, w, slow),
         \A c \in slow : c.what \in Reaches,
         NEW slow2, slow2 \subseteq slow \union a,
         NEW v \in Seq(BtMsgs), Once(v), Answered(v) \subseteq slow \union a, Answered(v) \intersect slow2 = {}
  PROVE  Apart(y, w \o v, slow2) /\ w \o v \in Seq(BtMsgs)
<1>1. /\ y \in BtMirrors /\ y.pending = x.pending
      /\ \/ y.asked = x.asked /\ a = {}
         \/ /\ Len(x.asked) \in Nat /\ Len(x.asked) >= 1 /\ Len(y.asked) = Len(x.asked) - 1
            /\ a = {x.asked[1]}
            /\ \A i \in 1..Len(y.asked) : y.asked[i] = x.asked[i + 1]
  BY MovedSo
<1>2. \A i \in 1..Len(y.asked) : \E j \in 1..Len(x.asked) : y.asked[i] = x.asked[j] /\ y.asked[i] \notin a
                                  /\ \A k \in 1..Len(y.asked) : y.asked[k] = y.asked[i] => k = i
  <2>1. \A i, j \in 1..Len(x.asked) : x.asked[i] = x.asked[j] => i = j BY DEF Apart
  <2>2. CASE y.asked = x.asked /\ a = {} BY <2>1, <2>2
  <2>3. CASE /\ Len(x.asked) \in Nat /\ Len(x.asked) >= 1 /\ Len(y.asked) = Len(x.asked) - 1
             /\ a = {x.asked[1]}
             /\ \A i \in 1..Len(y.asked) : y.asked[i] = x.asked[i + 1]
    <3> TAKE i \in 1..Len(y.asked)
    <3>1. i + 1 \in 1..Len(x.asked) /\ 1 \in 1..Len(x.asked) /\ i + 1 # 1 BY <2>3
    <3>2. ASSUME NEW k \in 1..Len(y.asked), y.asked[k] = y.asked[i] PROVE k = i
      <4>1. k + 1 \in 1..Len(x.asked) BY <2>3
      <4>2. x.asked[k + 1] = x.asked[i + 1] BY <2>3, <3>2
      <4>3. k + 1 = i + 1 BY <2>1, <3>1, <4>1, <4>2
      <4> QED BY <4>3
    <3> QED BY <2>1, <2>3, <3>1, <3>2
  <2> QED BY <1>1, <2>2, <2>3
<1>3. \A c \in a : c \notin slow /\ c \notin Answered(w) /\ \E p \in x.pending : AsSent(p) = c
  <2>1. \A c \in a : \E j \in 1..Len(x.asked) : c = x.asked[j] BY <1>1
  <2> QED BY <2>1 DEF Apart
<1>4. \A c \in Answered(w) : c \notin slow2 BY <1>3 DEF Apart
<1> DEFINE u == w \o v
<1>5. /\ u \in Seq(BtMsgs) /\ Answered(u) = Answered(w) \union Answered(v)
      /\ (Once(w) /\ Once(v) /\ Answered(w) \intersect Answered(v) = {} => Once(u))
  BY CatSo
<1> HIDE DEF u
<1>6. Answered(w) \intersect Answered(v) = {} BY <1>3 DEF Apart
<1>7. Once(u) BY <1>5, <1>6 DEF Apart
<1>8. \A p, q \in y.pending : AsSent(p) = AsSent(q) => p = q BY <1>1 DEF Apart
<1>9. \A i, j \in 1..Len(y.asked) : y.asked[i] = y.asked[j] => i = j BY <1>2
<1>10. \A i \in 1..Len(y.asked) : /\ ~y.asked[i].stale /\ y.asked[i] \notin slow2
                                 /\ \E p \in y.pending : AsSent(p) = y.asked[i]
  <2> TAKE i \in 1..Len(y.asked)
  <2>1. PICK j \in 1..Len(x.asked) : y.asked[i] = x.asked[j] /\ y.asked[i] \notin a BY <1>2
  <2>2. /\ ~x.asked[j].stale /\ x.asked[j] \notin slow /\ \E p \in x.pending : AsSent(p) = x.asked[j]
    BY DEF Apart
  <2> QED BY <1>1, <2>1, <2>2
<1>11. \A c \in Answered(u) : c \notin slow2 BY <1>4, <1>5
<1>12. ASSUME NEW c \in Answered(u), NEW k \in 1..Len(y.asked) PROVE y.asked[k] # c
  <2>1. PICK j \in 1..Len(x.asked) : y.asked[k] = x.asked[j] /\ y.asked[k] \notin a BY <1>2
  <2>2. x.asked[j] \notin slow /\ x.asked[j] \notin Answered(w) BY DEF Apart
  <2> QED BY <1>5, <2>1, <2>2
<1>13. ASSUME NEW c \in Answered(u), c.what \notin Reaches PROVE \E p \in y.pending : AsSent(p) = c
  <2>1. CASE c \in Answered(w) BY <1>1, <1>13, <2>1 DEF Apart
  <2>2. CASE c \in a BY <1>1, <1>3, <2>2
  <2>3. CASE c \in slow BY <1>13, <2>3
  <2> QED BY <1>5, <2>1, <2>2, <2>3
<1>14. Apart(y, u, slow2)
  <2> HIDE DEF Reaches
  <2> QED BY <1>7, <1>8, <1>9, <1>10, <1>11, <1>12, <1>13, Zenon DEF Apart
<1> QED BY <1>5, <1>14 DEF u

LEMMA ToldOk ==
  ASSUME BtAssumption, BtSound, NEW b, NEW msgs, NEW a, TellsWell(b, msgs, a)
  PROVE  BtSound'
<1>1. /\ wire \in Seq(BtMsgs) /\ g \in BtMirrors /\ Sane(g) /\ Apart(g, wire, bz.slow) /\ BzOk(bz)
  BY DEF BtSound, BtOk, Sane
<1>2. /\ BzOk(b) /\ msgs \in Seq(BtMsgs) /\ Once(msgs) /\ Moved(g, g', a)
      /\ b.slow \subseteq bz.slow \union a /\ Answered(msgs) \subseteq bz.slow \union a
      /\ Answered(msgs) \intersect b.slow = {}
      /\ bz' = b /\ wire' = (IF g.bus THEN wire \o msgs ELSE wire)
  BY DEF TellsWell, Tells
<1>3. \A c \in bz.slow : c.what \in Reaches BY <1>1 DEF BzOk
<1>4. Apart(g', wire \o msgs, b.slow) /\ wire \o msgs \in Seq(BtMsgs) BY <1>1, <1>2, <1>3, MovedApart
<1>5. Apart(g', wire, b.slow)
  <2>1. wire \o <<>> = wire BY <1>1, ConcatEmptySeq
  <2>2. Apart(g', wire \o <<>>, b.slow) BY <1>1, <1>2, <1>3, NoneSo, MovedApart
  <2> QED BY <2>1, <2>2
<1>6. wire' \in Seq(BtMsgs) /\ Apart(g', wire', bz'.slow) BY <1>1, <1>2, <1>4, <1>5
<1>7. /\ g' \in BtMirrors /\ g'.pending = g.pending /\ SameAdapter(g, g') /\ g'.active = g.active
  BY <1>1, <1>2, MovedSo
<1>8. IsFiniteSet(g'.pending) /\ IsFiniteSet(bz'.slow) BY <1>1, <1>2, <1>7 DEF Sane, Finitely, BzOk
<1>9. Lit(g)' BY <1>1, <1>7 DEF Sane, Lit, SameAdapter
<1>10. BzOk(bz)' BY <1>2 DEF BzOk
<1> QED BY <1>6, <1>7, <1>8, <1>9, <1>10 DEF BtSound, BtOk, Finitely

-----------------------------------------------------------------------------
\* Messages that are well formed and answer exactly the calls of A.
Tidy(w, A) == w \in Seq(BtMsgs) /\ Once(w) /\ Answered(w) = A

LEMMA OneTidy ==
  /\ \A m \in BtMsgs : m.kind # "reply" => Tidy(<<m>>, {})
  /\ \A m \in BtMsgs : m.kind = "reply" => Tidy(<<m>>, {m.call})
  /\ Tidy(<<>>, {})
BY OneSo, NoneSo DEF Tidy

LEMMA CatTidy ==
  ASSUME NEW u, NEW v, NEW A, NEW B, Tidy(u, A), Tidy(v, B), A \intersect B = {}
  PROVE  Tidy(u \o v, A \union B)
BY CatSo DEF Tidy

LEMMA FailsTidy ==
  ASSUME NEW S, S \subseteq BtCalls, IsFiniteSet(S), \A c \in S : ~c.stale
  PROVE  Tidy(Fails(S), S)
BY FailsSo DEF Tidy

LEMMA ChangesTidy ==
  ASSUME BtAssumption, NEW b, BzOk(b), NEW from, \A d \in BtDevices : b.devs[d] # from.devs[d] => b.devs[d].there
  PROVE  Tidy(DevChanges(b, from), {})
<1>1. b.devs \in [BtDevices -> BtFacts] BY BzTypes DEF BzOk
<1> DEFINE S == {d \in BtDevices : b.devs[d] # from.devs[d]}
           k == "changed"
<1>2. S \subseteq BtDevices /\ \A d \in S : b.devs[d] \in BtFacts /\ b.devs[d].there BY <1>1
<1>3. DevChanges(b, from) = AboutEach(k, S, b) BY DEF DevChanges
<1>4. k \in {"added", "changed"} OBVIOUS
<1> HIDE DEF S, k
<1>5. Tidy(AboutEach(k, S, b), {}) BY <1>2, <1>4, AboutEachSo DEF Tidy
<1> QED BY <1>3, <1>5

LEMMA NoChanges ==
  ASSUME NEW b, NEW from, \A d \in BtDevices : b.devs[d] = from.devs[d]
  PROVE  DevChanges(b, from) = <<>>
<1> DEFINE S == {d \in BtDevices : b.devs[d] # from.devs[d]}
<1>1. S = {} OBVIOUS
<1>2. DevChanges(b, from) = [i \in 1..Cardinality(S) |-> About("changed", SetToSeq(S)[i], b.devs[SetToSeq(S)[i]])]
  BY DEF DevChanges, AboutEach
<1>3. Cardinality(S) = 0 BY <1>1, FS_EmptySet
<1>4. 1..Cardinality(S) = {} BY <1>3
<1> HIDE DEF S
<1> QED BY <1>2, <1>4

LEMMA TellsWellSo ==
  ASSUME NEW b, NEW msgs, NEW a, NEW A, BzOk(b), Tidy(msgs, A), Moved(g, g', a), Tells(b, msgs),
         b.slow \subseteq bz.slow \union a, A \subseteq bz.slow \union a, A \intersect b.slow = {}
  PROVE  TellsWell(b, msgs, a)
BY DEF TellsWell, Tidy

\* A reply is one, ...
LEMMA ReplySo ==
  ASSUME NEW c \in BtCalls, ~c.stale, NEW err, err \in {"done", "failed", "already"}
  PROVE  /\ Reply(c, err) \in BtMsgs /\ Reply(c, err).kind = "reply" /\ Reply(c, err).call = c
         /\ Reply(c, err).err = err /\ Reply(c, err).objects = Empty
         /\ \A o \in BtObjects : /\ [Reply(c, err) EXCEPT !.objects = o] \in BtMsgs
                                /\ [Reply(c, err) EXCEPT !.objects = o].kind = "reply"
                                /\ [Reply(c, err) EXCEPT !.objects = o].call = c
                                /\ [Reply(c, err) EXCEPT !.objects = o].err = err
                                /\ [Reply(c, err) EXCEPT !.objects = o].objects = o
<1>1. Empty \in BtObjects BY DEF BtObjects, Empty, Absent, BtFacts
<1> QED BY <1>1 DEF Reply, BtMsgs, BtReplies

\* ... and so is a signal.
LEMMA SaidSo ==
  /\ \A on \in BOOLEAN : SignalOf("name", on) \in BtMsgs /\ SignalOf("powered", on) \in BtMsgs
  /\ SignalOf("adapter", TRUE) \in BtMsgs /\ SignalOf("unplugged", FALSE) \in BtMsgs
  /\ SignalOf("name", FALSE) \in BtMsgs /\ SignalOf("name", FALSE).kind # "reply"
  /\ SignalOf("name", TRUE) \in BtMsgs /\ SignalOf("name", TRUE).kind # "reply"
  /\ SignalOf("adapter", TRUE).kind # "reply" /\ SignalOf("unplugged", FALSE).kind # "reply"
  /\ \A k, on : SignalOf(k, on).kind = k /\ SignalOf(k, on).on = on
  /\ \A d \in BtDevices : About("removed", d, Absent) \in BtMsgs /\ About("added", d, Found) \in BtMsgs
  /\ \A k, d, e : About(k, d, e).kind = k /\ About(k, d, e).dev = d /\ About(k, d, e).as = e
BY AbsentSo DEF SignalOf, About, BtMsgs, BtSignals, BtAbouts

\* What bluetoothd may do.  It answers the call it takes, ...
SameHost(b) == b.up = bz.up /\ b.adapter = bz.adapter /\ b.powered = bz.powered
Answers(b, msgs, a) ==
  /\ SameHost(b) /\ b.devs = bz.devs /\ b.slow = bz.slow
  /\ \E c, m : /\ g.asked # <<>> /\ c = Head(g.asked) /\ a = {c} /\ msgs = <<m>> /\ m \in BtMsgs
               /\ m.kind = "reply" /\ m.call = c
               /\ c.what = "objects" => IF bz.up THEN m.err = "done" /\ m.objects = Objects ELSE m.err = "failed"
               /\ \/ c.what = "start" /\ IF m.err = "failed" THEN b.search = bz.search ELSE b.search
                  \/ c.what = "stop" /\ ~b.search
                  \/ c.what \notin {"start", "stop"} /\ b.search = bz.search

\* ... or keeps it for the device; ...
Keeps(b, msgs, a) ==
  /\ SameHost(b) /\ b.devs = bz.devs /\ b.search = bz.search /\ msgs = <<>>
  /\ \E c : g.asked # <<>> /\ c = Head(g.asked) /\ a = {c} /\ c.what \in Reaches /\ b.slow = bz.slow \union {c}

\* ... with the answer to such a call, if it took one, or to one it was at, ...
AndReply(a, v, what) ==
  \/ a = {} /\ v = <<>>
  \/ \E c, m : /\ v = <<m>> /\ m \in BtMsgs /\ m.kind = "reply" /\ m.call = c
               /\ g.asked # <<>> /\ c = Head(g.asked) /\ a = {c} /\ c.what = what
AndLate(a, v) ==
  a = {} /\ \E m : v = <<m>> /\ m \in BtMsgs /\ m.kind = "reply" /\ m.call.what \in Reaches

\* ... devices change; ...
Changed(b, msgs, a) ==
  /\ SameHost(b) /\ b.search = bz.search /\ b.slow \subseteq bz.slow
  /\ \A d \in BtDevices : b.devs[d].there = bz.devs[d].there
                          /\ (b.devs[d] # bz.devs[d] => b.devs[d].there)
  /\ \E v : msgs = DevChanges(b, bz) \o v /\ (AndReply(a, v, "trust") \/ AndLate(a, v))

\* ... one is gone, with the calls that reached for it, ...
Removed(b, msgs, a) ==
  /\ SameHost(b) /\ bz.adapter /\ b.search = bz.search
  /\ \E d, F :
       /\ d \in BtDevices
       /\ F \subseteq bz.slow /\ b.slow = bz.slow \ F /\ b.devs = [bz.devs EXCEPT ![d] = Absent]
       /\ \E v : msgs = Fails(F) \o <<About("removed", d, Absent)>> \o v /\ AndReply(a, v, "remove")

\* ... or found; ...
Finds(b, msgs, a) ==
  /\ SameHost(b) /\ b.search /\ bz.search /\ b.slow = bz.slow /\ a = {}
  /\ \E d \in BtDevices : ~bz.devs[d].there /\ b.devs = [bz.devs EXCEPT ![d] = Found]
                          /\ msgs = <<About("added", d, Found)>>

\* ... the adapter is switched; ...
NowUnpowered(b) ==
  /\ ~b.powered /\ ~b.search /\ b.slow = {}
  /\ \A d \in BtDevices : b.devs[d].there = bz.devs[d].there
                          /\ (b.devs[d] # bz.devs[d] => b.devs[d].there)
Switches(b, msgs, a) ==
  /\ b.up = bz.up /\ b.adapter /\ bz.adapter
  /\ \/ b.powered /\ b.search = bz.search /\ b.slow = bz.slow /\ b.devs = bz.devs
     \/ NowUnpowered(b)
  /\ \E p, v : /\ p = (IF b.powered # bz.powered THEN <<SignalOf("powered", b.powered)>> ELSE <<>>)
               /\ msgs = DevChanges(b, bz) \o p \o Fails(bz.slow \ b.slow) \o v /\ AndReply(a, v, "power")

\* ... it goes down or loses the adapter, ...
Lost(b) ==
  /\ ~b.adapter /\ ~b.powered /\ ~b.search /\ b.slow = {}
  /\ \A d \in BtDevices : b.devs[d].there => bz.devs[d].there
Downs(b, msgs, a) ==
  /\ Lost(b) /\ bz.up /\ ~b.up /\ a = {}
  /\ \/ msgs = Fails(bz.slow) \o <<SignalOf("name", FALSE)>>
     \/ msgs = <<SignalOf("name", FALSE)>> \o Fails(bz.slow)
Unplugs(b, msgs, a) ==
  /\ Lost(b) /\ bz.up /\ bz.adapter /\ b.up /\ a = {} /\ msgs = Fails(bz.slow) \o <<SignalOf("unplugged", FALSE)>>

\* ... or comes back, or finds one.
Ups(b, msgs, a) ==
  /\ ~bz.up /\ b.up /\ b.adapter = bz.adapter /\ b.powered = bz.powered /\ b.search = bz.search
  /\ b.slow = bz.slow /\ b.devs = bz.devs /\ a = {} /\ msgs = <<SignalOf("name", TRUE)>>
Plugs(b, msgs, a) ==
  /\ bz.up /\ b.up /\ ~bz.adapter /\ b.adapter /\ b.powered /\ ~bz.search /\ ~b.search /\ bz.slow = {} /\ b.slow = {}
  /\ b.devs = bz.devs /\ a = {}
  /\ msgs = <<SignalOf("adapter", TRUE)>> \o AboutEach("added", {d \in BtDevices : bz.devs[d].there}, bz)

BluezDoes(b, msgs, a) ==
  /\ TellsWell(b, msgs, a)
  /\ \/ Answers(b, msgs, a) \/ Keeps(b, msgs, a) \/ Changed(b, msgs, a) \/ Removed(b, msgs, a)
     \/ Finds(b, msgs, a) \/ Switches(b, msgs, a) \/ Downs(b, msgs, a) \/ Unplugs(b, msgs, a)
     \/ Ups(b, msgs, a) \/ Plugs(b, msgs, a)

\* The call that is taken.
LEMMA TakenSo ==
  ASSUME BtSound, g.asked # <<>>, NEW c, c = Head(g.asked), NEW a, a = {c}, g' = [g EXCEPT !.asked = Tail(@)]
  PROVE  /\ c \in BtCalls /\ ~c.stale /\ c \notin bz.slow /\ c.dev \in BtDevices /\ c.what \in Whats
         /\ Moved(g, g', a)
<1>1. g \in BtMirrors /\ Apart(g, wire, bz.slow) BY DEF BtSound, BtOk
<1>2. g.asked \in Seq(BtCalls) BY <1>1, MirrorTypes
<1>3. c = g.asked[1] /\ c \in BtCalls /\ 1 \in 1..Len(g.asked)
  <2>1. Len(g.asked) \in Nat /\ Len(g.asked) # 0 BY <1>2, LenProperties, EmptySeq
  <2> QED BY <1>2, <2>1, HeadTailProperties
<1>4. ~c.stale /\ c \notin bz.slow BY <1>1, <1>3 DEF Apart
<1>5. c.dev \in BtDevices /\ c.what \in Whats BY <1>3, CallTypes
<1>6. Moved(g, g', a) BY DEF Moved
<1> QED BY <1>3, <1>4, <1>5, <1>6

LEMMA AnswersSo ==
  ASSUME BtSound, g.asked # <<>>, NEW c, c = Head(g.asked), g' = [g EXCEPT !.asked = Tail(@)],
         NEW m, m \in BtMsgs, m.kind = "reply", m.call = c,
         NEW b, BzOk(b), SameHost(b), b.devs = bz.devs, b.slow = bz.slow,
         NEW msgs, msgs = <<m>>, Tells(b, msgs),
         c.what = "objects" => IF bz.up THEN m.err = "done" /\ m.objects = Objects ELSE m.err = "failed",
         \/ c.what = "start" /\ IF m.err = "failed" THEN b.search = bz.search ELSE b.search
         \/ c.what = "stop" /\ ~b.search
         \/ c.what \notin {"start", "stop"} /\ b.search = bz.search
  PROVE  \E s, a : BluezDoes(b, s, a)
<1> DEFINE a == {c}
<1>1. c \notin bz.slow /\ Moved(g, g', a) BY TakenSo
<1>2. Tidy(msgs, a) BY OneTidy
<1>3. a \intersect b.slow = {} /\ a \subseteq bz.slow \union a /\ b.slow \subseteq bz.slow \union a BY <1>1
<1>4. TellsWell(b, msgs, a)
  <2> HIDE DEF a
  <2> QED BY <1>1, <1>2, <1>3, TellsWellSo
<1>5. Answers(b, msgs, a) BY DEF Answers
<1> HIDE DEF a
<1> QED BY <1>4, <1>5 DEF BluezDoes

\* It is refused, as nothing changes.
LEMMA RefusedSo ==
  ASSUME BtSound, g.asked # <<>>, NEW c, c = Head(g.asked), g' = [g EXCEPT !.asked = Tail(@)],
         NEW err, err \in {"failed", "already"}, Tells(bz, <<Reply(c, err)>>),
         c.what = "objects" \/ c.what = "stop" => ~bz.up /\ err = "failed",
         c.what = "start" /\ err = "already" => bz.search
  PROVE  \E b, msgs, a : BluezDoes(b, msgs, a)
<1> DEFINE a == {c}
           m == Reply(c, err)
           s == <<m>>
<1>1. BzOk(bz) BY DEF BtSound
<1>2. c \in BtCalls /\ ~c.stale BY TakenSo
<1>3. m \in BtMsgs /\ m.kind = "reply" /\ m.call = c /\ m.err = err BY <1>2, ReplySo
<1>4. Tells(bz, s) OBVIOUS
<1> HIDE DEF m
<1>5. s = <<m>> OBVIOUS
<1> HIDE DEF s
<1>6. c.what = "stop" => ~bz.search BY <1>1 DEF BzOk
<1>7. SameHost(bz) BY DEF SameHost
<1>8. \/ c.what = "start" /\ IF m.err = "failed" THEN bz.search = bz.search ELSE bz.search
      \/ c.what = "stop" /\ ~bz.search
      \/ c.what \notin {"start", "stop"} /\ bz.search = bz.search
  BY <1>3, <1>6
<1>9. c.what = "objects" => IF bz.up THEN m.err = "done" /\ m.objects = Objects ELSE m.err = "failed"
  BY <1>3
<1>10. \E w, k : BluezDoes(bz, w, k) BY <1>1, <1>3, <1>4, <1>5, <1>7, <1>8, <1>9, AnswersSo
<1> QED BY <1>10

\* Only its search changes.
LEMMA SearchingSo ==
  ASSUME NEW on \in BOOLEAN, BzOk(bz), on => bz.powered, NEW b, b = [bz EXCEPT !.search = on]
  PROVE  BzOk(b) /\ SameHost(b) /\ b.devs = bz.devs /\ b.slow = bz.slow /\ b.search = on
<1>1. bz \in BtBluez BY DEF BzOk
<1>2. b \in BtBluez /\ SameHost(b) /\ b.devs = bz.devs /\ b.slow = bz.slow /\ b.search = on
  BY <1>1 DEF BtBluez, SameHost
<1> QED BY <1>2 DEF BzOk, SameHost

\* Only a device changes, and calls for it may be over.
DevAs(b, d, e, slow) == b = [bz EXCEPT !.devs = [bz.devs EXCEPT ![d] = e], !.slow = slow]

DevFits(d, e, slow) ==
  /\ d \in BtDevices /\ e \in BtFacts /\ (e.there \/ e = Absent)
  /\ slow \subseteq bz.slow /\ (e.there \/ \A c \in slow : c.dev # d)
DevNow(b, d, e, slow) ==
  /\ BzOk(b) /\ SameHost(b) /\ b.search = bz.search /\ b.slow = slow
  /\ b.devs = [bz.devs EXCEPT ![d] = e] /\ b.devs[d] = e
  /\ \A k \in BtDevices : k # d => b.devs[k] = bz.devs[k]

LEMMA DevSo ==
  ASSUME BzOk(bz), NEW d, NEW e, NEW slow, DevFits(d, e, slow), NEW b, DevAs(b, d, e, slow)
  PROVE  DevNow(b, d, e, slow)
<1>0. /\ d \in BtDevices /\ e \in BtFacts /\ (e.there \/ e = Absent)
      /\ slow \subseteq bz.slow /\ (e.there \/ \A c \in slow : c.dev # d) BY DEF DevFits
<1>1. bz \in BtBluez /\ bz.devs \in [BtDevices -> BtFacts] /\ bz.slow \subseteq BtCalls BY BzTypes DEF BzOk
<1> DEFINE f == [bz.devs EXCEPT ![d] = e]
<1>2. f \in [BtDevices -> BtFacts] /\ f[d] = e /\ \A k \in BtDevices : k # d => f[k] = bz.devs[k] BY <1>0, <1>1
<1> HIDE DEF f
<1>3. b = [bz EXCEPT !.devs = f, !.slow = slow] BY DEF f, DevAs
<1>4. slow \in SUBSET BtCalls /\ IsFiniteSet(slow) BY <1>0, <1>1, FS_Subset DEF BzOk
<1>5. b \in BtBluez /\ SameHost(b) /\ b.search = bz.search /\ b.slow = slow /\ b.devs = f
  BY <1>1, <1>2, <1>3, <1>4 DEF BtBluez, SameHost
<1>6. \A k \in BtDevices : b.devs[k].there \/ b.devs[k] = Absent BY <1>0, <1>2, <1>5 DEF BzOk
<1>7. \A c \in b.slow : ~c.stale /\ c.what \in Reaches /\ b.devs[c.dev].there
  <2> TAKE c \in b.slow
  <2>1. c \in bz.slow /\ c \in BtCalls BY <1>0, <1>1, <1>5
  <2>2. ~c.stale /\ c.what \in Reaches /\ bz.devs[c.dev].there BY <2>1 DEF BzOk
  <2>3. c.dev \in BtDevices BY <2>1, CallTypes
  <2>4. b.devs[c.dev].there BY <1>0, <1>2, <1>5, <2>1, <2>2, <2>3
  <2> QED BY <2>2, <2>4
<1>8. BzOk(b) BY <1>0, <1>4, <1>5, <1>6, <1>7 DEF BzOk, SameHost
<1>9. /\ b.devs = [bz.devs EXCEPT ![d] = e] /\ b.devs[d] = e
      /\ \A k \in BtDevices : k # d => b.devs[k] = bz.devs[k]
  BY <1>2, <1>5 DEF f
<1> QED BY <1>5, <1>8, <1>9 DEF DevNow

\* A device changes, and a call for it may be answered.
LEMMA ChangedSo ==
  ASSUME BtAssumption, BtSound, NEW d, d \in BtDevices, NEW e, e \in BtFacts, bz.devs[d].there, e.there,
         NEW slow, slow \subseteq bz.slow,
         NEW b, DevAs(b, d, e, slow),
         NEW a, NEW v, NEW A, Tidy(v, A), Moved(g, g', a), Tells(b, DevChanges(b, bz) \o v),
         A \subseteq bz.slow \union a, A \intersect slow = {},
         AndReply(a, v, "trust") \/ AndLate(a, v)
  PROVE  \E w, s, k : BluezDoes(w, s, k)
<1>1. BzOk(bz) BY DEF BtSound
<1>2. /\ BzOk(b) /\ SameHost(b) /\ b.search = bz.search /\ b.slow = slow /\ b.devs[d] = e
      /\ \A k \in BtDevices : k # d => b.devs[k] = bz.devs[k]
  <2>1. DevFits(d, e, slow) BY DEF DevFits
  <2>2. DevNow(b, d, e, slow) BY <1>1, <2>1, DevSo
  <2> QED BY <2>2 DEF DevNow
<1>3. \A k \in BtDevices : b.devs[k].there = bz.devs[k].there /\ (b.devs[k] # bz.devs[k] => b.devs[k].there)
  <2>1. bz.devs \in [BtDevices -> BtFacts] BY <1>1, BzTypes DEF BzOk
  <2>2. bz.devs[d] \in BtFacts BY <2>1
  <2>3. bz.devs[d].there \in BOOLEAN /\ e.there \in BOOLEAN BY <2>2, FactTypes
  <2> QED BY <1>2, <2>3
<1> DEFINE u == DevChanges(b, bz)
           s == u \o v
<1>4. Tidy(u, {}) BY <1>2, <1>3, ChangesTidy
<1>5. Tidy(s, {} \union A)
  <2> HIDE DEF u
  <2> QED BY <1>4, CatTidy
<1>6. Tidy(s, A) BY <1>5
<1>7. Tells(b, s) OBVIOUS
<1>8. s = DevChanges(b, bz) \o v OBVIOUS
<1> HIDE DEF s
<1>9. TellsWell(b, s, a) BY <1>2, <1>6, <1>7, TellsWellSo
<1>10. Changed(b, s, a) BY <1>2, <1>3, <1>8 DEF Changed
<1> QED BY <1>9, <1>10 DEF BluezDoes

\* A device is gone.
LEMMA RemovedSo ==
  ASSUME BtAssumption, BtSound, bz.adapter, NEW d, d \in BtDevices, NEW F, F = {t \in bz.slow : t.dev = d},
         NEW b, DevAs(b, d, Absent, bz.slow \ F),
         NEW a, NEW v, Tidy(v, a), Moved(g, g', a), a \intersect bz.slow = {},
         Tells(b, Fails(F) \o <<About("removed", d, Absent)>> \o v),
         AndReply(a, v, "remove")
  PROVE  \E w, s, k : BluezDoes(w, s, k)
<1>1. BzOk(bz) BY DEF BtSound
<1> DEFINE slow == bz.slow \ F
<1>2. slow \subseteq bz.slow /\ \A c \in slow : c.dev # d OBVIOUS
<1>3. DevAs(b, d, Absent, slow) OBVIOUS
<1> HIDE DEF slow
<1>4. /\ BzOk(b) /\ SameHost(b) /\ b.search = bz.search /\ b.slow = slow
      /\ b.devs = [bz.devs EXCEPT ![d] = Absent]
  <2>1. DevFits(d, Absent, slow) BY <1>2, AbsentSo DEF DevFits
  <2>2. DevNow(b, d, Absent, slow) BY <1>1, <1>3, <2>1, DevSo
  <2> QED BY <2>2 DEF DevNow
<1>5. F \subseteq bz.slow /\ F \subseteq BtCalls /\ IsFiniteSet(F) /\ \A c \in F : ~c.stale
  <2>1. bz.slow \subseteq BtCalls /\ IsFiniteSet(bz.slow) /\ \A c \in bz.slow : ~c.stale
    BY <1>1, BzTypes DEF BzOk
  <2> QED BY <2>1, FS_Subset
<1> DEFINE p == Fails(F)
           q == <<About("removed", d, Absent)>>
           s == (p \o q) \o v
<1>6. Tidy(p, F) BY <1>5, FailsTidy
<1>7. Tidy(q, {})
  <2>1. About("removed", d, Absent) \in BtMsgs /\ About("removed", d, Absent).kind # "reply" BY SaidSo
  <2> QED BY <2>1, OneTidy
<1>8. s = p \o q \o v /\ s = Fails(F) \o <<About("removed", d, Absent)>> \o v OBVIOUS
<1>9. Tells(b, s) OBVIOUS
<1>10. Tidy(s, F \union a)
  <2> HIDE DEF p, q
  <2>1. Tidy(p \o q, F \union {}) BY <1>6, <1>7, CatTidy
  <2>2. Tidy(p \o q, F) BY <2>1
  <2>3. F \intersect a = {} BY <1>5
  <2> QED BY <2>2, <2>3, CatTidy
<1> HIDE DEF s
<1> DEFINE A == F \union a
<1>11. A \subseteq bz.slow \union a /\ A \intersect b.slow = {} /\ b.slow \subseteq bz.slow \union a
  BY <1>2, <1>4, <1>5 DEF slow
<1>12. TellsWell(b, s, a)
  <2>1. Tidy(s, A) BY <1>10
  <2> HIDE DEF A
  <2> QED BY <1>4, <1>9, <1>11, <2>1, TellsWellSo
<1>13. Removed(b, s, a)
  <2>1. b.slow = bz.slow \ F BY <1>4 DEF slow
  <2> QED BY <1>4, <1>5, <1>8, <2>1 DEF Removed
<1> QED BY <1>12, <1>13 DEF BluezDoes

LEMMA UnpoweredSo ==
  ASSUME BzOk(bz), NEW b, b = Unpowered(bz)
  PROVE  /\ BzOk(b) /\ NowUnpowered(b) /\ b.up = bz.up /\ b.adapter = bz.adapter
<1>1. bz \in BtBluez /\ bz.devs \in [BtDevices -> BtFacts] BY BzTypes DEF BzOk
<1> DEFINE f == [d \in BtDevices |-> [bz.devs[d] EXCEPT !.connected = FALSE]]
           no == {}
<1>2. b = [bz EXCEPT !.powered = FALSE, !.search = FALSE, !.slow = no, !.devs = f] BY DEF Unpowered
<1>3. ASSUME NEW d \in BtDevices
      PROVE  /\ f[d] \in BtFacts /\ f[d].there = bz.devs[d].there
             /\ (~bz.devs[d].there => f[d] = bz.devs[d])
  <2>1. bz.devs[d] \in BtFacts /\ f[d] = [bz.devs[d] EXCEPT !.connected = FALSE] BY <1>1
  <2>2. f[d] \in BtFacts /\ f[d].there = bz.devs[d].there BY <2>1 DEF BtFacts
  <2>3. [Absent EXCEPT !.connected = FALSE] = Absent
    <3>1. \A e \in BtFacts : e.connected = FALSE => [e EXCEPT !.connected = FALSE] = e BY DEF BtFacts
    <3>2. Absent \in BtFacts /\ Absent.connected = FALSE BY DEF Absent, BtFacts
    <3> QED BY <3>1, <3>2
  <2>4. ~bz.devs[d].there => bz.devs[d] = Absent BY DEF BzOk
  <2> QED BY <2>1, <2>2, <2>3, <2>4
<1>4. f \in [BtDevices -> BtFacts] BY <1>3
<1>5. no \in SUBSET BtCalls /\ IsFiniteSet(no) /\ no = {} BY FS_EmptySet
<1> HIDE DEF f, no
<1>6. b \in BtBluez /\ b.devs = f /\ b.slow = {} /\ ~b.powered /\ ~b.search /\ b.up = bz.up /\ b.adapter = bz.adapter
  BY <1>1, <1>2, <1>4, <1>5 DEF BtBluez
<1>7. \A d \in BtDevices : /\ b.devs[d].there = bz.devs[d].there /\ (b.devs[d] # bz.devs[d] => b.devs[d].there)
                         /\ (b.devs[d].there \/ b.devs[d] = Absent)
  <2> TAKE d \in BtDevices
  <2>1. bz.devs[d] \in BtFacts /\ (bz.devs[d].there \/ bz.devs[d] = Absent) BY <1>1 DEF BzOk
  <2> QED BY <1>3, <1>6, <2>1, FactTypes
<1>8. BzOk(b) BY <1>5, <1>6, <1>7 DEF BzOk
<1> QED BY <1>6, <1>7, <1>8 DEF NowUnpowered

LEMMA LostSo ==
  ASSUME BzOk(bz), NEW b, NEW up, up \in {bz.up, FALSE}, b = [Kept(Unpowered(bz)) EXCEPT !.up = up]
  PROVE  BzOk(b) /\ Lost(b) /\ b.up = up
<1> DEFINE n == Unpowered(bz)
<1>1. BzOk(n) /\ NowUnpowered(n)
  <2>1. n = Unpowered(bz) OBVIOUS
  <2> HIDE DEF n
  <2> QED BY <2>1, UnpoweredSo
<1> DEFINE f == [d \in BtDevices |-> IF n.devs[d].paired THEN n.devs[d] ELSE Absent]
<1>2. b = [n EXCEPT !.adapter = FALSE, !.devs = f, !.up = up] BY DEF Kept
<1> HIDE DEF n
<1>3. n \in BtBluez /\ n.devs \in [BtDevices -> BtFacts] BY <1>1, BzTypes DEF BzOk
<1>4. f \in [BtDevices -> BtFacts] BY <1>3, AbsentSo
<1>5. \A d \in BtDevices : (f[d] = n.devs[d] \/ f[d] = Absent) OBVIOUS
<1> HIDE DEF f
<1>6. bz \in BtBluez BY DEF BzOk
<1>7. up \in BOOLEAN BY <1>6, BzTypes
<1>8. b \in BtBluez /\ ~b.adapter /\ b.devs = f /\ b.up = up /\ b.powered = n.powered /\ b.search = n.search
      /\ b.slow = n.slow
  BY <1>2, <1>3, <1>4, <1>7 DEF BtBluez
<1>9. \A d \in BtDevices : b.devs[d].there \/ b.devs[d] = Absent BY <1>1, <1>5, <1>8 DEF BzOk
<1>10. ~b.powered /\ ~b.search /\ b.slow = {} BY <1>1, <1>8 DEF NowUnpowered
<1>11. BzOk(b) BY <1>8, <1>9, <1>10, FS_EmptySet DEF BzOk
<1>12. \A d \in BtDevices : b.devs[d].there => bz.devs[d].there
  <2> TAKE d \in BtDevices
  <2>1. n.devs[d].there = bz.devs[d].there BY <1>1 DEF NowUnpowered
  <2> QED BY <1>5, <1>8, <2>1, AbsentSo
<1> QED BY <1>8, <1>10, <1>11, <1>12 DEF Lost

\* Turned off and on.
LEMMA SwitchSo ==
  ASSUME BtAssumption, BtSound, bz.adapter, NEW on \in BOOLEAN, NEW a, NEW v, Tidy(v, a), Moved(g, g', a),
         a \intersect bz.slow = {}, AndReply(a, v, "power"), Switch(on, v)
  PROVE  \E w, s, k : BluezDoes(w, s, k)
<1> DEFINE b == IF on THEN [bz EXCEPT !.powered = TRUE] ELSE Unpowered(bz)
           q == IF b.powered # bz.powered THEN <<SignalOf("powered", on)>> ELSE <<>>
           u == DevChanges(b, bz)
           F == bz.slow \ b.slow
           t == Fails(F)
           s == ((u \o q) \o t) \o v
<1>1. BzOk(bz) BY DEF BtSound
<1>2. Tells(b, s) /\ s = DevChanges(b, bz) \o q \o Fails(bz.slow \ b.slow) \o v BY DEF Switch
<1>3. /\ BzOk(b) /\ b.powered = on /\ b.up = bz.up /\ b.adapter = bz.adapter
      /\ \/ b.powered /\ b.search = bz.search /\ b.slow = bz.slow /\ b.devs = bz.devs
         \/ NowUnpowered(b)
  <2>1. CASE on
    <3>1. b = [bz EXCEPT !.powered = TRUE] BY <2>1
    <3> HIDE DEF b
    <3>2. b \in BtBluez /\ b.powered = TRUE /\ b.up = bz.up /\ b.adapter = bz.adapter /\ b.search = bz.search
          /\ b.slow = bz.slow /\ b.devs = bz.devs
      BY <1>1, <3>1 DEF BzOk, BtBluez
    <3>3. BzOk(b) BY <1>1, <3>2 DEF BzOk
    <3> QED BY <2>1, <3>2, <3>3
  <2>2. CASE ~on
    <3>1. b = Unpowered(bz) BY <2>2
    <3> HIDE DEF b
    <3>2. BzOk(b) /\ NowUnpowered(b) /\ b.up = bz.up /\ b.adapter = bz.adapter BY <1>1, <3>1, UnpoweredSo
    <3>3. b.powered \in BOOLEAN /\ ~b.powered BY <3>2, BzTypes DEF BzOk, NowUnpowered
    <3> QED BY <2>2, <3>2, <3>3
  <2> QED BY <2>1, <2>2
<1> HIDE DEF b
<1>4. \A d \in BtDevices : b.devs[d] # bz.devs[d] => b.devs[d].there BY <1>3 DEF NowUnpowered
<1>5. Tidy(u, {}) BY <1>3, <1>4, ChangesTidy
<1>6. Tidy(q, {})
  <2>1. SignalOf("powered", on) \in BtMsgs /\ SignalOf("powered", on).kind # "reply" BY SaidSo
  <2> QED BY <2>1, OneTidy
<1>7. F \subseteq bz.slow /\ F \subseteq BtCalls /\ IsFiniteSet(F) /\ \A c \in F : ~c.stale
  <2>1. bz.slow \subseteq BtCalls /\ IsFiniteSet(bz.slow) /\ \A c \in bz.slow : ~c.stale
    BY <1>1, BzTypes DEF BzOk
  <2>2. F \subseteq bz.slow OBVIOUS
  <2> HIDE DEF F
  <2> QED BY <2>1, <2>2, FS_Subset
<1>8. F \intersect b.slow = {} OBVIOUS
<1> HIDE DEF F
<1>9. Tidy(t, F) BY <1>7, FailsTidy
<1>10. Tidy(s, F \union a)
  <2> HIDE DEF u, q, t
  <2>1. Tidy(u \o q, {} \union {}) BY <1>5, <1>6, CatTidy
  <2>2. Tidy(u \o q, {}) BY <2>1
  <2>3. Tidy((u \o q) \o t, {} \union F) BY <1>9, <2>2, CatTidy
  <2>4. Tidy((u \o q) \o t, F) BY <2>3
  <2>5. F \intersect a = {} BY <1>7
  <2> QED BY <2>4, <2>5, CatTidy
<1> DEFINE A == F \union a
<1>11. A \subseteq bz.slow \union a /\ A \intersect b.slow = {} /\ b.slow \subseteq bz.slow \union a
  BY <1>3, <1>7, <1>8 DEF NowUnpowered
<1>12. Tidy(s, A) BY <1>10
<1>13. q = (IF b.powered # bz.powered THEN <<SignalOf("powered", b.powered)>> ELSE <<>>) BY <1>3
<1> HIDE DEF s, A, q
<1>14. TellsWell(b, s, a) BY <1>2, <1>3, <1>11, <1>12, TellsWellSo
<1>15. b.adapter BY <1>3
<1>16. Switches(b, s, a)
  <2>1. \E p, x : /\ p = (IF b.powered # bz.powered THEN <<SignalOf("powered", b.powered)>> ELSE <<>>)
                  /\ s = DevChanges(b, bz) \o p \o Fails(bz.slow \ b.slow) \o x /\ AndReply(a, x, "power")
    BY <1>2, <1>13
  <2> QED BY <1>3, <1>15, <2>1 DEF Switches
<1> QED BY <1>14, <1>16 DEF BluezDoes

LEMMA OthersSwitchSo ==
  ASSUME BtAssumption, BtSound, OthersSwitch
  PROVE  \E w, s, k : BluezDoes(w, s, k)
<1> DEFINE v == <<>>
           a == {}
           on == ~bz.powered
<1>1. bz.adapter /\ Switch(on, v) /\ g' = g BY DEF OthersSwitch
<1>2. on \in BOOLEAN OBVIOUS
<1>3. Tidy(v, a) /\ a \intersect bz.slow = {} BY OneTidy
<1>4. Moved(g, g', a) BY <1>1 DEF Moved
<1>5. AndReply(a, v, "power") BY DEF AndReply
<1> HIDE DEF v, a, on
<1> QED BY <1>1, <1>2, <1>3, <1>4, <1>5, SwitchSo

\* Down, and unplugged.
LEMMA BluezDownSo ==
  ASSUME BtAssumption, BtSound, BluezDown
  PROVE  \E w, s, k : BluezDoes(w, s, k)
<1> DEFINE no == FALSE
           b == [Kept(Unpowered(bz)) EXCEPT !.up = no]
           n == <<SignalOf("name", FALSE)>>
           F == Fails(bz.slow)
           a == {}
<1>0. /\ bz.up /\ g' = g /\ b = [Kept(Unpowered(bz)) EXCEPT !.up = FALSE]
      /\ (Tells(b, F \o n) \/ Tells(b, n \o F))
  BY DEF BluezDown, Happens
<1>1. BzOk(bz) BY DEF BtSound
<1>2. BzOk(b) /\ Lost(b) /\ b.up = FALSE
  <2>1. no \in {bz.up, FALSE} OBVIOUS
  <2>2. b = [Kept(Unpowered(bz)) EXCEPT !.up = no] OBVIOUS
  <2> HIDE DEF b
  <2>3. BzOk(b) /\ Lost(b) /\ b.up = no
    <3> HIDE DEF no
    <3> QED BY <1>1, <2>1, <2>2, LostSo
  <2> QED BY <2>3
<1> HIDE DEF b
<1>3. Tidy(n, {})
  <2>1. SignalOf("name", FALSE) \in BtMsgs /\ SignalOf("name", FALSE).kind # "reply" BY SaidSo
  <2> QED BY <2>1, OneTidy
<1>4. Tidy(F, bz.slow)
  <2>1. bz.slow \subseteq BtCalls /\ IsFiniteSet(bz.slow) /\ \A c \in bz.slow : ~c.stale
    BY <1>1, BzTypes DEF BzOk
  <2> QED BY <2>1, FailsTidy
<1>5. ASSUME NEW s, s = F \o n \/ s = n \o F, Tells(b, s) PROVE BluezDoes(b, s, a)
  <2>1. Tidy(s, bz.slow)
    <3> HIDE DEF F, n
    <3>1. Tidy(F \o n, bz.slow \union {}) BY <1>3, <1>4, CatTidy
    <3>2. Tidy(n \o F, {} \union bz.slow) BY <1>3, <1>4, CatTidy
    <3>3. bz.slow \union {} = bz.slow /\ {} \union bz.slow = bz.slow OBVIOUS
    <3> QED BY <1>5, <3>1, <3>2, <3>3
  <2>2. b.slow = {} BY <1>2 DEF Lost
  <2>3. Moved(g, g', a) BY <1>0 DEF Moved
  <2>4. bz.slow \subseteq bz.slow \union a /\ bz.slow \intersect b.slow = {} /\ b.slow \subseteq bz.slow \union a BY <2>2
  <2>5. Downs(b, s, a) BY <1>0, <1>2, <1>5 DEF Downs
  <2> HIDE DEF a
  <2>6. TellsWell(b, s, a) BY <1>2, <1>5, <2>1, <2>3, <2>4, TellsWellSo
  <2> QED BY <2>5, <2>6 DEF BluezDoes
<1> QED BY <1>0, <1>5

LEMMA UnplugSo ==
  ASSUME BtAssumption, BtSound, Unplug
  PROVE  \E w, s, k : BluezDoes(w, s, k)
<1> DEFINE k == Kept(Unpowered(bz))
           up == bz.up
           b == [k EXCEPT !.up = up]
           n == <<SignalOf("unplugged", FALSE)>>
           F == Fails(bz.slow)
           a == {}
           s == F \o n
<1>0. bz.adapter /\ g' = g /\ Tells(k, s) BY DEF Unplug, Happens
<1>1. BzOk(bz) BY DEF BtSound
<1>2. BzOk(b) /\ Lost(b) /\ b.up = bz.up
  <2>1. up \in {bz.up, FALSE} OBVIOUS
  <2>2. b = [Kept(Unpowered(bz)) EXCEPT !.up = up] OBVIOUS
  <2> HIDE DEF b
  <2> QED BY <1>1, <2>1, <2>2, LostSo
<1>3. k = b
  <2> DEFINE u == Unpowered(bz)
  <2>1. BzOk(u) /\ u.up = bz.up
    <3>1. u = Unpowered(bz) OBVIOUS
    <3> HIDE DEF u
    <3> QED BY <1>1, <3>1, UnpoweredSo
  <2>2. k = [u EXCEPT !.adapter = FALSE, !.devs = [d \in BtDevices |-> IF u.devs[d].paired THEN u.devs[d] ELSE Absent]]
    BY DEF Kept
  <2> DEFINE f == [d \in BtDevices |-> IF u.devs[d].paired THEN u.devs[d] ELSE Absent]
  <2> HIDE DEF u
  <2>3. k = [u EXCEPT !.adapter = FALSE, !.devs = f] BY <2>2
  <2>4. u \in BtBluez BY <2>1 DEF BzOk
  <2> HIDE DEF f, k
  <2> QED BY <2>1, <2>3, <2>4 DEF BtBluez
<1>4. Tells(b, s) BY <1>0, <1>3
<1> HIDE DEF b, k
<1>5. Tidy(n, {})
  <2>1. SignalOf("unplugged", FALSE) \in BtMsgs /\ SignalOf("unplugged", FALSE).kind # "reply" BY SaidSo
  <2> QED BY <2>1, OneTidy
<1>6. Tidy(F, bz.slow)
  <2>1. bz.slow \subseteq BtCalls /\ IsFiniteSet(bz.slow) /\ \A c \in bz.slow : ~c.stale
    BY <1>1, BzTypes DEF BzOk
  <2> QED BY <2>1, FailsTidy
<1>7. Tidy(s, bz.slow)
  <2> HIDE DEF F, n
  <2>1. Tidy(F \o n, bz.slow \union {}) BY <1>5, <1>6, CatTidy
  <2>2. bz.slow \union {} = bz.slow OBVIOUS
  <2> QED BY <2>1, <2>2
<1>8. b.slow = {} BY <1>2 DEF Lost
<1>9. Moved(g, g', a) BY <1>0 DEF Moved
<1>10. bz.slow \subseteq bz.slow \union a /\ bz.slow \intersect b.slow = {} /\ b.slow \subseteq bz.slow \union a BY <1>8
<1>11. Unplugs(b, s, a)
  <2>1. bz.up BY <1>0, <1>1 DEF BzOk
  <2> QED BY <1>0, <1>2, <2>1 DEF Unplugs
<1> HIDE DEF a, s
<1>12. TellsWell(b, s, a) BY <1>2, <1>4, <1>7, <1>9, <1>10, TellsWellSo
<1> QED BY <1>11, <1>12 DEF BluezDoes

\* Back, and plugged in.
LEMMA BluezUpSo ==
  ASSUME BtAssumption, BtSound, BluezUp
  PROVE  \E w, s, k : BluezDoes(w, s, k)
<1> DEFINE b == [bz EXCEPT !.up = TRUE]
           s == <<SignalOf("name", TRUE)>>
           a == {}
<1>0. ~bz.up /\ g' = g /\ Tells(b, s) BY DEF BluezUp
<1>1. BzOk(bz) /\ bz \in BtBluez BY DEF BtSound, BzOk
<1>2. /\ b \in BtBluez /\ b.up = TRUE /\ b.adapter = bz.adapter /\ b.powered = bz.powered /\ b.search = bz.search
      /\ b.slow = bz.slow /\ b.devs = bz.devs
  BY <1>1 DEF BtBluez
<1> HIDE DEF b
<1>3. BzOk(b) BY <1>1, <1>2 DEF BzOk
<1>4. Tidy(s, {})
  <2>1. SignalOf("name", TRUE) \in BtMsgs /\ SignalOf("name", TRUE).kind # "reply" BY SaidSo
  <2> QED BY <2>1, OneTidy
<1>5. Moved(g, g', a) BY <1>0 DEF Moved
<1>6. Ups(b, s, a) BY <1>0, <1>2 DEF Ups
<1>7. a = {} OBVIOUS
<1> HIDE DEF a, s
<1>8. TellsWell(b, s, a) BY <1>0, <1>2, <1>3, <1>4, <1>5, <1>7, TellsWellSo
<1> QED BY <1>6, <1>8 DEF BluezDoes

LEMMA PlugSo ==
  ASSUME BtAssumption, BtSound, Plug
  PROVE  \E w, s, k : BluezDoes(w, s, k)
<1> DEFINE b == [bz EXCEPT !.adapter = TRUE, !.powered = TRUE]
           p == <<SignalOf("adapter", TRUE)>>
           S == {d \in BtDevices : bz.devs[d].there}
           kind == "added"
           q == AboutEach(kind, S, bz)
           s == p \o q
           a == {}
<1>0. bz.up /\ ~bz.adapter /\ g' = g /\ Tells(b, s) /\ s = <<SignalOf("adapter", TRUE)>>
                   \o AboutEach("added", {d \in BtDevices : bz.devs[d].there}, bz) BY DEF Plug
<1>1. BzOk(bz) /\ bz \in BtBluez BY DEF BtSound, BzOk
<1>2. /\ b \in BtBluez /\ b.up = bz.up /\ b.adapter = TRUE /\ b.powered = TRUE /\ b.search = bz.search
      /\ b.slow = bz.slow /\ b.devs = bz.devs
  BY <1>1 DEF BtBluez
<1> HIDE DEF b
<1>3. BzOk(b) BY <1>0, <1>1, <1>2 DEF BzOk
<1>4. Tidy(p, {})
  <2>1. SignalOf("adapter", TRUE) \in BtMsgs /\ SignalOf("adapter", TRUE).kind # "reply" BY SaidSo
  <2> QED BY <2>1, OneTidy
<1>5. Tidy(q, {})
  <2>1. S \subseteq BtDevices /\ \A d \in S : bz.devs[d] \in BtFacts /\ bz.devs[d].there BY <1>1, BzTypes
  <2>2. kind \in {"added", "changed"} OBVIOUS
  <2> HIDE DEF S, kind
  <2> QED BY <2>1, <2>2, AboutEachSo DEF Tidy
<1>6. Tidy(s, {})
  <2> HIDE DEF p, q
  <2>1. Tidy(p \o q, {} \union {}) BY <1>4, <1>5, CatTidy
  <2> QED BY <2>1
<1>7. Moved(g, g', a) BY <1>0 DEF Moved
<1>8. ~bz.search /\ bz.slow = {} BY <1>0, <1>1 DEF BzOk
<1>9. a = {} OBVIOUS
<1> HIDE DEF a, s
<1>10. Plugs(b, s, a) BY <1>0, <1>2, <1>8, <1>9 DEF Plugs
<1>11. TellsWell(b, s, a) BY <1>0, <1>2, <1>3, <1>6, <1>7, <1>9, TellsWellSo
<1> QED BY <1>10, <1>11 DEF BluezDoes

\* A device is found, forgotten, comes or goes.
LEMMA AppearSo ==
  ASSUME BtAssumption, BtSound, NEW d \in BtDevices, Appear(d)
  PROVE  \E w, s, k : BluezDoes(w, s, k)
<1> DEFINE f == [bz.devs EXCEPT ![d] = Found]
           b == [bz EXCEPT !.devs = f]
           s == <<About("added", d, Found)>>
           a == {}
<1>0. bz.search /\ ~bz.devs[d].there /\ g' = g /\ Tells(b, s) BY DEF Appear
<1>1. BzOk(bz) /\ bz \in BtBluez /\ bz.devs \in [BtDevices -> BtFacts] BY BzTypes DEF BtSound, BzOk
<1>2. f \in [BtDevices -> BtFacts] /\ f[d] = Found /\ \A k \in BtDevices : k # d => f[k] = bz.devs[k] BY <1>1, AbsentSo
<1>20. f = [bz.devs EXCEPT ![d] = Found] OBVIOUS
<1> HIDE DEF f
<1>4. b = [bz EXCEPT !.devs = [bz.devs EXCEPT ![d] = Found], !.slow = bz.slow]
  <2>1. b = [bz EXCEPT !.devs = f, !.slow = bz.slow] BY <1>1 DEF BtBluez
  <2> HIDE DEF b
  <2> QED BY <1>20, <2>1
<1>3. /\ b \in BtBluez /\ SameHost(b) /\ b.search = bz.search /\ b.slow = bz.slow /\ b.devs = f
  BY <1>1, <1>2 DEF BtBluez, SameHost
<1> HIDE DEF b
<1>6. BzOk(b)
  <2> DEFINE slow == bz.slow
  <2>1. DevFits(d, Found, slow) BY AbsentSo DEF DevFits
  <2>2. DevAs(b, d, Found, slow) BY <1>4 DEF DevAs
  <2> HIDE DEF slow
  <2>3. DevNow(b, d, Found, slow) BY <1>1, <2>1, <2>2, DevSo
  <2> QED BY <2>3 DEF DevNow
<1>7. Tidy(s, {})
  <2>1. About("added", d, Found) \in BtMsgs /\ About("added", d, Found).kind # "reply" BY SaidSo
  <2> QED BY <2>1, OneTidy
<1>8. Moved(g, g', a) BY <1>0 DEF Moved
<1>9. Finds(b, s, a) BY <1>0, <1>3, <1>20 DEF Finds
<1>10. a = {} OBVIOUS
<1> HIDE DEF a, s
<1>11. TellsWell(b, s, a) BY <1>0, <1>3, <1>6, <1>7, <1>8, <1>10, TellsWellSo
<1> QED BY <1>9, <1>11 DEF BluezDoes

LEMMA VanishSo ==
  ASSUME BtAssumption, BtSound, NEW d \in BtDevices, Vanish(d)
  PROVE  \E w, s, k : BluezDoes(w, s, k)
<1> DEFINE F == {t \in bz.slow : t.dev = d}
           f == [bz.devs EXCEPT ![d] = Absent]
           slow == bz.slow \ F
           b == [bz EXCEPT !.devs = f]
           p == <<About("removed", d, Absent)>>
           v == <<>>
           a == {}
<1>0. bz.adapter /\ (\A c \in bz.slow : c.dev # d) /\ g' = g /\ Tells(b, p) BY DEF Vanish, Happens
<1>1. BzOk(bz) /\ bz \in BtBluez BY DEF BtSound, BzOk
<1>2. F = {} /\ slow = bz.slow BY <1>0
<1>3. b = [bz EXCEPT !.devs = f, !.slow = slow]
  <2> HIDE DEF f, slow, F
  <2> QED BY <1>1, <1>2 DEF BtBluez
<1>4. DevAs(b, d, Absent, bz.slow \ F) BY <1>3 DEF DevAs
<1>5. Fails(F) \o p \o v = p
  <2>1. Fails(F) = <<>>
    <3>1. Cardinality(F) = 0 BY <1>2, FS_EmptySet
    <3>2. 1..Cardinality(F) = {} BY <3>1
    <3>3. Fails(F) = [i \in 1..Cardinality(F) |-> Reply(SetToSeq(F)[i], "failed")] BY DEF Fails
    <3> HIDE DEF F
    <3> QED BY <3>2, <3>3
  <2>2. p \in Seq(BtMsgs)
    <3>1. About("removed", d, Absent) \in BtMsgs BY SaidSo
    <3> QED BY <3>1
  <2> HIDE DEF p
  <2> QED BY <2>1, <2>2, ConcatEmptySeq
<1>6. Tells(b, Fails(F) \o <<About("removed", d, Absent)>> \o v) BY <1>0, <1>5
<1>7. Tidy(v, a) /\ a \intersect bz.slow = {} /\ AndReply(a, v, "remove") BY OneTidy DEF AndReply
<1>8. Moved(g, g', a) BY <1>0 DEF Moved
<1>9. F = {t \in bz.slow : t.dev = d} OBVIOUS
<1> HIDE DEF F, b, p, v, a
<1> QED BY <1>0, <1>4, <1>6, <1>7, <1>8, <1>9, RemovedSo

LEMMA ComeOrGoSo ==
  ASSUME BtAssumption, BtSound, NEW d \in BtDevices, ComeOrGo(d)
  PROVE  \E w, s, k : BluezDoes(w, s, k)
<1> DEFINE no == ~bz.devs[d].connected
           e == [bz.devs[d] EXCEPT !.connected = no]
           f == [bz.devs EXCEPT ![d] = e]
           b == [bz EXCEPT !.devs = f]
           slow == bz.slow
           v == <<>>
           a == {}
<1>0. bz.devs[d].paired /\ g' = g /\ Tells(b, DevChanges(b, bz)) BY DEF ComeOrGo, Happens
<1>1. BzOk(bz) /\ bz \in BtBluez /\ bz.devs[d] \in BtFacts BY BzTypes DEF BtSound, BzOk
<1>2. bz.devs[d].there BY <1>0, <1>1, AbsentSo DEF BzOk
<1>3. e \in BtFacts /\ e.there
  <2>1. no \in BOOLEAN OBVIOUS
  <2> HIDE DEF no
  <2> QED BY <1>1, <1>2, <2>1 DEF BtFacts
<1>4. b = [bz EXCEPT !.devs = f, !.slow = slow]
  <2> HIDE DEF f
  <2> QED BY <1>1 DEF BtBluez
<1>5. DevAs(b, d, e, slow) BY <1>4 DEF DevAs
<1>6. DevNow(b, d, e, slow)
  <2>1. DevFits(d, e, slow) BY <1>3 DEF DevFits
  <2> HIDE DEF b, e, slow
  <2> QED BY <1>1, <1>5, <2>1, DevSo
<1>7. DevChanges(b, bz) \in Seq(BtMsgs)
  <2> HIDE DEF b, e, slow
  <2>1. \A k \in BtDevices : b.devs[k] # bz.devs[k] => b.devs[k].there BY <1>3, <1>6 DEF DevNow
  <2>2. BzOk(b) BY <1>6 DEF DevNow
  <2> QED BY <2>1, <2>2, ChangesTidy DEF Tidy
<1>8. Tells(b, DevChanges(b, bz) \o v) BY <1>0, <1>7, ConcatEmptySeq
<1>9. Tidy(v, a) /\ a \subseteq slow \union a /\ a \intersect slow = {} /\ AndReply(a, v, "trust") BY OneTidy DEF AndReply
<1>10. Moved(g, g', a) BY <1>0 DEF Moved
<1>11. slow \subseteq bz.slow /\ a \subseteq bz.slow \union a OBVIOUS
<1> HIDE DEF e, b, slow, v, a
<1> QED BY <1>2, <1>3, <1>5, <1>8, <1>9, <1>10, <1>11, ChangedSo

LEMMA DoneSo ==
  ASSUME BtAssumption, BtSound, NEW c \in bz.slow, NEW ok \in BOOLEAN, Done(c, ok)
  PROVE  \E w, s, k : BluezDoes(w, s, k)
<1> DEFINE d == c.dev
           o == bz.devs[d]
           e == IF ~ok THEN o
                ELSE CASE c.what = "pair" -> [o EXCEPT !.paired = TRUE, !.connected = TRUE]
                       [] OTHER           -> [o EXCEPT !.connected = (c.what = "connect")]
           slow == bz.slow \ {c}
           f == [bz.devs EXCEPT ![d] = e]
           b == [bz EXCEPT !.slow = slow, !.devs = f]
           m == Reply(c, IF ok THEN "done" ELSE "failed")
           v == <<m>>
           a == {}
           A == {c}
<1>0. g' = g /\ Tells(b, DevChanges(b, bz) \o v) BY DEF Done
<1>1. /\ BzOk(bz) /\ bz \in BtBluez /\ bz.devs \in [BtDevices -> BtFacts] /\ bz.slow \subseteq BtCalls
  BY BzTypes DEF BtSound, BzOk
<1>2. c \in BtCalls /\ ~c.stale /\ c.what \in Reaches /\ d \in BtDevices /\ bz.devs[d].there
  BY <1>1, CallTypes DEF BzOk
<1>3. o \in BtFacts /\ o.there BY <1>1, <1>2
<1>4. e \in BtFacts /\ e.there
  <2> DEFINE on == (c.what = "connect")
  <2>1. on \in BOOLEAN OBVIOUS
  <2>2. e = o \/ e = [o EXCEPT !.paired = TRUE, !.connected = TRUE] \/ e = [o EXCEPT !.connected = on] OBVIOUS
  <2> HIDE DEF e, o, on
  <2> QED BY <1>3, <2>1, <2>2 DEF BtFacts
<1>5. b = [bz EXCEPT !.devs = f, !.slow = slow]
  <2> HIDE DEF f, slow
  <2> QED BY <1>1 DEF BtBluez
<1>6. DevAs(b, d, e, slow) BY <1>5 DEF DevAs
<1>7. m \in BtMsgs /\ m.kind = "reply" /\ m.call = c
  <2>1. (IF ok THEN "done" ELSE "failed") \in {"done", "failed", "already"} OBVIOUS
  <2> QED BY <1>2, <2>1, ReplySo
<1> HIDE DEF m
<1>8. Tidy(v, A) BY <1>7, OneTidy
<1>9. AndLate(a, v) BY <1>2, <1>7 DEF AndLate
<1>10. Moved(g, g', a) BY <1>0 DEF Moved
<1>11. slow \subseteq bz.slow /\ A \subseteq bz.slow \union a /\ A \intersect slow = {} OBVIOUS
<1> HIDE DEF b, e, slow, v, a, A, d
<1> QED BY <1>0, <1>2, <1>4, <1>6, <1>8, <1>9, <1>10, <1>11, ChangedSo

\* A call is answered after only the search changes.
LEMMA TakeSearchSo ==
  ASSUME BtAssumption, BtSound, g.asked # <<>>, NEW c, c = Head(g.asked), g' = [g EXCEPT !.asked = Tail(@)],
         NEW on \in BOOLEAN, on => bz.powered /\ c.what = "start", ~on => c.what = "stop",
         NEW b, b = [bz EXCEPT !.search = on], Tells(b, DevChanges(b, bz) \o <<Reply(c, "done")>>)
  PROVE  \E w, s, k : BluezDoes(w, s, k)
<1> DEFINE m == Reply(c, "done")
           s == <<m>>
<1>1. BzOk(bz) BY DEF BtSound
<1>2. BzOk(b) /\ SameHost(b) /\ b.devs = bz.devs /\ b.slow = bz.slow /\ b.search = on BY <1>1, SearchingSo
<1>3. c \in BtCalls /\ ~c.stale BY TakenSo
<1>4. m \in BtMsgs /\ m.kind = "reply" /\ m.call = c /\ m.err = "done" BY <1>3, ReplySo
<1>5. Tells(b, s)
  <2>1. DevChanges(b, bz) = <<>> BY <1>2, NoChanges
  <2>2. s \in Seq(BtMsgs) BY <1>4
  <2>3. <<>> \o s = s
    <3> HIDE DEF s
    <3> QED BY <2>2, ConcatEmptySeq
  <2>4. Tells(b, DevChanges(b, bz) \o s) OBVIOUS
  <2> QED BY <2>1, <2>3, <2>4
<1> HIDE DEF m
<1>6. s = <<m>> OBVIOUS
<1> HIDE DEF s
<1>7. \/ c.what = "start" /\ IF m.err = "failed" THEN b.search = bz.search ELSE b.search
      \/ c.what = "stop" /\ ~b.search
      \/ c.what \notin {"start", "stop"} /\ b.search = bz.search
  BY <1>2, <1>4
<1>8. c.what # "objects" OBVIOUS
<1>9. \E w, k : BluezDoes(b, w, k) BY <1>2, <1>4, <1>5, <1>6, <1>7, <1>8, AnswersSo
<1> QED BY <1>9

LEMMA TakeObjectsSo ==
  ASSUME BtAssumption, BtSound, g.asked # <<>>, NEW c, c = Head(g.asked), g' = [g EXCEPT !.asked = Tail(@)],
         c.what = "objects", bz.up, Tells(bz, <<[Reply(c, "done") EXCEPT !.objects = Objects]>>)
  PROVE  \E w, s, k : BluezDoes(w, s, k)
<1> DEFINE o == Objects
           m == [Reply(c, "done") EXCEPT !.objects = o]
           s == <<m>>
<1>1. BzOk(bz) /\ bz \in BtBluez BY DEF BtSound, BzOk
<1>2. c \in BtCalls /\ ~c.stale BY TakenSo
<1>3. o \in BtObjects
  <2>1. bz.powered \in BOOLEAN /\ bz.adapter \in BOOLEAN /\ bz.devs \in [BtDevices -> BtFacts] BY <1>1, BzTypes
  <2>2. Empty \in BtObjects BY DEF BtObjects, Empty, Absent, BtFacts
  <2>3. bz.adapter => o = [adapter |-> TRUE, powered |-> bz.powered, devs |-> bz.devs] BY DEF Objects
  <2>4. ~bz.adapter => o = Empty BY DEF Objects
  <2>5. [adapter |-> TRUE, powered |-> bz.powered, devs |-> bz.devs] \in BtObjects BY <2>1 DEF BtObjects
  <2> HIDE DEF o
  <2> QED BY <2>2, <2>3, <2>4, <2>5
<1>30. o = Objects OBVIOUS
<1> HIDE DEF o
<1>4. m \in BtMsgs /\ m.kind = "reply" /\ m.call = c /\ m.err = "done" /\ m.objects = o BY <1>2, <1>3, ReplySo
<1>5. Tells(bz, s) BY DEF o
<1> HIDE DEF m
<1>6. s = <<m>> OBVIOUS
<1> HIDE DEF s
<1>7. SameHost(bz) BY DEF SameHost
<1>8. \E w, k : BluezDoes(bz, w, k) BY <1>1, <1>30, <1>4, <1>5, <1>6, <1>7, AnswersSo
<1> QED BY <1>8

LEMMA TakePowerSo ==
  ASSUME BtAssumption, BtSound, g.asked # <<>>, NEW c, c = Head(g.asked), g' = [g EXCEPT !.asked = Tail(@)],
         c.what = "power", bz.adapter, Switch(c.flag = "on", <<Reply(c, "done")>>)
  PROVE  \E w, s, k : BluezDoes(w, s, k)
<1> DEFINE m == Reply(c, "done")
           v == <<m>>
           a == {c}
           on == (c.flag = "on")
<1>1. Switch(on, v) /\ on \in BOOLEAN OBVIOUS
<1>2. c \in BtCalls /\ ~c.stale /\ c \notin bz.slow /\ Moved(g, g', a) BY TakenSo
<1>3. m \in BtMsgs /\ m.kind = "reply" /\ m.call = c BY <1>2, ReplySo
<1> HIDE DEF m
<1>4. Tidy(v, a) BY <1>3, OneTidy
<1>5. AndReply(a, v, "power") BY <1>3 DEF AndReply
<1>6. a \intersect bz.slow = {} BY <1>2
<1> HIDE DEF v, a, on
<1> QED BY <1>1, <1>2, <1>4, <1>5, <1>6, SwitchSo

LEMMA TakeTrustSo ==
  ASSUME BtAssumption, BtSound, g.asked # <<>>, NEW c, c = Head(g.asked), g' = [g EXCEPT !.asked = Tail(@)],
         c.what = "trust", bz.devs[c.dev].there,
         NEW b, b = [bz EXCEPT !.devs[c.dev].trusted = TRUE], Tells(b, DevChanges(b, bz) \o <<Reply(c, "done")>>)
  PROVE  \E w, s, k : BluezDoes(w, s, k)
<1> DEFINE m == Reply(c, "done")
           v == <<m>>
           a == {c}
           slow == bz.slow
           d == c.dev
           e == [bz.devs[d] EXCEPT !.trusted = TRUE]
           f == [bz.devs EXCEPT ![d] = e]
<1>1. Tells(b, DevChanges(b, bz) \o v) OBVIOUS
<1>2. c \in BtCalls /\ ~c.stale /\ c \notin bz.slow /\ Moved(g, g', a) /\ d \in BtDevices BY TakenSo
<1>3. m \in BtMsgs /\ m.kind = "reply" /\ m.call = c BY <1>2, ReplySo
<1> HIDE DEF m
<1>4. Tidy(v, a) BY <1>3, OneTidy
<1>5. AndReply(a, v, "trust") BY <1>3 DEF AndReply
<1>6. a \intersect slow = {} /\ a \subseteq slow \union a /\ slow \subseteq bz.slow BY <1>2
<1>7. bz \in BtBluez /\ bz.devs \in [BtDevices -> BtFacts] BY BzTypes DEF BtSound, BzOk
<1>8. bz.devs[d] \in BtFacts /\ bz.devs[d].there BY <1>2, <1>7
<1>9. e \in BtFacts /\ e.there BY <1>8 DEF BtFacts
<1>10. b = [bz EXCEPT !.devs = f] OBVIOUS
<1>11. b = [bz EXCEPT !.devs = f, !.slow = slow]
  <2> HIDE DEF f
  <2> QED BY <1>7, <1>10 DEF BtBluez
<1>12. DevAs(b, d, e, slow) BY <1>11 DEF DevAs
<1>13. a \subseteq bz.slow \union a BY <1>6
<1> HIDE DEF v, a, slow, d, e
<1> QED BY <1>1, <1>2, <1>4, <1>5, <1>6, <1>8, <1>9, <1>12, <1>13, ChangedSo

LEMMA TakeRemoveSo ==
  ASSUME BtAssumption, BtSound, g.asked # <<>>, NEW c, c = Head(g.asked), g' = [g EXCEPT !.asked = Tail(@)],
         c.what = "remove", bz.adapter, NEW F, F = {t \in bz.slow : t.dev = c.dev},
         NEW b, b = [bz EXCEPT !.devs[c.dev] = Absent, !.slow = @ \ F],
         Tells(b, Fails(F) \o <<About("removed", c.dev, Absent), Reply(c, "done")>>)
  PROVE  \E w, s, k : BluezDoes(w, s, k)
<1> DEFINE m == Reply(c, "done")
           n == About("removed", c.dev, Absent)
           v == <<m>>
           q == <<n>>
           a == {c}
           p == Fails(F)
<1>1. Tells(b, p \o <<n, m>>) OBVIOUS
<1>2. c \in BtCalls /\ ~c.stale /\ c \notin bz.slow /\ Moved(g, g', a) /\ c.dev \in BtDevices BY TakenSo
<1>3. m \in BtMsgs /\ m.kind = "reply" /\ m.call = c BY <1>2, ReplySo
<1>4. n \in BtMsgs BY <1>2, SaidSo
<1>5. p \in Seq(BtMsgs)
  <2>1. bz.slow \subseteq BtCalls /\ IsFiniteSet(bz.slow) /\ \A t \in bz.slow : ~t.stale
    BY BzTypes DEF BtSound, BzOk
  <2>2. F \subseteq BtCalls /\ IsFiniteSet(F) /\ \A t \in F : ~t.stale BY <2>1, FS_Subset
  <2> QED BY <2>2, FailsSo
<1>6. p \o <<n, m>> = (p \o q) \o v
  <2> HIDE DEF m, n, p
  <2>1. <<n, m>> = q \o v BY <1>3, <1>4
  <2>2. q \in Seq(BtMsgs) /\ v \in Seq(BtMsgs) BY <1>3, <1>4
  <2> HIDE DEF q, v
  <2>3. p \o (q \o v) = (p \o q) \o v BY <1>5, <2>2, ConcatAssociative
  <2> QED BY <2>1, <2>3
<1>7. Tells(b, Fails(F) \o <<About("removed", c.dev, Absent)>> \o v) BY <1>1, <1>6
<1> HIDE DEF m
<1>8. Tidy(v, a) BY <1>3, OneTidy
<1>9. AndReply(a, v, "remove") BY <1>3 DEF AndReply
<1>10. a \intersect bz.slow = {} BY <1>2
<1>11. DevAs(b, c.dev, Absent, bz.slow \ F) BY DEF DevAs
<1> HIDE DEF v, a, q, p, n
<1> QED BY <1>2, <1>7, <1>8, <1>9, <1>10, <1>11, RemovedSo

LEMMA TakeKeepSo ==
  ASSUME BtAssumption, BtSound, g.asked # <<>>, NEW c, c = Head(g.asked), g' = [g EXCEPT !.asked = Tail(@)],
         c.what \in Reaches, bz.powered, bz.devs[c.dev].there,
         NEW b, b = [bz EXCEPT !.slow = @ \union {c}], Tells(b, <<>>)
  PROVE  \E w, s, k : BluezDoes(w, s, k)
<1> DEFINE a == {c}
           slow == bz.slow \union a
           s == <<>>
<1>1. c \in BtCalls /\ ~c.stale /\ Moved(g, g', a) BY TakenSo
<1>2. BzOk(bz) /\ bz \in BtBluez /\ bz.slow \subseteq BtCalls /\ IsFiniteSet(bz.slow) BY BzTypes DEF BtSound, BzOk
<1>3. slow \in SUBSET BtCalls /\ IsFiniteSet(slow) BY <1>1, <1>2, FS_AddElement
<1>4. b = [bz EXCEPT !.slow = slow] OBVIOUS
<1>5. slow = bz.slow \union {c} OBVIOUS
<1> HIDE DEF slow
<1>6. b \in BtBluez /\ SameHost(b) /\ b.devs = bz.devs /\ b.search = bz.search /\ b.slow = slow
  BY <1>2, <1>3, <1>4 DEF BtBluez, SameHost
<1>7. \A t \in b.slow : ~t.stale /\ t.what \in Reaches /\ b.devs[t.dev].there
  BY <1>1, <1>2, <1>5, <1>6 DEF BzOk
<1>8. BzOk(b) BY <1>2, <1>3, <1>6, <1>7 DEF BzOk, SameHost
<1>9. Tidy(s, {}) BY OneTidy
<1>10. Keeps(b, s, a) BY <1>5, <1>6 DEF Keeps
<1>11. b.slow \subseteq bz.slow \union a BY <1>5, <1>6
<1>12. Tells(b, s) OBVIOUS
<1> HIDE DEF a, s
<1>13. TellsWell(b, s, a) BY <1>1, <1>8, <1>9, <1>11, <1>12, TellsWellSo
<1> QED BY <1>10, <1>13 DEF BluezDoes

LEMMA TakeSo ==
  ASSUME BtAssumption, BtSound, NEW ok \in BOOLEAN, Take(ok)
  PROVE  \E w, s, k : BluezDoes(w, s, k)
<1> DEFINE c == Head(g.asked)
           e == bz.devs[c.dev]
           b1 == [bz EXCEPT !.search = TRUE]
           b2 == [bz EXCEPT !.search = FALSE]
           b3 == [bz EXCEPT !.devs[c.dev].trusted = TRUE]
           F == {t \in bz.slow : t.dev = c.dev}
           b4 == [bz EXCEPT !.devs[c.dev] = Absent, !.slow = @ \ F]
           b5 == [bz EXCEPT !.slow = @ \union {c}]
           r == Reply(c, "done")
           no(err) == Tells(bz, <<Reply(c, err)>>)
<1>1. g.asked # <<>> /\ g' = [g EXCEPT !.asked = Tail(@)] BY DEF Take
<1>2. c.what \in Whats BY <1>1, TakenSo
<1>3. \/ ~bz.up /\ no("failed")
      \/ c.what = "objects" /\ bz.up /\ Tells(bz, <<[r EXCEPT !.objects = Objects]>>)
      \/ c.what = "start" /\ no("failed")
      \/ c.what = "start" /\ bz.search /\ no("already")
      \/ c.what = "start" /\ bz.powered /\ Tells(b1, DevChanges(b1, bz) \o <<r>>)
      \/ c.what = "stop" /\ Tells(b2, DevChanges(b2, bz) \o <<r>>)
      \/ c.what = "power" /\ bz.adapter /\ Switch(c.flag = "on", <<r>>)
      \/ c.what \notin {"objects", "start", "stop"} /\ (no("failed") \/ no("already"))
      \/ c.what = "trust" /\ e.there /\ Tells(b3, DevChanges(b3, bz) \o <<r>>)
      \/ c.what = "remove" /\ bz.adapter /\ Tells(b4, Fails(F) \o <<About("removed", c.dev, Absent), r>>)
      \/ c.what \in Reaches /\ bz.powered /\ e.there /\ Tells(b5, <<>>)
  <2>1. CASE ~bz.up BY <2>1 DEF Take
  <2>2. CASE bz.up /\ c.what = "objects" BY <2>2 DEF Take
  <2>3. CASE bz.up /\ c.what = "start" BY <2>3 DEF Take
  <2>4. CASE bz.up /\ c.what = "stop" BY <2>4 DEF Take
  <2>5. CASE bz.up /\ c.what = "power" BY <2>5 DEF Take
  <2>6. CASE bz.up /\ c.what = "trust" BY <2>6 DEF Take
  <2>7. CASE bz.up /\ c.what = "remove" BY <2>7 DEF Take
  <2>8. CASE bz.up /\ c.what \in {"pair", "connect", "disconnect"} BY <2>8 DEF Take, Reaches
  <2> QED BY <1>2, <2>1, <2>2, <2>3, <2>4, <2>5, <2>6, <2>7, <2>8 DEF Whats
<1> HIDE DEF b1, b2, b3, b4, b5, F, c
<1>4. c = Head(g.asked) BY DEF c
<1>5. ASSUME NEW err, err \in {"failed", "already"}, Tells(bz, <<Reply(c, err)>>),
             c.what = "objects" \/ c.what = "stop" => ~bz.up /\ err = "failed",
             c.what = "start" /\ err = "already" => bz.search
      PROVE  \E w, s, k : BluezDoes(w, s, k)
  BY <1>1, <1>4, <1>5, RefusedSo
<1>6. CASE ~bz.up /\ no("failed")
  <2> DEFINE err == "failed"
  <2>1. err \in {"failed", "already"} /\ err = "failed" /\ err # "already" /\ Tells(bz, <<Reply(c, err)>>) BY <1>6
  <2> HIDE DEF err
  <2> QED BY <1>5, <1>6, <2>1
<1>7. CASE c.what # "objects" /\ c.what # "stop" /\ no("failed")
  <2> DEFINE err == "failed"
  <2>1. err \in {"failed", "already"} /\ err = "failed" /\ err # "already" /\ Tells(bz, <<Reply(c, err)>>) BY <1>7
  <2> HIDE DEF err
  <2> QED BY <1>5, <1>7, <2>1
<1>8. CASE c.what # "objects" /\ c.what # "stop" /\ (c.what = "start" => bz.search) /\ no("already")
  <2> DEFINE err == "already"
  <2>1. err \in {"failed", "already"} /\ Tells(bz, <<Reply(c, err)>>) BY <1>8
  <2> HIDE DEF err
  <2> QED BY <1>5, <1>8, <2>1
<1>9. CASE c.what = "objects" /\ bz.up /\ Tells(bz, <<[r EXCEPT !.objects = Objects]>>)
  BY <1>1, <1>4, <1>9, TakeObjectsSo
<1>10. CASE c.what = "start" /\ bz.powered /\ Tells(b1, DevChanges(b1, bz) \o <<r>>)
  <2> DEFINE on == TRUE
  <2>1. b1 = [bz EXCEPT !.search = on] /\ on \in BOOLEAN /\ on BY DEF b1
  <2> HIDE DEF on
  <2> QED BY <1>1, <1>4, <1>10, <2>1, TakeSearchSo
<1>11. CASE c.what = "stop" /\ Tells(b2, DevChanges(b2, bz) \o <<r>>)
  <2> DEFINE on == FALSE
  <2>1. b2 = [bz EXCEPT !.search = on] /\ on \in BOOLEAN /\ ~on BY DEF b2
  <2> HIDE DEF on
  <2> QED BY <1>1, <1>4, <1>11, <2>1, TakeSearchSo
<1>12. CASE c.what = "power" /\ bz.adapter /\ Switch(c.flag = "on", <<r>>)
  BY <1>1, <1>4, <1>12, TakePowerSo
<1>13. CASE c.what = "trust" /\ e.there /\ Tells(b3, DevChanges(b3, bz) \o <<r>>)
  <2>1. b3 = [bz EXCEPT !.devs[c.dev].trusted = TRUE] BY DEF b3
  <2> QED BY <1>1, <1>4, <1>13, <2>1, TakeTrustSo
<1>14. CASE c.what = "remove" /\ bz.adapter /\ Tells(b4, Fails(F) \o <<About("removed", c.dev, Absent), r>>)
  <2>1. b4 = [bz EXCEPT !.devs[c.dev] = Absent, !.slow = @ \ F] /\ F = {t \in bz.slow : t.dev = c.dev} BY DEF b4, F
  <2> QED BY <1>1, <1>4, <1>14, <2>1, TakeRemoveSo
<1>15. CASE c.what \in Reaches /\ bz.powered /\ e.there /\ Tells(b5, <<>>)
  <2>1. b5 = [bz EXCEPT !.slow = @ \union {c}] BY DEF b5
  <2> QED BY <1>1, <1>4, <1>15, <2>1, TakeKeepSo
<1> QED BY <1>3, <1>6, <1>7, <1>8, <1>9, <1>10, <1>11, <1>12, <1>13, <1>14, <1>15

-----------------------------------------------------------------------------
\* What bluetoothd, the adapter and the devices do.
BluezNext ==
  \/ \E ok \in BOOLEAN : Take(ok) \/ \E c \in bz.slow : Done(c, ok)
  \/ \E d \in BtDevices : Appear(d) \/ Vanish(d) \/ ComeOrGo(d)
  \/ OthersSwitch \/ BluezDown \/ BluezUp \/ Unplug \/ Plug

LEMMA BluezSo ==
  ASSUME BtAssumption, BtSound, BluezNext
  PROVE  (\E w, s, k : BluezDoes(w, s, k)) /\ crossed' = crossed
<1>1. \E w, s, k : BluezDoes(w, s, k)
  BY TakeSo, DoneSo, AppearSo, VanishSo, ComeOrGoSo, OthersSwitchSo, BluezDownSo, BluezUpSo, UnplugSo, PlugSo
     DEF BluezNext
<1>2. crossed' = crossed
  BY DEF BluezNext, Take, Done, Appear, Vanish, ComeOrGo, OthersSwitch, BluezDown, BluezUp, Unplug, Plug, Happens
<1> QED BY <1>1, <1>2

\* What a user asks, and what is edited as asked.
LEMMA ScanSo ==
  ASSUME NEW x, Sane(x), NEW on, on \in BOOLEAN, NEW y, y = [x EXCEPT !.scan = on]
  PROVE  /\ Sane(y) /\ SameCalls(x, y) /\ SameOps(x, y) /\ y.due = x.due /\ y.active = x.active
         /\ y.bus = x.bus /\ y.up = x.up /\ y.adapter = x.adapter /\ y.powered = x.powered /\ y.scan = on
<1>1. x \in BtMirrors BY DEF Sane
<1>2. /\ y \in BtMirrors /\ SameCalls(x, y) /\ SameOps(x, y) /\ y.due = x.due /\ y.active = x.active
      /\ y.bus = x.bus /\ y.up = x.up /\ y.adapter = x.adapter /\ y.powered = x.powered /\ y.scan = on
  BY <1>1 DEF BtMirrors, SameCalls, SameOps
<1> QED BY <1>2 DEF Sane, Finitely, Lit, SameCalls

LEMMA BusSo ==
  ASSUME NEW x, Sane(x), NEW y, y = [x EXCEPT !.bus = TRUE]
  PROVE  /\ Sane(y) /\ SameCalls(x, y) /\ SameOps(x, y) /\ y.due = x.due /\ y.active = x.active
         /\ y.bus /\ y.up = x.up /\ y.adapter = x.adapter /\ y.powered = x.powered /\ y.scan = x.scan
<1>1. x \in BtMirrors BY DEF Sane
<1>2. /\ y \in BtMirrors /\ SameCalls(x, y) /\ SameOps(x, y) /\ y.due = x.due /\ y.active = x.active
      /\ y.bus = TRUE /\ y.up = x.up /\ y.adapter = x.adapter /\ y.powered = x.powered /\ y.scan = x.scan
  BY <1>1 DEF BtMirrors, SameCalls, SameOps
<1> QED BY <1>2 DEF Sane, Finitely, Lit, SameCalls

LEMMA DueSo ==
  ASSUME NEW x, Sane(x), NEW y, y = [x EXCEPT !.due = FALSE]
  PROVE  /\ Sane(y) /\ SameCalls(x, y) /\ SameOps(x, y) /\ SameAdapter(x, y) /\ y.active = x.active
<1>1. x \in BtMirrors BY DEF Sane
<1>2. /\ y \in BtMirrors /\ SameCalls(x, y) /\ SameOps(x, y) /\ SameAdapter(x, y) /\ y.active = x.active
  BY <1>1 DEF BtMirrors, SameCalls, SameOps, SameAdapter
<1> QED BY <1>2 DEF Sane, Finitely, Lit, SameCalls, SameAdapter

LEMMA PairsSo ==
  ASSUME NEW x, Sane(x), NEW n, n \in Nat, NEW y, y = [x EXCEPT !.pairs = n]
  PROVE  /\ Sane(y) /\ SameCalls(x, y) /\ SameAdapter(x, y) /\ y.due = x.due /\ y.active = x.active
         /\ y.powering = x.powering /\ y.devs = x.devs /\ y.pairs = n
<1>1. x \in BtMirrors BY DEF Sane
<1>2. /\ y \in BtMirrors /\ SameCalls(x, y) /\ SameAdapter(x, y) /\ y.due = x.due /\ y.active = x.active
      /\ y.powering = x.powering /\ y.devs = x.devs /\ y.pairs = n
  BY <1>1 DEF BtMirrors, SameCalls, SameAdapter
<1> QED BY <1>2 DEF Sane, Finitely, Lit, SameCalls, SameAdapter

\* What a step of the user does, by the calls it sends.
ScanAs(x, y)       == \E on, z : /\ on \in BOOLEAN
                                 /\ Sane(z) /\ SameCalls(x, z) /\ SameOps(x, z) /\ z.active = x.active
                                 /\ z.due = x.due /\ z.bus = x.bus /\ z.up = x.up /\ z.adapter = x.adapter
                                 /\ z.powered = x.powered /\ z.scan = on
                                 /\ y = UpdateDiscovery(z)
SetPoweredAs(x, y) == \E d, flag, z : /\ x.adapter /\ ~x.powering /\ SentBy(x, z, "power", d, flag)
                                      /\ Sane(y) /\ SameAdapter(z, y) /\ SameCalls(z, y) /\ y.active = z.active
                                      /\ y.powering /\ y.devs = z.devs /\ y.pairs = z.pairs
PairAs(x, y, d)    == \E z, u, v : /\ DeviceIdle(d)
                                   /\ Sane(z) /\ SameCalls(x, z) /\ SameAdapter(x, z) /\ z.active = x.active
                                   /\ z.powering = x.powering /\ z.devs = x.devs /\ z.pairs = x.pairs + 1
                                   /\ u = UpdateDiscovery(z) /\ Sane(u)
                                   /\ SentBy(u, v, "pair", d, "plain") /\ SetBy(v, y, d, "pairing")
DisconnectAs(x, y, d) == DeviceIdle(d) /\ \E z : SentBy(x, z, "disconnect", d, "plain") /\ SetBy(z, y, d, "disconnecting")
UserDoes ==
  \/ ScanAs(g, g') \/ SetPoweredAs(g, g')
  \/ \E d \in BtDevices : \/ PairAs(g, g', d) \/ DisconnectAs(g, g', d)
                          \/ DeviceIdle(d) /\ g' = SendConnect(g, d, "plain")
                          \/ g.devs[d].there /\ SentBy(g, g', "remove", d, "plain")
UserNext ==
  \/ \E on \in BOOLEAN : Scan(on) \/ SetPowered(on)
  \/ \E d \in BtDevices : Pair(d) \/ ConnectTo(d) \/ Disconnect(d) \/ Forget(d)

LEMMA SentSane ==
  ASSUME NEW x, Sane(x), NEW y, NEW what, NEW d, NEW flag, SentBy(x, y, what, d, flag)
  PROVE  Sane(y)
BY DEF SentBy, Sane, Lit, SameAdapter

LEMMA UserSo ==
  ASSUME BtAssumption, BtSound, UserNext
  PROVE  UserDoes /\ UNCHANGED <<bz, wire, crossed>>
<1>1. BtBase /\ Sane(g) /\ g \in BtMirrors /\ Finitely(g) BY DEF BtBase, BtSound, BtOk, Sane
<1>2. \A w \in {"power", "pair", "disconnect", "remove"} : w \in Whats BY DEF Whats
<1>3. \A o \in {"none", "pairing", "connecting", "disconnecting"} : o \in BtOps BY DEF BtOps
<1>4. \A f \in {"plain", "on", "off"} : f \in Flags BY DEF Flags
<1>5. ASSUME NEW on \in BOOLEAN, Scan(on) PROVE UserDoes /\ UNCHANGED <<bz, wire, crossed>>
  <2> DEFINE z == [g EXCEPT !.scan = on]
  <2>1. g' = UpdateDiscovery(z) /\ UNCHANGED <<bz, wire, crossed>> BY <1>5 DEF Scan, Asked
  <2>2. /\ Sane(z) /\ SameCalls(g, z) /\ SameOps(g, z) /\ z.active = g.active
        /\ z.due = g.due /\ z.bus = g.bus /\ z.up = g.up /\ z.adapter = g.adapter /\ z.powered = g.powered /\ z.scan = on
    <3>1. z = [g EXCEPT !.scan = on] OBVIOUS
    <3> HIDE DEF z
    <3> QED BY <1>1, <3>1, ScanSo
  <2> HIDE DEF z
  <2>3. ScanAs(g, g') BY <2>1, <2>2 DEF ScanAs
  <2> QED BY <2>1, <2>3 DEF UserDoes
<1>6. ASSUME NEW on \in BOOLEAN, SetPowered(on) PROVE UserDoes /\ UNCHANGED <<bz, wire, crossed>>
  <2> DEFINE flag == IF on THEN "on" ELSE "off"
             d == AnyDevice
             z == Sent(g, "power", d, flag)
  <2>1. /\ g' = [z EXCEPT !.powering = TRUE] /\ g.adapter /\ ~g.powering /\ UNCHANGED <<bz, wire, crossed>>
    BY <1>6 DEF SetPowered, Asked
  <2>2. d \in BtDevices BY DEF AnyDevice, BtAssumption
  <2>3. flag \in Flags BY <1>4
  <2>4. "power" \in Whats BY <1>2
  <2> HIDE DEF flag, d
  <2>5. SentBy(g, z, "power", d, flag) BY <1>1, <2>2, <2>3, <2>4, SentSo
  <2> HIDE DEF z
  <2>6. Sane(z) BY <1>1, <2>5, SentSane
  <2> DEFINE yes == TRUE
  <2>7. g' = [z EXCEPT !.powering = yes] /\ yes \in BOOLEAN /\ yes BY <2>1
  <2> HIDE DEF yes
  <2>8. /\ Sane(g') /\ SameAdapter(z, g') /\ SameCalls(z, g') /\ g'.active = z.active /\ g'.powering = yes
        /\ g'.devs = z.devs /\ g'.pairs = z.pairs
    BY <2>6, <2>7, PoweringSo
  <2>9. SetPoweredAs(g, g') BY <2>1, <2>5, <2>7, <2>8 DEF SetPoweredAs
  <2> QED BY <2>1, <2>9 DEF UserDoes
<1>7. ASSUME NEW d \in BtDevices, Pair(d) PROVE UserDoes /\ UNCHANGED <<bz, wire, crossed>>
  <2> DEFINE n == g.pairs + 1
             z == [g EXCEPT !.pairs = n]
             u == UpdateDiscovery(z)
             v == Sent(u, "pair", d, "plain")
  <2>1. /\ g' = SetOp(v, d, "pairing") /\ DeviceIdle(d) /\ UNCHANGED <<bz, wire, crossed>>
    BY <1>7 DEF Pair, Asked
  <2>2. n \in Nat BY <1>1, MirrorTypes
  <2>20. n = g.pairs + 1 OBVIOUS
  <2> HIDE DEF n
  <2>3. /\ Sane(z) /\ SameCalls(g, z) /\ SameAdapter(g, z) /\ z.active = g.active
        /\ z.powering = g.powering /\ z.devs = g.devs /\ z.pairs = n
    <3>1. z = [g EXCEPT !.pairs = n] OBVIOUS
    <3> HIDE DEF z
    <3> QED BY <1>1, <2>2, <3>1, PairsSo
  <2> HIDE DEF z
  <2>4. Sane(u) /\ u = UpdateDiscovery(z)
    <3>1. u = UpdateDiscovery(z) OBVIOUS
    <3> HIDE DEF u
    <3> QED BY <1>1, <2>3, <3>1, UpdateDiscoverySo
  <2> HIDE DEF u
  <2>5. SentBy(u, v, "pair", d, "plain")
    <3>1. u \in BtMirrors /\ Finitely(u) BY <2>4 DEF Sane
    <3>2. "pair" \in Whats /\ "plain" \in Flags BY <1>2, <1>4
    <3> QED BY <1>1, <3>1, <3>2, SentSo
  <2> HIDE DEF v
  <2>6. SetBy(v, g', d, "pairing")
    <3>1. Sane(v) BY <2>4, <2>5, SentSane
    <3>2. "pairing" \in BtOps BY <1>3
    <3> QED BY <2>1, <3>1, <3>2, SetOpSo
  <2>7. PairAs(g, g', d) BY <2>1, <2>20, <2>3, <2>4, <2>5, <2>6 DEF PairAs
  <2> QED BY <2>1, <2>7 DEF UserDoes
<1>8. ASSUME NEW d \in BtDevices, ConnectTo(d) PROVE UserDoes /\ UNCHANGED <<bz, wire, crossed>>
  BY <1>8 DEF ConnectTo, Asked, UserDoes
<1>9. ASSUME NEW d \in BtDevices, Disconnect(d) PROVE UserDoes /\ UNCHANGED <<bz, wire, crossed>>
  <2> DEFINE z == Sent(g, "disconnect", d, "plain")
  <2>1. /\ g' = SetOp(z, d, "disconnecting") /\ DeviceIdle(d) /\ UNCHANGED <<bz, wire, crossed>>
    BY <1>9 DEF Disconnect, Asked
  <2>2. "disconnect" \in Whats /\ "plain" \in Flags /\ "disconnecting" \in BtOps BY <1>2, <1>3, <1>4
  <2>3. SentBy(g, z, "disconnect", d, "plain") BY <1>1, <2>2, SentSo
  <2> HIDE DEF z
  <2>4. Sane(z) BY <1>1, <2>3, SentSane
  <2>5. SetBy(z, g', d, "disconnecting") BY <2>1, <2>2, <2>4, SetOpSo
  <2>6. DisconnectAs(g, g', d) BY <2>1, <2>3, <2>5 DEF DisconnectAs
  <2> QED BY <2>1, <2>6 DEF UserDoes
<1>10. ASSUME NEW d \in BtDevices, Forget(d) PROVE UserDoes /\ UNCHANGED <<bz, wire, crossed>>
  <2>1. g' = Sent(g, "remove", d, "plain") /\ g.devs[d].there /\ UNCHANGED <<bz, wire, crossed>> BY <1>10 DEF Forget, Asked
  <2>2. "remove" \in Whats /\ "plain" \in Flags BY <1>2, <1>4
  <2>3. SentBy(g, g', "remove", d, "plain") BY <1>1, <2>1, <2>2, SentSo
  <2> QED BY <2>1, <2>3 DEF UserDoes
<1> QED BY <1>5, <1>6, <1>7, <1>8, <1>9, <1>10 DEF UserNext

\* Its calls are told apart, too.
LEMMA SentByOk ==
  ASSUME NEW w \in Wires, NEW x, BtOk(x, w), NEW y, NEW what, NEW d, NEW flag, SentBy(x, y, what, d, flag)
  PROVE  BtOk(y, w)
<1>1. Sane(x) BY DEF BtOk, Sane
<1>2. Sane(y) BY <1>1, SentSane
<1> QED BY <1>2, AddedOk DEF SentBy

LEMMA UserOk ==
  ASSUME BtAssumption, BtSound, UserDoes
  PROVE  BtOk(g', wire)
<1>1. BtBase /\ BtOk(g, wire) /\ wire \in Wires BY DEF BtBase, BtSound, Wires
<1>2. ASSUME ScanAs(g, g') PROVE BtOk(g', wire)
  <2>1. PICK z : Sane(z) /\ SameCalls(g, z) /\ g' = UpdateDiscovery(z) BY <1>2 DEF ScanAs
  <2>2. BtOk(z, wire) BY <1>1, <2>1, SameOk
  <2> QED BY <1>1, <2>1, <2>2, UpdateDiscoveryOk
<1>3. ASSUME SetPoweredAs(g, g') PROVE BtOk(g', wire)
  <2>1. PICK d, flag, z : SentBy(g, z, "power", d, flag) /\ Sane(g') /\ SameCalls(z, g') BY <1>3 DEF SetPoweredAs
  <2>2. BtOk(z, wire) BY <1>1, <2>1, SentByOk
  <2> QED BY <2>1, <2>2, SameOk
<1>4. ASSUME NEW d \in BtDevices, PairAs(g, g', d) PROVE BtOk(g', wire)
  <2>1. PICK z, u, v : /\ Sane(z) /\ SameCalls(g, z) /\ u = UpdateDiscovery(z)
                       /\ SentBy(u, v, "pair", d, "plain") /\ SetBy(v, g', d, "pairing")
    BY <1>4 DEF PairAs
  <2>2. BtOk(z, wire) BY <1>1, <2>1, SameOk
  <2>3. BtOk(u, wire) BY <1>1, <2>1, <2>2, UpdateDiscoveryOk
  <2>4. BtOk(v, wire) BY <1>1, <2>1, <2>3, SentByOk
  <2> QED BY <2>1, <2>4, SameOk DEF SetBy
<1>5. ASSUME NEW d \in BtDevices, DisconnectAs(g, g', d) PROVE BtOk(g', wire)
  <2>1. PICK z : SentBy(g, z, "disconnect", d, "plain") /\ SetBy(z, g', d, "disconnecting") BY <1>5 DEF DisconnectAs
  <2>2. BtOk(z, wire) BY <1>1, <2>1, SentByOk
  <2> QED BY <2>1, <2>2, SameOk DEF SetBy
<1>6. ASSUME NEW d \in BtDevices, g' = SendConnect(g, d, "plain") PROVE BtOk(g', wire)
  <2>1. "plain" \in Flags BY DEF Flags
  <2> QED BY <1>1, <1>6, <2>1, SendConnectOk
<1>7. ASSUME NEW d \in BtDevices, SentBy(g, g', "remove", d, "plain") PROVE BtOk(g', wire)
  BY <1>1, <1>7, SentByOk
<1> QED BY <1>2, <1>3, <1>4, <1>5, <1>6, <1>7 DEF UserDoes

\* The bus is opened, headphones are asked, a call times out.
LEMMA OpenBusSo ==
  ASSUME BtSound, OpenBus
  PROVE  /\ UNCHANGED <<bz, wire, crossed>> /\ ~g.bus
         /\ \E z : /\ Sane(z) /\ SameCalls(g, z) /\ SameOps(g, z) /\ z.due = g.due /\ z.active = g.active
                   /\ z.bus /\ z.up = g.up /\ z.adapter = g.adapter /\ z.powered = g.powered /\ z.scan = g.scan
                   /\ g' = Fetch(z)
<1> DEFINE z == [g EXCEPT !.bus = TRUE]
<1>1. /\ g' = Fetch(z) /\ UNCHANGED <<bz, wire, crossed>> /\ ~g.bus BY DEF OpenBus
<1>2. Sane(g) BY DEF BtSound, BtOk, Sane
<1>3. z = [g EXCEPT !.bus = TRUE] OBVIOUS
<1> HIDE DEF z
<1>4. /\ Sane(z) /\ SameCalls(g, z) /\ SameOps(g, z) /\ z.due = g.due /\ z.active = g.active
      /\ z.bus /\ z.up = g.up /\ z.adapter = g.adapter /\ z.powered = g.powered /\ z.scan = g.scan
  BY <1>2, <1>3, BusSo
<1> QED BY <1>1, <1>4

LEMMA AutoDueSo ==
  ASSUME BtSound, AutoDue
  PROVE  /\ UNCHANGED <<bz, wire, crossed>> /\ g.due
         /\ \E z : /\ Sane(z) /\ SameCalls(g, z) /\ SameOps(g, z) /\ SameAdapter(g, z) /\ z.active = g.active
                   /\ g' = AutoconnectNext(z)
<1> DEFINE z == [g EXCEPT !.due = FALSE]
<1>1. /\ g' = AutoconnectNext(z) /\ UNCHANGED <<bz, wire, crossed>> /\ g.due BY DEF AutoDue
<1>2. Sane(g) BY DEF BtSound, BtOk, Sane
<1>3. z = [g EXCEPT !.due = FALSE] OBVIOUS
<1> HIDE DEF z
<1>4. /\ Sane(z) /\ SameCalls(g, z) /\ SameOps(g, z) /\ SameAdapter(g, z) /\ z.active = g.active
  BY <1>2, <1>3, DueSo
<1> QED BY <1>1, <1>4

LEMMA TimeoutSo ==
  ASSUME BtSound, Timeout
  PROVE  /\ UNCHANGED <<bz, wire, crossed>>
         /\ \E p \in g.pending : /\ p \in BtCalls /\ p.what \in Reaches /\ AsSent(p) \in BtCalls
                                 /\ AsSent(p).what = p.what /\ Over(g, wire, AsSent(p))
                                 /\ g' = Replied(g, AsSent(p), "failed", Empty)
<1>1. PICK c \in g.pending : /\ c.what \in Reaches /\ AsSent(c) \in bz.slow
                             /\ g' = Replied(g, AsSent(c), "failed", Empty)
  BY DEF Timeout, Reaches
<1>2. g \in BtMirrors /\ Apart(g, wire, bz.slow) BY DEF BtSound, BtOk
<1>3. c \in BtCalls BY <1>2, MirrorTypes
<1>4. AsSent(c) \in BtCalls /\ AsSent(c).what = c.what BY <1>3, CallTypes
<1>5. Over(g, wire, AsSent(c)) BY <1>1, <1>2, <1>4 DEF Over, Apart
<1>6. UNCHANGED <<bz, wire, crossed>> BY DEF Timeout
<1> HIDE DEF Reaches
<1> QED BY <1>1, <1>3, <1>4, <1>5, <1>6

LEMMA EmptyOk == Empty \in BtObjects
BY DEF BtObjects, Empty, Absent, BtFacts

\* A mirror has these fields.
LEMMA MirrorMade ==
  ASSUME NEW A, NEW B, NEW C, NEW no \in BOOLEAN, NEW on \in BOOLEAN, NEW f \in A, NEW n \in Nat,
         NEW q \in B, NEW p \in C
  PROVE  [bus |-> no, up |-> no, adapter |-> no, powered |-> no, powering |-> no,
          devs |-> f, due |-> no, scan |-> on, active |-> no, pairs |-> n, asked |-> q, pending |-> p]
           \in [bus : BOOLEAN, up : BOOLEAN, adapter : BOOLEAN, powered : BOOLEAN, powering : BOOLEAN,
               devs : A, due : BOOLEAN, scan : BOOLEAN, active : BOOLEAN,
               pairs : Nat, asked : B, pending : C]
BY Zenon

LEMMA NoBusSo ==
  ASSUME NEW on \in BOOLEAN, NEW y, y = [NoBus EXCEPT !.scan = on]
  PROVE  /\ y \in BtMirrors /\ ~y.bus /\ ~y.up /\ ~y.adapter /\ ~y.powered /\ ~y.powering /\ ~y.due
         /\ ~y.active /\ y.pairs = 0 /\ y.asked = <<>> /\ y.pending = {} /\ y.scan = on
         /\ \A d \in BtDevices : y.devs[d] = Bare
<1> DEFINE f == [d \in BtDevices |-> Bare]
           q == <<>>
           p == {}
           n == 0
           no == FALSE
<1>1. y = [bus |-> no, up |-> no, adapter |-> no, powered |-> no, powering |-> no,
           devs |-> f, due |-> no, scan |-> on, active |-> no, pairs |-> n, asked |-> q, pending |-> p]
  BY DEF NoBus
<1>2. f \in [BtDevices -> BtShown] /\ \A d \in BtDevices : f[d] = Bare BY BareShown
<1>3. q \in Seq(BtCalls) /\ p \in SUBSET BtCalls /\ n \in Nat /\ no \in BOOLEAN OBVIOUS
<1>4. q = <<>> /\ p = {} /\ n = 0 /\ ~no OBVIOUS
<1> HIDE DEF f, q, p, n, no
<1>5. y \in BtMirrors
  <2> DEFINE A == [BtDevices -> BtShown]
             B == Seq(BtCalls)
             C == SUBSET BtCalls
  <2>1. f \in A /\ q \in B /\ p \in C BY <1>2, <1>3
  <2>2. BtMirrors = [bus : BOOLEAN, up : BOOLEAN, adapter : BOOLEAN, powered : BOOLEAN, powering : BOOLEAN,
              devs : A, due : BOOLEAN, scan : BOOLEAN, active : BOOLEAN,
              pairs : Nat, asked : B, pending : C] BY DEF BtMirrors
  <2> HIDE DEF A, B, C
  <2>3. n \in Nat /\ no \in BOOLEAN /\ on \in BOOLEAN BY <1>3
  <2>4. [bus |-> no, up |-> no, adapter |-> no, powered |-> no, powering |-> no,
           devs |-> f, due |-> no, scan |-> on, active |-> no, pairs |-> n, asked |-> q, pending |-> p]
        \in [bus : BOOLEAN, up : BOOLEAN, adapter : BOOLEAN, powered : BOOLEAN, powering : BOOLEAN,
              devs : A, due : BOOLEAN, scan : BOOLEAN, active : BOOLEAN,
              pairs : Nat, asked : B, pending : C]
    BY ONLY <2>1, <2>3, MirrorMade
  <2> QED BY ONLY <1>1, <2>2, <2>4
<1>6. /\ y.bus = no /\ y.up = no /\ y.adapter = no /\ y.powered = no /\ y.powering = no /\ y.due = no
      /\ y.active = no /\ y.pairs = n /\ y.asked = q /\ y.pending = p /\ y.scan = on /\ y.devs = f
  BY <1>1
<1> QED BY <1>2, <1>4, <1>5, <1>6

\* The bus is lost.
LEMMA LoseBusSo ==
  ASSUME BtSound, LoseBus
  PROVE  /\ g' = [NoBus EXCEPT !.scan = g.scan] /\ g.scan \in BOOLEAN /\ wire' = <<>> /\ crossed' = crossed
         /\ BzOk(bz') /\ bz'.slow = {} /\ ~bz'.search
         /\ bz'.up = bz.up /\ bz'.adapter = bz.adapter /\ bz'.powered = bz.powered /\ bz'.devs = bz.devs
<1>1. g.scan \in BOOLEAN /\ BzOk(bz) /\ bz \in BtBluez BY MirrorTypes DEF BtSound, BtOk, BzOk
<1> DEFINE b == bz'
           no == {}
<1>2. b = [bz EXCEPT !.slow = no, !.search = FALSE] BY DEF LoseBus
<1>3. no \in SUBSET BtCalls /\ IsFiniteSet(no) /\ no = {} BY FS_EmptySet
<1> HIDE DEF b, no
<1>4. /\ b \in BtBluez /\ b.slow = no /\ ~b.search
      /\ b.up = bz.up /\ b.adapter = bz.adapter /\ b.powered = bz.powered /\ b.devs = bz.devs
  BY <1>1, <1>2, <1>3 DEF BtBluez
<1>5. BzOk(b) BY <1>1, <1>3, <1>4 DEF BzOk
<1> QED BY <1>1, <1>3, <1>4, <1>5 DEF LoseBus, b

LEMMA FreshOk ==
  ASSUME NEW on \in BOOLEAN, NEW y, y = [NoBus EXCEPT !.scan = on], IsFiniteSet(bz.slow)
  PROVE  BtOk(y, <<>>)
<1>1. y \in BtMirrors /\ ~y.active /\ y.asked = <<>> /\ y.pending = {} BY NoBusSo
<1> DEFINE w == <<>>
<1>2. w \in Seq(BtMsgs) /\ Once(w) /\ Answered(w) = {} BY NoneSo
<1>3. 1..Len(y.asked) = {} BY <1>1
<1> HIDE DEF w
<1>4. Apart(y, w, bz.slow) BY <1>1, <1>2, <1>3 DEF Apart
<1>5. Finitely(y) /\ Lit(y) BY <1>1, FS_EmptySet DEF Finitely, Lit
<1> QED BY <1>1, <1>4, <1>5 DEF BtOk, w

LEMMA BtInitSound ==
  ASSUME BtAssumption, BtInit
  PROVE  BtSound
<1>1. PICK on \in BOOLEAN : g = [NoBus EXCEPT !.scan = on] BY DEF BtInit
<1>2. PICK powered \in BOOLEAN, known \in [BtDevices -> {Absent, Found, Owned}] :
         bz = [up |-> TRUE, adapter |-> TRUE, powered |-> powered, search |-> FALSE, slow |-> {}, devs |-> known]
  BY DEF BtInit
<1>3. Owned \in BtFacts /\ Owned.there BY DEF Owned, Found, Absent, BtFacts
<1>4. \A d \in BtDevices : known[d] \in BtFacts /\ (known[d].there \/ known[d] = Absent) BY <1>3, AbsentSo
<1>5. known \in [BtDevices -> BtFacts] BY <1>4
<1>6. BzOk(bz)
  <2> DEFINE no == {}
  <2>1. no \in SUBSET BtCalls /\ IsFiniteSet(no) /\ no = {} BY FS_EmptySet
  <2>2. bz = [up |-> TRUE, adapter |-> TRUE, powered |-> powered, search |-> FALSE, slow |-> no, devs |-> known] BY <1>2
  <2> HIDE DEF no
  <2>3. bz \in BtBluez /\ bz.slow = no /\ bz.devs = known /\ bz.up /\ bz.adapter /\ ~bz.search BY <1>5, <2>1, <2>2 DEF BtBluez
  <2> QED BY <1>4, <2>1, <2>3 DEF BzOk
<1>7. wire = <<>> BY DEF BtInit
<1>8. BtOk(g, <<>>) BY <1>1, <1>6, FreshOk DEF BzOk
<1> QED BY <1>6, <1>7, <1>8, NoneSo DEF BtSound

LEMMA KeptSound ==
  ASSUME BtSound, NEW w, w \in Seq(BtMsgs), BtOk(g', w), wire' = w, bz' = bz
  PROVE  BtSound'
<1>1. /\ g' \in BtMirrors /\ IsFiniteSet(g'.pending) /\ IsFiniteSet(bz.slow) /\ Lit(g') /\ Apart(g', w, bz.slow)
  BY DEF BtOk, Finitely
<1>2. Apart(g', wire', bz'.slow) /\ wire' \in Seq(BtMsgs) BY <1>1
<1>3. BzOk(bz)' BY DEF BtSound, BzOk
<1>4. BtOk(g, wire)' BY <1>1, <1>2 DEF BtOk, Finitely, Lit
<1> QED BY <1>2, <1>3, <1>4 DEF BtSound

LEMMA BtNextCases ==
  ASSUME BtNext
  PROVE  OpenBus \/ Process \/ AutoDue \/ Timeout \/ UserNext \/ BluezNext \/ LoseBus
BY DEF BtNext, UserNext, BluezNext

LEMMA BtStepSound ==
  ASSUME BtAssumption, BtSound, [BtNext]_btVars
  PROVE  BtSound'
<1>0. BtBase /\ BtOk(g, wire) /\ wire \in Wires /\ wire \in Seq(BtMsgs) BY DEF BtBase, BtSound, Wires
<1>1. CASE OpenBus
  <2>1. PICK z : Sane(z) /\ SameCalls(g, z) /\ g' = Fetch(z) BY <1>1, OpenBusSo
  <2>2. BtOk(z, wire) BY <1>0, <2>1, SameOk
  <2>3. BtOk(g', wire) BY <1>0, <2>1, <2>2, FetchOk
  <2> QED BY <1>0, <1>1, <2>3, OpenBusSo, KeptSound
<1>2. CASE Process
  <2>1. BtOk(g', Tail(wire)) /\ Tail(wire) \in Seq(BtMsgs) BY <1>0, <1>2, ProcessOk
  <2>2. wire' = Tail(wire) /\ bz' = bz BY <1>2 DEF Process
  <2> QED BY <2>1, <2>2, KeptSound
<1>3. CASE AutoDue
  <2>1. PICK z : Sane(z) /\ SameCalls(g, z) /\ g' = AutoconnectNext(z) BY <1>3, AutoDueSo
  <2>2. BtOk(z, wire) BY <1>0, <2>1, SameOk
  <2>3. BtOk(g', wire) BY <1>0, <2>1, <2>2, AutoconnectNextOk
  <2> QED BY <1>0, <1>3, <2>3, AutoDueSo, KeptSound
<1>4. CASE Timeout
  <2>1. PICK p \in g.pending : AsSent(p) \in BtCalls /\ Over(g, wire, AsSent(p))
                               /\ g' = Replied(g, AsSent(p), "failed", Empty)
    BY <1>4, TimeoutSo
  <2>2. BtOk(g', wire) BY <1>0, <2>1, EmptyOk, RepliedOk
  <2> QED BY <1>0, <1>4, <2>2, TimeoutSo, KeptSound
<1>5. CASE UserNext
  <2>1. UserDoes /\ UNCHANGED <<bz, wire, crossed>> BY <1>5, UserSo
  <2> QED BY <1>0, <2>1, UserOk, KeptSound
<1>6. CASE BluezNext
  <2>1. \E b, s, a : TellsWell(b, s, a) BY <1>6, BluezSo DEF BluezDoes
  <2> QED BY <2>1, ToldOk
<1>7. CASE LoseBus
  <2>1. /\ g' = [NoBus EXCEPT !.scan = g.scan] /\ g.scan \in BOOLEAN /\ wire' = <<>> /\ BzOk(bz')
    BY <1>7, LoseBusSo
  <2> DEFINE y == g'
  <2>2. y = [NoBus EXCEPT !.scan = g.scan] BY <2>1
  <2>3. BtOk(g, <<>>)'
    <3>1. IsFiniteSet(bz'.slow) BY <2>1 DEF BzOk
    <3> DEFINE b == bz'
               w == <<>>
    <3>2. y \in BtMirrors /\ ~y.active /\ y.asked = <<>> /\ y.pending = {}
      <4> HIDE DEF y
      <4> QED BY <2>1, <2>2, NoBusSo
    <3>3. w \in Seq(BtMsgs) /\ Once(w) /\ Answered(w) = {} BY NoneSo
    <3>4. 1..Len(y.asked) = {} BY <3>2
    <3> HIDE DEF w
    <3>5. Apart(y, w, b.slow)
      <4> HIDE DEF y, b
      <4> QED BY <3>2, <3>3, <3>4 DEF Apart
    <3>6. Finitely(g)' /\ Lit(g)' BY <3>1, <3>2, FS_EmptySet DEF Finitely, Lit
    <3> QED BY <3>2, <3>5, <3>6 DEF BtOk, w
  <2>4. BzOk(bz)' BY <2>1 DEF BzOk
  <2>5. <<>> \in Seq(BtMsgs) BY NoneSo
  <2> QED BY <2>1, <2>3, <2>4, <2>5 DEF BtSound
<1>8. CASE UNCHANGED btVars
  <2>1. g' = g /\ bz' = bz /\ wire' = wire BY <1>8 DEF btVars
  <2> QED BY <1>0, <2>1, KeptSound
<1> QED BY <1>1, <1>2, <1>3, <1>4, <1>5, <1>6, <1>7, <1>8, BtNextCases
=============================================================================
