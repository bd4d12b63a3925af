-------------------------- MODULE Bluetooth_proofs --------------------------
(***************************************************************************)
(* The invariant of Bluetooth, for any devices and any number of events:   *)
(* once the wire is empty and nothing is asked the mirror is what          *)
(* bluetoothd has, what the menu shows under way is awaited, and           *)
(* bluetoothd searches only while that is wanted. BtInv strengthens it to  *)
(* every state between: not what the mirror shows but what it will show    *)
(* once the wire is taken, in its order. Each part of BtInv is kept with   *)
(* those before it: a late reply is ignored as its call is stale           *)
(* (BtSound), a signal that comes before the reply to "objects" is undone  *)
(* or repeated by it (BtComing), and a device or a service that goes ends  *)
(* what was awaited of it, whichever of the two is processed first         *)
(* (BtAwaited).                                                            *)
(***************************************************************************)
EXTENDS BluetoothCalls_proofs

(***************************************************************************)
(* The mirror comes true. A view is what the mirror shows of bluetoothd    *)
(* and whether all of it is asked for anew; Mirrors says which views the   *)
(* messages on the wire lead to, one after the other, and Good that the    *)
(* last of them is what bluetoothd has, but for what will be asked for.    *)
(***************************************************************************)

\* What the mirror shows of bluetoothd, and whether it waits for all of it anew.
Views == [up : BOOLEAN, adapter : BOOLEAN, powered : BOOLEAN, want : BOOLEAN, devs : [BtDevices -> BtFacts]]
Asking(x) == {c \in x.pending : ~c.stale /\ c.what = "objects"}
Shows(x, v) ==
  /\ v \in Views /\ v.up = x.up /\ v.adapter = x.adapter /\ v.powered = x.powered
  /\ v.want = (Asking(x) # {})
  /\ \A d \in BtDevices : v.devs[d] = FactsOf(x.devs[d])

\* What a message makes of it; `hit' is the reply that is waited for.
Alike(v, u) == u.up = v.up /\ u.adapter = v.adapter /\ u.powered = v.powered /\ \A d \in BtDevices : u.devs[d] = v.devs[d]
Blank(u)    == ~u.adapter /\ ~u.powered /\ \A d \in BtDevices : u.devs[d] = Absent
Heeds(v, m) == \/ m.kind = "added" /\ v.up /\ v.adapter
               \/ m.kind = "removed"
               \/ m.kind = "changed" /\ v.devs[m.dev].there
StepTo(v, u, m, hit) ==
  /\ m.kind = "name" /\ m.on => Alike(v, u) /\ u.want
  /\ m.kind = "name" /\ ~m.on => Blank(u) /\ ~u.up /\ ~u.want
  /\ m.kind = "unplugged" /\ v.adapter => Blank(u) /\ u.up = v.up /\ u.want
  /\ m.kind = "reply" /\ hit /\ m.err # "done" => Blank(u) /\ ~u.up /\ ~u.want
  /\ m.kind = "reply" /\ hit /\ m.err = "done" =>
        /\ u.up /\ ~u.want /\ u.adapter = m.objects.adapter /\ u.powered = m.objects.powered
        /\ \A d \in BtDevices : u.devs[d] = IF m.objects.devs[d].there THEN m.objects.devs[d] ELSE Absent
  /\ (m.kind = "adapter" /\ v.up) \/ (m.kind = "powered" /\ v.adapter) =>
        /\ u.up = v.up /\ u.adapter /\ u.powered = m.on /\ u.want = v.want
        /\ \A d \in BtDevices : u.devs[d] = v.devs[d]
  /\ m.kind \in {"added", "removed", "changed"} /\ Heeds(v, m) =>
        /\ u.up = v.up /\ u.adapter = v.adapter /\ u.powered = v.powered /\ u.want = v.want
        /\ \A d \in BtDevices : u.devs[d] = IF d # m.dev THEN v.devs[d]
                                          ELSE IF m.kind = "removed" THEN Absent ELSE m.as
  /\ \/ m.kind = "reply" /\ ~hit
     \/ m.kind = "unplugged" /\ ~v.adapter
     \/ m.kind = "adapter" /\ ~v.up
     \/ m.kind = "powered" /\ ~v.adapter
     \/ m.kind \in {"added", "removed", "changed"} /\ ~Heeds(v, m)
     => u = v

\* What asks anew, or is the answer, ends the wait for an earlier answer.
Cuts(v, m, a) == m.kind = "name" \/ (m.kind = "unplugged" /\ v.adapter) \/ (m.kind = "reply" /\ m.call \in a)
HitAt(w, f, a, k) == w[k].kind = "reply" /\ w[k].call \in a /\ \A j \in 1..(k - 1) : ~Cuts(f[j - 1], w[j], a)
Leads(w, a, f) == \A k \in 1..Len(w) : StepTo(f[k - 1], f[k], w[k], HitAt(w, f, a, k))
\* With the calls `a' awaited, w takes v to u.
Mirrors(w, a, v, u) ==
  \E f \in [0..Len(w) -> Views] : f[0] = v /\ f[Len(w)] = u /\ Leads(w, a, f)

LEMMA MirrorsNone == \A a, v, u : (v \in Views /\ v = u) => Mirrors(<<>>, a, v, u)
<1> SUFFICES ASSUME NEW a, NEW v \in Views PROVE Mirrors(<<>>, a, v, v) OBVIOUS
<1> DEFINE w == <<>>
           f == [i \in 0..0 |-> v]
<1>1. Len(w) = 0 /\ f \in [0..0 -> Views] /\ f[0] = v OBVIOUS
<1> HIDE DEF w, f
<1>2. 1..Len(w) = {} BY <1>1
<1>3. Leads(w, a, f) BY <1>2 DEF Leads
<1>4. Mirrors(w, a, v, v) BY <1>1, <1>3 DEF Mirrors
<1> QED BY <1>4 DEF w

LEMMA MirrorsEmpty == ASSUME NEW a, NEW v, NEW u, Mirrors(<<>>, a, v, u) PROVE v = u
BY DEF Mirrors

\* The first message is processed.
LEMMA MirrorsTail ==
  ASSUME NEW w, w \in Seq(BtMsgs), w # <<>>, NEW a, NEW v, NEW u, Mirrors(w, a, v, u), NEW m, m = Head(w)
  PROVE  \E n \in Views :
           /\ StepTo(v, n, m, m.kind = "reply" /\ m.call \in a)
           /\ ~Cuts(v, m, a) => Mirrors(Tail(w), a, n, u)
           /\ Cuts(v, m, a) => \A b : b \intersect Answered(Tail(w)) = {} => Mirrors(Tail(w), b, n, u)
<1> DEFINE t == Tail(w)
           N == Len(t)
<1>1. /\ m = w[1] /\ t \in Seq(BtMsgs) /\ Len(w) = N + 1 /\ N \in Nat
      /\ \A i \in 1..N : t[i] = w[i + 1]
  BY HeadSo
<1>2. PICK f \in [0..Len(w) -> Views] : f[0] = v /\ f[Len(w)] = u /\ Leads(w, a, f) BY DEF Mirrors
<1> DEFINE h == [k \in 0..N |-> f[k + 1]]
<1> HIDE DEF t, N
<1>3. h \in [0..N -> Views] /\ h[0] = f[1] /\ h[N] = u /\ f[1] \in Views BY <1>1, <1>2
<1>4. \A k \in 0..N : h[k] = f[k + 1] OBVIOUS
<1> HIDE DEF h
<1>5. StepTo(v, f[1], m, m.kind = "reply" /\ m.call \in a)
  <2>1. StepTo(f[0], f[1], w[1], HitAt(w, f, a, 1)) BY <1>1, <1>2 DEF Leads
  <2>2. 1..(1 - 1) = {} OBVIOUS
  <2>3. HitAt(w, f, a, 1) = (m.kind = "reply" /\ m.call \in a) BY <1>1, <2>2 DEF HitAt
  <2> QED BY <1>1, <1>2, <2>1, <2>3
<1>6. \A k \in 1..N : StepTo(h[k - 1], h[k], t[k], HitAt(w, f, a, k + 1))
  <2> TAKE k \in 1..N
  <2>1. k + 1 \in 1..Len(w) /\ k - 1 \in 0..N /\ k \in 0..N /\ (k + 1) - 1 = k /\ (k - 1) + 1 = k BY <1>1
  <2>2. StepTo(f[(k + 1) - 1], f[k + 1], w[k + 1], HitAt(w, f, a, k + 1)) BY <1>2, <2>1 DEF Leads
  <2>3. h[k - 1] = f[k] /\ h[k] = f[k + 1] /\ t[k] = w[k + 1] BY <1>1, <1>4, <2>1
  <2> QED BY <2>1, <2>2, <2>3
<1>7. ASSUME ~Cuts(v, m, a) PROVE Mirrors(t, a, f[1], u)
  <2>1. \A k \in 1..N : HitAt(w, f, a, k + 1) = HitAt(t, h, a, k)
    <3> TAKE k \in 1..N
    <3>1. (\A j \in 1..((k + 1) - 1) : ~Cuts(f[j - 1], w[j], a)) <=> (\A j \in 1..(k - 1) : ~Cuts(h[j - 1], t[j], a))
      <4>1. ASSUME \A j \in 1..((k + 1) - 1) : ~Cuts(f[j - 1], w[j], a), NEW j \in 1..(k - 1)
            PROVE  ~Cuts(h[j - 1], t[j], a)
        <5>1. j + 1 \in 1..((k + 1) - 1) /\ j - 1 \in 0..N /\ j \in 1..N /\ (j + 1) - 1 = (j - 1) + 1 BY <1>1
        <5> QED BY <1>1, <1>4, <4>1, <5>1
      <4>2. ASSUME \A j \in 1..(k - 1) : ~Cuts(h[j - 1], t[j], a), NEW j \in 1..((k + 1) - 1)
            PROVE  ~Cuts(f[j - 1], w[j], a)
        <5>1. CASE j = 1 BY <1>1, <1>2, <1>7, <5>1
        <5>2. CASE j # 1
          <6>1. j - 1 \in 1..(k - 1) /\ (j - 1) - 1 \in 0..N /\ j - 1 \in 1..N /\ ((j - 1) - 1) + 1 = j - 1 /\ (j - 1) + 1 = j
            BY <1>1, <5>2
          <6> QED BY <1>1, <1>4, <4>2, <6>1
        <5> QED BY <5>1, <5>2
      <4> QED BY <4>1, <4>2
    <3>2. t[k] = w[k + 1] BY <1>1
    <3> QED BY <3>1, <3>2 DEF HitAt
  <2>2. Leads(t, a, h)
    <3>1. \A k \in 1..N : StepTo(h[k - 1], h[k], t[k], HitAt(t, h, a, k)) BY <1>6, <2>1
    <3> QED BY <3>1 DEF Leads, N
  <2> QED BY <1>3, <2>2 DEF Mirrors, N
<1>8. ASSUME Cuts(v, m, a), NEW b, b \intersect Answered(t) = {} PROVE Mirrors(t, b, f[1], u)
  <2>1. \A k \in 1..N : HitAt(w, f, a, k + 1) = HitAt(t, h, b, k)
    <3> TAKE k \in 1..N
    <3>1. ~HitAt(t, h, b, k) BY <1>8 DEF HitAt, Answered, N
    <3>2. 1 \in 1..((k + 1) - 1) OBVIOUS
    <3>3. ~HitAt(w, f, a, k + 1) BY <1>1, <1>2, <1>8, <3>2 DEF HitAt
    <3> QED BY <3>1, <3>3 DEF HitAt
  <2>2. Leads(t, b, h)
    <3>1. \A k \in 1..N : StepTo(h[k - 1], h[k], t[k], HitAt(t, h, b, k)) BY <1>6, <2>1
    <3> QED BY <3>1 DEF Leads, N
  <2> QED BY <1>3, <2>2 DEF Mirrors, N
<1> QED BY <1>3, <1>5, <1>7, <1>8 DEF t

\* More messages are told.
LEMMA MirrorsCat ==
  ASSUME NEW w, w \in Seq(BtMsgs), NEW a, NEW v, NEW u, Mirrors(w, a, v, u), NEW s, s \in Seq(BtMsgs)
  PROVE  \E on \in BOOLEAN : \A h \in [0..Len(s) -> Views] :
           /\ h[0] = u
           /\ \A k \in 1..Len(s) : /\ StepTo(h[k - 1], h[k], s[k], k = 1 /\ on /\ s[k].kind = "reply" /\ s[k].call \in a)
                                   /\ k # 1 => ~(s[k].kind = "reply" /\ s[k].call \in a)
           => Mirrors(w \o s, a, v, h[Len(s)])
<1> DEFINE r == w \o s
           N == Len(w)
           M == Len(s)
<1>1. /\ r \in Seq(BtMsgs) /\ N \in Nat /\ M \in Nat /\ Len(r) = N + M
      /\ \A i \in 1..N : r[i] = w[i]
      /\ \A i \in 1..M : r[N + i] = s[i]
  BY CatSo
<1>2. PICK f \in [0..N -> Views] : f[0] = v /\ f[N] = u /\ Leads(w, a, f) BY DEF Mirrors
<1> DEFINE on == \A j \in 1..N : ~Cuts(f[j - 1], w[j], a)
<1>3. on \in BOOLEAN OBVIOUS
<1>4. ASSUME NEW h \in [0..M -> Views], h[0] = u,
             \A k \in 1..M : /\ StepTo(h[k - 1], h[k], s[k], k = 1 /\ on /\ s[k].kind = "reply" /\ s[k].call \in a)
                             /\ k # 1 => ~(s[k].kind = "reply" /\ s[k].call \in a)
      PROVE  Mirrors(r, a, v, h[M])
  <2> DEFINE e == [k \in 0..(N + M) |-> IF k <= N THEN f[k] ELSE h[k - N]]
  <2> HIDE DEF r, N, M, on
  <2>1. e \in [0..(N + M) -> Views]
    <3>1. \A k \in 0..(N + M) : IF k <= N THEN k \in 0..N ELSE k - N \in 0..M BY <1>1
    <3> QED BY <1>2, <1>4, <3>1
  <2>2. \A k \in 0..N : e[k] = f[k] BY <1>1
  <2>3. \A k \in 0..M : e[N + k] = h[k]
    <3> TAKE k \in 0..M
    <3>1. CASE k = 0 BY <1>1, <1>2, <1>4, <2>2, <3>1
    <3>2. CASE k # 0
      <4>1. N + k \in 0..(N + M) /\ ~(N + k <= N) /\ (N + k) - N = k BY <1>1, <3>2
      <4> QED BY <4>1
    <3> QED BY <3>1, <3>2
  <2>4. e[0] = v /\ e[N + M] = h[M]
    <3>1. 0 \in 0..N /\ M \in 0..M BY <1>1
    <3> QED BY <1>2, <2>2, <2>3, <3>1
  <2> HIDE DEF e
  <2>5. \A k \in 1..N : StepTo(e[k - 1], e[k], r[k], HitAt(r, e, a, k))
    <3> TAKE k \in 1..N
    <3>1. k \in 0..N /\ k - 1 \in 0..N /\ r[k] = w[k] BY <1>1
    <3>2. \A j \in 1..(k - 1) : j - 1 \in 0..N /\ j \in 1..N /\ e[j - 1] = f[j - 1] /\ r[j] = w[j] BY <1>1, <2>2
    <3>3. HitAt(r, e, a, k) = HitAt(w, f, a, k) BY <3>1, <3>2 DEF HitAt
    <3>4. StepTo(f[k - 1], f[k], w[k], HitAt(w, f, a, k)) BY <1>2 DEF Leads, N
    <3> QED BY <2>2, <3>1, <3>3, <3>4
  <2>6. \A k \in 1..M : StepTo(e[N + k - 1], e[N + k], r[N + k], HitAt(r, e, a, N + k))
    <3> TAKE k \in 1..M
    <3>1. k \in 0..M /\ k - 1 \in 0..M /\ N + k - 1 = N + (k - 1) /\ r[N + k] = s[k] BY <1>1
    <3>2. HitAt(r, e, a, N + k) = (k = 1 /\ on /\ s[k].kind = "reply" /\ s[k].call \in a)
      <4>1. CASE k = 1
        <5>1. N + k - 1 = N BY <1>1, <4>1
        <5>2. \A j \in 1..N : j - 1 \in 0..N /\ e[j - 1] = f[j - 1] /\ r[j] = w[j] BY <1>1, <2>2
        <5>6. ASSUME NEW i PROVE HitAt(r, e, a, i) <=> (r[i].kind = "reply" /\ r[i].call \in a /\ \A j \in 1..(i - 1) : ~Cuts(e[j - 1], r[j], a))
          BY DEF HitAt
        <5>7. PICK i : i = N + k OBVIOUS
        <5>11. r[i] = s[k] BY Zenon, <3>1, <5>7
        <5>12. i - 1 = N BY <1>1, <4>1, <5>7
        <5>8. r[i] = s[k] /\ i - 1 = N BY <5>11, <5>12
        <5>9. (\A j \in 1..(i - 1) : ~Cuts(e[j - 1], r[j], a)) <=> on BY <5>2, <5>8 DEF on
        <5>10. HitAt(r, e, a, i) <=> (s[k].kind = "reply" /\ s[k].call \in a /\ on) BY <5>6, <5>8, <5>9
        <5>4. HitAt(r, e, a, N + k) <=> (s[k].kind = "reply" /\ s[k].call \in a /\ on) BY <5>7, <5>10
        <5>5. HitAt(r, e, a, N + k) \in BOOLEAN BY DEF HitAt
        <5> QED BY <4>1, <5>4, <5>5
      <4>2. CASE k # 1 BY <1>4, <3>1, <4>2 DEF HitAt
      <4> QED BY <4>1, <4>2
    <3>3. e[N + k - 1] = h[k - 1] /\ e[N + k] = h[k] BY <2>3, <3>1
    <3> QED BY <1>4, <3>1, <3>2, <3>3
  <2>7. Leads(r, a, e)
    <3> SUFFICES ASSUME NEW k \in 1..(N + M) PROVE StepTo(e[k - 1], e[k], r[k], HitAt(r, e, a, k))
      BY <1>1 DEF Leads
    <3>1. CASE k <= N BY <1>1, <2>5, <3>1
    <3>2. CASE ~(k <= N)
      <4>1. k - N \in 1..M /\ N + (k - N) = k /\ N + (k - N) - 1 = k - 1 BY <1>1, <3>2
      <4>2. StepTo(e[N + (k - N) - 1], e[N + (k - N)], r[N + (k - N)], HitAt(r, e, a, N + (k - N))) BY <2>6, <4>1
      <4> QED BY <4>1, <4>2
    <3> QED BY <3>1, <3>2
  <2> QED BY <1>1, <2>1, <2>4, <2>7 DEF Mirrors
<1> HIDE DEF on
<1> QED BY <1>3, <1>4

\* Messages none of which is awaited take u to t.
Path(u, s, a, t) ==
  /\ s \in Seq(BtMsgs)
  /\ \E h \in [0..Len(s) -> Views] :
       /\ h[0] = u /\ h[Len(s)] = t
       /\ \A k \in 1..Len(s) : StepTo(h[k - 1], h[k], s[k], FALSE) /\ ~(s[k].kind = "reply" /\ s[k].call \in a)

LEMMA MirrorsPath ==
  ASSUME NEW w, w \in Seq(BtMsgs), NEW a, NEW v, NEW u, Mirrors(w, a, v, u), NEW s, NEW t, Path(u, s, a, t)
  PROVE  Mirrors(w \o s, a, v, t)
<1>1. s \in Seq(BtMsgs) BY DEF Path
<1>2. PICK h \in [0..Len(s) -> Views] :
        /\ h[0] = u /\ h[Len(s)] = t
        /\ \A k \in 1..Len(s) : StepTo(h[k - 1], h[k], s[k], FALSE) /\ ~(s[k].kind = "reply" /\ s[k].call \in a)
  BY DEF Path
<1>3. PICK on \in BOOLEAN : \A e \in [0..Len(s) -> Views] :
           /\ e[0] = u
           /\ \A k \in 1..Len(s) : /\ StepTo(e[k - 1], e[k], s[k], k = 1 /\ on /\ s[k].kind = "reply" /\ s[k].call \in a)
                                   /\ k # 1 => ~(s[k].kind = "reply" /\ s[k].call \in a)
           => Mirrors(w \o s, a, v, e[Len(s)])
  BY <1>1, MirrorsCat
<1>4. \A k \in 1..Len(s) : (k = 1 /\ on /\ s[k].kind = "reply" /\ s[k].call \in a) = FALSE BY <1>2
<1>5. \A k \in 1..Len(s) : /\ StepTo(h[k - 1], h[k], s[k], k = 1 /\ on /\ s[k].kind = "reply" /\ s[k].call \in a)
                           /\ k # 1 => ~(s[k].kind = "reply" /\ s[k].call \in a)
  BY <1>2, <1>4
<1> QED BY <1>2, <1>3, <1>5

LEMMA MirrorsReply ==
  ASSUME NEW w, w \in Seq(BtMsgs), NEW a, NEW v, NEW u, u \in Views, Mirrors(w, a, v, u),
         NEW m, m \in BtMsgs, m.kind = "reply"
  PROVE  \E hit \in BOOLEAN : /\ hit => m.call \in a
                              /\ \A t \in Views : StepTo(u, t, m, hit) => Mirrors(w \o <<m>>, a, v, t)
<1> DEFINE s == <<m>>
<1>1. s \in Seq(BtMsgs) /\ Len(s) = 1 /\ s[1] = m BY OneSo
<1> HIDE DEF s
<1>2. PICK on \in BOOLEAN : \A h \in [0..Len(s) -> Views] :
           /\ h[0] = u
           /\ \A k \in 1..Len(s) : /\ StepTo(h[k - 1], h[k], s[k], k = 1 /\ on /\ s[k].kind = "reply" /\ s[k].call \in a)
                                   /\ k # 1 => ~(s[k].kind = "reply" /\ s[k].call \in a)
           => Mirrors(w \o s, a, v, h[Len(s)])
  BY <1>1, MirrorsCat
<1> DEFINE hit == on /\ m.call \in a
<1>3. hit \in BOOLEAN /\ (hit => m.call \in a) OBVIOUS
<1>4. ASSUME NEW t \in Views, StepTo(u, t, m, hit) PROVE Mirrors(w \o s, a, v, t)
  <2> DEFINE h == [k \in 0..1 |-> IF k = 0 THEN u ELSE t]
  <2>1. h \in [0..Len(s) -> Views] /\ h[0] = u /\ h[1] = t BY <1>1
  <2> HIDE DEF h
  <2>2. ASSUME NEW k \in 1..Len(s)
        PROVE  /\ StepTo(h[k - 1], h[k], s[k], k = 1 /\ on /\ s[k].kind = "reply" /\ s[k].call \in a)
               /\ k # 1 => ~(s[k].kind = "reply" /\ s[k].call \in a)
    <3>1. k = 1 /\ k - 1 = 0 BY <1>1
    <3>2. (k = 1 /\ on /\ s[k].kind = "reply" /\ s[k].call \in a) = hit BY <1>1, <3>1
    <3> QED BY <1>1, <1>4, <2>1, <3>1, <3>2
  <2>3. Mirrors(w \o s, a, v, h[Len(s)]) BY <1>2, <2>1, <2>2
  <2> QED BY <1>1, <2>1, <2>3
<1> HIDE DEF hit
<1> QED BY <1>3, <1>4 DEF s

LEMMA PathNone == ASSUME NEW u, u \in Views, NEW a PROVE Path(u, <<>>, a, u)
<1> DEFINE s == <<>>
           h == [k \in 0..0 |-> u]
<1>1. s \in Seq(BtMsgs) /\ Len(s) = 0 BY NoneSo
<1>2. h \in [0..0 -> Views] /\ h[0] = u OBVIOUS
<1> HIDE DEF s, h
<1>3. 1..Len(s) = {} BY <1>1
<1>4. Path(u, s, a, u) BY <1>1, <1>2, <1>3 DEF Path
<1> QED BY <1>4 DEF s

LEMMA PathOne ==
  ASSUME NEW u, u \in Views, NEW t, t \in Views, NEW a, NEW m, m \in BtMsgs, StepTo(u, t, m, FALSE),
         ~(m.kind = "reply" /\ m.call \in a)
  PROVE  Path(u, <<m>>, a, t)
<1> DEFINE s == <<m>>
           h == [k \in 0..1 |-> IF k = 0 THEN u ELSE t]
<1>1. s \in Seq(BtMsgs) /\ Len(s) = 1 /\ s[1] = m BY OneSo
<1>2. h \in [0..1 -> Views] /\ h[0] = u /\ h[1] = t OBVIOUS
<1> HIDE DEF s, h
<1>3. \A k \in 1..Len(s) : k = 1 /\ k - 1 = 0 BY <1>1
<1>4. \A k \in 1..Len(s) : StepTo(h[k - 1], h[k], s[k], FALSE) /\ ~(s[k].kind = "reply" /\ s[k].call \in a)
  BY <1>1, <1>2, <1>3
<1>5. Path(u, s, a, t) BY <1>1, <1>2, <1>4 DEF Path
<1> QED BY <1>5 DEF s

LEMMA PathCat ==
  ASSUME NEW u, NEW v, NEW t, NEW a, NEW s, NEW r, Path(u, s, a, v), Path(v, r, a, t)
  PROVE  Path(u, s \o r, a, t)
<1> DEFINE w == s \o r
           N == Len(s)
           M == Len(r)
<1>0. s \in Seq(BtMsgs) /\ r \in Seq(BtMsgs) BY DEF Path
<1>1. /\ w \in Seq(BtMsgs) /\ N \in Nat /\ M \in Nat /\ Len(w) = N + M
      /\ \A i \in 1..N : w[i] = s[i]
      /\ \A i \in 1..M : w[N + i] = r[i]
  BY <1>0, CatSo
<1>2. PICK f \in [0..N -> Views] :
        /\ f[0] = u /\ f[N] = v
        /\ \A k \in 1..N : StepTo(f[k - 1], f[k], s[k], FALSE) /\ ~(s[k].kind = "reply" /\ s[k].call \in a)
  BY DEF Path
<1>3. PICK h \in [0..M -> Views] :
        /\ h[0] = v /\ h[M] = t
        /\ \A k \in 1..M : StepTo(h[k - 1], h[k], r[k], FALSE) /\ ~(r[k].kind = "reply" /\ r[k].call \in a)
  BY DEF Path
<1> DEFINE e == [k \in 0..(N + M) |-> IF k <= N THEN f[k] ELSE h[k - N]]
<1> HIDE DEF w, N, M
<1>4. e \in [0..(N + M) -> Views]
  <2>1. \A k \in 0..(N + M) : IF k <= N THEN k \in 0..N ELSE k - N \in 0..M BY <1>1
  <2> QED BY <1>2, <1>3, <2>1
<1>5. \A k \in 0..N : e[k] = f[k] BY <1>1
<1>6. \A k \in 0..M : e[N + k] = h[k]
  <2> TAKE k \in 0..M
  <2>1. CASE k = 0 BY <1>1, <1>2, <1>3, <1>5, <2>1
  <2>2. CASE k # 0
    <3>1. N + k \in 0..(N + M) /\ ~(N + k <= N) /\ (N + k) - N = k BY <1>1, <2>2
    <3> QED BY <3>1
  <2> QED BY <2>1, <2>2
<1>7. e[0] = u /\ e[N + M] = t
  <2>1. 0 \in 0..N /\ M \in 0..M BY <1>1
  <2> QED BY <1>2, <1>3, <1>5, <1>6, <2>1
<1> HIDE DEF e
<1>8. \A k \in 1..(N + M) : StepTo(e[k - 1], e[k], w[k], FALSE) /\ ~(w[k].kind = "reply" /\ w[k].call \in a)
  <2> TAKE k \in 1..(N + M)
  <2>1. CASE k <= N
    <3>1. k \in 1..N /\ k \in 0..N /\ k - 1 \in 0..N BY <1>1, <2>1
    <3> QED BY <1>1, <1>2, <1>5, <3>1
  <2>2. CASE ~(k <= N)
    <3> DEFINE j == k - N
    <3>1. j \in 1..M /\ j \in 0..M /\ j - 1 \in 0..M /\ N + j = k /\ N + (j - 1) = k - 1 BY <1>1, <2>2
    <3> HIDE DEF j
    <3>2. e[k] = h[j] /\ e[k - 1] = h[j - 1] /\ w[k] = r[j] BY <1>1, <1>6, <3>1
    <3> QED BY <1>3, <3>1, <3>2
  <2> QED BY <2>1, <2>2
<1>9. Path(u, w, a, t) BY <1>1, <1>4, <1>7, <1>8 DEF Path
<1> QED BY <1>9 DEF w

ReplyTo(m, c) == m.kind = "reply" /\ m.call = c
\* The failure of calls that are not awaited shows nothing.
LEMMA PathFails ==
  ASSUME NEW u, u \in Views, NEW a, NEW S, S \subseteq BtCalls, IsFiniteSet(S), \A c \in S : ~c.stale,
         S \intersect a = {}
  PROVE  Path(u, Fails(S), a, u)
<1> DEFINE s == Fails(S)
<1>1. /\ s \in Seq(BtMsgs) /\ Len(s) \in Nat
      /\ \A i \in 1..Len(s) : \E c \in S : s[i] = Reply(c, "failed")
  BY FailsSo
<1> HIDE DEF s
<1> DEFINE h == [k \in 0..Len(s) |-> u]
<1>2. h \in [0..Len(s) -> Views] /\ \A k \in 0..Len(s) : h[k] = u OBVIOUS
<1> HIDE DEF h
<1>6. \A c \in S : ReplyTo(Reply(c, "failed"), c) BY DEF Reply, ReplyTo
<1>3. \A k \in 1..Len(s) : s[k].kind = "reply" /\ s[k].call \in S BY <1>1, <1>6 DEF ReplyTo
<1>4. \A k \in 1..Len(s) : StepTo(h[k - 1], h[k], s[k], FALSE) /\ ~(s[k].kind = "reply" /\ s[k].call \in a)
  <2> TAKE k \in 1..Len(s)
  <2>1. k \in 0..Len(s) /\ k - 1 \in 0..Len(s) BY <1>1
  <2>2. StepTo(u, u, s[k], FALSE) BY <1>3 DEF StepTo
  <2> QED BY <1>2, <1>3, <2>1, <2>2
<1>5. h[0] = u /\ h[Len(s)] = u BY <1>1, <1>2
<1> QED BY <1>1, <1>2, <1>4, <1>5 DEF Path, s

\* What is told about devices is shown of those that are heeded.
HeedsOf(u, kind, d) == IF kind = "added" THEN u.up /\ u.adapter ELSE u.devs[d].there
Heeded(u, t, kind, S, b) ==
  /\ t.up = u.up /\ t.adapter = u.adapter /\ t.powered = u.powered /\ t.want = u.want
  /\ \A d \in BtDevices : t.devs[d] = IF d \in S /\ HeedsOf(u, kind, d) THEN b.devs[d] ELSE u.devs[d]
LEMMA PathAbouts ==
  ASSUME BtAssumption, NEW u, u \in Views, NEW a, NEW kind, kind \in {"added", "changed"}, NEW S, S \subseteq BtDevices,
         NEW b, \A d \in S : b.devs[d] \in BtFacts /\ b.devs[d].there
  PROVE  \E t \in Views : Path(u, AboutEach(kind, S, b), a, t) /\ Heeded(u, t, kind, S, b)
<1>0. EachOf(AboutEach(kind, S, b), Cardinality(S), SetToSeq(S), kind, S, b) BY AboutEachSo
<1> DEFINE s == AboutEach(kind, S, b)
           n == Cardinality(S)
           q == SetToSeq(S)
<1>1. /\ s \in Seq(BtMsgs) /\ n \in Nat /\ Len(s) = n
      /\ \A i \in 1..n : \E d \in S : s[i] = About(kind, d, b.devs[d]) /\ q[i] = d
      /\ \A d \in S : \E i \in 1..n : q[i] = d
  BY <1>0 DEF EachOf
<1> HIDE DEF s, n, q
<1> DEFINE To(k, d) == (\E i \in 1..k : q[i] = d) /\ d \in S /\ HeedsOf(u, kind, d)
           devs(k) == [d \in BtDevices |-> IF To(k, d) THEN b.devs[d] ELSE u.devs[d]]
           h == [k \in 0..n |-> [up |-> u.up, adapter |-> u.adapter, powered |-> u.powered, want |-> u.want, devs |-> devs(k)]]
<1>2. /\ u.up \in BOOLEAN /\ u.adapter \in BOOLEAN /\ u.powered \in BOOLEAN /\ u.want \in BOOLEAN
      /\ u.devs \in [BtDevices -> BtFacts]
  BY DEF Views
<1>3. \A k \in 0..n : devs(k) \in [BtDevices -> BtFacts] BY <1>2
<1>4. \A k \in 0..n : /\ h[k].up = u.up /\ h[k].adapter = u.adapter /\ h[k].powered = u.powered
                      /\ h[k].want = u.want /\ h[k].devs = devs(k)
  OBVIOUS
<1>5. \A k \in 0..n : \A d \in BtDevices : h[k].devs[d] = IF To(k, d) THEN b.devs[d] ELSE u.devs[d] BY <1>4
<1>6. h \in [0..n -> Views]
  <2> HIDE DEF devs
  <2> QED BY <1>2, <1>3 DEF Views
<1>7. h[0] = u
  <2>1. \A d \in BtDevices : ~To(0, d) OBVIOUS
  <2>2. devs(0) = u.devs BY <1>2, <2>1
  <2>3. h[0] = [up |-> u.up, adapter |-> u.adapter, powered |-> u.powered, want |-> u.want, devs |-> u.devs]
    BY <1>1, <2>2
  <2> QED BY <2>3 DEF Views
<1> HIDE DEF h, To, devs
<1>8. \A k \in 1..n : StepTo(h[k - 1], h[k], s[k], FALSE) /\ ~(s[k].kind = "reply" /\ s[k].call \in a)
  <2> TAKE k \in 1..n
  <2>1. k \in 0..n /\ k - 1 \in 0..n BY <1>1
  <2>2. PICK d \in S : s[k] = About(kind, d, b.devs[d]) /\ q[k] = d BY <1>1
  <2>3. s[k].kind = kind /\ s[k].dev = d /\ s[k].as = b.devs[d] BY <2>2, SaidSo
  <2>4. To(k, d) <=> HeedsOf(u, kind, d) BY <2>1, <2>2 DEF To
  <2>5. \A e \in BtDevices : e # d => (To(k, e) <=> To(k - 1, e))
    <3> SUFFICES ASSUME NEW e \in BtDevices, e # d PROVE (\E i \in 1..k : q[i] = e) <=> (\E i \in 1..(k - 1) : q[i] = e)
      BY DEF To
    <3> QED BY <1>1, <2>2
  <2>6. d \in BtDevices BY <2>2
  <2> DEFINE v == h[k - 1]
             t == h[k]
  <2>7. /\ v.up = u.up /\ v.adapter = u.adapter /\ v.powered = u.powered /\ v.want = u.want
        /\ t.up = u.up /\ t.adapter = u.adapter /\ t.powered = u.powered /\ t.want = u.want /\ v \in Views /\ t \in Views
    BY <1>4, <1>6, <2>1
  <2>8. \A e \in BtDevices : /\ v.devs[e] = IF To(k - 1, e) THEN b.devs[e] ELSE u.devs[e]
                             /\ t.devs[e] = IF To(k, e) THEN b.devs[e] ELSE u.devs[e]
    BY <1>5, <2>1
  <2> HIDE DEF v, t
  <2>9. Heeds(v, s[k]) <=> HeedsOf(u, kind, d)
    <3>1. CASE kind = "added" BY <2>3, <2>7, <3>1 DEF Heeds, HeedsOf
    <3>2. CASE kind = "changed"
      <4>1. v.devs[d].there <=> u.devs[d].there
        <5>1. To(k - 1, d) => u.devs[d].there BY <3>2 DEF To, HeedsOf
        <5> QED BY <2>2, <2>6, <2>8, <5>1
      <4> QED BY <2>3, <3>2, <4>1 DEF Heeds, HeedsOf
    <3> QED BY <3>1, <3>2
  <2>10. CASE HeedsOf(u, kind, d)
    <3>1. \A e \in BtDevices : t.devs[e] = IF e # d THEN v.devs[e] ELSE b.devs[d] BY <2>4, <2>5, <2>8, <2>10
    <3>2. StepTo(v, t, s[k], FALSE) BY <2>3, <2>7, <2>9, <2>10, <3>1 DEF StepTo
    <3> QED BY <2>3, <3>2 DEF v, t
  <2>11. CASE ~HeedsOf(u, kind, d)
    <3>1. ~To(k, d) /\ ~To(k - 1, d) BY <2>11 DEF To
    <3>2. \A e \in BtDevices : t.devs[e] = v.devs[e] BY <2>5, <2>8, <3>1
    <3>3. t = v
      <4>1. t.devs = v.devs BY <2>7, <3>2 DEF Views
      <4> QED BY <2>7, <4>1 DEF Views
    <3>4. StepTo(v, t, s[k], FALSE) BY <2>3, <2>9, <2>11, <3>3 DEF StepTo
    <3> QED BY <2>3, <3>4 DEF v, t
  <2> QED BY <2>10, <2>11
<1>9. /\ h[n] \in Views /\ h[n].up = u.up /\ h[n].adapter = u.adapter /\ h[n].powered = u.powered /\ h[n].want = u.want
      /\ \A d \in BtDevices : h[n].devs[d] = IF d \in S /\ HeedsOf(u, kind, d) THEN b.devs[d] ELSE u.devs[d]
  <2>1. n \in 0..n BY <1>1
  <2>2. \A d \in BtDevices : To(n, d) <=> d \in S /\ HeedsOf(u, kind, d) BY <1>1 DEF To
  <2> QED BY <1>4, <1>5, <1>6, <2>1, <2>2
<1>10. Path(u, s, a, h[n]) BY <1>1, <1>6, <1>7, <1>8 DEF Path
<1>11. Heeded(u, h[n], kind, S, b) BY <1>9 DEF Heeded
<1> QED BY <1>9, <1>10, <1>11 DEF s

LEMMA ViewTypes ==
  ASSUME NEW u, u \in Views
  PROVE  /\ u.up \in BOOLEAN /\ u.adapter \in BOOLEAN /\ u.powered \in BOOLEAN /\ u.want \in BOOLEAN
         /\ u.devs \in [BtDevices -> BtFacts]
BY DEF Views

Fields(t, up, ad, po, want, f) == t.up = up /\ t.adapter = ad /\ t.powered = po /\ t.want = want /\ t.devs = f
LEMMA ViewMade ==
  ASSUME NEW up, up \in BOOLEAN, NEW ad, ad \in BOOLEAN, NEW po, po \in BOOLEAN, NEW want, want \in BOOLEAN,
         NEW f, f \in [BtDevices -> BtFacts]
  PROVE  \E t \in Views : Fields(t, up, ad, po, want, f)
<1> DEFINE t == [up |-> up, adapter |-> ad, powered |-> po, want |-> want, devs |-> f]
<1>1. t \in Views BY DEF Views
<1>2. Fields(t, up, ad, po, want, f) BY DEF Fields
<1> QED BY <1>1, <1>2

\* What the mirror will show once all is processed is what bluetoothd has, but for what is asked anew.
Good(b, u) ==
  /\ ~b.up => ~u.up
  /\ ~u.adapter => \A d \in BtDevices : u.devs[d] = Absent
  /\ ~u.want => /\ u.up = b.up /\ u.adapter = b.adapter
                /\ u.adapter => u.powered = b.powered /\ \A d \in BtDevices : u.devs[d] = b.devs[d]
OfObjects(a) == \A c \in a : c.what = "objects"

LEMMA PathReply ==
  ASSUME NEW a, OfObjects(a), NEW u, u \in Views, NEW m, m \in BtMsgs, m.kind = "reply", m.call.what # "objects"
  PROVE  Path(u, <<m>>, a, u)
<1>1. StepTo(u, u, m, FALSE) BY DEF StepTo
<1>2. m.call \notin a BY DEF OfObjects
<1> QED BY <1>1, <1>2, PathOne

LEMMA PathAndReply ==
  ASSUME NEW a, OfObjects(a), NEW u, u \in Views, NEW k, NEW v, NEW what, what # "objects",
         AndReply(k, v, what)
  PROVE  Path(u, v, a, u)
BY PathReply, PathNone DEF AndReply

LEMMA PathAndLate ==
  ASSUME NEW a, OfObjects(a), NEW u, u \in Views, NEW k, NEW v, AndLate(k, v)
  PROVE  Path(u, v, a, u)
<1>1. PICK m : v = <<m>> /\ m \in BtMsgs /\ m.kind = "reply" /\ m.call.what \in Reaches BY DEF AndLate
<1>2. m.call.what # "objects" BY <1>1 DEF Reaches
<1>3. Path(u, <<m>>, a, u) BY <1>1, <1>2, PathReply
<1> QED BY <1>1, <1>3

LEMMA PathSlow ==
  ASSUME NEW a, OfObjects(a), NEW u, u \in Views, BzOk(bz), NEW F, F \subseteq bz.slow
  PROVE  Path(u, Fails(F), a, u)
<1>1. bz.slow \subseteq BtCalls BY BzTypes DEF BzOk
<1>2. IsFiniteSet(F) BY FS_Subset DEF BzOk
<1>3. \A c \in F : ~c.stale /\ c.what # "objects" BY DEF BzOk, Reaches
<1>4. F \intersect a = {} BY <1>3 DEF OfObjects
<1>5. F \subseteq BtCalls BY <1>1
<1> QED BY <1>2, <1>3, <1>4, <1>5, PathFails

\* Devices change.
Walked(u, t, b) ==
  /\ t.up = u.up /\ t.adapter = u.adapter /\ t.powered = u.powered /\ t.want = u.want
  /\ ~t.adapter => \A d \in BtDevices : t.devs[d] = Absent
  /\ ~t.want /\ t.adapter => \A d \in BtDevices : t.devs[d] = b.devs[d]
StaysThere(b) == \A d \in BtDevices : b.devs[d].there = bz.devs[d].there
                                     /\ (b.devs[d] # bz.devs[d] => b.devs[d].there)
LEMMA PathChanges ==
  ASSUME BtAssumption, BzOk(bz), NEW a, NEW u, u \in Views, Good(bz, u), NEW b, BzOk(b), StaysThere(b)
  PROVE  \E t \in Views : Path(u, DevChanges(b, bz), a, t) /\ Walked(u, t, b)
<1> DEFINE S == {d \in BtDevices : b.devs[d] # bz.devs[d]}
           k == "changed"
<1>1. b.devs \in [BtDevices -> BtFacts] /\ bz.devs \in [BtDevices -> BtFacts] BY BzTypes DEF BzOk
<1>2. S \subseteq BtDevices /\ \A d \in S : b.devs[d] \in BtFacts /\ b.devs[d].there BY <1>1 DEF StaysThere
<1>3. DevChanges(b, bz) = AboutEach(k, S, b) BY DEF DevChanges
<1>4. k \in {"added", "changed"} /\ k = "changed" OBVIOUS
<1>5. \A d \in BtDevices : d \notin S => b.devs[d] = bz.devs[d] OBVIOUS
<1> HIDE DEF S, k
<1>10. PICK t \in Views : Path(u, AboutEach(k, S, b), a, t) /\ Heeded(u, t, k, S, b)
  BY <1>2, <1>4, PathAbouts
<1>6. /\ Path(u, AboutEach(k, S, b), a, t)
      /\ t.up = u.up /\ t.adapter = u.adapter /\ t.powered = u.powered /\ t.want = u.want
      /\ \A d \in BtDevices : t.devs[d] = IF d \in S /\ HeedsOf(u, k, d) THEN b.devs[d] ELSE u.devs[d]
  BY <1>10 DEF Heeded
<1>7. \A d \in BtDevices : HeedsOf(u, k, d) = u.devs[d].there BY <1>4 DEF HeedsOf
<1>8. ~u.adapter => \A d \in BtDevices : t.devs[d] = Absent
  BY <1>6, <1>7, AbsentSo DEF Good
<1>9. ASSUME ~u.want, u.adapter, NEW d \in BtDevices PROVE t.devs[d] = b.devs[d]
  <2>1. u.devs[d] = bz.devs[d] BY <1>9 DEF Good
  <2>2. d \in S => u.devs[d].there BY <1>2, <2>1 DEF StaysThere
  <2> QED BY <1>5, <1>6, <1>7, <2>1, <2>2
<1> QED BY <1>3, <1>6, <1>8, <1>9 DEF Walked

LEMMA GoodChanged ==
  ASSUME BtAssumption, BzOk(bz), NEW a, OfObjects(a), NEW u, u \in Views, Good(bz, u), NEW b, BzOk(b), NEW s, NEW k,
         Changed(b, s, k)
  PROVE  \E t \in Views : Path(u, s, a, t) /\ Good(b, t)
<1>1. PICK v : s = DevChanges(b, bz) \o v /\ (AndReply(k, v, "trust") \/ AndLate(k, v)) BY DEF Changed
<1>2. PICK t \in Views : Path(u, DevChanges(b, bz), a, t) /\ Walked(u, t, b)
  <2>1. StaysThere(b) BY DEF Changed, StaysThere
  <2> QED BY <2>1, PathChanges
<1>3. Path(t, v, a, t)
  <2> DEFINE what == "trust"
  <2>1. what # "objects" OBVIOUS
  <2>2. AndReply(k, v, what) \/ AndLate(k, v) BY <1>1
  <2> HIDE DEF what
  <2> QED BY <2>1, <2>2, PathAndReply, PathAndLate
<1>4. Path(u, s, a, t) BY <1>1, <1>2, <1>3, PathCat
<1>5. Good(b, t) BY <1>2 DEF Good, Changed, SameHost, Walked
<1> QED BY <1>4, <1>5

LEMMA GoodRemoved ==
  ASSUME BtAssumption, BzOk(bz), NEW a, OfObjects(a), NEW u, u \in Views, Good(bz, u), NEW b, BzOk(b), NEW s, NEW k,
         Removed(b, s, k)
  PROVE  \E t \in Views : Path(u, s, a, t) /\ Good(b, t)
<1>1. PICK d, F :
       /\ d \in BtDevices
       /\ F \subseteq bz.slow /\ b.devs = [bz.devs EXCEPT ![d] = Absent]
       /\ \E v : s = Fails(F) \o <<About("removed", d, Absent)>> \o v /\ AndReply(k, v, "remove")
  BY DEF Removed
<1>2. PICK v : s = Fails(F) \o <<About("removed", d, Absent)>> \o v /\ AndReply(k, v, "remove") BY <1>1
<1> DEFINE m == About("removed", d, Absent)
           f == [u.devs EXCEPT ![d] = Absent]
<1>3. m \in BtMsgs /\ m.kind = "removed" /\ m.dev = d BY <1>1, SaidSo
<1>4. f \in [BtDevices -> BtFacts] /\ \A e \in BtDevices : f[e] = IF e = d THEN Absent ELSE u.devs[e]
  BY ViewTypes, AbsentSo
<1>5. s = Fails(F) \o <<m>> \o v BY <1>2
<1> HIDE DEF m, f
<1>60. PICK t \in Views : Fields(t, u.up, u.adapter, u.powered, u.want, f)
  <2>1. u.up \in BOOLEAN /\ u.adapter \in BOOLEAN /\ u.powered \in BOOLEAN /\ u.want \in BOOLEAN BY ViewTypes
  <2> QED BY <1>4, <2>1, ViewMade
<1>6. t \in Views /\ t.up = u.up /\ t.adapter = u.adapter /\ t.powered = u.powered /\ t.want = u.want /\ t.devs = f
  BY <1>60 DEF Fields
<1>7. StepTo(u, t, m, FALSE) BY <1>3, <1>4, <1>6 DEF StepTo, Heeds
<1>8. Path(u, <<m>>, a, t) BY <1>3, <1>7, PathOne
<1>9. Path(u, Fails(F), a, u) BY <1>1, PathSlow
<1>10. Path(t, v, a, t)
  <2> DEFINE what == "remove"
  <2>1. what # "objects" /\ AndReply(k, v, what) BY <1>2
  <2> HIDE DEF what
  <2> QED BY <2>1, PathAndReply
<1>11. Path(u, Fails(F) \o <<m>>, a, t) BY <1>8, <1>9, PathCat
<1>12. Path(u, s, a, t) BY <1>5, <1>10, <1>11, PathCat
<1>13. \A e \in BtDevices : b.devs[e] = IF e = d THEN Absent ELSE bz.devs[e] BY <1>1, BzTypes DEF BzOk
<1>15. b.up = bz.up /\ b.adapter = bz.adapter /\ b.powered = bz.powered BY DEF Removed, SameHost
<1>14. Good(b, t) BY <1>4, <1>6, <1>13, <1>15 DEF Good
<1> QED BY <1>12, <1>14

LEMMA GoodFinds ==
  ASSUME BtAssumption, BzOk(bz), NEW a, OfObjects(a), NEW u, u \in Views, Good(bz, u), NEW b, BzOk(b), NEW s, NEW k,
         Finds(b, s, k)
  PROVE  \E t \in Views : Path(u, s, a, t) /\ Good(b, t)
<1>1. PICK d \in BtDevices : b.devs = [bz.devs EXCEPT ![d] = Found] /\ s = <<About("added", d, Found)>> BY DEF Finds
<1> DEFINE m == About("added", d, Found)
           f == [u.devs EXCEPT ![d] = IF u.up /\ u.adapter THEN Found ELSE u.devs[d]]
<1>2. m \in BtMsgs /\ m.kind = "added" /\ m.dev = d /\ m.as = Found BY SaidSo
<1>3. /\ f \in [BtDevices -> BtFacts]
      /\ \A e \in BtDevices : f[e] = IF e = d /\ u.up /\ u.adapter THEN Found ELSE u.devs[e]
  BY ViewTypes, AbsentSo
<1>4. s = <<m>> BY <1>1
<1> HIDE DEF m, f
<1>50. PICK t \in Views : Fields(t, u.up, u.adapter, u.powered, u.want, f)
  <2>1. u.up \in BOOLEAN /\ u.adapter \in BOOLEAN /\ u.powered \in BOOLEAN /\ u.want \in BOOLEAN BY ViewTypes
  <2> QED BY <1>3, <2>1, ViewMade
<1>5. t \in Views /\ t.up = u.up /\ t.adapter = u.adapter /\ t.powered = u.powered /\ t.want = u.want /\ t.devs = f
  BY <1>50 DEF Fields
<1>6. StepTo(u, t, m, FALSE)
  <2>1. CASE u.up /\ u.adapter BY <1>2, <1>3, <1>5, <2>1 DEF StepTo, Heeds
  <2>2. CASE ~(u.up /\ u.adapter)
    <3>1. \A e \in BtDevices : f[e] = u.devs[e] BY <1>3, <2>2
    <3>2. f = u.devs BY <1>3, <3>1, ViewTypes
    <3>3. t = u BY <1>5, <3>2 DEF Views
    <3> QED BY <1>2, <2>2, <3>3 DEF StepTo, Heeds
  <2> QED BY <2>1, <2>2
<1>7. Path(u, s, a, t) BY <1>2, <1>4, <1>6, PathOne
<1>8. \A e \in BtDevices : b.devs[e] = IF e = d THEN Found ELSE bz.devs[e] BY <1>1, BzTypes DEF BzOk
<1>9. bz.up /\ bz.adapter /\ b.up = bz.up /\ b.adapter = bz.adapter /\ b.powered = bz.powered
  BY DEF Finds, BzOk, SameHost
<1>10. Good(b, t) BY <1>3, <1>5, <1>8, <1>9 DEF Good
<1> QED BY <1>7, <1>10

\* The adapter is switched.
LEMMA GoodSwitches ==
  ASSUME BtAssumption, BzOk(bz), NEW a, OfObjects(a), NEW u, u \in Views, Good(bz, u), NEW b, BzOk(b), NEW s, NEW k,
         Switches(b, s, k)
  PROVE  \E t \in Views : Path(u, s, a, t) /\ Good(b, t)
<1>1. PICK p, v : /\ p = (IF b.powered # bz.powered THEN <<SignalOf("powered", b.powered)>> ELSE <<>>)
                  /\ s = DevChanges(b, bz) \o p \o Fails(bz.slow \ b.slow) \o v /\ AndReply(k, v, "power")
  BY DEF Switches
<1>2. StaysThere(b)
  <2>1. CASE b.devs = bz.devs
    <3>1. \A d \in BtDevices : b.devs[d] = bz.devs[d] BY <2>1
    <3> QED BY <3>1 DEF StaysThere
  <2>2. CASE NowUnpowered(b) BY <2>2 DEF NowUnpowered, StaysThere
  <2> QED BY <2>1, <2>2 DEF Switches
<1>3. PICK t \in Views : Path(u, DevChanges(b, bz), a, t) /\ Walked(u, t, b) BY <1>2, PathChanges
<1>4. b.up = bz.up /\ b.adapter /\ bz.adapter /\ b.powered \in BOOLEAN BY BzTypes DEF Switches, BzOk
<1>5. PICK r \in Views : /\ Path(t, p, a, r) /\ r.up = t.up /\ r.adapter = t.adapter /\ r.want = t.want /\ r.devs = t.devs
                         /\ (r.adapter => r.powered = IF b.powered # bz.powered THEN b.powered ELSE t.powered)
  <2>1. CASE b.powered = bz.powered
    <3>1. Path(t, <<>>, a, t) BY PathNone
    <3> QED BY <1>1, <2>1, <3>1
  <2>2. CASE b.powered # bz.powered
    <3> DEFINE m == SignalOf("powered", b.powered)
    <3>1. m \in BtMsgs BY <1>4, SaidSo
    <3>2. m.kind = "powered" /\ m.on = b.powered BY DEF SignalOf
    <3>3. p = <<m>> BY <1>1, <2>2
    <3> HIDE DEF m
    <3>4. t.up \in BOOLEAN /\ t.adapter \in BOOLEAN /\ t.powered \in BOOLEAN /\ t.want \in BOOLEAN
          /\ t.devs \in [BtDevices -> BtFacts] BY ViewTypes
    <3>5. CASE t.adapter
      <4>1. PICK r \in Views : Fields(r, t.up, t.adapter, b.powered, t.want, t.devs) BY <1>4, <3>4, ViewMade
      <4>2. StepTo(t, r, m, FALSE) BY <3>2, <3>5, <4>1 DEF Fields, StepTo
      <4>3. Path(t, p, a, r) BY <3>1, <3>2, <3>3, <4>2, PathOne
      <4> QED BY <2>2, <4>1, <4>3 DEF Fields
    <3>6. CASE ~t.adapter
      <4>1. StepTo(t, t, m, FALSE) BY <3>2, <3>6 DEF StepTo
      <4>2. Path(t, p, a, t) BY <3>1, <3>2, <3>3, <4>1, PathOne
      <4> QED BY <3>6, <4>2
    <3> QED BY <3>5, <3>6
  <2> QED BY <2>1, <2>2
<1>6. Path(r, Fails(bz.slow \ b.slow), a, r)
  <2> DEFINE F == bz.slow \ b.slow
  <2>1. F \subseteq bz.slow OBVIOUS
  <2> HIDE DEF F
  <2>2. Path(r, Fails(F), a, r) BY <2>1, PathSlow
  <2> QED BY <2>2 DEF F
<1>7. Path(r, v, a, r)
  <2> DEFINE what == "power"
  <2>1. what # "objects" /\ AndReply(k, v, what) BY <1>1
  <2> HIDE DEF what
  <2> QED BY <2>1, PathAndReply
<1>8. Path(u, DevChanges(b, bz) \o p, a, r) BY <1>3, <1>5, PathCat
<1>9. Path(u, DevChanges(b, bz) \o p \o Fails(bz.slow \ b.slow), a, r) BY <1>6, <1>8, PathCat
<1>10. Path(u, s, a, r) BY <1>1, <1>7, <1>9, PathCat
<1>11. Good(b, r)
  <2>1. /\ r.up = u.up /\ r.adapter = u.adapter /\ r.want = u.want
        /\ ~r.adapter => \A d \in BtDevices : r.devs[d] = Absent
        /\ ~r.want /\ r.adapter => \A d \in BtDevices : r.devs[d] = b.devs[d]
        /\ (r.adapter => r.powered = IF b.powered # bz.powered THEN b.powered ELSE u.powered)
    BY <1>3, <1>5 DEF Walked
  <2> QED BY <1>4, <2>1 DEF Good
<1> QED BY <1>10, <1>11

\* bluetoothd goes down, comes back, loses its adapter and finds one.
LEMMA BlankMade ==
  ASSUME NEW up, up \in BOOLEAN, NEW want, want \in BOOLEAN
  PROVE  \E t \in Views : Blank(t) /\ t.up = up /\ t.want = want
<1> DEFINE f == [d \in BtDevices |-> Absent]
           no == FALSE
<1>1. f \in [BtDevices -> BtFacts] /\ no \in BOOLEAN /\ ~no BY AbsentSo
<1>2. \A d \in BtDevices : f[d] = Absent OBVIOUS
<1> HIDE DEF f, no
<1>3. PICK t \in Views : Fields(t, up, no, no, want, f) BY <1>1, ViewMade
<1> QED BY <1>1, <1>2, <1>3 DEF Fields, Blank

LEMMA GoodDowns ==
  ASSUME BtAssumption, BzOk(bz), NEW a, OfObjects(a), NEW u, u \in Views, Good(bz, u), NEW b, BzOk(b), NEW s, NEW k,
         Downs(b, s, k)
  PROVE  \E t \in Views : Path(u, s, a, t) /\ Good(b, t)
<1> DEFINE m == SignalOf("name", FALSE)
           no == FALSE
<1>1. m \in BtMsgs BY SaidSo
<1>2. m.kind = "name" /\ ~m.on BY DEF SignalOf
<1>3. \/ s = Fails(bz.slow) \o <<m>>
      \/ s = <<m>> \o Fails(bz.slow)
  BY DEF Downs
<1>4. no \in BOOLEAN /\ ~no OBVIOUS
<1> HIDE DEF m, no
<1>5. PICK t \in Views : Blank(t) /\ t.up = no /\ t.want = no BY <1>4, BlankMade
<1>6. StepTo(u, t, m, FALSE) BY <1>2, <1>4, <1>5 DEF StepTo
<1>7. Path(u, <<m>>, a, t) BY <1>1, <1>2, <1>6, PathOne
<1>8. Path(u, Fails(bz.slow), a, u) /\ Path(t, Fails(bz.slow), a, t) BY PathSlow
<1>9. Path(u, s, a, t) BY <1>3, <1>7, <1>8, PathCat
<1>10. ~b.adapter /\ ~b.up /\ b.up \in BOOLEAN /\ b.adapter \in BOOLEAN BY BzTypes DEF Downs, Lost, BzOk
<1>11. Good(b, t) BY <1>4, <1>5, <1>10, ViewTypes DEF Good, Blank
<1> QED BY <1>9, <1>11

LEMMA GoodUnplugs ==
  ASSUME BtAssumption, BzOk(bz), NEW a, OfObjects(a), NEW u, u \in Views, Good(bz, u), NEW b, BzOk(b), NEW s, NEW k,
         Unplugs(b, s, k)
  PROVE  \E t \in Views : Path(u, s, a, t) /\ Good(b, t)
<1> DEFINE m == SignalOf("unplugged", FALSE)
           yes == TRUE
<1>1. m \in BtMsgs BY SaidSo
<1>2. m.kind = "unplugged" BY DEF SignalOf
<1>3. s = Fails(bz.slow) \o <<m>> /\ bz.adapter /\ b.up BY DEF Unplugs
<1>4. yes \in BOOLEAN /\ yes OBVIOUS
<1> HIDE DEF m, yes
<1>5. Path(u, Fails(bz.slow), a, u) BY PathSlow
<1>6. CASE u.adapter
  <2>1. u.up \in BOOLEAN BY ViewTypes
  <2>2. PICK t \in Views : Blank(t) /\ t.up = u.up /\ t.want = yes BY <1>4, <2>1, BlankMade
  <2>3. StepTo(u, t, m, FALSE) BY <1>2, <1>4, <1>6, <2>2 DEF StepTo
  <2>4. Path(u, <<m>>, a, t) BY <1>1, <1>2, <2>3, PathOne
  <2>5. Path(u, s, a, t) BY <1>3, <1>5, <2>4, PathCat
  <2>6. Good(b, t) BY <1>3, <1>4, <2>2 DEF Good, Blank
  <2> QED BY <2>5, <2>6
<1>7. CASE ~u.adapter
  <2>1. StepTo(u, u, m, FALSE) BY <1>2, <1>7 DEF StepTo
  <2>2. Path(u, <<m>>, a, u) BY <1>1, <1>2, <2>1, PathOne
  <2>3. Path(u, s, a, u) BY <1>3, <1>5, <2>2, PathCat
  <2>4. Good(b, u) BY <1>3, <1>7 DEF Good
  <2> QED BY <2>3, <2>4
<1> QED BY <1>6, <1>7

LEMMA GoodUps ==
  ASSUME BtAssumption, BzOk(bz), NEW a, OfObjects(a), NEW u, u \in Views, Good(bz, u), NEW b, BzOk(b), NEW s, NEW k,
         Ups(b, s, k)
  PROVE  \E t \in Views : Path(u, s, a, t) /\ Good(b, t)
<1> DEFINE m == SignalOf("name", TRUE)
           yes == TRUE
<1>1. m \in BtMsgs BY SaidSo
<1>2. m.kind = "name" /\ m.on BY DEF SignalOf
<1>3. s = <<m>> /\ b.up BY DEF Ups
<1>4. yes \in BOOLEAN /\ yes OBVIOUS
<1> HIDE DEF m, yes
<1>5. u.up \in BOOLEAN /\ u.adapter \in BOOLEAN /\ u.powered \in BOOLEAN /\ u.want \in BOOLEAN
      /\ u.devs \in [BtDevices -> BtFacts] BY ViewTypes
<1>6. PICK t \in Views : Fields(t, u.up, u.adapter, u.powered, yes, u.devs) BY <1>4, <1>5, ViewMade
<1>7. StepTo(u, t, m, FALSE) BY <1>2, <1>4, <1>6 DEF StepTo, Alike, Fields
<1>8. Path(u, s, a, t) BY <1>1, <1>2, <1>3, <1>7, PathOne
<1>9. Good(b, t) BY <1>3, <1>4, <1>6 DEF Good, Fields
<1> QED BY <1>8, <1>9

LEMMA GoodPlugs ==
  ASSUME BtAssumption, BzOk(bz), NEW a, OfObjects(a), NEW u, u \in Views, Good(bz, u), NEW b, BzOk(b), NEW s, NEW k,
         Plugs(b, s, k)
  PROVE  \E t \in Views : Path(u, s, a, t) /\ Good(b, t)
<1> DEFINE m == SignalOf("adapter", TRUE)
           S == {d \in BtDevices : bz.devs[d].there}
           kind == "added"
           yes == TRUE
<1>1. m \in BtMsgs BY SaidSo
<1>2. m.kind = "adapter" /\ m.on = yes BY DEF SignalOf
<1>3. s = <<m>> \o AboutEach(kind, S, bz) /\ bz.up /\ b.up /\ b.adapter /\ b.powered /\ b.devs = bz.devs /\ ~bz.adapter
  BY DEF Plugs
<1>4. yes \in BOOLEAN /\ yes /\ kind \in {"added", "changed"} /\ kind = "added" OBVIOUS
<1>5. bz.devs \in [BtDevices -> BtFacts] BY BzTypes DEF BzOk
<1>6. S \subseteq BtDevices /\ (\A d \in S : bz.devs[d] \in BtFacts /\ bz.devs[d].there)
      /\ \A d \in BtDevices : d \notin S => bz.devs[d] = Absent
  BY <1>5 DEF BzOk
<1> HIDE DEF m, yes, kind, S
<1>7. u.up \in BOOLEAN /\ u.adapter \in BOOLEAN /\ u.powered \in BOOLEAN /\ u.want \in BOOLEAN
      /\ u.devs \in [BtDevices -> BtFacts] BY ViewTypes
<1>8. PICK t \in Views : /\ Path(u, <<m>>, a, t) /\ t.up = u.up /\ t.want = u.want /\ t.devs = u.devs
                         /\ (u.up => t.adapter /\ t.powered) /\ (~u.up => t.adapter = u.adapter)
                         /\ t.powered \in BOOLEAN /\ t.adapter \in BOOLEAN
  <2>1. CASE u.up
    <3>1. PICK t \in Views : Fields(t, u.up, yes, yes, u.want, u.devs) BY <1>4, <1>7, ViewMade
    <3>2. StepTo(u, t, m, FALSE) BY <1>2, <1>4, <2>1, <3>1 DEF StepTo, Fields
    <3>3. Path(u, <<m>>, a, t) BY <1>1, <1>2, <3>2, PathOne
    <3> QED BY <1>4, <2>1, <3>1, <3>3 DEF Fields
  <2>2. CASE ~u.up
    <3>1. StepTo(u, u, m, FALSE) BY <1>2, <2>2 DEF StepTo
    <3>2. Path(u, <<m>>, a, u) BY <1>1, <1>2, <3>1, PathOne
    <3> QED BY <1>7, <2>2, <3>2
  <2> QED BY <2>1, <2>2
<1>9. PICK r \in Views : Path(t, AboutEach(kind, S, bz), a, r) /\ Heeded(t, r, kind, S, bz) BY <1>4, <1>6, PathAbouts
<1>10. Path(u, s, a, r) BY <1>3, <1>8, <1>9, PathCat
<1>11. /\ r.up = u.up /\ r.adapter = t.adapter /\ r.powered = t.powered /\ r.want = u.want
       /\ \A d \in BtDevices : r.devs[d] = IF d \in S /\ t.up /\ t.adapter THEN bz.devs[d] ELSE u.devs[d]
  BY <1>4, <1>8, <1>9 DEF Heeded, HeedsOf
<1>12. Good(b, r)
  <2>1. CASE ~r.adapter
    <3>1. ~u.up /\ ~u.adapter BY <1>7, <1>8, <1>11, <2>1
    <3>2. \A d \in BtDevices : u.devs[d] = Absent BY <3>1 DEF Good
    <3>3. \A d \in BtDevices : r.devs[d] = Absent BY <1>8, <1>11, <2>1, <3>2
    <3>4. u.want BY <1>3, <1>7, <3>1 DEF Good
    <3> QED BY <1>3, <1>11, <3>3, <3>4, <2>1 DEF Good
  <2>2. CASE r.adapter
    <3>1. CASE u.want BY <1>3, <1>11, <2>2, <3>1 DEF Good
    <3>2. CASE ~u.want
      <4>1. u.up = bz.up /\ u.adapter = bz.adapter BY <3>2 DEF Good
      <4>2. \A d \in BtDevices : u.devs[d] = Absent BY <1>3, <4>1 DEF Good
      <4>3. t.up /\ t.adapter /\ t.powered BY <1>3, <1>8, <4>1
      <4>4. \A d \in BtDevices : r.devs[d] = bz.devs[d] BY <1>6, <1>11, <4>2, <4>3
      <4>5. b.up \in BOOLEAN /\ b.adapter \in BOOLEAN /\ b.powered \in BOOLEAN /\ bz.up \in BOOLEAN BY BzTypes DEF BzOk
      <4> QED BY <1>3, <1>8, <1>11, <2>2, <4>1, <4>3, <4>4, <4>5 DEF Good
    <3> QED BY <3>1, <3>2
  <2> QED BY <2>1, <2>2
<1> QED BY <1>10, <1>12

\* A call is answered at once.
LEMMA GoodAnswers ==
  ASSUME BtAssumption, BtSound, NEW a, OfObjects(a), NEW v, NEW u, u \in Views, Mirrors(wire, a, v, u), Good(bz, u),
         NEW b, BzOk(b), NEW s, NEW k, Answers(b, s, k)
  PROVE  \E t \in Views : Mirrors(wire \o s, a, v, t) /\ Good(b, t)
<1>0. BzOk(bz) /\ wire \in Seq(BtMsgs) BY DEF BtSound
<1>1. PICK c, m : /\ s = <<m>> /\ m \in BtMsgs /\ m.kind = "reply" /\ m.call = c
                  /\ c.what = "objects" => IF bz.up THEN m.err = "done" /\ m.objects = Objects ELSE m.err = "failed"
  BY DEF Answers
<1>2. b.up = bz.up /\ b.adapter = bz.adapter /\ b.powered = bz.powered /\ b.devs = bz.devs BY DEF Answers, SameHost
<1>3. Good(b, u) BY <1>2 DEF Good
<1>4. CASE c.what # "objects"
  <2>1. Path(u, <<m>>, a, u) BY <1>1, <1>4, PathReply
  <2>2. Mirrors(wire \o s, a, v, u) BY <1>0, <1>1, <2>1, MirrorsPath
  <2> QED BY <1>3, <2>2
<1>5. CASE c.what = "objects"
  <2>1. PICK hit \in BOOLEAN : /\ hit => m.call \in a
                               /\ \A t \in Views : StepTo(u, t, m, hit) => Mirrors(wire \o <<m>>, a, v, t)
    BY <1>0, <1>1, MirrorsReply
  <2>2. CASE ~hit
    <3>1. StepTo(u, u, m, hit) BY <1>1, <2>2 DEF StepTo
    <3> QED BY <1>1, <1>3, <2>1, <3>1
  <2>3. CASE hit /\ bz.up
    <3> DEFINE f == [d \in BtDevices |-> IF bz.adapter THEN bz.devs[d] ELSE Absent]
               po == IF bz.adapter THEN bz.powered ELSE FALSE
               yes == TRUE
               no == FALSE
    <3>1. /\ bz.up \in BOOLEAN /\ bz.adapter \in BOOLEAN /\ bz.powered \in BOOLEAN /\ bz.devs \in [BtDevices -> BtFacts]
      BY <1>0, BzTypes DEF BzOk
    <3>2. f \in [BtDevices -> BtFacts] /\ po \in BOOLEAN /\ yes \in BOOLEAN /\ no \in BOOLEAN /\ yes /\ ~no BY <3>1, AbsentSo
    <3>3. \A d \in BtDevices : f[d] = IF bz.adapter THEN bz.devs[d] ELSE Absent OBVIOUS
    <3>4. po = IF bz.adapter THEN bz.powered ELSE FALSE OBVIOUS
    <3> HIDE DEF f, po, yes, no
    <3>5. PICK t \in Views : Fields(t, yes, bz.adapter, po, no, f) BY <3>1, <3>2, ViewMade
    <3>6. t.up /\ ~t.want /\ t.adapter = bz.adapter /\ t.powered = po /\ t.devs = f BY <3>2, <3>5 DEF Fields
    <3>7. /\ m.objects.adapter = bz.adapter
          /\ m.objects.powered = po
          /\ \A d \in BtDevices : m.objects.devs[d] = f[d]
      <4>1. m.objects = Objects BY <1>1, <1>5, <2>3
      <4>2. CASE bz.adapter BY <3>1, <3>3, <3>4, <4>1, <4>2 DEF Objects
      <4>3. CASE ~bz.adapter
        <5>1. m.objects = Empty BY <4>1, <4>3 DEF Objects
        <5>2. Empty.adapter = FALSE /\ Empty.powered = FALSE /\ \A d \in BtDevices : Empty.devs[d] = Absent BY DEF Empty
        <5>3. po = FALSE /\ \A d \in BtDevices : f[d] = Absent BY <3>3, <3>4, <4>3
        <5> QED BY <3>1, <4>3, <5>1, <5>2, <5>3
      <4> QED BY <4>2, <4>3
    <3>8. \A d \in BtDevices : f[d].there \/ f[d] = Absent BY <1>0, <3>3 DEF BzOk
    <3>9. StepTo(u, t, m, hit) BY <1>1, <1>5, <2>3, <3>6, <3>7, <3>8 DEF StepTo
    <3>10. Good(b, t) BY <1>2, <2>3, <3>3, <3>4, <3>6 DEF Good
    <3> QED BY <1>1, <2>1, <3>9, <3>10
  <2>4. CASE hit /\ ~bz.up
    <3> DEFINE no == FALSE
    <3>1. no \in BOOLEAN /\ ~no OBVIOUS
    <3> HIDE DEF no
    <3>2. PICK t \in Views : Blank(t) /\ t.up = no /\ t.want = no BY <3>1, BlankMade
    <3>3. m.err # "done" BY <1>1, <1>5, <2>4
    <3>4. StepTo(u, t, m, hit) BY <1>1, <2>4, <3>1, <3>2, <3>3 DEF StepTo
    <3>5. ~b.adapter /\ b.adapter \in BOOLEAN /\ b.up \in BOOLEAN /\ ~b.up BY <1>0, <1>2, <2>4, BzTypes DEF BzOk
    <3>6. Good(b, t) BY <3>1, <3>2, <3>5, ViewTypes DEF Good, Blank
    <3> QED BY <1>1, <2>1, <3>4, <3>6
  <2> QED BY <2>2, <2>3, <2>4
<1> QED BY <1>4, <1>5

\* Whatever bluetoothd does, it tells.
LEMMA GoodTold ==
  ASSUME BtAssumption, BtSound, NEW a, OfObjects(a), NEW v, NEW u, u \in Views, Mirrors(wire, a, v, u), Good(bz, u),
         NEW b, NEW s, NEW k, BluezDoes(b, s, k)
  PROVE  \E t \in Views : Mirrors(wire \o s, a, v, t) /\ Good(b, t)
<1>0. BzOk(bz) /\ wire \in Seq(BtMsgs) /\ BzOk(b) BY DEF BtSound, BluezDoes, TellsWell
<1>1. ASSUME \E t \in Views : Path(u, s, a, t) /\ Good(b, t) PROVE \E t \in Views : Mirrors(wire \o s, a, v, t) /\ Good(b, t)
  BY <1>0, <1>1, MirrorsPath
<1>2. CASE Answers(b, s, k) BY <1>0, <1>2, GoodAnswers
<1>3. CASE Keeps(b, s, k)
  <2>1. s = <<>> /\ Good(b, u) BY <1>3 DEF Keeps, SameHost, Good
  <2>2. Path(u, <<>>, a, u) BY PathNone
  <2> QED BY <1>1, <2>1, <2>2
<1>4. CASE Changed(b, s, k) BY <1>0, <1>1, <1>4, GoodChanged
<1>5. CASE Removed(b, s, k) BY <1>0, <1>1, <1>5, GoodRemoved
<1>6. CASE Finds(b, s, k) BY <1>0, <1>1, <1>6, GoodFinds
<1>7. CASE Switches(b, s, k) BY <1>0, <1>1, <1>7, GoodSwitches
<1>8. CASE Downs(b, s, k) BY <1>0, <1>1, <1>8, GoodDowns
<1>9. CASE Unplugs(b, s, k) BY <1>0, <1>1, <1>9, GoodUnplugs
<1>10. CASE Ups(b, s, k) BY <1>0, <1>1, <1>10, GoodUps
<1>11. CASE Plugs(b, s, k) BY <1>0, <1>1, <1>11, GoodPlugs
<1> QED BY <1>2, <1>3, <1>4, <1>5, <1>6, <1>7, <1>8, <1>9, <1>10, <1>11 DEF BluezDoes
-----------------------------------------------------------------------------
\* What a handler that is told nothing leaves as it was.
Calm(x, y) == /\ y.bus = x.bus /\ y.up = x.up /\ y.adapter = x.adapter /\ y.powered = x.powered
              /\ Asking(y) = Asking(x)
              /\ \A d \in BtDevices : FactsOf(y.devs[d]) = FactsOf(x.devs[d])

LEMMA CalmShows == ASSUME NEW x, NEW y, NEW v, Calm(x, y), Shows(x, v) PROVE Shows(y, v)
BY DEF Calm, Shows

LEMMA CalmThen == ASSUME NEW x, NEW y, NEW z, Calm(x, y), Calm(y, z) PROVE Calm(x, z)
BY DEF Calm

LEMMA CalmRefl == \A x : Calm(x, x)
BY DEF Calm

LEMMA CalmSame == ASSUME NEW x, NEW y, SameAdapter(x, y), y.pending = x.pending, y.devs = x.devs PROVE Calm(x, y)
BY DEF Calm, SameAdapter, Asking

LEMMA CalmAdded ==
  ASSUME NEW x, NEW y, SameAdapter(x, y), NEW c, Added(x, y, c), c.what # "objects",
         \A d \in BtDevices : FactsOf(y.devs[d]) = FactsOf(x.devs[d])
  PROVE  Calm(x, y)
<1>1. Asking(y) = Asking(x) BY DEF Added, Asking
<1> QED BY <1>1 DEF Calm, SameAdapter

LEMMA UpdateDiscoveryCalm ==
  ASSUME BtBase, NEW x, Sane(x)
  PROVE  Calm(x, UpdateDiscovery(x))
<1> DEFINE y == UpdateDiscovery(x)
<1> HIDE DEF y
<1>1. /\ Sane(y) /\ SameAdapter(x, y) /\ SameOps(x, y)
      /\ y.active = x.active => SameCalls(x, y)
      /\ y.active # x.active => \E c : Added(x, y, c) /\ c.what = IF y.active THEN "start" ELSE "stop"
  BY UpdateDiscoverySo DEF y
<1>2. y.devs = x.devs BY <1>1 DEF SameOps
<1>3. ASSUME y.active = x.active PROVE Calm(x, y) BY <1>1, <1>2, <1>3, CalmSame DEF SameCalls
<1>4. ASSUME y.active # x.active PROVE Calm(x, y)
  <2>1. PICK c : Added(x, y, c) /\ c.what = IF y.active THEN "start" ELSE "stop" BY <1>1, <1>4
  <2>2. c.what # "objects" BY <2>1
  <2>3. \A d \in BtDevices : FactsOf(y.devs[d]) = FactsOf(x.devs[d]) BY <1>2
  <2> QED BY <1>1, <2>1, <2>2, <2>3, CalmAdded
<1> QED BY <1>3, <1>4 DEF y

LEMMA SetCalm ==
  ASSUME NEW x, NEW y, NEW d, d \in BtDevices, NEW op, Sane(x), SetBy(x, y, d, op)
  PROVE  Calm(x, y)
<1>1. x.devs \in [BtDevices -> BtShown] BY MirrorTypes DEF Sane
<1>2. \A e \in BtDevices : FactsOf(y.devs[e]) = FactsOf(x.devs[e])
  <2> TAKE e \in BtDevices
  <2>1. y.devs[e] = IF e = d /\ x.devs[d].there THEN [x.devs[d] EXCEPT !.op = op] ELSE x.devs[e] BY DEF SetBy
  <2>2. x.devs[d] \in BtShown BY <1>1
  <2>3. FactsOf([x.devs[d] EXCEPT !.op = op]) = FactsOf(x.devs[d]) BY <2>2 DEF FactsOf, BtShown
  <2> QED BY <2>1, <2>3
<1>3. y.pending = x.pending /\ SameAdapter(x, y) BY DEF SetBy, SameCalls
<1> QED BY <1>2, <1>3 DEF Calm, SameAdapter, Asking

LEMMA SentCalm ==
  ASSUME NEW x, NEW y, NEW what, NEW d, NEW flag, what # "objects", SentBy(x, y, what, d, flag)
  PROVE  Calm(x, y)
BY CalmAdded DEF SentBy, SameOps

LEMMA SendConnectCalm ==
  ASSUME BtBase, NEW x, Sane(x), NEW d, d \in BtDevices, NEW flag, flag \in Flags
  PROVE  Calm(x, SendConnect(x, d, flag))
<1> DEFINE y == SendConnect(x, d, flag)
<1> HIDE DEF y
<1>1. /\ SameAdapter(x, y)
      /\ \A e \in BtDevices : y.devs[e] = IF e = d /\ x.devs[d].there THEN [x.devs[d] EXCEPT !.op = "connecting"]
                                        ELSE x.devs[e]
      /\ \E c : Added(x, y, c) /\ c.what = "connect" /\ c.dev = d /\ c.flag = flag
  BY SendConnectSo DEF y, Flags
<1>2. x.devs \in [BtDevices -> BtShown] BY MirrorTypes DEF Sane
<1>3. \A e \in BtDevices : FactsOf(y.devs[e]) = FactsOf(x.devs[e])
  <2> TAKE e \in BtDevices
  <2>2. x.devs[d] \in BtShown BY <1>2
  <2>3. FactsOf([x.devs[d] EXCEPT !.op = "connecting"]) = FactsOf(x.devs[d]) BY <2>2 DEF FactsOf, BtShown
  <2> QED BY <1>1, <2>3
<1>4. PICK c : Added(x, y, c) /\ c.what = "connect" BY <1>1
<1>5. c.what # "objects" BY <1>4
<1>6. Calm(x, y) BY <1>1, <1>3, <1>4, <1>5, CalmAdded
<1> QED BY <1>6 DEF y

LEMMA AutoconnectNextCalm ==
  ASSUME BtBase, NEW x, Sane(x)
  PROVE  Calm(x, AutoconnectNext(x))
<1> DEFINE y == AutoconnectNext(x)
<1> HIDE DEF y
<1>1. \/ y = x
      \/ \E d \in BtDevices :
           /\ Sane(y) /\ SameAdapter(x, y) /\ y.due = x.due /\ y.active = x.active
           /\ y.powering = x.powering /\ y.pairs = x.pairs /\ x.devs[d].there /\ x.up /\ x.adapter
           /\ \A e \in BtDevices : y.devs[e] = IF e = d THEN [x.devs[d] EXCEPT !.tried = TRUE, !.op = "connecting"]
                                             ELSE x.devs[e]
           /\ \E c : Added(x, y, c) /\ c.what = "connect" /\ c.dev = d /\ c.flag = "auto"
  BY AutoconnectNextSo DEF y
<1>2. ASSUME y = x PROVE Calm(x, y) BY <1>2, CalmRefl
<1>3. ASSUME y # x PROVE Calm(x, y)
  <2>1. PICK d \in BtDevices :
           /\ SameAdapter(x, y)
           /\ \A e \in BtDevices : y.devs[e] = IF e = d THEN [x.devs[d] EXCEPT !.tried = TRUE, !.op = "connecting"]
                                             ELSE x.devs[e]
           /\ \E c : Added(x, y, c) /\ c.what = "connect"
    BY <1>1, <1>3
  <2>2. x.devs \in [BtDevices -> BtShown] BY MirrorTypes DEF Sane
  <2>3. \A e \in BtDevices : FactsOf(y.devs[e]) = FactsOf(x.devs[e])
    <3> TAKE e \in BtDevices
    <3>2. x.devs[d] \in BtShown BY <2>2
    <3>3. FactsOf([x.devs[d] EXCEPT !.tried = TRUE, !.op = "connecting"]) = FactsOf(x.devs[d]) BY <3>2 DEF FactsOf, BtShown
    <3> QED BY <2>1, <3>3
  <2>4. PICK c : Added(x, y, c) /\ c.what = "connect" BY <2>1
  <2>5. c.what # "objects" BY <2>4
  <2> QED BY <2>1, <2>3, <2>4, <2>5, CalmAdded
<1> QED BY <1>2, <1>3 DEF y

LEMMA FinishPairCalm ==
  ASSUME BtBase, NEW x, Sane(x)
  PROVE  Calm(x, FinishPair(x))
<1>1. PICK z : /\ Sane(z) /\ SameAdapter(x, z) /\ SameCalls(x, z) /\ z.due = x.due /\ z.active = x.active
               /\ z.powering = x.powering /\ z.devs = x.devs
               /\ z.pairs = (IF x.pairs > 0 THEN x.pairs - 1 ELSE 0)
               /\ FinishPair(x) = UpdateDiscovery(z)
  BY FinishPairSo
<1>2. Calm(x, z) BY <1>1, CalmSame DEF SameCalls
<1>3. Calm(z, UpdateDiscovery(z)) BY <1>1, UpdateDiscoveryCalm
<1> QED BY <1>1, <1>2, <1>3, CalmThen

LEMMA OnConnectCalm ==
  ASSUME BtBase, NEW x, Sane(x), NEW c \in BtCalls, NEW err, NEW r, OnConnectAs(x, r, c, err)
  PROVE  Calm(x, r)
<1>1. CASE r = x BY <1>1, CalmRefl
<1>2. CASE ~(r = x)
  <2>1. PICK y, z : /\ SetBy(x, y, c.dev, "none")
                    /\ (z = y \/ (SentBy(y, z, "trust", c.dev, "plain") /\ err # "failed"))
                    /\ \/ c.flag = "auto" /\ (r = y \/ r = AutoconnectNext(y))
                       \/ c.flag = "pair" /\ r = FinishPair(z)
                       \/ c.flag \notin {"auto", "pair"} /\ r = z
    BY <1>2 DEF OnConnectAs
  <2>2. c.dev \in BtDevices BY CallTypes
  <2>3. Calm(x, y) /\ Sane(y) BY <2>1, <2>2, SetCalm DEF SetBy
  <2>4. Calm(x, z) /\ Sane(z)
    <3>1. CASE z = y BY <2>3, <3>1
    <3>2. CASE SentBy(y, z, "trust", c.dev, "plain")
      <4>1. Calm(y, z) BY <3>2, SentCalm
      <4>2. Sane(z) BY <2>3, <3>2, SentSane
      <4> QED BY <2>3, <4>1, <4>2, CalmThen
    <3> QED BY <2>1, <3>1, <3>2
  <2>5. Calm(y, AutoconnectNext(y)) /\ Calm(z, FinishPair(z)) BY <2>3, <2>4, AutoconnectNextCalm, FinishPairCalm
  <2>6. Calm(x, AutoconnectNext(y)) /\ Calm(x, FinishPair(z)) BY <2>3, <2>4, <2>5, CalmThen
  <2> QED BY <2>1, <2>3, <2>4, <2>6
<1> QED BY <1>1, <1>2

LEMMA OnPairCalm ==
  ASSUME BtBase, NEW x, Sane(x), NEW c \in BtCalls, NEW err, NEW r, OnPairAs(x, r, c, err)
  PROVE  Calm(x, r)
<1>0. c.dev \in BtDevices /\ "pair" \in Flags BY CallTypes DEF Flags
<1>1. CASE r = x BY <1>1, CalmRefl
<1>2. ASSUME NEW y, SetBy(x, y, c.dev, "none"), r = FinishPair(y) PROVE Calm(x, r)
  <2>1. Calm(x, y) /\ Sane(y) BY <1>0, <1>2, SetCalm DEF SetBy
  <2>2. Calm(y, r) BY <1>2, <2>1, FinishPairCalm
  <2> QED BY <2>1, <2>2, CalmThen
<1>3. ASSUME NEW y, SentBy(x, y, "trust", c.dev, "plain"), r = SendConnect(y, c.dev, "pair") PROVE Calm(x, r)
  <2>1. Calm(x, y) BY <1>3, SentCalm
  <2>2. Sane(y) BY <1>3, SentSane
  <2>3. Calm(y, r) BY <1>0, <1>3, <2>2, SendConnectCalm
  <2> QED BY <2>1, <2>3, CalmThen
<1> QED BY <1>1, <1>2, <1>3 DEF OnPairAs

\* No answer but that to the awaited request for everything is told to the mirror.
LEMMA RepliedCalm ==
  ASSUME BtBase, NEW x, Sane(x), NEW c \in BtCalls, \E p \in x.pending : AsSent(p) = c, c \notin Asking(x),
         NEW err, NEW o \in BtObjects
  PROVE  Calm(x, Replied(x, c, err, o))
<1> DEFINE r == Replied(x, c, err, o)
<1>2. RepliedAs(x, r, c, err, o) BY RepliedSo
<1> HIDE DEF r
<1>3. PICK mine, y :
        /\ mine \in x.pending
        /\ AsSent(mine) = c /\ Released(x, y, mine)
        /\ c.what = "objects"    => r = OnObjects(y, mine, err, o)
        /\ c.what = "start"      => r = OnStart(y, mine, err)
        /\ c.what = "connect"    => r = OnConnect(y, mine, err)
        /\ c.what = "pair"       => r = OnPair(y, mine, err)
        /\ c.what = "disconnect" => r = IF mine.stale THEN y ELSE SetOp(y, c.dev, "none")
        /\ c.what = "power"      => r = IF mine.stale THEN y ELSE [y EXCEPT !.powering = FALSE]
        /\ c.what \notin {"objects", "start", "connect", "pair", "disconnect", "power"} => r = y
  BY <1>2 DEF RepliedAs
<1>4. mine \in BtCalls BY <1>3, MirrorTypes DEF Sane
<1>5. mine.stale \/ mine.what # "objects" BY <1>3, <1>4, CallTypes DEF Asking
<1>6. Sane(y) BY <1>3 DEF Released
<1>7. Calm(x, y)
  <2>1. Asking(y) = Asking(x) BY <1>3, <1>5 DEF Released, Asking
  <2> QED BY <1>3, <2>1 DEF Released, Calm, SameAdapter, SameOps
<1>8. mine.what = c.what /\ c.dev \in BtDevices BY <1>3, <1>4, CallTypes
<1>9. Calm(y, r)
  <2>1. ASSUME c.what = "objects" PROVE Calm(y, r)
    <3>1. mine.stale BY <1>5, <1>8, <2>1
    <3>2. r = y BY <1>3, <1>6, <2>1, <3>1, OnObjectsSo
    <3> QED BY <3>2, CalmRefl
  <2>2. ASSUME c.what = "start" PROVE Calm(y, r)
    <3>1. r = y \/ r = [y EXCEPT !.active = FALSE] BY <1>3, <2>2 DEF OnStart
    <3>2. ASSUME r = [y EXCEPT !.active = FALSE] PROVE Calm(y, r)
      BY <1>6, <3>2, NotActiveSo, CalmSame DEF SameCalls, SameOps
    <3> QED BY <3>1, <3>2, CalmRefl
  <2>3. ASSUME c.what = "connect" PROVE Calm(y, r)
    <3>1. OnConnectAs(y, r, mine, err) BY <1>3, <1>4, <1>6, <2>3, OnConnectSo
    <3> QED BY <1>4, <1>6, <3>1, OnConnectCalm
  <2>4. ASSUME c.what = "pair" PROVE Calm(y, r)
    <3>1. OnPairAs(y, r, mine, err) BY <1>3, <1>4, <1>6, <2>4, OnPairSo
    <3> QED BY <1>4, <1>6, <3>1, OnPairCalm
  <2>5. ASSUME c.what = "disconnect" PROVE Calm(y, r)
    <3>1. "none" \in BtOps BY DEF BtOps
    <3>2. SetBy(y, SetOp(y, c.dev, "none"), c.dev, "none") BY <1>6, <1>8, <3>1, SetOpSo
    <3>3. Calm(y, SetOp(y, c.dev, "none")) BY <1>6, <1>8, <3>2, SetCalm
    <3> QED BY <1>3, <2>5, <3>3, CalmRefl
  <2>6. ASSUME c.what = "power" PROVE Calm(y, r)
    <3>1. r = y \/ r = [y EXCEPT !.powering = FALSE] BY <1>3, <2>6
    <3>2. ASSUME r = [y EXCEPT !.powering = FALSE] PROVE Calm(y, r)
      BY <1>6, <3>2, PoweringSo, CalmSame DEF SameCalls
    <3> QED BY <3>1, <3>2, CalmRefl
  <2>7. ASSUME c.what \notin {"objects", "start", "connect", "pair", "disconnect", "power"} PROVE Calm(y, r)
    BY <1>3, <2>7, CalmRefl
  <2> QED BY <2>1, <2>2, <2>3, <2>4, <2>5, <2>6, <2>7
<1>10. Calm(x, r) BY <1>7, <1>9, CalmThen
<1> QED BY <1>10 DEF r

\* Nor what the user does.
LEMMA UserCalm ==
  ASSUME BtBase, Sane(g), UserDoes
  PROVE  Calm(g, g')
<1>1. ASSUME ScanAs(g, g') PROVE Calm(g, g')
  <2>1. PICK z : /\ Sane(z) /\ SameCalls(g, z) /\ SameOps(g, z) /\ z.bus = g.bus /\ z.up = g.up /\ z.adapter = g.adapter
                 /\ z.powered = g.powered /\ g' = UpdateDiscovery(z)
    BY <1>1 DEF ScanAs
  <2>2. Calm(g, z) BY <2>1 DEF Calm, SameCalls, SameOps, Asking
  <2>3. Calm(z, g') BY <2>1, UpdateDiscoveryCalm
  <2> QED BY <2>2, <2>3, CalmThen
<1>2. ASSUME SetPoweredAs(g, g') PROVE Calm(g, g')
  <2>1. PICK d, flag, z : SentBy(g, z, "power", d, flag) /\ SameAdapter(z, g') /\ SameCalls(z, g') /\ g'.devs = z.devs
    BY <1>2 DEF SetPoweredAs
  <2>2. Calm(g, z) BY <2>1, SentCalm
  <2>3. Calm(z, g') BY <2>1 DEF Calm, SameCalls, SameAdapter, Asking
  <2> QED BY <2>2, <2>3, CalmThen
<1>3. ASSUME NEW d \in BtDevices, PairAs(g, g', d) PROVE Calm(g, g')
  <2>1. PICK z, u, v : /\ Sane(z) /\ SameCalls(g, z) /\ SameAdapter(g, z) /\ z.devs = g.devs
                       /\ u = UpdateDiscovery(z) /\ Sane(u)
                       /\ SentBy(u, v, "pair", d, "plain") /\ SetBy(v, g', d, "pairing")
    BY <1>3 DEF PairAs
  <2>2. Calm(g, z) BY <2>1, CalmSame DEF SameCalls
  <2>3. Calm(z, u) BY <2>1, UpdateDiscoveryCalm
  <2>4. Calm(u, v) BY <2>1, SentCalm
  <2>5. Sane(v) BY <2>1, SentSane
  <2>6. Calm(v, g') BY <2>1, <2>5, SetCalm
  <2>7. Calm(g, u) BY <2>2, <2>3, CalmThen
  <2>8. Calm(g, v) BY <2>4, <2>7, CalmThen
  <2> QED BY <2>6, <2>8, CalmThen
<1>4. ASSUME NEW d \in BtDevices, DisconnectAs(g, g', d) PROVE Calm(g, g')
  <2>1. PICK z : SentBy(g, z, "disconnect", d, "plain") /\ SetBy(z, g', d, "disconnecting") BY <1>4 DEF DisconnectAs
  <2>2. Calm(g, z) BY <2>1, SentCalm
  <2>3. Sane(z) BY <2>1, SentSane
  <2>4. Calm(z, g') BY <2>1, <2>3, SetCalm
  <2> QED BY <2>2, <2>4, CalmThen
<1>5. ASSUME NEW d \in BtDevices, g' = SendConnect(g, d, "plain") PROVE Calm(g, g')
  <2>1. "plain" \in Flags BY DEF Flags
  <2> QED BY <1>5, <2>1, SendConnectCalm
<1>6. ASSUME NEW d \in BtDevices, SentBy(g, g', "remove", d, "plain") PROVE Calm(g, g')
  BY <1>6, SentCalm
<1> QED BY <1>1, <1>2, <1>3, <1>4, <1>5, <1>6 DEF UserDoes

LEMMA BareFacts == FactsOf(Bare) = Absent
BY DEF FactsOf, Bare, Absent

LEMMA AgedAsks == ASSUME NEW x \in BtMirrors, NEW y, Aged(x, y) PROVE Asking(y) = {}
<1>1. \A p \in x.pending : Stale(p).stale BY StaleSo, MirrorTypes
<1> QED BY <1>1 DEF Aged, Asking

LEMMA FetchAsks ==
  ASSUME BtBase, NEW x, Sane(x), NEW y, y = Fetch(x)
  PROVE  /\ Asking(y) # {} /\ \A c \in Asking(y) : c \notin Answered(wire)
         /\ SameAdapter(x, y) /\ y.devs = x.devs
<1>1. /\ SameAdapter(x, y) /\ SameOps(x, y)
      /\ \E z, c : Sane(z) /\ Aged(x, z) /\ Added(z, y, c) /\ c.what = "objects"
  BY FetchSo
<1>2. PICK z, c : Sane(z) /\ Aged(x, z) /\ Added(z, y, c) /\ c.what = "objects" BY <1>1
<1>3. Asking(z) = {} BY <1>2, AgedAsks DEF Sane
<1>4. Asking(y) = {c} BY <1>2, <1>3 DEF Asking, Added, Unused
<1> QED BY <1>1, <1>2, <1>4 DEF Added, Unused, SameOps

\* A signal is processed: the mirror shows what it says.
LEMMA SignalShows ==
  ASSUME BtBase, NEW x, Sane(x), NEW v, Shows(x, v), NEW m \in BtMsgs, m.kind # "reply",
         NEW n, n \in Views, StepTo(v, n, m, FALSE), NEW r, r = OnSignal(x, m), NEW a
  PROVE  /\ Shows(r, n) /\ r.bus = x.bus
         /\ ~Cuts(v, m, a) => Asking(r) = Asking(x)
         /\ Cuts(v, m, a) => \A c \in Asking(r) : c \notin Answered(wire)
<1> DEFINE Fine == /\ Shows(r, n) /\ r.bus = x.bus
                   /\ ~Cuts(v, m, a) => Asking(r) = Asking(x)
                   /\ Cuts(v, m, a) => \A c \in Asking(r) : c \notin Answered(wire)
<1>0. /\ m.kind \in {"name", "powered", "adapter", "unplugged"} =>
              /\ m.on \in BOOLEAN /\ (m.kind = "adapter" => m.on) /\ (m.kind = "unplugged" => ~m.on)
      /\ m.kind \notin {"name", "powered", "adapter", "unplugged"} =>
              /\ m.kind \in {"added", "removed", "changed"} /\ m.dev \in BtDevices /\ m.as \in BtFacts
              /\ (m.kind # "removed" => m.as.there)
  BY SignalTypes
<1>1. /\ x.bus \in BOOLEAN /\ x.up \in BOOLEAN /\ x.adapter \in BOOLEAN /\ x.powered \in BOOLEAN
      /\ x.devs \in [BtDevices -> BtShown] /\ x \in BtMirrors
  BY MirrorTypes DEF Sane
<1>2. /\ m.kind = "name" /\ m.on => r = Fetch(x)
      /\ m.kind = "name" /\ ~m.on => Emptied(x, r) /\ ~r.up
      /\ m.kind = "adapter" /\ ~x.up => r = x
      /\ m.kind = "adapter" /\ x.up => \E z : Switched(x, z, m.on) /\ r = UpdateDiscovery(z)
      /\ m.kind = "unplugged" /\ ~x.adapter => r = x
      /\ m.kind = "unplugged" /\ x.adapter => \E z : Emptied(x, z) /\ z.up = x.up /\ r = Fetch(z)
      /\ m.kind = "powered" /\ ~x.adapter => r = x
      /\ m.kind = "powered" /\ x.adapter => \E z : Switched(x, z, m.on) /\ r = UpdateDiscovery(z)
      /\ m.kind = "added" /\ ~x.up => r = x
      /\ m.kind = "added" /\ x.up /\ ~x.adapter => r = UpdateDiscovery(x)
      /\ m.kind = "added" /\ x.up /\ x.adapter => \E z : ShownAs(x, z, m.dev, m.as) /\ r = UpdateDiscovery(z)
      /\ m.kind = "removed" => ShownAs(x, r, m.dev, Absent)
      /\ m.kind = "changed" /\ ~x.devs[m.dev].there => r = x
      /\ m.kind = "changed" /\ x.devs[m.dev].there => ShownAs(x, r, m.dev, m.as)
  BY OnSignalSo
<1>3. v.up = x.up /\ v.adapter = x.adapter /\ v.powered = x.powered /\ v.want = (Asking(x) # {})
      /\ \A d \in BtDevices : v.devs[d] = FactsOf(x.devs[d])
  BY DEF Shows
<1>18. \A d \in BtDevices : v.devs[d].there = x.devs[d].there
  <2>1. \A e : FactsOf(e).there = e.there BY DEF FactsOf
  <2> QED BY <1>3, <2>1
<1>4. ASSUME Emptied(x, r), Blank(n), ~n.up, ~n.want, ~r.up, m.kind = "name" PROVE Fine
  <2>1. Asking(r) = {} BY <1>1, <1>4, AgedAsks DEF Emptied
  <2>2. r.bus = x.bus /\ ~r.adapter /\ ~r.powered /\ r.up \in BOOLEAN /\ r.adapter \in BOOLEAN /\ r.powered \in BOOLEAN
    BY <1>4, MirrorTypes DEF Emptied, Sane
  <2>3. Shows(r, n) BY <1>4, <2>1, <2>2, BareFacts, ViewTypes DEF Shows, Blank, Emptied
  <2> QED BY <1>4, <2>1, <2>2, <2>3 DEF Cuts
<1>5. ASSUME NEW z, Sane(z), r = Fetch(z), n.up = z.up, n.adapter = z.adapter, n.powered = z.powered, n.want, z.bus = x.bus,
             \A d \in BtDevices : n.devs[d] = FactsOf(z.devs[d]), Cuts(v, m, a)
      PROVE  Fine
  <2>1. /\ Asking(r) # {} /\ \A c \in Asking(r) : c \notin Answered(wire)
        /\ SameAdapter(z, r) /\ r.devs = z.devs
    BY <1>5, FetchAsks
  <2>2. Shows(r, n) BY <1>5, <2>1, ViewTypes DEF Shows, SameAdapter
  <2> QED BY <1>5, <2>1, <2>2 DEF SameAdapter
<1>6. ASSUME r = x, n = v, ~Cuts(v, m, a) PROVE Fine BY <1>6
<1>7. ASSUME NEW z, Sane(z), r = UpdateDiscovery(z) \/ r = z, z.bus = x.bus, Asking(z) = Asking(x),
             n.up = z.up, n.adapter = z.adapter, n.powered = z.powered, n.want = v.want,
             \A d \in BtDevices : n.devs[d] = FactsOf(z.devs[d]), ~Cuts(v, m, a)
      PROVE  Fine
  <2>1. Shows(z, n) BY <1>3, <1>7 DEF Shows
  <2>2. Calm(z, r) BY <1>7, UpdateDiscoveryCalm, CalmRefl
  <2>3. Shows(r, n) BY <2>1, <2>2, CalmShows
  <2> QED BY <1>7, <2>2, <2>3 DEF Calm
<1> HIDE DEF Fine
<1>8. CASE m.kind = "name" /\ m.on
  <2>1. Alike(v, n) /\ n.want /\ Cuts(v, m, a) BY <1>8 DEF StepTo, Cuts
  <2>2. Fine BY <1>2, <1>3, <1>5, <1>8, <2>1 DEF Alike
  <2> QED BY <2>2 DEF Fine
<1>9. CASE m.kind = "name" /\ ~m.on
  <2>1. Blank(n) /\ ~n.up /\ ~n.want BY <1>9 DEF StepTo
  <2>2. Fine BY <1>2, <1>4, <1>9, <2>1
  <2> QED BY <2>2 DEF Fine
<1>10. CASE m.kind = "unplugged" /\ x.adapter
  <2>1. Blank(n) /\ n.up = v.up /\ n.want /\ Cuts(v, m, a) BY <1>3, <1>10 DEF StepTo, Cuts
  <2>2. PICK z : Emptied(x, z) /\ z.up = x.up /\ r = Fetch(z) BY <1>2, <1>10
  <2>3. Sane(z) /\ z.bus = x.bus /\ ~z.adapter /\ ~z.powered /\ \A d \in BtDevices : FactsOf(z.devs[d]) = Absent
    BY <2>2, BareFacts DEF Emptied
  <2>4. z.adapter \in BOOLEAN /\ z.powered \in BOOLEAN BY <2>3, MirrorTypes DEF Sane
  <2>5. n.up = z.up /\ n.adapter = z.adapter /\ n.powered = z.powered /\ \A d \in BtDevices : n.devs[d] = FactsOf(z.devs[d])
    BY <1>3, <2>1, <2>2, <2>3, <2>4, ViewTypes DEF Blank
  <2>6. Fine BY <1>5, <2>1, <2>2, <2>3, <2>5
  <2> QED BY <2>6 DEF Fine
<1>11. CASE (m.kind = "adapter" /\ x.up) \/ (m.kind = "powered" /\ x.adapter)
  <2>1. /\ n.up = v.up /\ n.adapter /\ n.powered = m.on /\ n.want = v.want
        /\ \A d \in BtDevices : n.devs[d] = v.devs[d]
    BY <1>3, <1>11 DEF StepTo
  <2>2. PICK z : Switched(x, z, m.on) /\ r = UpdateDiscovery(z) BY <1>2, <1>11
  <2>3. /\ Sane(z) /\ z.bus = x.bus /\ z.up = x.up /\ z.adapter /\ z.powered = m.on /\ Asking(z) = Asking(x)
        /\ \A d \in BtDevices : FactsOf(z.devs[d]) = FactsOf(x.devs[d])
    BY <2>2 DEF Switched, SameCalls, Asking, AlikeDevs
  <2>4. z.adapter \in BOOLEAN BY <2>3, MirrorTypes DEF Sane
  <2>5. n.up = z.up /\ n.adapter = z.adapter /\ n.powered = z.powered /\ \A d \in BtDevices : n.devs[d] = FactsOf(z.devs[d])
    BY <1>3, <2>1, <2>3, <2>4, ViewTypes
  <2>6. ~Cuts(v, m, a) BY <1>11 DEF Cuts
  <2>7. Fine BY <1>7, <2>1, <2>2, <2>3, <2>5, <2>6
  <2> QED BY <2>7 DEF Fine
<1>12. ASSUME NEW z, ShownAs(x, z, m.dev, IF m.kind = "removed" THEN Absent ELSE m.as), r = UpdateDiscovery(z) \/ r = z, Heeds(v, m),
              m.kind \in {"added", "removed", "changed"}
       PROVE  Fine
  <2>1. /\ n.up = v.up /\ n.adapter = v.adapter /\ n.powered = v.powered /\ n.want = v.want
        /\ \A d \in BtDevices : n.devs[d] = IF d # m.dev THEN v.devs[d]
                                          ELSE IF m.kind = "removed" THEN Absent ELSE m.as
    BY <1>12 DEF StepTo
  <2>2. /\ Sane(z) /\ SameAdapter(x, z) /\ SameCalls(x, z)
        /\ FactsOf(z.devs[m.dev]) = (IF m.kind = "removed" THEN Absent ELSE m.as)
        /\ \A d \in BtDevices : d # m.dev => z.devs[d] = x.devs[d]
    BY <1>12 DEF ShownAs
  <2>3. Asking(z) = Asking(x) /\ z.bus = x.bus /\ z.up = x.up /\ z.adapter = x.adapter /\ z.powered = x.powered
    BY <2>2 DEF SameCalls, SameAdapter, Asking
  <2>4. \A d \in BtDevices : n.devs[d] = FactsOf(z.devs[d]) BY <1>3, <2>1, <2>2
  <2>5. ~Cuts(v, m, a) BY <1>12 DEF Cuts
  <2>6. n.up = z.up /\ n.adapter = z.adapter /\ n.powered = z.powered BY <1>3, <2>1, <2>3
  <2> QED BY <1>7, <1>12, <2>1, <2>2, <2>3, <2>4, <2>5, <2>6
<1>13. CASE \/ m.kind = "adapter" /\ ~x.up
            \/ m.kind = "unplugged" /\ ~x.adapter
            \/ m.kind = "powered" /\ ~x.adapter
            \/ m.kind = "added" /\ ~x.up
            \/ m.kind = "changed" /\ ~x.devs[m.dev].there
  <2>1. r = x BY <1>2, <1>13
  <2>2. \/ m.kind \in {"adapter", "unplugged", "powered", "added"}
        \/ m.kind = "changed" /\ ~v.devs[m.dev].there
    BY <1>0, <1>13, <1>18
  <2>3. n = v BY <1>3, <1>13, <2>2 DEF StepTo, Heeds
  <2>4. ~Cuts(v, m, a) BY <1>3, <1>13 DEF Cuts
  <2>5. Fine BY <1>6, <2>1, <2>3, <2>4
  <2> QED BY <2>5 DEF Fine
<1>14. CASE m.kind = "added" /\ x.up /\ ~x.adapter
  <2>1. r = UpdateDiscovery(x) BY <1>2, <1>14
  <2>2. n = v BY <1>3, <1>14 DEF StepTo, Heeds
  <2>3. ~Cuts(v, m, a) BY <1>14 DEF Cuts
  <2>4. Fine BY <1>3, <1>7, <2>1, <2>2, <2>3
  <2> QED BY <2>4 DEF Fine
<1>15. CASE m.kind = "added" /\ x.up /\ x.adapter
  <2>1. PICK z : ShownAs(x, z, m.dev, m.as) /\ r = UpdateDiscovery(z) BY <1>2, <1>15
  <2>2. Heeds(v, m) BY <1>3, <1>15 DEF Heeds
  <2>3. (IF m.kind = "removed" THEN Absent ELSE m.as) = m.as BY <1>15
  <2>4. Fine BY <1>12, <1>15, <2>1, <2>2, <2>3
  <2> QED BY <2>4 DEF Fine
<1>16. CASE m.kind = "removed"
  <2>1. ShownAs(x, r, m.dev, Absent) BY <1>2, <1>16
  <2>2. Heeds(v, m) BY <1>16 DEF Heeds
  <2>3. (IF m.kind = "removed" THEN Absent ELSE m.as) = Absent BY <1>16
  <2>4. Fine BY <1>12, <1>16, <2>1, <2>2, <2>3
  <2> QED BY <2>4 DEF Fine
<1>17. CASE m.kind = "changed" /\ x.devs[m.dev].there
  <2>1. ShownAs(x, r, m.dev, m.as) BY <1>2, <1>17
  <2>2. Heeds(v, m) BY <1>0, <1>17, <1>18 DEF Heeds
  <2>3. (IF m.kind = "removed" THEN Absent ELSE m.as) = m.as BY <1>17
  <2>4. Fine BY <1>12, <1>17, <2>1, <2>2, <2>3
  <2> QED BY <2>4 DEF Fine
<1> QED BY <1>0, <1>1, <1>8, <1>9, <1>10, <1>11, <1>13, <1>14, <1>15, <1>16, <1>17

\* A reply is.
GotAs(x, r, m) == r = IF \E p \in x.pending : AsSent(p) = m.call THEN Replied(x, m.call, m.err, m.objects) ELSE x
LEMMA ReplyShows ==
  ASSUME BtBase, NEW w, NEW x, BtOk(x, w), NEW v, Shows(x, v), NEW m \in BtMsgs, m.kind = "reply",
         NEW n, n \in Views, NEW hit, hit = (m.call \in Asking(x)), StepTo(v, n, m, hit),
         NEW r, GotAs(x, r, m)
  PROVE  /\ Shows(r, n) /\ r.bus = x.bus
         /\ m.call \notin Asking(x) => Asking(r) = Asking(x)
         /\ m.call \in Asking(x) => Asking(r) = {}
<1>1. Sane(x) BY DEF BtOk, Sane
<1>2. /\ m.call \in BtCalls /\ ~m.call.stale /\ m.err \in {"done", "failed", "already"} /\ m.objects \in BtObjects
  BY ReplyTypes
<1>3. CASE m.call \notin Asking(x)
  <2>1. n = v BY <1>3 DEF StepTo
  <2>2. Calm(x, r)
    <3>1. CASE \E p \in x.pending : AsSent(p) = m.call
      <4>1. Calm(x, Replied(x, m.call, m.err, m.objects)) BY <1>1, <1>2, <1>3, <3>1, RepliedCalm
      <4> QED BY <3>1, <4>1 DEF GotAs
    <3>2. CASE ~\E p \in x.pending : AsSent(p) = m.call BY <3>2, CalmRefl DEF GotAs
    <3> QED BY <3>1, <3>2
  <2>3. Shows(r, n) BY <2>1, <2>2, CalmShows
  <2> QED BY <1>3, <2>2, <2>3 DEF Calm
<1>4. CASE m.call \in Asking(x)
  <2> DEFINE c == m.call
             e == m.err
             o == m.objects
  <2>1. c \in x.pending /\ ~c.stale /\ c.what = "objects" /\ AsSent(c) = c BY <1>2, <1>4, CallTypes DEF Asking
  <2>2. r = Replied(x, c, e, o) BY <2>1 DEF GotAs
  <2>3. c \in BtCalls /\ o \in BtObjects BY <1>2
  <2> HIDE DEF c, e, o
  <2>4. RepliedAs(x, r, c, e, o) BY <1>1, <2>1, <2>2, RepliedSo
  <2>5. PICK mine, y : mine \in x.pending /\ AsSent(mine) = c /\ Released(x, y, mine) /\ (c.what = "objects" => r = OnObjects(y, mine, e, o))
    BY <2>4 DEF RepliedAs
  <2>6. mine = c BY <2>1, <2>5 DEF BtOk, Apart
  <2>7. Sane(y) /\ y.bus = x.bus BY <2>5 DEF Released, SameAdapter
  <2>8. /\ e # "done" => Emptied(y, r) /\ ~r.up
        /\ e = "done" => \E z : Renewed(y, z, o) /\ r = UpdateDiscovery(z)
    BY <2>1, <2>3, <2>5, <2>6, <2>7, OnObjectsSo
  <2>9. CASE e # "done"
    <3>1. Blank(n) /\ ~n.up /\ ~n.want BY <1>4, <2>9 DEF StepTo, e
    <3>2. Asking(r) = {} BY <2>7, <2>8, <2>9, AgedAsks DEF Emptied, Sane
    <3>3. r.bus = x.bus /\ ~r.adapter /\ ~r.powered /\ r.up \in BOOLEAN /\ r.adapter \in BOOLEAN /\ r.powered \in BOOLEAN
      BY <2>7, <2>8, <2>9, MirrorTypes DEF Emptied, Sane
    <3>4. Shows(r, n) BY <2>8, <2>9, <3>1, <3>2, <3>3, BareFacts, ViewTypes DEF Shows, Blank, Emptied
    <3> QED BY <1>4, <3>2, <3>3, <3>4
  <2>10. CASE e = "done"
    <3>1. PICK z : Renewed(y, z, o) /\ r = UpdateDiscovery(z) BY <2>8, <2>10
    <3>2. /\ n.up /\ ~n.want /\ n.adapter = o.adapter /\ n.powered = o.powered
          /\ \A d \in BtDevices : n.devs[d] = IF o.devs[d].there THEN o.devs[d] ELSE Absent
      BY <1>4, <2>10 DEF StepTo, e, o
    <3>3. Sane(z) /\ Asking(z) = {} /\ z.up /\ z.adapter = o.adapter /\ z.powered = o.powered /\ z.bus = x.bus
          /\ \A d \in BtDevices : FactsOf(z.devs[d]) = (IF o.devs[d].there THEN o.devs[d] ELSE Absent)
      BY <2>7, <3>1, AgedAsks DEF Renewed, Sane
    <3>4. z.up \in BOOLEAN BY <3>3, MirrorTypes DEF Sane
    <3>5. Shows(z, n) BY <3>2, <3>3, <3>4, ViewTypes DEF Shows
    <3>6. Calm(z, r) BY <3>1, <3>3, UpdateDiscoveryCalm
    <3>7. Shows(r, n) BY <3>5, <3>6, CalmShows
    <3> QED BY <1>4, <3>3, <3>6, <3>7 DEF Calm
  <2> QED BY <2>9, <2>10
<1> QED BY <1>3, <1>4

\* Without a bus nothing is known, asked for or under way.
BtShut == ~g.bus => /\ wire = <<>> /\ g.asked = <<>> /\ g.pending = {} /\ ~g.up /\ ~g.adapter /\ ~g.powered /\ ~g.due
                    /\ ~g.active /\ ~g.powering /\ g.pairs = 0 /\ \A d \in BtDevices : g.devs[d] = Bare
                    /\ bz.slow = {} /\ ~bz.search

\* The mirror, once all is processed, shows what bluetoothd has.
BtComing == g.bus => \E v, u \in Views : Shows(g, v) /\ Mirrors(wire, Asking(g), v, u) /\ Good(bz, u)

LEMMA ShownSo == ASSUME NEW x \in BtMirrors PROVE \E v \in Views : Shows(x, v)
<1> DEFINE f == [d \in BtDevices |-> FactsOf(x.devs[d])]
           want == Asking(x) # {}
<1>1. /\ x.up \in BOOLEAN /\ x.adapter \in BOOLEAN /\ x.powered \in BOOLEAN /\ x.devs \in [BtDevices -> BtShown]
  BY MirrorTypes
<1>2. \A d \in BtDevices : FactsOf(x.devs[d]) \in BtFacts BY <1>1, ShownTypes DEF FactsOf, BtFacts
<1>3. f \in [BtDevices -> BtFacts] /\ \A d \in BtDevices : f[d] = FactsOf(x.devs[d]) BY <1>2
<1>4. want \in BOOLEAN OBVIOUS
<1>5. want = (Asking(x) # {}) OBVIOUS
<1> HIDE DEF f, want
<1>6. PICK v \in Views : Fields(v, x.up, x.adapter, x.powered, want, f) BY <1>1, <1>3, <1>4, ViewMade
<1>7. Shows(x, v) BY <1>3, <1>5, <1>6 DEF Fields, Shows
<1> QED BY <1>7

LEMMA AskingSo == \A x : OfObjects(Asking(x))
BY DEF OfObjects, Asking

LEMMA BtComingTrue ==
  ASSUME BtSound, BtComing
  PROVE  MirrorTrue
<1> SUFFICES ASSUME wire = <<>>, g.bus, Awaited("objects") = {}
             PROVE  /\ g.up = bz.up
                    /\ g.adapter = (bz.up /\ bz.adapter)
                    /\ g.adapter => /\ g.powered = bz.powered
                                    /\ \A d \in BtDevices : \A f \in DOMAIN Absent : g.devs[d][f] = bz.devs[d][f]
  BY DEF MirrorTrue
<1>1. PICK v, u \in Views : Shows(g, v) /\ Mirrors(<<>>, Asking(g), v, u) /\ Good(bz, u) BY DEF BtComing
<1>2. u = v BY <1>1, MirrorsEmpty
<1>3. Asking(g) = {} BY DEF Asking, Awaited
<1>4. /\ g.up = bz.up /\ g.adapter = bz.adapter
      /\ g.adapter => g.powered = bz.powered /\ \A d \in BtDevices : FactsOf(g.devs[d]) = bz.devs[d]
  BY <1>1, <1>2, <1>3 DEF Shows, Good
<1>5. /\ bz.up \in BOOLEAN /\ bz.adapter \in BOOLEAN /\ (bz.adapter => bz.up) BY BzTypes DEF BtSound, BzOk
<1>6. DOMAIN Absent = {"there", "paired", "trusted", "connected"} BY DEF Absent
<1>7. ASSUME g.adapter, NEW d \in BtDevices, NEW f \in DOMAIN Absent PROVE g.devs[d][f] = bz.devs[d][f]
  <2>1. FactsOf(g.devs[d]) = bz.devs[d] BY <1>4, <1>7
  <2>2. FactsOf(g.devs[d])[f] = g.devs[d][f] BY <1>6 DEF FactsOf
  <2> QED BY <2>1, <2>2
<1> QED BY <1>4, <1>5, <1>7

\* What leaves the mirror alone leaves it true.
LEMMA CalmComing ==
  ASSUME BtComing, Calm(g, g'), wire' = wire, bz' = bz
  PROVE  BtComing'
<1> SUFFICES ASSUME g'.bus PROVE \E v, u \in Views : Shows(g', v) /\ Mirrors(wire', Asking(g'), v, u) /\ Good(bz', u)
  BY DEF BtComing
<1>1. g.bus BY DEF Calm
<1>2. PICK v, u \in Views : Shows(g, v) /\ Mirrors(wire, Asking(g), v, u) /\ Good(bz, u) BY <1>1 DEF BtComing
<1>3. Shows(g', v) BY <1>2, CalmShows
<1>4. Asking(g') = Asking(g) BY DEF Calm
<1>5. Mirrors(wire', Asking(g'), v, u) /\ Good(bz', u) BY <1>2, <1>4
<1> QED BY <1>3, <1>5

LEMMA ProcessComing ==
  ASSUME BtAssumption, BtSound, BtComing, BtShut, Process
  PROVE  g'.bus /\ BtComing'
<1> DEFINE m == Head(wire)
           t == Tail(wire)
<1>1. /\ wire # <<>> /\ wire \in Seq(BtMsgs) /\ BtBase /\ BtOk(g, wire) /\ Sane(g) /\ m \in BtMsgs /\ t \in Seq(BtMsgs)
      /\ Answered(t) \subseteq Answered(wire)
  BY HeadSo DEF Process, BtSound, BtBase, BtOk, Sane
<1>2. g' = IF m.kind # "reply" THEN OnSignal(g, m)
           ELSE IF \E p \in g.pending : AsSent(p) = m.call THEN Replied(g, m.call, m.err, m.objects)
           ELSE g
  BY DEF Process
<1>3. wire' = t /\ bz' = bz BY DEF Process
<1> DEFINE y == g'
<1> SUFFICES y.bus /\ \E v, u \in Views : Shows(y, v) /\ Mirrors(wire', Asking(y), v, u) /\ Good(bz', u)
  BY DEF BtComing
<1> DEFINE a == Asking(g)
<1>4. ASSUME NEW v \in Views, NEW n \in Views, Shows(g, v), StepTo(v, n, m, m.kind = "reply" /\ m.call \in a)
      PROVE  /\ Shows(y, n) /\ y.bus = g.bus
             /\ ~Cuts(v, m, a) => Asking(y) = a
             /\ Cuts(v, m, a) => Asking(y) \intersect Answered(t) = {}
  <2> HIDE DEF m, t
  <2>1. CASE m.kind # "reply"
    <3>1. y = OnSignal(g, m) BY <1>2, <2>1
    <3>2. StepTo(v, n, m, FALSE)
      <4>1. (m.kind = "reply" /\ m.call \in a) = FALSE BY <2>1
      <4> QED BY <1>4, <4>1
    <3> HIDE DEF y, a
    <3>3. /\ Shows(y, n) /\ y.bus = g.bus
          /\ ~Cuts(v, m, a) => Asking(y) = Asking(g)
          /\ Cuts(v, m, a) => \A c \in Asking(y) : c \notin Answered(wire)
      BY <1>1, <1>4, <2>1, <3>1, <3>2, SignalShows
    <3> QED BY <1>1, <3>3 DEF a
  <2>2. CASE m.kind = "reply"
    <3>1. y = IF \E p \in g.pending : AsSent(p) = m.call THEN Replied(g, m.call, m.err, m.objects) ELSE g BY <1>2, <2>2
    <3> DEFINE hit == m.kind = "reply" /\ m.call \in a
    <3>2. hit = (m.call \in Asking(g)) BY <2>2
    <3>5. StepTo(v, n, m, hit) BY <1>4
    <3>6. GotAs(g, y, m) BY <3>1 DEF GotAs
    <3> HIDE DEF y, hit
    <3>3. /\ Shows(y, n) /\ y.bus = g.bus
          /\ m.call \notin Asking(g) => Asking(y) = Asking(g)
          /\ m.call \in Asking(g) => Asking(y) = {}
      BY <1>1, <1>4, <2>2, <3>2, <3>5, <3>6, ReplyShows
    <3>4. Cuts(v, m, a) <=> m.call \in a BY <2>2 DEF Cuts
    <3> QED BY <3>3, <3>4
  <2> QED BY <2>1, <2>2
<1>5. g.bus BY <1>1 DEF BtShut
<1>6. PICK v, u \in Views : Shows(g, v) /\ Mirrors(wire, a, v, u) /\ Good(bz, u) BY <1>5 DEF BtComing
<1> HIDE DEF m, t, y, a
<1>7. m = Head(wire) BY DEF m
<1>8. PICK n \in Views :
        /\ StepTo(v, n, m, m.kind = "reply" /\ m.call \in a)
        /\ ~Cuts(v, m, a) => Mirrors(Tail(wire), a, n, u)
        /\ Cuts(v, m, a) => \A b : b \intersect Answered(Tail(wire)) = {} => Mirrors(Tail(wire), b, n, u)
  BY <1>1, <1>6, <1>7, MirrorsTail
<1>9. Tail(wire) = t BY DEF t
<1>10. /\ Shows(y, n)
       /\ ~Cuts(v, m, a) => Asking(y) = a
       /\ Cuts(v, m, a) => Asking(y) \intersect Answered(t) = {}
  BY <1>4, <1>6, <1>8
<1>11. Mirrors(t, Asking(y), n, u) BY <1>8, <1>9, <1>10
<1>12. Good(bz', u) BY <1>3, <1>6
<1>13. Mirrors(wire', Asking(y), n, u) BY <1>3, <1>11
<1>14. y.bus BY <1>4, <1>5, <1>6, <1>8
<1> QED BY <1>10, <1>12, <1>13, <1>14

LEMMA BluezComing ==
  ASSUME BtAssumption, BtSound, BtComing, BluezNext
  PROVE  BtComing'
<1>1. PICK b, s, k : BluezDoes(b, s, k) BY BluezSo
<1>2. Moved(g, g', k) /\ Tells(b, s) BY <1>1 DEF BluezDoes, TellsWell
<1>3. g \in BtMirrors BY DEF BtSound, BtOk
<1>4. g'.pending = g.pending /\ SameAdapter(g, g') /\ SameOps(g, g') BY <1>2, <1>3, MovedSo
<1>5. Calm(g, g') BY <1>4, CalmSame DEF SameOps
<1> SUFFICES ASSUME g'.bus PROVE \E v, u \in Views : Shows(g', v) /\ Mirrors(wire', Asking(g'), v, u) /\ Good(bz', u)
  BY DEF BtComing
<1>6. g.bus BY <1>5 DEF Calm
<1>7. PICK v, u \in Views : Shows(g, v) /\ Mirrors(wire, Asking(g), v, u) /\ Good(bz, u) BY <1>6 DEF BtComing
<1>8. OfObjects(Asking(g)) BY AskingSo
<1>9. PICK t \in Views : Mirrors(wire \o s, Asking(g), v, t) /\ Good(b, t) BY <1>1, <1>7, <1>8, GoodTold
<1>10. bz' = b /\ wire' = wire \o s /\ Asking(g') = Asking(g) /\ Shows(g', v)
  BY <1>2, <1>5, <1>6, <1>7, CalmShows DEF Tells, Calm
<1> QED BY <1>9, <1>10

LEMMA OpenBusComing ==
  ASSUME BtAssumption, BtSound, BtShut, OpenBus
  PROVE  BtComing'
<1>1. UNCHANGED <<bz, wire, crossed>> /\ ~g.bus BY OpenBusSo
<1>2. PICK z : /\ Sane(z) /\ SameCalls(g, z) /\ SameOps(g, z) /\ z.due = g.due /\ z.active = g.active
               /\ z.bus /\ z.up = g.up /\ z.adapter = g.adapter /\ z.powered = g.powered /\ z.scan = g.scan
               /\ g' = Fetch(z)
  BY OpenBusSo
<1>3. BtBase BY DEF BtBase, BtSound
<1>4. wire = <<>> /\ ~g.up /\ ~g.adapter /\ ~g.powered /\ \A d \in BtDevices : g.devs[d] = Bare
  BY <1>1 DEF BtShut
<1> DEFINE y == g'
<1>5. Asking(y) # {} /\ SameAdapter(z, y) /\ y.devs = z.devs BY <1>2, <1>3, FetchAsks
<1>6. Sane(y) BY <1>2, <1>3, FetchSo
<1>7. y \in BtMirrors BY <1>6 DEF Sane
<1>8. PICK v \in Views : Shows(y, v) BY <1>7, ShownSo
<1> HIDE DEF y
<1>9. ~y.up /\ ~y.adapter /\ \A d \in BtDevices : y.devs[d] = Bare
  BY <1>2, <1>4, <1>5 DEF SameAdapter, SameOps
<1>10. Good(bz, v)
  <2>1. \A d \in BtDevices : v.devs[d] = Absent BY <1>8, <1>9, BareFacts DEF Shows
  <2>2. ~v.up /\ v.want BY <1>5, <1>8, <1>9 DEF Shows
  <2> QED BY <2>1, <2>2 DEF Good
<1>11. Mirrors(wire, Asking(y), v, v) BY <1>4, MirrorsNone
<1>12. Mirrors(wire', Asking(y), v, v) /\ Good(bz', v) BY <1>1, <1>10, <1>11
<1> QED BY <1>8, <1>12 DEF BtComing, y

LEMMA BtStepComing ==
  ASSUME BtAssumption, BtSound, BtComing, BtShut, [BtNext]_btVars
  PROVE  BtComing'
<1>0. BtBase /\ Sane(g) /\ g \in BtMirrors BY DEF BtBase, BtSound, BtOk, Sane
<1>1. CASE OpenBus BY <1>1, OpenBusComing
<1>2. CASE Process BY <1>2, ProcessComing
<1>3. CASE AutoDue
  <2>1. PICK z : /\ Sane(z) /\ SameCalls(g, z) /\ SameOps(g, z) /\ SameAdapter(g, z) /\ z.active = g.active
                 /\ g' = AutoconnectNext(z)
    BY <1>3, AutoDueSo
  <2>2. Calm(g, z) BY <2>1, CalmSame DEF SameCalls, SameOps
  <2>3. Calm(z, g') BY <1>0, <2>1, AutoconnectNextCalm
  <2>4. Calm(g, g') BY <2>2, <2>3, CalmThen
  <2>5. wire' = wire /\ bz' = bz BY <1>3, AutoDueSo
  <2> QED BY <2>4, <2>5, CalmComing
<1>4. CASE Timeout
  <2>1. PICK p \in g.pending : /\ p \in BtCalls /\ p.what \in Reaches /\ AsSent(p) \in BtCalls
                               /\ AsSent(p).what = p.what /\ Over(g, wire, AsSent(p))
                               /\ g' = Replied(g, AsSent(p), "failed", Empty)
    BY <1>4, TimeoutSo
  <2> DEFINE c == AsSent(p)
  <2>2. c \in BtCalls /\ c.what \in Reaches /\ \E q \in g.pending : AsSent(q) = c BY <2>1
  <2> HIDE DEF c
  <2>3. c \notin Asking(g) BY <2>2 DEF Asking, Reaches
  <2>4. Calm(g, Replied(g, c, "failed", Empty)) BY <1>0, <2>2, <2>3, EmptyOk, RepliedCalm
  <2>5. Calm(g, g') BY <2>1, <2>4 DEF c
  <2>6. wire' = wire /\ bz' = bz BY <1>4, TimeoutSo
  <2> QED BY <2>5, <2>6, CalmComing
<1>5. CASE UserNext
  <2>1. UserDoes /\ UNCHANGED <<bz, wire, crossed>> BY <1>5, UserSo
  <2>2. Calm(g, g') BY <1>0, <2>1, UserCalm
  <2> QED BY <2>1, <2>2, CalmComing
<1>6. CASE BluezNext BY <1>6, BluezComing
<1>7. CASE LoseBus
  <2>1. g' = [NoBus EXCEPT !.scan = g.scan] /\ g.scan \in BOOLEAN BY <1>7, LoseBusSo
  <2>2. ~g'.bus BY <2>1, NoBusSo
  <2> QED BY <2>2 DEF BtComing
<1>8. CASE UNCHANGED btVars
  <2>1. g' = g /\ wire' = wire /\ bz' = bz BY <1>8 DEF btVars
  <2>2. Calm(g, g') BY <2>1, CalmRefl
  <2> QED BY <2>1, <2>2, CalmComing
<1> QED BY <1>1, <1>2, <1>3, <1>4, <1>5, <1>6, <1>7, <1>8, BtNextCases

\* Without a bus nothing is known, asked or on its way.
Shut(x) == /\ x.asked = <<>> /\ x.pending = {} /\ ~x.up /\ ~x.adapter /\ ~x.powered /\ ~x.due
           /\ ~x.active /\ ~x.powering /\ x.pairs = 0 /\ \A d \in BtDevices : x.devs[d] = Bare
LEMMA ShutSo == BtShut <=> (~g.bus => wire = <<>> /\ Shut(g) /\ bz.slow = {} /\ ~bz.search)
BY DEF BtShut, Shut

LEMMA NoBusShut ==
  ASSUME NEW on, on \in BOOLEAN, NEW y, y = [NoBus EXCEPT !.scan = on]
  PROVE  Shut(y)
BY NoBusSo DEF Shut

LEMMA BluezShut ==
  ASSUME BtAssumption, BtSound, BtShut, BluezNext, ~g.bus
  PROVE  wire' = <<>> /\ Shut(g') /\ bz'.slow = {} /\ ~bz'.search
<1>1. wire = <<>> /\ Shut(g) /\ bz.slow = {} /\ ~bz.search BY ShutSo
<1>2. PICK b, s, k : BluezDoes(b, s, k) BY BluezSo
<1>3. Moved(g, g', k) /\ Tells(b, s) /\ b.slow \subseteq bz.slow \union k /\ BzOk(b) BY <1>2 DEF BluezDoes, TellsWell
<1>4. g.asked = <<>> BY <1>1 DEF Shut
<1>5. g' = g /\ k = {} BY <1>3, <1>4 DEF Moved
<1>6. bz' = b /\ wire' = wire BY <1>3 DEF Tells
<1>7. ~b.search
  <2>1. ~Answers(b, s, k) /\ ~Keeps(b, s, k) BY <1>4 DEF Answers, Keeps
  <2>2. CASE Changed(b, s, k) BY <1>1, <2>2 DEF Changed
  <2>3. CASE Removed(b, s, k) BY <1>1, <2>3 DEF Removed
  <2>4. CASE Finds(b, s, k) BY <1>1, <2>4 DEF Finds
  <2>5. CASE Switches(b, s, k) BY <1>1, <2>5 DEF Switches, NowUnpowered
  <2>6. CASE Downs(b, s, k) BY <2>6 DEF Downs, Lost
  <2>7. CASE Unplugs(b, s, k) BY <2>7 DEF Unplugs, Lost
  <2>8. CASE Ups(b, s, k) BY <1>1, <2>8 DEF Ups
  <2>9. CASE Plugs(b, s, k) BY <2>9 DEF Plugs
  <2> QED BY <1>2, <2>1, <2>2, <2>3, <2>4, <2>5, <2>6, <2>7, <2>8, <2>9 DEF BluezDoes
<1> QED BY <1>1, <1>3, <1>5, <1>6, <1>7

LEMMA UserShut ==
  ASSUME BtAssumption, BtSound, Shut(g), UserDoes
  PROVE  Shut(g')
<1>0. BtBase BY DEF BtBase, BtSound
<1>1. ScanAs(g, g')
  <2>1. ~SetPoweredAs(g, g') BY DEF SetPoweredAs, Shut
  <2>2. \A d \in BtDevices : ~g.devs[d].there BY DEF Shut, Bare
  <2>3. \A d \in BtDevices : ~PairAs(g, g', d) /\ ~DisconnectAs(g, g', d) /\ ~DeviceIdle(d)
    BY <2>2 DEF PairAs, DisconnectAs, DeviceIdle
  <2> QED BY <2>1, <2>2, <2>3 DEF UserDoes
<1>2. PICK on, z : /\ on \in BOOLEAN
                   /\ Sane(z) /\ SameCalls(g, z) /\ SameOps(g, z) /\ z.active = g.active
                   /\ z.due = g.due /\ z.bus = g.bus /\ z.up = g.up /\ z.adapter = g.adapter
                   /\ z.powered = g.powered /\ z.scan = on
                   /\ g' = UpdateDiscovery(z)
  BY <1>1 DEF ScanAs
<1> DEFINE y == g'
<1>3. y = UpdateDiscovery(z) BY <1>2
<1> HIDE DEF y
<1>4. /\ SameAdapter(z, y) /\ SameOps(z, y) /\ y.due = z.due /\ y.active = Wanted(z)
      /\ y.active = z.active => SameCalls(z, y)
  BY <1>0, <1>2, <1>3, UpdateDiscoverySo
<1>5. Shut(z) BY <1>2 DEF Shut, SameCalls, SameOps
<1>6. ~Wanted(z) BY <1>5 DEF Shut, Wanted
<1>9. z.active \in BOOLEAN BY <1>2, MirrorTypes DEF Sane
<1>10. Wanted(z) \in BOOLEAN BY DEF Wanted
<1>7. y.active = z.active BY <1>4, <1>5, <1>6, <1>9, <1>10 DEF Shut
<1>8. Shut(y) BY <1>4, <1>5, <1>7 DEF Shut, SameAdapter, SameOps, SameCalls
<1> QED BY <1>8 DEF y

LEMMA BtStepShut ==
  ASSUME BtAssumption, BtSound, BtComing, BtShut, [BtNext]_btVars
  PROVE  BtShut'
<1> SUFFICES ASSUME ~g'.bus PROVE wire' = <<>> /\ Shut(g') /\ bz'.slow = {} /\ ~bz'.search
  BY DEF BtShut, Shut
<1>0. BtBase /\ Sane(g) /\ g \in BtMirrors BY DEF BtBase, BtSound, BtOk, Sane
<1>00. ~g.bus => wire = <<>> /\ Shut(g) /\ bz.slow = {} /\ ~bz.search BY ShutSo
<1>1. CASE OpenBus
  <2>1. PICK z : Sane(z) /\ z.bus /\ g' = Fetch(z) BY <1>1, OpenBusSo
  <2> DEFINE y == g'
  <2>2. SameAdapter(z, y) BY <1>0, <2>1, FetchAsks
  <2> QED BY <2>1, <2>2 DEF SameAdapter
<1>2. CASE Process BY <1>2, ProcessComing
<1>3. CASE AutoDue
  <2>1. PICK z : Sane(z) /\ SameAdapter(g, z) /\ g' = AutoconnectNext(z) /\ g.due BY <1>3, AutoDueSo
  <2>2. Calm(z, g') BY <1>0, <2>1, AutoconnectNextCalm
  <2>3. g'.bus = g.bus BY <2>1, <2>2 DEF Calm, SameAdapter
  <2> QED BY <1>00, <2>1, <2>3 DEF Shut
<1>4. CASE Timeout
  <2>1. PICK p \in g.pending : /\ p \in BtCalls /\ p.what \in Reaches /\ AsSent(p) \in BtCalls
                               /\ AsSent(p).what = p.what /\ Over(g, wire, AsSent(p))
                               /\ g' = Replied(g, AsSent(p), "failed", Empty)
    BY <1>4, TimeoutSo
  <2> DEFINE c == AsSent(p)
  <2>2. c \in BtCalls /\ c.what \in Reaches /\ \E q \in g.pending : AsSent(q) = c BY <2>1
  <2> HIDE DEF c
  <2>3. c \notin Asking(g) BY <2>2 DEF Asking, Reaches
  <2>4. Calm(g, Replied(g, c, "failed", Empty)) BY <1>0, <2>2, <2>3, EmptyOk, RepliedCalm
  <2>5. Calm(g, g') BY <2>1, <2>4 DEF c
  <2> QED BY <1>00, <2>1, <2>5 DEF Shut, Calm
<1>5. CASE UserNext
  <2>1. UserDoes /\ UNCHANGED <<bz, wire, crossed>> BY <1>5, UserSo
  <2>2. Calm(g, g') BY <1>0, <2>1, UserCalm
  <2>3. ~g.bus BY <2>2 DEF Calm
  <2>4. Shut(g') BY <1>00, <2>1, <2>3, UserShut
  <2> QED BY <1>00, <2>1, <2>3, <2>4
<1>6. CASE BluezNext
  <2>1. PICK b, s, k : BluezDoes(b, s, k) BY <1>6, BluezSo
  <2>2. Moved(g, g', k) BY <2>1 DEF BluezDoes, TellsWell
  <2>3. ~g.bus BY <1>0, <2>2, MovedSo DEF SameAdapter
  <2> QED BY <1>6, <2>3, BluezShut
<1>7. CASE LoseBus
  <2>1. g' = [NoBus EXCEPT !.scan = g.scan] /\ g.scan \in BOOLEAN /\ wire' = <<>> /\ bz'.slow = {} /\ ~bz'.search
    BY <1>7, LoseBusSo
  <2>2. Shut(g') BY <2>1, NoBusShut
  <2> QED BY <2>1, <2>2
<1>8. CASE UNCHANGED btVars BY <1>00, <1>8 DEF btVars, Shut
<1> QED BY <1>1, <1>2, <1>3, <1>4, <1>5, <1>6, <1>7, <1>8, BtNextCases

LEMMA BtInitShut == BtInit => BtShut /\ BtComing
<1> SUFFICES ASSUME BtInit PROVE BtShut /\ BtComing OBVIOUS
<1>1. PICK on \in BOOLEAN : g = [NoBus EXCEPT !.scan = on] BY DEF BtInit
<1>2. ~g.bus /\ Shut(g) BY <1>1, NoBusSo, NoBusShut
<1>3. wire = <<>> /\ bz.slow = {} /\ ~bz.search BY DEF BtInit
<1> QED BY <1>2, <1>3, ShutSo DEF BtComing

(***************************************************************************)
(* What is awaited. Held says that an operation has its call, that the     *)
(* power's change has one, and that pairings are counted; BtDown that the  *)
(* name's owner on the wire goes and comes in turns, so that none is taken *)
(* twice.                                                                  *)
(***************************************************************************)

\* What is awaited for a device, or to power the adapter; and what of it pairs.
Weighs(c)    == ~c.stale /\ (c.what \in Reaches \/ c.what = "power")
Weighty(x)   == {c \in x.pending : Weighs(c)}
IsPairing(c) == c.what = "pair" \/ (c.what = "connect" /\ c.flag = "pair")
Pairings(x)  == {c \in Weighty(x) : IsPairing(c)}
Powers(x)    == {c \in Weighty(x) : c.what = "power"}

\* CallsAwaited, but that the operations of D are not awaited any more, and that n
\* pairings too many are counted; and nothing is under way without an adapter.
OpsHeld(x, D) == \A d \in BtDevices : x.devs[d].op # "none" =>
  /\ x.devs[d].there
  /\ d \notin D => \E c \in Weighty(x) : c.dev = d /\ c.what \in Reaches
PowerHeld(x)  == x.powering = (Powers(x) # {}) /\ \A p, q \in Powers(x) : p = q
Counted(x, n) == x.pairs = Cardinality(Pairings(x)) + n
Rooted(x)     == /\ x.adapter => x.up
                 /\ ~x.adapter => ~x.powering /\ x.pairs = 0 /\ \A d \in BtDevices : ~x.devs[d].there
Held(x, D, n) == OpsHeld(x, D) /\ PowerHeld(x) /\ Counted(x, n) /\ Rooted(x)

LEMMA PairingsSo ==
  ASSUME NEW x, Sane(x)
  PROVE  IsFiniteSet(Pairings(x)) /\ Cardinality(Pairings(x)) \in Nat
<1>1. Pairings(x) \subseteq x.pending BY DEF Pairings, Weighty
<1>2. IsFiniteSet(x.pending) BY DEF Sane, Finitely
<1>3. IsFiniteSet(Pairings(x)) BY <1>1, <1>2, FS_Subset
<1> QED BY <1>3, FS_CardinalityType

\* What changes nothing of that.
Kin(x, y) == /\ y.up = x.up /\ y.adapter = x.adapter /\ y.powering = x.powering /\ y.pairs = x.pairs
             /\ Weighty(y) = Weighty(x)
             /\ \A d \in BtDevices : y.devs[d].there = x.devs[d].there /\ y.devs[d].op = x.devs[d].op

LEMMA KinHeld == ASSUME NEW x, NEW y, NEW D, NEW n, Kin(x, y), Held(x, D, n) PROVE Held(y, D, n)
<1>1. Weighty(y) = Weighty(x) BY DEF Kin
<1>2. Pairings(y) = Pairings(x) /\ Powers(y) = Powers(x) BY <1>1 DEF Pairings, Powers
<1>3. OpsHeld(y, D) BY <1>1 DEF Held, OpsHeld, Kin
<1>4. PowerHeld(y) BY <1>2 DEF Held, PowerHeld, Kin
<1>5. Counted(y, n) BY <1>2 DEF Held, Counted, Kin
<1>6. Rooted(y) BY DEF Held, Rooted, Kin
<1> QED BY <1>3, <1>4, <1>5, <1>6 DEF Held

LEMMA KinThen == ASSUME NEW x, NEW y, NEW z, Kin(x, y), Kin(y, z) PROVE Kin(x, z)
BY DEF Kin

LEMMA KinRefl == \A x : Kin(x, x)
BY DEF Kin

LEMMA KinSame == ASSUME NEW x, NEW y, SameAdapter(x, y), SameOps(x, y), y.pending = x.pending PROVE Kin(x, y)
BY DEF Kin, SameAdapter, SameOps, Weighty

LEMMA KinAdded ==
  ASSUME NEW x, NEW y, SameAdapter(x, y), SameOps(x, y), NEW c, Added(x, y, c), c.what \notin Reaches, c.what # "power"
  PROVE  Kin(x, y)
<1>1. Weighty(y) = Weighty(x) BY DEF Weighty, Added, Weighs
<1> QED BY <1>1 DEF Kin, SameAdapter, SameOps

LEMMA UpdateDiscoveryKin ==
  ASSUME BtBase, NEW x, Sane(x)
  PROVE  Kin(x, UpdateDiscovery(x)) /\ Sane(UpdateDiscovery(x))
<1> DEFINE y == UpdateDiscovery(x)
<1>1. /\ Sane(y) /\ SameAdapter(x, y) /\ SameOps(x, y)
      /\ y.active = x.active => SameCalls(x, y)
      /\ y.active # x.active => \E c : Added(x, y, c) /\ c.what = IF y.active THEN "start" ELSE "stop"
  BY UpdateDiscoverySo
<1> HIDE DEF y
<1>2. ASSUME y.active = x.active PROVE Kin(x, y) BY <1>1, <1>2, KinSame DEF SameCalls
<1>3. ASSUME y.active # x.active PROVE Kin(x, y)
  <2>1. PICK c : Added(x, y, c) /\ c.what = IF y.active THEN "start" ELSE "stop" BY <1>1, <1>3
  <2>2. c.what \notin Reaches /\ c.what # "power" BY <2>1 DEF Reaches
  <2> QED BY <1>1, <2>1, <2>2, KinAdded
<1>4. Kin(x, y) /\ Sane(y) BY <1>1, <1>2, <1>3
<1> QED BY <1>4 DEF y

\* One call more is awaited, ...
LEMMA WeightyAdded ==
  ASSUME NEW x, NEW y, NEW c, Added(x, y, c), c.what \in Reaches \/ c.what = "power"
  PROVE  /\ Weighty(y) = Weighty(x) \union {c} /\ c \notin Weighty(x)
         /\ Pairings(y) = (IF IsPairing(c) THEN Pairings(x) \union {c} ELSE Pairings(x)) /\ c \notin Pairings(x)
         /\ Powers(y) = (IF c.what = "power" THEN Powers(x) \union {c} ELSE Powers(x))
<1>1. y.pending = x.pending \union {c} /\ c \notin x.pending /\ Weighs(c) BY DEF Added, Unused, Weighs
<1>2. Weighty(y) = Weighty(x) \union {c} /\ c \notin Weighty(x) BY <1>1 DEF Weighty
<1> QED BY <1>2 DEF Pairings, Powers

LEMMA CountedAdded ==
  ASSUME NEW x, NEW y, Sane(x), NEW c, Added(x, y, c), c.what \in Reaches, NEW n, n \in Nat, NEW k, k \in Nat,
         y.pairs = x.pairs, Counted(x, n), n = k + (IF IsPairing(c) THEN 1 ELSE 0)
  PROVE  Counted(y, k)
<1>1. /\ Pairings(y) = (IF IsPairing(c) THEN Pairings(x) \union {c} ELSE Pairings(x)) /\ c \notin Pairings(x)
  BY WeightyAdded
<1>2. IsFiniteSet(Pairings(x)) /\ Cardinality(Pairings(x)) \in Nat BY PairingsSo
<1>3. Cardinality(Pairings(x) \union {c}) = Cardinality(Pairings(x)) + 1 BY <1>1, <1>2, FS_AddElement
<1>4. CASE IsPairing(c) BY <1>1, <1>2, <1>3, <1>4 DEF Counted
<1>5. CASE ~IsPairing(c) BY <1>1, <1>2, <1>5 DEF Counted
<1> QED BY <1>4, <1>5

\* ... or one less.
LEMMA ReleasedKin ==
  ASSUME NEW x, Sane(x), NEW y, NEW mine, Released(x, y, mine), ~Weighs(mine)
  PROVE  Kin(x, y)
<1>1. Weighty(y) = Weighty(x) BY DEF Weighty, Released
<1> QED BY <1>1 DEF Kin, Released, SameAdapter, SameOps

LEMMA ReleasedHeld ==
  ASSUME NEW x, Sane(x), NEW y, NEW mine, mine \in x.pending, Released(x, y, mine), Weighs(mine), mine.what \in Reaches,
         Held(x, {}, 0)
  PROVE  Held(y, {mine.dev}, IF IsPairing(mine) THEN 1 ELSE 0)
<1>1. Weighty(y) = Weighty(x) \ {mine} /\ mine \in Weighty(x) BY DEF Weighty, Released
<1>2. Powers(y) = Powers(x) BY <1>1 DEF Powers, Reaches
<1>3. PowerHeld(y) BY <1>2 DEF Held, PowerHeld, Released, SameOps
<1>4. Rooted(y) BY DEF Held, Rooted, Released, SameOps, SameAdapter
<1>5. OpsHeld(y, {mine.dev}) BY <1>1 DEF Held, OpsHeld, Released, SameOps
<1>6. IsFiniteSet(Pairings(x)) /\ Cardinality(Pairings(x)) \in Nat BY PairingsSo
<1>7. y.pairs = x.pairs /\ x.pairs = Cardinality(Pairings(x)) BY <1>6 DEF Held, Counted, Released, SameOps
<1>8. ASSUME IsPairing(mine) PROVE Counted(y, 1)
  <2>1. Pairings(y) = Pairings(x) \ {mine} /\ mine \in Pairings(x) BY <1>1, <1>8 DEF Pairings
  <2>2. Cardinality(Pairings(x) \ {mine}) = Cardinality(Pairings(x)) - 1 BY <1>6, <2>1, FS_RemoveElement
  <2> QED BY <1>6, <1>7, <2>1, <2>2 DEF Counted
<1>9. ASSUME ~IsPairing(mine) PROVE Counted(y, 0)
  <2>1. Pairings(y) = Pairings(x) BY <1>1, <1>9 DEF Pairings
  <2> QED BY <1>6, <1>7, <2>1 DEF Counted
<1> QED BY <1>3, <1>4, <1>5, <1>8, <1>9 DEF Held

Reached(x, d) == \E c \in Weighty(x) : c.dev = d /\ c.what \in Reaches

LEMMA SetFields ==
  ASSUME NEW x, Sane(x), NEW y, NEW d, d \in BtDevices, NEW op, SetBy(x, y, d, op)
  PROVE  \A e \in BtDevices : /\ y.devs[e].there = x.devs[e].there
                              /\ y.devs[e].op = IF e = d /\ x.devs[d].there THEN op ELSE x.devs[e].op
<1> SUFFICES ASSUME NEW e \in BtDevices
             PROVE  /\ y.devs[e].there = x.devs[e].there
                    /\ y.devs[e].op = IF e = d /\ x.devs[d].there THEN op ELSE x.devs[e].op
  OBVIOUS
<1>1. x.devs[d] \in BtShown BY MirrorTypes DEF Sane
<1>2. y.devs[e] = IF e = d /\ x.devs[d].there THEN [x.devs[d] EXCEPT !.op = op] ELSE x.devs[e] BY DEF SetBy
<1>3. [x.devs[d] EXCEPT !.op = op].there = x.devs[d].there /\ [x.devs[d] EXCEPT !.op = op].op = op BY <1>1 DEF BtShown
<1> QED BY <1>2, <1>3

\* An operation is shown that is awaited, or none.
LEMMA SetHeld ==
  ASSUME NEW x, Sane(x), NEW y, NEW d, d \in BtDevices, NEW op, SetBy(x, y, d, op), op = "none" \/ Reached(x, d),
         NEW D, D \subseteq {d}, NEW n, Held(x, D, n)
  PROVE  Held(y, {}, n) /\ Sane(y)
<1>1. \A e \in BtDevices : /\ y.devs[e].there = x.devs[e].there
                           /\ y.devs[e].op = IF e = d /\ x.devs[d].there THEN op ELSE x.devs[e].op
  BY SetFields
<1>2. Weighty(y) = Weighty(x) BY DEF SetBy, SameCalls, Weighty
<1>3. Pairings(y) = Pairings(x) /\ Powers(y) = Powers(x) BY <1>2 DEF Pairings, Powers
<1>4. PowerHeld(y) /\ Counted(y, n) BY <1>3 DEF SetBy, Held, PowerHeld, Counted
<1>5. Rooted(y) BY <1>1 DEF Held, Rooted, SetBy, SameAdapter
<1>6. OpsHeld(y, {})
  <2> SUFFICES ASSUME NEW e \in BtDevices, y.devs[e].op # "none"
               PROVE  y.devs[e].there /\ \E c \in Weighty(y) : c.dev = e /\ c.what \in Reaches
    BY DEF OpsHeld
  <2>1. CASE e = d /\ x.devs[d].there BY <1>1, <1>2, <2>1 DEF Reached
  <2>2. CASE ~(e = d /\ x.devs[d].there)
    <3>1. x.devs[e].op # "none" BY <1>1, <2>2
    <3>2. x.devs[e].there /\ (e \notin D => \E c \in Weighty(x) : c.dev = e /\ c.what \in Reaches)
      BY <3>1 DEF Held, OpsHeld
    <3>3. e \notin D BY <2>2, <3>2
    <3> QED BY <1>1, <1>2, <3>2, <3>3
  <2> QED BY <2>1, <2>2
<1> QED BY <1>4, <1>5, <1>6 DEF Held, SetBy

LEMMA SentHeld ==
  ASSUME NEW x, Sane(x), NEW y, NEW what, what \in Reaches, NEW d, NEW flag, SentBy(x, y, what, d, flag),
         NEW D, NEW n, n \in Nat, NEW k, k \in Nat, Held(x, D, n),
         n = k + (IF what = "pair" \/ (what = "connect" /\ flag = "pair") THEN 1 ELSE 0)
  PROVE  Held(y, D, k) /\ Reached(y, d) /\ Sane(y)
<1>1. PICK c : Added(x, y, c) /\ c.what = what /\ c.dev = d /\ c.flag = flag BY DEF SentBy
<1>2. SameAdapter(x, y) /\ SameOps(x, y) BY DEF SentBy
<1>3. c.what # "power" BY <1>1 DEF Reaches
<1>4. /\ Weighty(y) = Weighty(x) \union {c}
      /\ Powers(y) = (IF c.what = "power" THEN Powers(x) \union {c} ELSE Powers(x))
  BY <1>1, WeightyAdded
<1>5. PowerHeld(y) BY <1>2, <1>3, <1>4 DEF Held, PowerHeld, SameOps
<1>6. Rooted(y) BY <1>2 DEF Held, Rooted, SameOps, SameAdapter
<1>7. OpsHeld(y, D) BY <1>2, <1>4 DEF Held, OpsHeld, SameOps
<1>8. n = k + (IF IsPairing(c) THEN 1 ELSE 0) BY <1>1 DEF IsPairing
<1>9. y.pairs = x.pairs /\ Counted(x, n) BY <1>2 DEF SameOps, Held
<1>10. Counted(y, k) BY <1>1, <1>8, <1>9, CountedAdded
<1>11. Reached(y, d) BY <1>1, <1>4 DEF Reached
<1>12. Sane(y) BY SentSane
<1> QED BY <1>5, <1>6, <1>7, <1>10, <1>11, <1>12 DEF Held

LEMMA SendConnectHeld ==
  ASSUME BtBase, NEW x, Sane(x), NEW d, d \in BtDevices, NEW flag, flag \in Flags,
         NEW D, D \subseteq {d}, NEW n, n \in Nat, NEW k, k \in Nat, Held(x, D, n),
         n = k + (IF flag = "pair" THEN 1 ELSE 0)
  PROVE  Held(SendConnect(x, d, flag), {}, k) /\ Sane(SendConnect(x, d, flag))
<1> DEFINE z  == Sent(x, "connect", d, flag)
           op == "connecting"
           y  == SetOp(z, d, op)
           what == "connect"
<1>1. what \in Whats /\ what \in Reaches /\ what = "connect" /\ op \in BtOps BY DEF Whats, Reaches, BtOps
<1>2. SentBy(x, Sent(x, what, d, flag), what, d, flag)
  <2>1. x \in BtMirrors /\ Finitely(x) BY DEF Sane
  <2> HIDE DEF what
  <2> QED BY <1>1, <2>1, SentSo
<1>3. SentBy(x, z, what, d, flag) BY <1>2
<1> HIDE DEF z, op, what
<1>4. n = k + (IF what = "pair" \/ (what = "connect" /\ flag = "pair") THEN 1 ELSE 0) BY <1>1
<1>5. Held(z, D, k) /\ Reached(z, d) /\ Sane(z) BY <1>1, <1>3, <1>4, SentHeld
<1>6. SetBy(z, SetOp(z, d, op), d, op) BY <1>1, <1>5, SetOpSo
<1>7. SetBy(z, y, d, op) BY <1>6
<1> HIDE DEF y
<1>8. Held(y, {}, k) /\ Sane(y) BY <1>5, <1>7, SetHeld
<1>9. y = SendConnect(x, d, flag) BY DEF y, z, op, SendConnect
<1> QED BY <1>8, <1>9

LEMMA AutoconnectNextHeld ==
  ASSUME BtBase, NEW x, Sane(x), Held(x, {}, 0), NEW y, y = AutoconnectNext(x)
  PROVE  Held(y, {}, 0)
<1>1. CASE y = x BY <1>1
<1>2. ASSUME NEW d \in BtDevices,
             /\ Sane(y) /\ SameAdapter(x, y) /\ y.due = x.due /\ y.active = x.active
             /\ y.powering = x.powering /\ y.pairs = x.pairs /\ x.devs[d].there /\ x.up /\ x.adapter
             /\ \A e \in BtDevices : y.devs[e] = IF e = d THEN [x.devs[d] EXCEPT !.tried = TRUE, !.op = "connecting"]
                                               ELSE x.devs[e],
             NEW c, Added(x, y, c) /\ c.what = "connect" /\ c.dev = d /\ c.flag = "auto"
      PROVE  Held(y, {}, 0)
  <2>1. x.devs[d] \in BtShown BY MirrorTypes DEF Sane
  <2>2. y.devs[d].there = x.devs[d].there
    <3>1. [x.devs[d] EXCEPT !.tried = TRUE, !.op = "connecting"].there = x.devs[d].there BY <2>1 DEF BtShown
    <3> QED BY <1>2, <3>1
  <2>3. c.what \in Reaches /\ c.what # "power" /\ ~IsPairing(c) BY <1>2 DEF Reaches, IsPairing
  <2>4. /\ Weighty(y) = Weighty(x) \union {c}
        /\ Powers(y) = (IF c.what = "power" THEN Powers(x) \union {c} ELSE Powers(x))
    BY <1>2, <2>3, WeightyAdded
  <2>5. PowerHeld(y) BY <1>2, <2>3, <2>4 DEF Held, PowerHeld
  <2>6. Rooted(y) BY <1>2 DEF Held, Rooted, SameAdapter
  <2>7. 0 = 0 + (IF IsPairing(c) THEN 1 ELSE 0) /\ y.pairs = x.pairs /\ Counted(x, 0) BY <1>2, <2>3 DEF Held
  <2> DEFINE o == 0
  <2>8. o \in Nat OBVIOUS
  <2>9. o = o + (IF IsPairing(c) THEN 1 ELSE 0) /\ Counted(x, o) BY <2>7
  <2> HIDE DEF o
  <2>10. Counted(y, o) BY <1>2, <2>3, <2>7, <2>8, <2>9, CountedAdded
  <2>11. OpsHeld(y, {})
    <3> SUFFICES ASSUME NEW e \in BtDevices, y.devs[e].op # "none"
                 PROVE  y.devs[e].there /\ \E p \in Weighty(y) : p.dev = e /\ p.what \in Reaches
      BY DEF OpsHeld
    <3>1. CASE e = d BY <1>2, <2>2, <2>3, <2>4, <3>1
    <3>2. CASE e # d
      <4>1. y.devs[e] = x.devs[e] BY <1>2, <3>2
      <4>2. x.devs[e].there /\ \E p \in Weighty(x) : p.dev = e /\ p.what \in Reaches BY <4>1 DEF Held, OpsHeld
      <4> QED BY <2>4, <4>1, <4>2
    <3> QED BY <3>1, <3>2
  <2> QED BY <2>5, <2>6, <2>10, <2>11 DEF Held, o
<1> QED BY <1>1, <1>2, AutoconnectNextSo

LEMMA FinishPairHeld ==
  ASSUME BtBase, NEW x, Sane(x), Held(x, {}, 1)
  PROVE  Held(FinishPair(x), {}, 0) /\ Sane(FinishPair(x))
<1> DEFINE y == FinishPair(x)
<1>1. PICK z : /\ Sane(z) /\ SameAdapter(x, z) /\ SameCalls(x, z) /\ z.due = x.due /\ z.active = x.active
               /\ z.powering = x.powering /\ z.devs = x.devs
               /\ z.pairs = (IF x.pairs > 0 THEN x.pairs - 1 ELSE 0)
               /\ y = UpdateDiscovery(z)
  BY FinishPairSo
<1> HIDE DEF y
<1>2. Weighty(z) = Weighty(x) BY <1>1 DEF Weighty, SameCalls
<1>3. Pairings(z) = Pairings(x) /\ Powers(z) = Powers(x) BY <1>2 DEF Pairings, Powers
<1>4. IsFiniteSet(Pairings(x)) /\ Cardinality(Pairings(x)) \in Nat BY PairingsSo
<1>5. x.pairs = Cardinality(Pairings(x)) + 1 BY DEF Held, Counted
<1>6. z.pairs = Cardinality(Pairings(z)) + 0 BY <1>1, <1>3, <1>4, <1>5
<1>7. OpsHeld(z, {}) BY <1>1, <1>2 DEF Held, OpsHeld
<1>8. PowerHeld(z) BY <1>1, <1>3 DEF Held, PowerHeld
<1>9. Rooted(z) BY <1>1, <1>4, <1>5 DEF Held, Rooted, SameAdapter
<1>10. Held(z, {}, 0) BY <1>6, <1>7, <1>8, <1>9 DEF Held, Counted
<1>11. Kin(z, y) /\ Sane(y) BY <1>1, UpdateDiscoveryKin
<1>12. Held(y, {}, 0) /\ Sane(y) BY <1>10, <1>11, KinHeld
<1> QED BY <1>12 DEF y

\* Nothing is awaited or under way.
LEMMA NothingHeld ==
  ASSUME NEW y, Weighty(y) = {}, ~y.powering, y.powering \in BOOLEAN, y.pairs = 0, \A d \in BtDevices : y.devs[d].op = "none",
         Rooted(y)
  PROVE  Held(y, {}, 0)
<1>1. Pairings(y) = {} /\ Powers(y) = {} BY DEF Pairings, Powers
<1>2. PowerHeld(y) BY <1>1 DEF PowerHeld
<1>3. Counted(y, 0) BY <1>1, FS_EmptySet DEF Counted
<1>4. OpsHeld(y, {}) BY DEF OpsHeld
<1> QED BY <1>2, <1>3, <1>4 DEF Held

LEMMA AgedWeighty == ASSUME NEW x \in BtMirrors, NEW y, Aged(x, y) PROVE Weighty(y) = {}
<1>1. \A c \in x.pending : Stale(c).stale BY MirrorTypes, StaleSo
<1> QED BY <1>1 DEF Aged, Weighty, Weighs

LEMMA EmptiedHeld ==
  ASSUME NEW x \in BtMirrors, NEW y, Emptied(x, y)
  PROVE  Held(y, {}, 0)
<1>1. Weighty(y) = {} BY AgedWeighty DEF Emptied
<1>2. \A d \in BtDevices : y.devs[d].op = "none" /\ ~y.devs[d].there BY DEF Emptied, Bare
<1>3. ~y.powering /\ y.powering \in BOOLEAN /\ y.pairs = 0 /\ ~y.adapter BY MirrorTypes DEF Emptied, Sane
<1>4. Rooted(y) BY <1>2, <1>3 DEF Rooted
<1> QED BY <1>1, <1>2, <1>3, <1>4, NothingHeld

LEMMA RenewedHeld ==
  ASSUME NEW x \in BtMirrors, NEW y, NEW o, Renewed(x, y, o)
  PROVE  Held(y, {}, 0)
<1>1. Weighty(y) = {} BY AgedWeighty DEF Renewed
<1>2. \A d \in BtDevices : y.devs[d].op = "none" BY DEF Renewed
<1>3. ~y.powering /\ y.powering \in BOOLEAN /\ y.pairs = 0 /\ y.up BY MirrorTypes DEF Renewed, Sane
<1>4. ~y.adapter => \A d \in BtDevices : ~y.devs[d].there BY DEF Renewed, Bare
<1>5. Rooted(y) BY <1>3, <1>4 DEF Rooted
<1> QED BY <1>1, <1>2, <1>3, <1>5, NothingHeld

LEMMA FetchHeld ==
  ASSUME BtBase, NEW x, Sane(x), Held(x, {}, 0), ~x.adapter, NEW y, y = Fetch(x)
  PROVE  Held(y, {}, 0)
<1>1. /\ Sane(y) /\ SameAdapter(x, y) /\ SameOps(x, y)
      /\ \E z, c : Sane(z) /\ Aged(x, z) /\ Added(z, y, c) /\ c.what = "objects"
  BY FetchSo
<1>2. PICK z, c : Sane(z) /\ Aged(x, z) /\ Added(z, y, c) /\ c.what = "objects" BY <1>1
<1>3. Weighty(z) = {} BY <1>2, AgedWeighty DEF Sane
<1>4. Weighty(y) = {} BY <1>2, <1>3 DEF Weighty, Added, Weighs, Reaches
<1>5. Rooted(x) /\ OpsHeld(x, {}) BY DEF Held
<1>6. Rooted(y) BY <1>1, <1>5 DEF Rooted, SameAdapter, SameOps
<1>7. \A d \in BtDevices : y.devs[d].op = "none"
  <2>1. \A d \in BtDevices : ~x.devs[d].there BY <1>5 DEF Rooted
  <2>2. \A d \in BtDevices : x.devs[d].op = "none" BY <1>5, <2>1 DEF OpsHeld
  <2> QED BY <1>1, <2>2 DEF SameOps
<1>8. ~y.powering /\ y.pairs = 0 BY <1>1, <1>5 DEF Rooted, SameOps
<1>9. y.powering \in BOOLEAN BY <1>1, MirrorTypes DEF Sane
<1> QED BY <1>4, <1>6, <1>7, <1>8, <1>9, NothingHeld

LEMMA OnConnectHeld ==
  ASSUME BtBase, NEW x, Sane(x), NEW c \in BtCalls, c.what = "connect", NEW err, NEW r, OnConnectAs(x, r, c, err),
         c.stale => Held(x, {}, 0),
         ~c.stale => Held(x, {c.dev}, IF IsPairing(c) THEN 1 ELSE 0)
  PROVE  Held(r, {}, 0)
<1>1. CASE c.stale BY <1>1 DEF OnConnectAs
<1>2. CASE ~c.stale
  <2> DEFINE n == IF IsPairing(c) THEN 1 ELSE 0
             D == {c.dev}
             d == c.dev
             op == "none"
  <2>1. PICK y, z : /\ SetBy(x, y, d, op)
                    /\ (z = y \/ (SentBy(y, z, "trust", d, "plain") /\ err # "failed"))
                    /\ \/ c.flag = "auto" /\ (r = y \/ r = AutoconnectNext(y))
                       \/ c.flag = "pair" /\ r = FinishPair(z)
                       \/ c.flag \notin {"auto", "pair"} /\ r = z
    BY <1>2 DEF OnConnectAs
  <2>2. d \in BtDevices /\ Held(x, D, n) /\ D \subseteq {d} /\ op = "none" BY <1>2, CallTypes
  <2>3. n = (IF c.flag = "pair" THEN 1 ELSE 0) BY DEF IsPairing
  <2> HIDE DEF n, D, d, op
  <2>4. Held(y, {}, n) /\ Sane(y) BY <2>1, <2>2, SetHeld
  <2>5. Held(z, {}, n) /\ Sane(z)
    <3>1. CASE z = y BY <2>4, <3>1
    <3>2. CASE SentBy(y, z, "trust", d, "plain")
      <4>1. PICK p : Added(y, z, p) /\ p.what = "trust" BY <3>2 DEF SentBy
      <4>2. SameAdapter(y, z) /\ SameOps(y, z) BY <3>2 DEF SentBy
      <4>3. p.what \notin Reaches /\ p.what # "power" BY <4>1 DEF Reaches
      <4>4. Kin(y, z) BY <4>1, <4>2, <4>3, KinAdded
      <4>5. Sane(z) BY <2>4, <3>2, SentSane
      <4> QED BY <2>4, <4>4, <4>5, KinHeld
    <3> QED BY <2>1, <3>1, <3>2
  <2>6. CASE c.flag = "auto"
    <3>1. n = 0 BY <2>3, <2>6
    <3>2. Held(y, {}, 0) BY <2>4, <3>1
    <3>3. ASSUME r = AutoconnectNext(y) PROVE Held(r, {}, 0) BY <2>4, <3>2, <3>3, AutoconnectNextHeld
    <3> QED BY <2>1, <2>6, <3>2, <3>3
  <2>7. CASE c.flag = "pair"
    <3>1. n = 1 BY <2>3, <2>7
    <3>2. Held(z, {}, 1) BY <2>5, <3>1
    <3>3. Held(FinishPair(z), {}, 0) BY <2>5, <3>2, FinishPairHeld
    <3> QED BY <2>1, <2>7, <3>3
  <2>8. CASE c.flag \notin {"auto", "pair"}
    <3>1. n = 0 BY <2>3, <2>8
    <3>2. Held(z, {}, 0) BY <2>5, <3>1
    <3> QED BY <2>1, <2>8, <3>2
  <2> QED BY <2>6, <2>7, <2>8
<1> QED BY <1>1, <1>2

LEMMA OnPairHeld ==
  ASSUME BtBase, NEW x, Sane(x), NEW c \in BtCalls, c.what = "pair", NEW err, NEW r, OnPairAs(x, r, c, err),
         c.stale => Held(x, {}, 0),
         ~c.stale => Held(x, {c.dev}, IF IsPairing(c) THEN 1 ELSE 0)
  PROVE  Held(r, {}, 0)
<1>1. CASE c.stale BY <1>1 DEF OnPairAs
<1>2. CASE ~c.stale
  <2> DEFINE D == {c.dev}
             d == c.dev
             op == "none"
             flag == "pair"
             n == 1
             k == 0
  <2>1. \/ err = "failed" /\ \E y : SetBy(x, y, d, op) /\ r = FinishPair(y)
        \/ err # "failed" /\ \E y : SentBy(x, y, "trust", d, "plain") /\ r = SendConnect(y, d, flag)
    BY <1>2 DEF OnPairAs
  <2>2. d \in BtDevices /\ Held(x, D, 1) /\ D \subseteq {d} /\ op = "none" /\ flag \in Flags
    BY <1>2, CallTypes DEF IsPairing, Flags
  <2>3. n \in Nat /\ k \in Nat /\ n = k + (IF flag = "pair" THEN 1 ELSE 0) /\ n = 1 /\ k = 0 OBVIOUS
  <2> HIDE DEF D, d, op, flag, n, k
  <2>4. ASSUME NEW y, SetBy(x, y, d, op), r = FinishPair(y) PROVE Held(r, {}, 0)
    <3>1. Held(y, {}, 1) /\ Sane(y) BY <2>2, <2>4, SetHeld
    <3>2. Held(FinishPair(y), {}, 0) BY <3>1, FinishPairHeld
    <3> QED BY <2>4, <3>2
  <2>5. ASSUME NEW y, SentBy(x, y, "trust", d, "plain"), r = SendConnect(y, d, flag) PROVE Held(r, {}, 0)
    <3>1. PICK p : Added(x, y, p) /\ p.what = "trust" BY <2>5 DEF SentBy
    <3>2. SameAdapter(x, y) /\ SameOps(x, y) BY <2>5 DEF SentBy
    <3>3. p.what \notin Reaches /\ p.what # "power" BY <3>1 DEF Reaches
    <3>4. Kin(x, y) BY <3>1, <3>2, <3>3, KinAdded
    <3>5. Sane(y) BY <2>5, SentSane
    <3>6. Held(y, D, n) BY <2>2, <2>3, <3>4, KinHeld
    <3>7. Held(SendConnect(y, d, flag), {}, k) BY <2>2, <2>3, <3>5, <3>6, SendConnectHeld
    <3> QED BY <2>3, <2>5, <3>7
  <2> QED BY <2>1, <2>4, <2>5
<1> QED BY <1>1, <1>2

\* An answer takes away what was shown for it.
LEMMA RepliedHeld ==
  ASSUME BtBase, NEW x, Sane(x), Held(x, {}, 0), NEW c \in BtCalls, \E p \in x.pending : AsSent(p) = c,
         NEW err, NEW o \in BtObjects
  PROVE  Held(Replied(x, c, err, o), {}, 0)
<1> DEFINE r == Replied(x, c, err, o)
<1>1. RepliedAs(x, r, c, err, o) BY RepliedSo
<1> SUFFICES Held(r, {}, 0) OBVIOUS
<1> HIDE DEF r
<1>2. PICK mine, y :
        /\ mine \in x.pending
        /\ AsSent(mine) = c /\ Released(x, y, mine)
        /\ c.what = "objects"    => r = OnObjects(y, mine, err, o)
        /\ c.what = "start"      => r = OnStart(y, mine, err)
        /\ c.what = "connect"    => r = OnConnect(y, mine, err)
        /\ c.what = "pair"       => r = OnPair(y, mine, err)
        /\ c.what = "disconnect" => r = IF mine.stale THEN y ELSE SetOp(y, c.dev, "none")
        /\ c.what = "power"      => r = IF mine.stale THEN y ELSE [y EXCEPT !.powering = FALSE]
        /\ c.what \notin {"objects", "start", "connect", "pair", "disconnect", "power"} => r = y
  BY <1>1 DEF RepliedAs
<1>3. mine \in BtCalls BY <1>2, MirrorTypes DEF Sane
<1>4. c.what = mine.what /\ c.dev = mine.dev /\ mine.dev \in BtDevices BY <1>2, <1>3, CallTypes
<1>5. Sane(y) BY <1>2 DEF Released
<1>6. ASSUME ~Weighs(mine) PROVE Held(y, {}, 0)
  <2>1. Kin(x, y) BY <1>2, <1>6, ReleasedKin
  <2> QED BY <2>1, KinHeld
<1>7. ASSUME ~mine.stale, mine.what \in Reaches PROVE Held(y, {mine.dev}, IF IsPairing(mine) THEN 1 ELSE 0)
  <2>1. Weighs(mine) BY <1>7 DEF Weighs
  <2> QED BY <1>2, <1>7, <2>1, ReleasedHeld
<1>8. mine.stale => Held(y, {}, 0) BY <1>6 DEF Weighs
<1>9. CASE c.what = "objects"
  <2>1. Held(y, {}, 0) BY <1>4, <1>6, <1>9 DEF Weighs, Reaches
  <2>2. r = OnObjects(y, mine, err, o) BY <1>2, <1>9
  <2>3. /\ mine.stale => r = y
        /\ ~mine.stale /\ err # "done" => Emptied(y, r)
        /\ ~mine.stale /\ err = "done" => \E z : Renewed(y, z, o) /\ r = UpdateDiscovery(z)
    BY <1>5, <2>2, OnObjectsSo
  <2>4. y \in BtMirrors BY <1>5 DEF Sane
  <2>5. ASSUME NEW z, Renewed(y, z, o), r = UpdateDiscovery(z) PROVE Held(r, {}, 0)
    <3>1. Held(z, {}, 0) /\ Sane(z) BY <2>4, <2>5, RenewedHeld DEF Renewed
    <3>2. Kin(z, r) BY <2>5, <3>1, UpdateDiscoveryKin
    <3> QED BY <3>1, <3>2, KinHeld
  <2> QED BY <2>1, <2>3, <2>4, <2>5, EmptiedHeld
<1>10. CASE c.what = "start"
  <2>1. Held(y, {}, 0) BY <1>4, <1>6, <1>10 DEF Weighs, Reaches
  <2>2. r = OnStart(y, mine, err) BY <1>2, <1>10
  <2>3. r = y \/ r = [y EXCEPT !.active = FALSE] BY <2>2 DEF OnStart
  <2>4. ASSUME r = [y EXCEPT !.active = FALSE] PROVE Held(r, {}, 0)
    <3>1. SameAdapter(y, r) /\ SameOps(y, r) /\ SameCalls(y, r) BY <1>5, <2>4, NotActiveSo
    <3>2. Kin(y, r) BY <3>1, KinSame DEF SameCalls
    <3> QED BY <2>1, <3>2, KinHeld
  <2> QED BY <2>1, <2>3, <2>4
<1>11. CASE c.what = "connect"
  <2>1. r = OnConnect(y, mine, err) BY <1>2, <1>11
  <2>2. OnConnectAs(y, r, mine, err) BY <1>3, <1>5, <2>1, OnConnectSo
  <2>3. ~mine.stale => Held(y, {mine.dev}, IF IsPairing(mine) THEN 1 ELSE 0) BY <1>4, <1>7, <1>11 DEF Reaches
  <2>4. mine.what = "connect" BY <1>4, <1>11
  <2> QED BY <1>3, <1>5, <1>8, <2>2, <2>3, <2>4, OnConnectHeld
<1>12. CASE c.what = "pair"
  <2>1. r = OnPair(y, mine, err) BY <1>2, <1>12
  <2>2. OnPairAs(y, r, mine, err) BY <1>3, <1>5, <2>1, OnPairSo
  <2>3. ~mine.stale => Held(y, {mine.dev}, IF IsPairing(mine) THEN 1 ELSE 0) BY <1>4, <1>7, <1>12 DEF Reaches
  <2>4. mine.what = "pair" BY <1>4, <1>12
  <2> QED BY <1>3, <1>5, <1>8, <2>2, <2>3, <2>4, OnPairHeld
<1>13. CASE c.what = "disconnect"
  <2>1. CASE mine.stale BY <1>2, <1>8, <1>13, <2>1
  <2>2. CASE ~mine.stale
    <3> DEFINE d == mine.dev
               op == "none"
               D == {mine.dev}
    <3>1. r = SetOp(y, d, op) BY <1>2, <1>4, <1>13, <2>2
    <3>2. ~IsPairing(mine) /\ mine.what \in Reaches BY <1>4, <1>13 DEF IsPairing, Reaches
    <3>3. Held(y, D, 0) BY <1>7, <2>2, <3>2
    <3>4. op \in BtOps /\ op = "none" /\ d \in BtDevices /\ D \subseteq {d} BY <1>4 DEF BtOps
    <3> HIDE DEF d, op, D
    <3>5. SetBy(y, r, d, op) BY <1>5, <3>1, <3>4, SetOpSo
    <3> QED BY <1>5, <3>3, <3>4, <3>5, SetHeld
  <2> QED BY <2>1, <2>2
<1>14. CASE c.what = "power"
  <2>1. CASE mine.stale BY <1>2, <1>8, <1>14, <2>1
  <2>2. CASE ~mine.stale
    <3>1. r = [y EXCEPT !.powering = FALSE] BY <1>2, <1>14, <2>2
    <3>2. Sane(r) /\ SameAdapter(y, r) /\ SameCalls(y, r) /\ ~r.powering /\ r.devs = y.devs /\ r.pairs = y.pairs
      BY <1>5, <3>1, PoweringSo
    <3>3. /\ SameAdapter(x, y) /\ SameOps(x, y) /\ y.pending = x.pending \ {mine} BY <1>2 DEF Released
    <3>4. Weighs(mine) /\ mine.what = "power" BY <1>4, <1>14, <2>2 DEF Weighs
    <3>5. mine \in Powers(x) BY <1>2, <3>4 DEF Powers, Weighty
    <3>6. Powers(r) = {}
      <4>1. \A p \in Powers(x) : p = mine BY <3>5 DEF Held, PowerHeld
      <4>2. Powers(r) \subseteq Powers(x) \ {mine} BY <3>2, <3>3 DEF Powers, Weighty, SameCalls
      <4> QED BY <4>1, <4>2
    <3>7. \A p : p.what \in Reaches => p # mine BY <3>4 DEF Reaches
    <3>8. OpsHeld(r, {})
      <4>1. OpsHeld(x, {}) BY DEF Held
      <4>2. \A p \in Weighty(x) : p.what \in Reaches => p \in Weighty(r) BY <3>2, <3>3, <3>7 DEF Weighty, SameCalls
      <4>3. r.devs = x.devs BY <3>2, <3>3 DEF SameOps
      <4> QED BY <4>1, <4>2, <4>3 DEF OpsHeld
    <3>9. Pairings(r) = Pairings(x)
      <4>1. \A p : IsPairing(p) => p # mine BY <3>4 DEF IsPairing
      <4> QED BY <3>2, <3>3, <4>1 DEF Pairings, Weighty, SameCalls
    <3>10. Counted(r, 0) BY <3>2, <3>3, <3>9 DEF Held, Counted, SameOps
    <3>11. r.powering = FALSE BY <3>2, MirrorTypes DEF Sane
    <3>12. PowerHeld(r) BY <3>6, <3>11 DEF PowerHeld
    <3>13. Rooted(r) BY <3>2, <3>3 DEF Held, Rooted, SameAdapter, SameOps
    <3> QED BY <3>8, <3>10, <3>12, <3>13 DEF Held
  <2> QED BY <2>1, <2>2
<1>15. CASE c.what \notin {"objects", "start", "connect", "pair", "disconnect", "power"}
  <2>1. Held(y, {}, 0) BY <1>4, <1>6, <1>15 DEF Weighs, Reaches
  <2> QED BY <1>2, <1>15, <2>1
<1> QED BY <1>9, <1>10, <1>11, <1>12, <1>13, <1>14, <1>15

LEMMA AlikeKin ==
  ASSUME NEW x, Sane(x), NEW z, Sane(z), AlikeDevs(x, z)
  PROVE  \A d \in BtDevices : z.devs[d].there = x.devs[d].there /\ z.devs[d].op = x.devs[d].op
<1>1. \A e : FactsOf(e).there = e.there BY DEF FactsOf
<1> QED BY <1>1 DEF AlikeDevs

\* A signal takes nothing away that is awaited: when bluetoothd comes up there is nothing.
LEMMA OnSignalHeld ==
  ASSUME BtBase, NEW x, Sane(x), Held(x, {}, 0), NEW m \in BtMsgs, m.kind # "reply", m.kind = "name" /\ m.on => ~x.up,
         NEW r, r = OnSignal(x, m)
  PROVE  Held(r, {}, 0)
<1>0. x \in BtMirrors /\ (x.adapter => x.up) BY DEF Sane, Held, Rooted
<1>1. /\ m.kind \in {"name", "powered", "adapter", "unplugged"} => m.on \in BOOLEAN
      /\ m.kind \notin {"name", "powered", "adapter", "unplugged"} =>
           /\ m.kind \in {"added", "removed", "changed"} /\ m.dev \in BtDevices /\ m.as \in BtFacts
           /\ (m.kind # "removed" => m.as.there)
  BY SignalTypes
<1>2. ASSUME NEW z, Switched(x, z, m.on), x.up, r = UpdateDiscovery(z) PROVE Held(r, {}, 0)
  <2>1. Sane(z) BY <1>2 DEF Switched
  <2>2. \A d \in BtDevices : z.devs[d].there = x.devs[d].there /\ z.devs[d].op = x.devs[d].op
    BY <1>2, <2>1, AlikeKin DEF Switched
  <2>3. Weighty(z) = Weighty(x) BY <1>2 DEF Switched, SameCalls, Weighty
  <2>4. Pairings(z) = Pairings(x) /\ Powers(z) = Powers(x) BY <2>3 DEF Pairings, Powers
  <2>5. OpsHeld(z, {}) BY <2>2, <2>3 DEF Held, OpsHeld
  <2>6. PowerHeld(z) /\ Counted(z, 0) BY <1>2, <2>4 DEF Held, PowerHeld, Counted, Switched
  <2>7. Rooted(z) BY <1>2 DEF Rooted, Switched
  <2>8. Held(z, {}, 0) BY <2>5, <2>6, <2>7 DEF Held
  <2>9. Kin(z, r) BY <1>2, <2>1, UpdateDiscoveryKin
  <2> QED BY <2>8, <2>9, KinHeld
<1>3. ASSUME NEW z, NEW d, d \in BtDevices, NEW e, ShownAs(x, z, d, e), e.there => x.adapter PROVE Held(z, {}, 0) /\ Sane(z)
  <2>1. FactsOf(z.devs[d]).there = z.devs[d].there BY DEF FactsOf
  <2>2. z.devs[d].there = e.there BY <1>3, <2>1 DEF ShownAs
  <2>3. Weighty(z) = Weighty(x) BY <1>3 DEF ShownAs, SameCalls, Weighty
  <2>4. Pairings(z) = Pairings(x) /\ Powers(z) = Powers(x) BY <2>3 DEF Pairings, Powers
  <2>5. OpsHeld(z, {})
    <3> SUFFICES ASSUME NEW k \in BtDevices, z.devs[k].op # "none"
                 PROVE  z.devs[k].there /\ \E c \in Weighty(z) : c.dev = k /\ c.what \in Reaches
      BY DEF OpsHeld
    <3>1. x.devs[k].op # "none" /\ (k = d => e.there)
      <4>1. CASE k = d BY <1>3, <4>1 DEF ShownAs, Bare
      <4>2. CASE k # d BY <1>3, <4>2 DEF ShownAs
      <4> QED BY <4>1, <4>2
    <3>2. x.devs[k].there /\ \E c \in Weighty(x) : c.dev = k /\ c.what \in Reaches BY <3>1 DEF Held, OpsHeld
    <3> QED BY <1>3, <2>2, <2>3, <3>1, <3>2 DEF ShownAs
  <2>6. PowerHeld(z) /\ Counted(z, 0) BY <1>3, <2>4 DEF Held, PowerHeld, Counted, ShownAs
  <2>7. Rooted(z) BY <1>3, <2>2 DEF Held, Rooted, ShownAs, SameAdapter
  <2>8. Sane(z) BY <1>3 DEF ShownAs
  <2> QED BY <2>5, <2>6, <2>7, <2>8 DEF Held
<1>4. CASE m.kind = "name" /\ m.on
  <2>1. r = Fetch(x) BY <1>4, OnSignalSo
  <2> QED BY <1>0, <1>4, <2>1, FetchHeld
<1>5. CASE m.kind = "name" /\ ~m.on
  <2>1. Emptied(x, r) BY <1>5, OnSignalSo
  <2> QED BY <1>0, <2>1, EmptiedHeld
<1>6. CASE m.kind = "adapter"
  <2>1. ~x.up => r = x BY <1>6, OnSignalSo
  <2>2. x.up => \E z : Switched(x, z, m.on) /\ r = UpdateDiscovery(z) BY <1>6, OnSignalSo
  <2> QED BY <1>2, <2>1, <2>2
<1>7. CASE m.kind = "unplugged"
  <2>1. ~x.adapter => r = x BY <1>7, OnSignalSo
  <2>2. x.adapter => \E z : Emptied(x, z) /\ z.up = x.up /\ r = Fetch(z) BY <1>7, OnSignalSo
  <2>3. ASSUME NEW z, Emptied(x, z), r = Fetch(z) PROVE Held(r, {}, 0)
    <3>1. Held(z, {}, 0) BY <1>0, <2>3, EmptiedHeld
    <3>2. Sane(z) /\ ~z.adapter BY <2>3 DEF Emptied
    <3> QED BY <2>3, <3>1, <3>2, FetchHeld
  <2> QED BY <2>1, <2>2, <2>3
<1>8. CASE m.kind = "powered"
  <2>1. ~x.adapter => r = x BY <1>8, OnSignalSo
  <2>2. x.adapter => \E z : Switched(x, z, m.on) /\ r = UpdateDiscovery(z) BY <1>8, OnSignalSo
  <2> QED BY <1>0, <1>2, <2>1, <2>2
<1>9. CASE m.kind = "added"
  <2>1. ~x.up => r = x BY <1>9, OnSignalSo
  <2>2. x.up /\ ~x.adapter => r = UpdateDiscovery(x) BY <1>9, OnSignalSo
  <2>3. x.up /\ x.adapter => \E z : ShownAs(x, z, m.dev, m.as) /\ r = UpdateDiscovery(z) BY <1>9, OnSignalSo
  <2>4. ASSUME NEW z, ShownAs(x, z, m.dev, m.as), r = UpdateDiscovery(z), x.adapter PROVE Held(r, {}, 0)
    <3>1. Held(z, {}, 0) /\ Sane(z) BY <1>1, <1>3, <1>9, <2>4
    <3>2. Kin(z, r) BY <2>4, <3>1, UpdateDiscoveryKin
    <3> QED BY <3>1, <3>2, KinHeld
  <2>5. ASSUME r = UpdateDiscovery(x) PROVE Held(r, {}, 0) BY <2>5, UpdateDiscoveryKin, KinHeld
  <2>6. x.up \in BOOLEAN /\ x.adapter \in BOOLEAN BY <1>0, MirrorTypes
  <2> QED BY <2>1, <2>2, <2>3, <2>4, <2>5, <2>6
<1>10. CASE m.kind = "removed"
  <2>1. ShownAs(x, r, m.dev, Absent) BY <1>10, OnSignalSo
  <2> QED BY <1>1, <1>3, <1>10, <2>1, AbsentSo
<1>11. CASE m.kind = "changed"
  <2>1. ~x.devs[m.dev].there => r = x BY <1>11, OnSignalSo
  <2>2. x.devs[m.dev].there => ShownAs(x, r, m.dev, m.as) BY <1>11, OnSignalSo
  <2>3. x.devs[m.dev].there => x.adapter BY <1>1, <1>11 DEF Held, Rooted
  <2>4. x.devs[m.dev].there \in BOOLEAN
    <3>1. x.devs[m.dev] \in BtShown BY <1>0, <1>1, <1>11, MirrorTypes
    <3> QED BY <3>1, ShownTypes
  <2> QED BY <1>1, <1>3, <1>11, <2>1, <2>2, <2>3, <2>4
<1> QED BY <1>1, <1>4, <1>5, <1>6, <1>7, <1>8, <1>9, <1>10, <1>11

LEMMA SentKin ==
  ASSUME NEW x, NEW y, NEW what, NEW d, NEW flag, SentBy(x, y, what, d, flag), what \notin Reaches, what # "power"
  PROVE  Kin(x, y)
<1>1. PICK p : Added(x, y, p) /\ p.what = what BY DEF SentBy
<1>2. SameAdapter(x, y) /\ SameOps(x, y) BY DEF SentBy
<1> QED BY <1>1, <1>2, KinAdded

LEMMA SetPoweredHeld ==
  ASSUME NEW x, Sane(x), Held(x, {}, 0), NEW y, SetPoweredAs(x, y)
  PROVE  Held(y, {}, 0)
<1>1. PICK d, flag, z : /\ x.adapter /\ ~x.powering /\ SentBy(x, z, "power", d, flag)
                        /\ Sane(y) /\ SameAdapter(z, y) /\ SameCalls(z, y) /\ y.active = z.active
                        /\ y.powering /\ y.devs = z.devs /\ y.pairs = z.pairs
  BY DEF SetPoweredAs
<1>2. PICK c : Added(x, z, c) /\ c.what = "power" BY <1>1 DEF SentBy
<1>3. SameAdapter(x, z) /\ SameOps(x, z) BY <1>1 DEF SentBy
<1>4. ~IsPairing(c) BY <1>2 DEF IsPairing
<1>5. Weighty(z) = Weighty(x) \union {c} /\ Pairings(z) = Pairings(x) /\ Powers(z) = Powers(x) \union {c}
  BY <1>2, <1>4, WeightyAdded
<1>6. Weighty(y) = Weighty(z) BY <1>1 DEF Weighty, SameCalls
<1>7. Pairings(y) = Pairings(z) /\ Powers(y) = Powers(z) BY <1>6 DEF Pairings, Powers
<1>8. y.devs = x.devs /\ y.pairs = x.pairs /\ y.adapter = x.adapter /\ y.up = x.up BY <1>1, <1>3 DEF SameAdapter, SameOps
<1>9. OpsHeld(y, {}) BY <1>5, <1>6, <1>8 DEF Held, OpsHeld
<1>10. Counted(y, 0) BY <1>5, <1>7, <1>8 DEF Held, Counted
<1>11. Rooted(y) BY <1>1, <1>8 DEF Held, Rooted
<1>12. Powers(x) = {} BY <1>1 DEF Held, PowerHeld
<1>13. Powers(y) = {c} BY <1>5, <1>7, <1>12
<1>14. y.powering = TRUE BY <1>1, MirrorTypes DEF Sane
<1>15. PowerHeld(y) BY <1>13, <1>14 DEF PowerHeld
<1> QED BY <1>9, <1>10, <1>11, <1>15 DEF Held

LEMMA UserHeld ==
  ASSUME BtBase, Sane(g), Held(g, {}, 0), UserDoes
  PROVE  Held(g', {}, 0)
<1> DEFINE y == g'
<1> SUFFICES Held(y, {}, 0) OBVIOUS
<1>0. /\ ScanAs(g, y) \/ SetPoweredAs(g, y)
         \/ \E d \in BtDevices : \/ PairAs(g, y, d) \/ DisconnectAs(g, y, d)
                                 \/ DeviceIdle(d) /\ y = SendConnect(g, d, "plain")
                                 \/ g.devs[d].there /\ SentBy(g, y, "remove", d, "plain")
  BY DEF UserDoes
<1> HIDE DEF y
<1>1. ASSUME ScanAs(g, y) PROVE Held(y, {}, 0)
  <2>1. PICK on, z : /\ on \in BOOLEAN
                     /\ Sane(z) /\ SameCalls(g, z) /\ SameOps(g, z) /\ z.up = g.up /\ z.adapter = g.adapter
                     /\ y = UpdateDiscovery(z)
    BY <1>1 DEF ScanAs
  <2>2. Weighty(z) = Weighty(g) BY <2>1 DEF Weighty, SameCalls
  <2>3. Kin(g, z) BY <2>1, <2>2 DEF Kin, SameOps
  <2>4. Kin(z, y) BY <2>1, UpdateDiscoveryKin
  <2>5. Kin(g, y) BY <2>3, <2>4, KinThen
  <2> QED BY <2>5, KinHeld
<1>2. ASSUME SetPoweredAs(g, y) PROVE Held(y, {}, 0) BY <1>2, SetPoweredHeld
<1>3. ASSUME NEW d \in BtDevices, PairAs(g, y, d) PROVE Held(y, {}, 0)
  <2> DEFINE what == "pair"
             op == "pairing"
             flag == "plain"
             D == {}
             one == 1
             k == 0
  <2>1. PICK z, u, v : /\ DeviceIdle(d)
                       /\ Sane(z) /\ SameCalls(g, z) /\ SameAdapter(g, z) /\ z.active = g.active
                       /\ z.powering = g.powering /\ z.devs = g.devs /\ z.pairs = g.pairs + 1
                       /\ u = UpdateDiscovery(z) /\ Sane(u)
                       /\ SentBy(u, v, what, d, flag) /\ SetBy(v, y, d, op)
    BY <1>3 DEF PairAs
  <2>2. what \in Reaches /\ one \in Nat /\ k \in Nat /\ one = 1 /\ k = 0 /\ op \in BtOps /\ D \subseteq {d} /\ D = {}
        /\ one = k + (IF what = "pair" \/ (what = "connect" /\ flag = "pair") THEN 1 ELSE 0)
    BY DEF Reaches, BtOps
  <2> HIDE DEF what, op, flag, D, one, k
  <2>3. Weighty(z) = Weighty(g) BY <2>1 DEF Weighty, SameCalls
  <2>4. Pairings(z) = Pairings(g) /\ Powers(z) = Powers(g) BY <2>3 DEF Pairings, Powers
  <2>5. OpsHeld(z, D) BY <2>1, <2>2, <2>3 DEF Held, OpsHeld
  <2>6. PowerHeld(z) BY <2>1, <2>4 DEF Held, PowerHeld
  <2>7. Counted(z, one)
    <3>1. IsFiniteSet(Pairings(g)) /\ Cardinality(Pairings(g)) \in Nat BY PairingsSo
    <3> QED BY <2>1, <2>2, <2>4, <3>1 DEF Held, Counted
  <2>8. Rooted(z) BY <2>1 DEF Held, Rooted, SameAdapter, DeviceIdle
  <2>9. Held(z, D, one) BY <2>5, <2>6, <2>7, <2>8 DEF Held
  <2>10. Kin(z, u) BY <2>1, UpdateDiscoveryKin
  <2>11. Held(u, D, one) BY <2>9, <2>10, KinHeld
  <2>12. Held(v, D, k) /\ Reached(v, d) /\ Sane(v) BY <2>1, <2>2, <2>11, SentHeld
  <2>13. Held(y, {}, k) BY <2>1, <2>2, <2>12, SetHeld
  <2> QED BY <2>2, <2>13
<1>4. ASSUME NEW d \in BtDevices, DisconnectAs(g, y, d) PROVE Held(y, {}, 0)
  <2> DEFINE what == "disconnect"
             op == "disconnecting"
             flag == "plain"
             D == {}
             k == 0
  <2>1. PICK z : SentBy(g, z, what, d, flag) /\ SetBy(z, y, d, op) BY <1>4 DEF DisconnectAs
  <2>2. what \in Reaches /\ k \in Nat /\ k = 0 /\ op \in BtOps /\ D \subseteq {d} /\ D = {}
        /\ k = k + (IF what = "pair" \/ (what = "connect" /\ flag = "pair") THEN 1 ELSE 0)
    BY DEF Reaches, BtOps
  <2> HIDE DEF what, op, flag, D, k
  <2>3. Held(g, D, k) BY <2>2
  <2>4. Held(z, D, k) /\ Reached(z, d) /\ Sane(z) BY <2>1, <2>2, <2>3, SentHeld
  <2>5. Held(y, {}, k) BY <2>1, <2>2, <2>4, SetHeld
  <2> QED BY <2>2, <2>5
<1>5. ASSUME NEW d \in BtDevices, y = SendConnect(g, d, "plain") PROVE Held(y, {}, 0)
  <2> DEFINE flag == "plain"
             D == {}
             k == 0
  <2>1. flag \in Flags /\ k \in Nat /\ k = 0 /\ D \subseteq {d} /\ D = {} /\ k = k + (IF flag = "pair" THEN 1 ELSE 0)
    BY DEF Flags
  <2>2. y = SendConnect(g, d, flag) BY <1>5
  <2> HIDE DEF flag, D, k
  <2>3. Held(g, D, k) BY <2>1
  <2>4. Held(SendConnect(g, d, flag), {}, k) BY <2>1, <2>3, SendConnectHeld
  <2> QED BY <2>1, <2>2, <2>4
<1>6. ASSUME NEW d \in BtDevices, SentBy(g, y, "remove", d, "plain") PROVE Held(y, {}, 0)
  <2> DEFINE what == "remove"
  <2>1. what \notin Reaches /\ what # "power" BY DEF Reaches
  <2>2. SentBy(g, y, what, d, "plain") BY <1>6
  <2> HIDE DEF what
  <2>3. Kin(g, y) BY <2>1, <2>2, SentKin
  <2> QED BY <2>3, KinHeld
<1> QED BY <1>0, <1>1, <1>2, <1>3, <1>4, <1>5, <1>6

\* When bluetoothd comes up it was down before, and the mirror shows that by then: no
\* answer came in between that showed it up.
Raises(m) == m.kind = "reply" /\ m.call.what = "objects" /\ m.err = "done"
Falls(m)  == m.kind = "name" /\ ~m.on
Rises(m)  == m.kind = "name" /\ m.on
DownAt(w, up, k) ==
  \E j \in 0..(k - 1) : /\ IF j = 0 THEN ~up ELSE Falls(w[j])
                        /\ \A i \in (j + 1)..(k - 1) : ~Raises(w[i])
BtDown == /\ \A k \in 1..Len(wire) : Rises(wire[k]) => DownAt(wire, g.up, k)
          /\ ~bz.up => DownAt(wire, g.up, Len(wire) + 1)

\* The wire moves on, ...
LEMMA DownTail ==
  ASSUME NEW w, w \in Seq(BtMsgs), w # <<>>, NEW up, NEW up2, up2 => up \/ Raises(w[1]), Falls(w[1]) => ~up2,
         NEW k \in 1..(Len(Tail(w)) + 1), DownAt(w, up, k + 1)
  PROVE  DownAt(Tail(w), up2, k)
<1> DEFINE t == Tail(w)
           N == Len(t)
<1>1. Len(w) \in Nat /\ Len(w) >= 1 /\ N = Len(w) - 1 /\ \A i \in 1..N : t[i] = w[i + 1] BY HeadSo
<1> HIDE DEF t
<1>2. k \in 1..(N + 1) BY DEF t
<1> HIDE DEF N
<1>3. PICK j \in 0..((k + 1) - 1) : /\ IF j = 0 THEN ~up ELSE Falls(w[j])
                                    /\ \A i \in (j + 1)..((k + 1) - 1) : ~Raises(w[i])
  BY DEF DownAt
<1>4. N \in Nat /\ k \in Nat /\ (k + 1) - 1 = k BY <1>1, <1>2
<1>5. \A l \in 0..k : (l >= 1 => \A i \in l..(k - 1) : i \in 1..N /\ i + 1 \in (l + 1)..k /\ t[i] = w[i + 1])
  BY <1>1, <1>2, <1>4
<1>6. CASE j >= 2
  <2>1. j - 1 \in 0..(k - 1) /\ j - 1 # 0 /\ j - 1 \in 1..N /\ (j - 1) + 1 = j BY <1>2, <1>3, <1>4, <1>6
  <2>2. t[j - 1] = w[j] BY <1>1, <2>1
  <2>3. Falls(t[j - 1]) BY <1>3, <1>6, <2>2
  <2>4. \A i \in j..(k - 1) : ~Raises(t[i]) BY <1>3, <1>4, <1>5, <1>6
  <2>5. \A i \in ((j - 1) + 1)..(k - 1) : ~Raises(t[i]) BY <2>1, <2>4
  <2>6. DownAt(t, up2, k) BY <2>1, <2>3, <2>5 DEF DownAt
  <2> QED BY <2>6 DEF t
<1>7. CASE j < 2
  <2>1. ~up2
    <3>1. CASE j = 1 BY <1>3, <3>1
    <3>2. CASE j = 0
      <4>1. 1 \in (j + 1)..((k + 1) - 1) BY <1>2, <1>4, <3>2
      <4> QED BY <1>3, <3>2, <4>1
    <3> QED BY <1>3, <1>7, <3>1, <3>2
  <2>2. \A i \in 1..(k - 1) : ~Raises(t[i])
    <3> SUFFICES ASSUME NEW i \in 1..(k - 1) PROVE ~Raises(t[i]) OBVIOUS
    <3>1. i \in 1..N /\ i + 1 \in (j + 1)..((k + 1) - 1) BY <1>2, <1>3, <1>4, <1>7
    <3> QED BY <1>1, <1>3, <3>1
  <2>3. DownAt(t, up2, k)
    <3>1. 0 \in 0..(k - 1) /\ \A i \in (0 + 1)..(k - 1) : ~Raises(t[i]) BY <1>2, <1>4, <2>2
    <3> QED BY <2>1, <3>1 DEF DownAt
  <2> QED BY <2>3 DEF t
<1> QED BY <1>3, <1>4, <1>6, <1>7

\* ... and more is told.
LEMMA DownCat ==
  ASSUME NEW w, w \in Seq(BtMsgs), NEW s, s \in Seq(BtMsgs), NEW up, NEW r, r = w \o s
  PROVE  /\ \A k \in 1..(Len(w) + 1) : DownAt(w, up, k) => DownAt(r, up, k)
         /\ DownAt(w, up, Len(w) + 1) /\ (\A i \in 1..Len(s) : ~Raises(s[i])) => DownAt(r, up, Len(r) + 1)
         /\ (\E j \in 1..Len(s) : Falls(s[j])) /\ (\A i \in 1..Len(s) : ~Raises(s[i])) => DownAt(r, up, Len(r) + 1)
<1> DEFINE N == Len(w)
           M == Len(s)
<1>1. /\ N \in Nat /\ M \in Nat /\ Len(r) = N + M
      /\ \A i \in 1..N : r[i] = w[i]
      /\ \A i \in 1..M : r[N + i] = s[i]
  BY CatSo
<1> HIDE DEF N, M
<1>2. ASSUME NEW k \in 1..(N + 1), DownAt(w, up, k) PROVE DownAt(r, up, k)
  <2>1. PICK j \in 0..(k - 1) : /\ IF j = 0 THEN ~up ELSE Falls(w[j])
                                /\ \A i \in (j + 1)..(k - 1) : ~Raises(w[i])
    BY <1>2 DEF DownAt
  <2>2. \A i \in 1..(k - 1) : i \in 1..N BY <1>1
  <2>3. IF j = 0 THEN ~up ELSE Falls(r[j]) BY <1>1, <2>1, <2>2
  <2>4. \A i \in (j + 1)..(k - 1) : ~Raises(r[i]) BY <1>1, <2>1, <2>2
  <2> QED BY <2>3, <2>4 DEF DownAt
<1>3. ASSUME DownAt(w, up, N + 1), \A i \in 1..M : ~Raises(s[i]) PROVE DownAt(r, up, Len(r) + 1)
  <2>1. PICK j \in 0..((N + 1) - 1) : /\ IF j = 0 THEN ~up ELSE Falls(w[j])
                                      /\ \A i \in (j + 1)..((N + 1) - 1) : ~Raises(w[i])
    BY <1>3 DEF DownAt
  <2>2. j \in 0..N /\ \A i \in (j + 1)..N : ~Raises(w[i]) BY <1>1, <2>1
  <2>3. IF j = 0 THEN ~up ELSE Falls(r[j]) BY <1>1, <2>1, <2>2
  <2>4. \A i \in (j + 1)..(N + M) : ~Raises(r[i])
    <3> TAKE i \in (j + 1)..(N + M)
    <3>1. CASE i <= N BY <1>1, <2>2, <3>1
    <3>2. CASE ~(i <= N)
      <4>1. i - N \in 1..M /\ N + (i - N) = i BY <1>1, <2>2, <3>2
      <4> QED BY <1>1, <1>3, <4>1
    <3> QED BY <3>1, <3>2
  <2>5. j \in 0..((N + M + 1) - 1) /\ (N + M + 1) - 1 = N + M BY <1>1, <2>2
  <2>6. PICK k : k = N + M + 1 OBVIOUS
  <2>7. DownAt(r, up, k) BY <2>3, <2>4, <2>5, <2>6 DEF DownAt
  <2> QED BY <1>1, <2>6, <2>7
<1>4. ASSUME NEW j \in 1..M, Falls(s[j]), \A i \in 1..M : ~Raises(s[i]) PROVE DownAt(r, up, Len(r) + 1)
  <2>1. N + j # 0 /\ N + j \in 0..((N + M + 1) - 1) /\ (N + M + 1) - 1 = N + M BY <1>1
  <2>2. Falls(r[N + j]) BY <1>1, <1>4
  <2>3. \A i \in ((N + j) + 1)..(N + M) : ~Raises(r[i])
    <3> TAKE i \in ((N + j) + 1)..(N + M)
    <3>1. i - N \in 1..M /\ N + (i - N) = i BY <1>1
    <3> QED BY <1>1, <1>4, <3>1
  <2>4. PICK k : k = N + M + 1 OBVIOUS
  <2>5. DownAt(r, up, k) BY <2>1, <2>2, <2>3, <2>4 DEF DownAt
  <2> QED BY <1>1, <2>4, <2>5
<1> QED BY <1>2, <1>3, <1>4 DEF N, M

\* Most of what bluetoothd tells says neither.
Still(s) == s \in Seq(BtMsgs) /\ \A i \in 1..Len(s) : ~Raises(s[i]) /\ ~Rises(s[i])

LEMMA StillNone == Still(<<>>)
BY NoneSo DEF Still

LEMMA StillOne == ASSUME NEW m, m \in BtMsgs, ~Raises(m), ~Rises(m) PROVE Still(<<m>>)
<1> DEFINE s == <<m>>
<1>1. s \in Seq(BtMsgs) /\ Len(s) = 1 /\ s[1] = m BY OneSo
<1> HIDE DEF s
<1>2. \A i \in 1..Len(s) : i = 1 BY <1>1
<1>3. Still(s) BY <1>1, <1>2 DEF Still
<1> QED BY <1>3 DEF s

LEMMA StillCat == ASSUME NEW s, NEW r, Still(s), Still(r) PROVE Still(s \o r)
<1> DEFINE w == s \o r
           N == Len(s)
           M == Len(r)
<1>1. /\ w \in Seq(BtMsgs) /\ N \in Nat /\ M \in Nat /\ Len(w) = N + M
      /\ \A i \in 1..N : w[i] = s[i]
      /\ \A i \in 1..M : w[N + i] = r[i]
  BY CatSo DEF Still
<1> HIDE DEF w, N, M
<1>2. \A i \in 1..(N + M) : ~Raises(w[i]) /\ ~Rises(w[i])
  <2> TAKE i \in 1..(N + M)
  <2>1. CASE i <= N
    <3>1. i \in 1..N BY <1>1, <2>1
    <3> QED BY <1>1, <3>1 DEF Still, N
  <2>2. CASE ~(i <= N)
    <3>1. i - N \in 1..M /\ N + (i - N) = i BY <1>1, <2>2
    <3>2. ~Raises(r[i - N]) /\ ~Rises(r[i - N]) BY <3>1 DEF Still, M
    <3> QED BY <1>1, <3>1, <3>2
  <2> QED BY <2>1, <2>2
<1>3. Still(w) BY <1>1, <1>2 DEF Still
<1> QED BY <1>3 DEF w

LEMMA StillFails == ASSUME BzOk(bz), NEW F, F \subseteq bz.slow PROVE Still(Fails(F))
<1>1. F \subseteq BtCalls /\ IsFiniteSet(F) /\ \A c \in F : ~c.stale /\ c.what \in Reaches
  BY FS_Subset, BzTypes DEF BzOk
<1> DEFINE s == Fails(F)
<1>2. s \in Seq(BtMsgs) /\ \A i \in 1..Len(s) : \E c \in F : s[i] = Reply(c, "failed") BY <1>1, FailsSo
<1> HIDE DEF s
<1>3. \A i \in 1..Len(s) : ~Raises(s[i]) /\ ~Rises(s[i])
  <2> TAKE i \in 1..Len(s)
  <2>1. PICK c \in F : s[i] = Reply(c, "failed") BY <1>2
  <2>2. s[i].kind = "reply" /\ s[i].call = c BY <2>1 DEF Reply
  <2> QED BY <1>1, <2>2 DEF Raises, Rises, Reaches
<1>4. Still(s) BY <1>2, <1>3 DEF Still
<1> QED BY <1>4 DEF s

LEMMA StillEach ==
  ASSUME BtAssumption, NEW kind, kind \in {"added", "changed"}, NEW S, S \subseteq BtDevices,
         NEW b, \A d \in S : b.devs[d] \in BtFacts /\ b.devs[d].there
  PROVE  Still(AboutEach(kind, S, b))
<1> DEFINE s == AboutEach(kind, S, b)
           n == Cardinality(S)
           q == SetToSeq(S)
<1>1. EachOf(s, n, q, kind, S, b) BY AboutEachSo
<1> HIDE DEF s, n, q
<1>2. \A i \in 1..Len(s) : ~Raises(s[i]) /\ ~Rises(s[i])
  <2> TAKE i \in 1..Len(s)
  <2>1. PICK d \in S : s[i] = About(kind, d, b.devs[d]) BY <1>1 DEF EachOf
  <2>2. s[i].kind = kind BY <2>1 DEF About
  <2> QED BY <2>2 DEF Raises, Rises
<1>3. Still(s) BY <1>1, <1>2 DEF Still, EachOf
<1> QED BY <1>3 DEF s

LEMMA StillChanges ==
  ASSUME BtAssumption, NEW b, BzOk(b), \A d \in BtDevices : b.devs[d] # bz.devs[d] => b.devs[d].there
  PROVE  Still(DevChanges(b, bz))
<1> DEFINE S == {d \in BtDevices : b.devs[d] # bz.devs[d]}
           kind == "changed"
<1>1. b.devs \in [BtDevices -> BtFacts] BY BzTypes DEF BzOk
<1>2. S \subseteq BtDevices /\ \A d \in S : b.devs[d] \in BtFacts /\ b.devs[d].there BY <1>1
<1>3. kind \in {"added", "changed"} OBVIOUS
<1>4. DevChanges(b, bz) = AboutEach(kind, S, b) BY DEF DevChanges
<1> HIDE DEF S, kind
<1>5. Still(AboutEach(kind, S, b)) BY <1>2, <1>3, StillEach
<1> QED BY <1>4, <1>5

LEMMA StillAnd ==
  ASSUME NEW k, NEW v, NEW what, what # "objects", AndReply(k, v, what) \/ AndLate(k, v)
  PROVE  Still(v)
<1>1. CASE v = <<>> BY <1>1, StillNone
<1>2. ASSUME NEW m, v = <<m>>, m \in BtMsgs, m.kind = "reply", m.call.what # "objects" PROVE Still(v)
  <2>1. ~Raises(m) /\ ~Rises(m) BY <1>2 DEF Raises, Rises
  <2> QED BY <1>2, <2>1, StillOne
<1>3. CASE AndReply(k, v, what) BY <1>1, <1>2, <1>3 DEF AndReply
<1>4. CASE AndLate(k, v) 
  <2>1. PICK m : v = <<m>> /\ m \in BtMsgs /\ m.kind = "reply" /\ m.call.what \in Reaches BY <1>4 DEF AndLate
  <2>2. m.call.what # "objects" BY <2>1 DEF Reaches
  <2> QED BY <1>2, <2>1, <2>2
<1> QED BY <1>3, <1>4

LEMMA BluezStill ==
  ASSUME BtAssumption, BtSound, NEW b, NEW s, NEW k, BluezDoes(b, s, k)
  PROVE  \/ Still(s) /\ ((bz.up /\ ~b.up) => \E i \in 1..Len(s) : Falls(s[i]))
         \/ bz.up /\ b.up /\ \A i \in 1..Len(s) : ~Rises(s[i])
         \/ ~bz.up /\ b.up /\ Len(s) = 1
<1>0. BzOk(bz) /\ BzOk(b) /\ bz.up \in BOOLEAN /\ b.up \in BOOLEAN
      /\ s \in Seq(BtMsgs) BY BzTypes DEF BtSound, BluezDoes, TellsWell, BzOk
<1>1. CASE Answers(b, s, k)
  <2>1. PICK c, m : /\ s = <<m>> /\ m \in BtMsgs /\ m.kind = "reply" /\ m.call = c
                    /\ c.what = "objects" => IF bz.up THEN m.err = "done" /\ m.objects = Objects ELSE m.err = "failed"
    BY <1>1 DEF Answers
  <2>2. b.up = bz.up BY <1>1 DEF Answers, SameHost
  <2>3. ~Rises(m) BY <2>1 DEF Rises
  <2>4. CASE bz.up
    <3>1. \A i \in 1..Len(s) : s[i] = m BY <2>1, OneSo
    <3> QED BY <2>2, <2>3, <2>4, <3>1
  <2>5. CASE ~bz.up
    <3>1. ~Raises(m) BY <2>1, <2>5 DEF Raises
    <3>2. Still(s) BY <2>1, <2>3, <3>1, StillOne
    <3> QED BY <2>5, <3>2
  <2> QED BY <1>0, <2>4, <2>5
<1>2. CASE Keeps(b, s, k) BY <1>2, StillNone DEF Keeps, SameHost
<1>3. CASE Changed(b, s, k)
  <2>1. PICK v : s = DevChanges(b, bz) \o v /\ (AndReply(k, v, "trust") \/ AndLate(k, v)) BY <1>3 DEF Changed
  <2> DEFINE what == "trust"
  <2>2. what # "objects" /\ (AndReply(k, v, what) \/ AndLate(k, v)) BY <2>1
  <2> HIDE DEF what
  <2>3. Still(v) BY <2>2, StillAnd
  <2>4. Still(DevChanges(b, bz)) BY <1>0, <1>3, StillChanges DEF Changed
  <2>5. b.up = bz.up BY <1>3 DEF Changed, SameHost
  <2>6. Still(s) BY <2>1, <2>3, <2>4, StillCat
  <2> QED BY <2>5, <2>6
<1>4. CASE Removed(b, s, k)
  <2>1. PICK d, F : /\ d \in BtDevices
                    /\ F \subseteq bz.slow
                    /\ \E v : s = Fails(F) \o <<About("removed", d, Absent)>> \o v /\ AndReply(k, v, "remove")
    BY <1>4 DEF Removed
  <2>2. PICK v : s = Fails(F) \o <<About("removed", d, Absent)>> \o v /\ AndReply(k, v, "remove") BY <2>1
  <2> DEFINE m == About("removed", d, Absent)
             what == "remove"
  <2>3. m \in BtMsgs /\ m.kind = "removed" BY <2>1, SaidSo
  <2>4. s = Fails(F) \o <<m>> \o v BY <2>2
  <2>5. what # "objects" /\ AndReply(k, v, what) BY <2>2
  <2> HIDE DEF m, what
  <2>6. ~Raises(m) /\ ~Rises(m) BY <2>3 DEF Raises, Rises
  <2>7. Still(<<m>>) BY <2>3, <2>6, StillOne
  <2>8. Still(v) BY <2>5, StillAnd
  <2>9. Still(Fails(F)) BY <1>0, <2>1, StillFails
  <2>10. Still(Fails(F) \o <<m>>) BY <2>7, <2>9, StillCat
  <2>11. Still(s) BY <2>4, <2>8, <2>10, StillCat
  <2>12. b.up = bz.up BY <1>4 DEF Removed, SameHost
  <2> QED BY <2>11, <2>12
<1>5. CASE Finds(b, s, k)
  <2>1. PICK d \in BtDevices : s = <<About("added", d, Found)>> BY <1>5 DEF Finds
  <2> DEFINE m == About("added", d, Found)
  <2>2. m \in BtMsgs /\ m.kind = "added" BY SaidSo
  <2>3. s = <<m>> BY <2>1
  <2> HIDE DEF m
  <2>4. ~Raises(m) /\ ~Rises(m) BY <2>2 DEF Raises, Rises
  <2>5. Still(s) BY <2>2, <2>3, <2>4, StillOne
  <2>6. b.up = bz.up BY <1>5 DEF Finds, SameHost
  <2> QED BY <2>5, <2>6
<1>6. CASE Switches(b, s, k)
  <2>1. PICK p, v : /\ p = (IF b.powered # bz.powered THEN <<SignalOf("powered", b.powered)>> ELSE <<>>)
                    /\ s = DevChanges(b, bz) \o p \o Fails(bz.slow \ b.slow) \o v /\ AndReply(k, v, "power")
    BY <1>6 DEF Switches
  <2>2. \A d \in BtDevices : b.devs[d] # bz.devs[d] => b.devs[d].there
    <3>1. CASE b.devs = bz.devs BY <3>1
    <3>2. CASE NowUnpowered(b) BY <3>2 DEF NowUnpowered
    <3> QED BY <1>6, <3>1, <3>2 DEF Switches
  <2>3. Still(DevChanges(b, bz)) BY <1>0, <2>2, StillChanges
  <2>4. Still(p)
    <3>1. CASE b.powered = bz.powered BY <2>1, <3>1, StillNone
    <3>2. CASE b.powered # bz.powered
      <4> DEFINE m == SignalOf("powered", b.powered)
      <4>1. b.powered \in BOOLEAN BY <1>0, BzTypes DEF BzOk
      <4>2. m \in BtMsgs /\ m.kind = "powered" BY <4>1, SaidSo
      <4>3. p = <<m>> BY <2>1, <3>2
      <4> HIDE DEF m
      <4>4. ~Raises(m) /\ ~Rises(m) BY <4>2 DEF Raises, Rises
      <4> QED BY <4>2, <4>3, <4>4, StillOne
    <3> QED BY <3>1, <3>2
  <2>5. Still(Fails(bz.slow \ b.slow))
    <3> DEFINE F == bz.slow \ b.slow
    <3>1. F \subseteq bz.slow OBVIOUS
    <3> HIDE DEF F
    <3>2. Still(Fails(F)) BY <1>0, <3>1, StillFails
    <3> QED BY <3>2 DEF F
  <2>6. Still(v)
    <3> DEFINE what == "power"
    <3>1. what # "objects" /\ AndReply(k, v, what) BY <2>1
    <3> HIDE DEF what
    <3> QED BY <3>1, StillAnd
  <2>7. Still(DevChanges(b, bz) \o p) BY <2>3, <2>4, StillCat
  <2>8. Still(DevChanges(b, bz) \o p \o Fails(bz.slow \ b.slow)) BY <2>5, <2>7, StillCat
  <2>9. Still(s) BY <2>1, <2>6, <2>8, StillCat
  <2>10. b.up = bz.up BY <1>6 DEF Switches
  <2> QED BY <2>9, <2>10
<1>7. CASE Downs(b, s, k)
  <2> DEFINE m == SignalOf("name", FALSE)
             F == bz.slow
  <2>1. m \in BtMsgs /\ m.kind = "name" /\ ~m.on BY SaidSo
  <2>2. s = Fails(F) \o <<m>> \/ s = <<m>> \o Fails(F) BY <1>7 DEF Downs
  <2>3. F \subseteq bz.slow OBVIOUS
  <2> HIDE DEF m, F
  <2>4. ~Raises(m) /\ ~Rises(m) /\ Falls(m) BY <2>1 DEF Raises, Rises, Falls
  <2>5. Still(<<m>>) BY <2>1, <2>4, StillOne
  <2>6. Still(Fails(F)) BY <1>0, <2>3, StillFails
  <2>7. Still(s) BY <2>2, <2>5, <2>6, StillCat
  <2>8. \E i \in 1..Len(s) : s[i] = m
    <3>1. Fails(F) \in Seq(BtMsgs) BY <2>6 DEF Still
    <3>2. <<m>> \in Seq(BtMsgs) /\ Len(<<m>>) = 1 /\ <<m>>[1] = m BY <2>1, OneSo
    <3>3. CASE s = Fails(F) \o <<m>>
      <4>1. /\ Len(Fails(F)) \in Nat /\ Len(s) = Len(Fails(F)) + 1 /\ s[Len(Fails(F)) + 1] = m
        BY <3>1, <3>2, <3>3, CatSo
      <4> QED BY <4>1
    <3>4. CASE s = <<m>> \o Fails(F)
      <4>1. Len(Fails(F)) \in Nat /\ Len(s) = 1 + Len(Fails(F)) /\ s[1] = m BY <3>1, <3>2, <3>4, CatSo
      <4> QED BY <4>1
    <3> QED BY <2>2, <3>3, <3>4
  <2> QED BY <2>4, <2>7, <2>8
<1>8. CASE Unplugs(b, s, k)
  <2> DEFINE m == SignalOf("unplugged", FALSE)
             F == bz.slow
  <2>1. m \in BtMsgs /\ m.kind = "unplugged" BY SaidSo
  <2>2. s = Fails(F) \o <<m>> BY <1>8 DEF Unplugs
  <2>3. F \subseteq bz.slow OBVIOUS
  <2> HIDE DEF m, F
  <2>4. ~Raises(m) /\ ~Rises(m) BY <2>1 DEF Raises, Rises
  <2>5. Still(<<m>>) BY <2>1, <2>4, StillOne
  <2>6. Still(Fails(F)) BY <1>0, <2>3, StillFails
  <2>7. Still(s) BY <2>2, <2>5, <2>6, StillCat
  <2>8. b.up BY <1>8 DEF Unplugs
  <2> QED BY <2>7, <2>8
<1>9. CASE Ups(b, s, k) BY <1>9 DEF Ups
<1>10. CASE Plugs(b, s, k)
  <2> DEFINE m == SignalOf("adapter", TRUE)
             S == {d \in BtDevices : bz.devs[d].there}
             kind == "added"
  <2>1. m \in BtMsgs /\ m.kind = "adapter" BY SaidSo
  <2>2. s = <<m>> \o AboutEach(kind, S, bz) BY <1>10 DEF Plugs
  <2>3. bz.devs \in [BtDevices -> BtFacts] BY <1>0, BzTypes DEF BzOk
  <2>4. S \subseteq BtDevices /\ kind \in {"added", "changed"} /\ \A d \in S : bz.devs[d] \in BtFacts /\ bz.devs[d].there
    BY <2>3
  <2> HIDE DEF m, S, kind
  <2>5. ~Raises(m) /\ ~Rises(m) BY <2>1 DEF Raises, Rises
  <2>6. Still(<<m>>) BY <2>1, <2>5, StillOne
  <2>7. Still(AboutEach(kind, S, bz)) BY <2>4, StillEach
  <2>8. Still(s) BY <2>2, <2>6, <2>7, StillCat
  <2>9. b.up BY <1>10 DEF Plugs
  <2> QED BY <2>8, <2>9
<1> QED BY <1>1, <1>2, <1>3, <1>4, <1>5, <1>6, <1>7, <1>8, <1>9, <1>10 DEF BluezDoes

LEMMA BluezBtDown ==
  ASSUME BtAssumption, BtSound, BtDown, BluezNext, g.bus
  PROVE  BtDown'
<1>1. PICK b, s, k : BluezDoes(b, s, k) BY BluezSo
<1>2. Moved(g, g', k) /\ Tells(b, s) /\ s \in Seq(BtMsgs) /\ BzOk(b) BY <1>1 DEF BluezDoes, TellsWell
<1>3. g \in BtMirrors /\ wire \in Seq(BtMsgs) BY DEF BtSound, BtOk
<1>4. g'.up = g.up BY <1>2, <1>3, MovedSo DEF SameAdapter
<1> DEFINE r == wire \o s
           N == Len(wire)
           M == Len(s)
<1>5. bz' = b /\ wire' = r BY <1>2 DEF Tells
<1>6. /\ N \in Nat /\ M \in Nat /\ Len(r) = N + M
      /\ \A i \in 1..N : r[i] = wire[i]
      /\ \A i \in 1..M : r[N + i] = s[i]
  BY <1>2, <1>3, CatSo
<1> HIDE DEF r
<1>7. /\ \A l \in 1..(N + 1) : DownAt(wire, g.up, l) => DownAt(r, g.up, l)
      /\ DownAt(wire, g.up, N + 1) /\ (\A i \in 1..M : ~Raises(s[i])) => DownAt(r, g.up, Len(r) + 1)
      /\ (\E j \in 1..M : Falls(s[j])) /\ (\A i \in 1..M : ~Raises(s[i])) => DownAt(r, g.up, Len(r) + 1)
  BY <1>2, <1>3, DownCat DEF r
<1> HIDE DEF N, M
<1>8. \/ Still(s) /\ ((bz.up /\ ~b.up) => \E i \in 1..M : Falls(s[i]))
      \/ bz.up /\ b.up /\ \A i \in 1..M : ~Rises(s[i])
      \/ ~bz.up /\ b.up /\ M = 1
  BY <1>1, BluezStill DEF M
<1>9. Still(s) => \A i \in 1..M : ~Raises(s[i]) /\ ~Rises(s[i]) BY DEF Still, M
<1>10. ASSUME NEW l \in 1..(N + M), Rises(r[l]) PROVE DownAt(r, g.up, l)
  <2>1. CASE l <= N
    <3>1. l \in 1..N /\ l \in 1..(N + 1) BY <1>6, <2>1
    <3>2. Rises(wire[l]) BY <1>6, <1>10, <3>1
    <3>3. DownAt(wire, g.up, l) BY <3>1, <3>2 DEF BtDown, N
    <3> QED BY <1>7, <3>1, <3>3
  <2>2. CASE ~(l <= N)
    <3>1. l - N \in 1..M /\ N + (l - N) = l BY <1>6, <2>2
    <3>2. Rises(s[l - N]) BY <1>6, <1>10, <3>1
    <3>3. ~bz.up /\ M = 1 BY <1>8, <1>9, <3>1, <3>2
    <3>4. l = N + 1 /\ l \in 1..(N + 1) BY <1>6, <3>1, <3>3
    <3>5. DownAt(wire, g.up, N + 1) BY <3>3 DEF BtDown, N
    <3>6. DownAt(wire, g.up, l) BY <3>4, <3>5
    <3> QED BY <1>7, <3>4, <3>6
  <2> QED BY <2>1, <2>2
<1>11. ASSUME ~b.up PROVE DownAt(r, g.up, Len(r) + 1)
  <2>1. Still(s) /\ (bz.up => \E i \in 1..M : Falls(s[i])) BY <1>8, <1>11
  <2>2. ~bz.up => DownAt(wire, g.up, N + 1) BY DEF BtDown, N
  <2> QED BY <1>7, <1>9, <2>1, <2>2
<1>12. \A l \in 1..Len(r) : Rises(r[l]) => DownAt(r, g.up, l) BY <1>6, <1>10
<1>13. (\A l \in 1..Len(wire') : Rises(wire'[l]) => DownAt(wire', g'.up, l)) /\ (~bz'.up => DownAt(wire', g'.up, Len(wire') + 1))
  BY <1>4, <1>5, <1>11, <1>12
<1>14. BtDown'
  <2>1. ASSUME NEW l \in 1..Len(wire') PROVE Rises(wire[l])' <=> Rises(wire'[l]) BY DEF Rises
  <2>2. ASSUME NEW l PROVE DownAt(wire, g.up, l)' <=> DownAt(wire', g'.up, l) BY DEF DownAt, Falls, Raises
  <2> QED BY <1>13 DEF BtDown, DownAt, Falls, Raises, Rises
<1> QED BY <1>14

\* A message raises the mirror only if it says all that bluetoothd has.
LEMMA ProcessUp ==
  ASSUME BtAssumption, BtSound, Process, NEW y, y = g'
  PROVE  (y.up => g.up \/ Raises(wire[1])) /\ (Falls(wire[1]) => ~y.up)
<1> DEFINE m == Head(wire)
<1>1. /\ wire # <<>> /\ wire \in Seq(BtMsgs) /\ BtBase /\ Sane(g) /\ m \in BtMsgs /\ m = wire[1] /\ g \in BtMirrors
  BY HeadSo DEF Process, BtSound, BtBase, BtOk, Sane
<1>2. y = IF m.kind # "reply" THEN OnSignal(g, m)
          ELSE IF \E p \in g.pending : AsSent(p) = m.call THEN Replied(g, m.call, m.err, m.objects)
          ELSE g
  BY DEF Process
<1> HIDE DEF m
<1>3. CASE m.kind # "reply"
  <2>1. y = OnSignal(g, m) BY <1>2, <1>3
  <2>2. \A z : z.up = g.up /\ Sane(z) => UpdateDiscovery(z).up = g.up
    BY <1>1, UpdateDiscoverySo DEF SameAdapter
  <2>3. \A z : z.up = g.up /\ Sane(z) => Fetch(z).up = g.up BY <1>1, FetchSo DEF SameAdapter
  <2>4. m.kind # "name" => y.up = g.up
    <3>1. CASE m.kind = "adapter"
      <4>1. /\ ~g.up => y = g
            /\ g.up => \E z : Switched(g, z, m.on) /\ y = UpdateDiscovery(z)
        BY <1>1, <2>1, <3>1, OnSignalSo
      <4> QED BY <2>2, <4>1 DEF Switched
    <3>2. CASE m.kind = "unplugged"
      <4>1. /\ ~g.adapter => y = g
            /\ g.adapter => \E z : Emptied(g, z) /\ z.up = g.up /\ y = Fetch(z)
        BY <1>1, <2>1, <3>2, OnSignalSo
      <4> QED BY <2>3, <4>1 DEF Emptied
    <3>3. CASE m.kind = "powered"
      <4>1. /\ ~g.adapter => y = g
            /\ g.adapter => \E z : Switched(g, z, m.on) /\ y = UpdateDiscovery(z)
        BY <1>1, <2>1, <3>3, OnSignalSo
      <4> QED BY <2>2, <4>1 DEF Switched
    <3>4. CASE m.kind = "added"
      <4>1. /\ ~g.up => y = g
            /\ g.up /\ ~g.adapter => y = UpdateDiscovery(g)
            /\ g.up /\ g.adapter => \E z : ShownAs(g, z, m.dev, m.as) /\ y = UpdateDiscovery(z)
        BY <1>1, <2>1, <3>4, OnSignalSo
      <4> QED BY <1>1, <2>2, <4>1 DEF ShownAs, SameAdapter
    <3>5. CASE m.kind = "removed"
      <4>1. ShownAs(g, y, m.dev, Absent) BY <1>1, <2>1, <3>5, OnSignalSo
      <4> QED BY <4>1 DEF ShownAs, SameAdapter
    <3>6. CASE m.kind = "changed"
      <4>1. /\ ~g.devs[m.dev].there => y = g
            /\ g.devs[m.dev].there => ShownAs(g, y, m.dev, m.as)
        BY <1>1, <2>1, <3>6, OnSignalSo
      <4> QED BY <4>1 DEF ShownAs, SameAdapter
    <3> QED BY <1>1, <1>3, <3>1, <3>2, <3>3, <3>4, <3>5, <3>6, SignalTypes
  <2>5. m.kind = "name" /\ m.on => y.up = g.up BY <1>1, <2>1, <2>3, OnSignalSo
  <2>6. m.kind = "name" /\ ~m.on => ~y.up BY <1>1, <2>1, OnSignalSo
  <2> QED BY <1>1, <2>4, <2>5, <2>6 DEF Falls
<1>4. CASE m.kind = "reply"
  <2> DEFINE c == m.call
             e == m.err
             o == m.objects
  <2>1. c \in BtCalls /\ ~c.stale /\ o \in BtObjects BY <1>1, <1>4, ReplyTypes
  <2>2. y = IF \E p \in g.pending : AsSent(p) = c THEN Replied(g, c, e, o) ELSE g BY <1>2, <1>4
  <2>3. ~Falls(wire[1]) BY <1>1, <1>4 DEF Falls
  <2>4. Raises(wire[1]) <=> c.what = "objects" /\ e = "done" BY <1>1, <1>4 DEF Raises
  <2> HIDE DEF c, e, o
  <2>5. CASE ~\E p \in g.pending : AsSent(p) = c BY <2>2, <2>3, <2>5
  <2>6. CASE (\E p \in g.pending : AsSent(p) = c) /\ c \notin Asking(g)
    <3>1. Calm(g, Replied(g, c, e, o)) BY <1>1, <2>1, <2>6, RepliedCalm
    <3>2. Calm(g, y) BY <2>2, <2>6, <3>1
    <3> QED BY <2>3, <3>2 DEF Calm
  <2>7. CASE (\E p \in g.pending : AsSent(p) = c) /\ c \in Asking(g)
    <3>1. c.what = "objects" BY <2>7 DEF Asking
    <3>2. RepliedAs(g, Replied(g, c, e, o), c, e, o) BY <1>1, <2>7, RepliedSo
    <3>3. RepliedAs(g, y, c, e, o) BY <2>2, <2>7, <3>2
    <3>4. PICK mine, z : mine \in g.pending /\ Released(g, z, mine) /\ y = OnObjects(z, mine, e, o) BY <3>1, <3>3 DEF RepliedAs
    <3>5. Sane(z) /\ z.up = g.up BY <3>4 DEF Released, SameAdapter
    <3>6. CASE e = "done" BY <2>3, <2>4, <3>1, <3>6
    <3>7. CASE e # "done"
      <4>1. mine.stale => y = z BY <2>1, <3>4, <3>5, OnObjectsSo
      <4>2. ~mine.stale => ~y.up BY <2>1, <3>4, <3>5, <3>7, OnObjectsSo
      <4> QED BY <2>3, <3>5, <4>1, <4>2
    <3> QED BY <3>6, <3>7
  <2> QED BY <2>5, <2>6, <2>7
<1> QED BY <1>3, <1>4

LEMMA DownAs ==
  ASSUME NEW w, w = wire', NEW up, up = g'.up,
         \A l \in 1..Len(w) : Rises(w[l]) => DownAt(w, up, l), ~bz'.up => DownAt(w, up, Len(w) + 1)
  PROVE  BtDown'
BY DEF BtDown, DownAt, Falls, Raises, Rises

LEMMA ProcessDown ==
  ASSUME BtAssumption, BtSound, BtDown, Process
  PROVE  BtDown'
<1> DEFINE t == Tail(wire)
           y == g'
           N == Len(t)
<1>1. /\ wire # <<>> /\ wire \in Seq(BtMsgs) /\ t \in Seq(BtMsgs) /\ N = Len(wire) - 1 /\ Len(wire) \in Nat /\ Len(wire) >= 1
      /\ \A i \in 1..N : t[i] = wire[i + 1] /\ i + 1 \in 1..Len(wire)
  BY HeadSo DEF Process, BtSound
<1>2. wire' = t /\ bz' = bz BY DEF Process
<1>3. (y.up => g.up \/ Raises(wire[1])) /\ (Falls(wire[1]) => ~y.up) BY ProcessUp
<1> HIDE DEF y, N
<1> DEFINE up == y.up
<1>10. (up => g.up \/ Raises(wire[1])) /\ (Falls(wire[1]) => ~up) BY <1>3
<1> HIDE DEF up
<1>4. \A k \in 1..(N + 1) : DownAt(wire, g.up, k + 1) => DownAt(t, up, k)
  <2> TAKE k \in 1..(N + 1)
  <2>1. k \in 1..(Len(Tail(wire)) + 1) BY DEF N
  <2> QED BY <1>1, <1>10, <2>1, DownTail
<1> HIDE DEF t
<1>5. \A k \in 1..Len(t) : Rises(t[k]) => DownAt(t, up, k)
  <2> SUFFICES ASSUME NEW k \in 1..N, Rises(t[k]) PROVE DownAt(t, up, k) BY DEF N
  <2>1. k + 1 \in 1..Len(wire) /\ t[k] = wire[k + 1] /\ k \in 1..(N + 1) BY <1>1
  <2>2. DownAt(wire, g.up, k + 1) BY <2>1 DEF BtDown
  <2> QED BY <1>4, <2>1, <2>2
<1>6. ~bz'.up => DownAt(t, up, Len(t) + 1)
  <2> SUFFICES ASSUME ~bz'.up PROVE DownAt(t, up, N + 1) BY DEF N
  <2>1. DownAt(wire, g.up, Len(wire) + 1) BY <1>2 DEF BtDown
  <2>2. (N + 1) + 1 = Len(wire) + 1 /\ N + 1 \in 1..(N + 1) BY <1>1
  <2>3. PICK k : k = N + 1 OBVIOUS
  <2>4. k \in 1..(N + 1) /\ k + 1 = Len(wire) + 1 BY <2>2, <2>3
  <2>5. DownAt(t, up, k) BY <1>4, <2>1, <2>4
  <2> QED BY <2>3, <2>5
<1>7. t = wire' /\ up = g'.up BY <1>2 DEF up, y
<1> QED BY <1>5, <1>6, <1>7, DownAs

\* Nobody else's step changes it.
LEMMA SameDown ==
  ASSUME BtDown, wire' = wire, bz' = bz, g'.up = g.up
  PROVE  BtDown'
<1>1. \A l \in 1..Len(wire) : Rises(wire[l]) => DownAt(wire, g.up, l) BY DEF BtDown
<1>2. ~bz'.up => DownAt(wire, g.up, Len(wire) + 1) BY DEF BtDown
<1> QED BY <1>1, <1>2, DownAs

LEMMA EmptyDown ==
  ASSUME wire' = <<>>, ~g'.up
  PROVE  BtDown'
<1> DEFINE w == <<>>
           up == g'.up
<1>1. Len(w) = 0 /\ w = wire' /\ ~up OBVIOUS
<1> HIDE DEF w, up
<1>2. \A l \in 1..Len(w) : Rises(w[l]) => DownAt(w, up, l) BY <1>1
<1>3. PICK k : k = Len(w) + 1 OBVIOUS
<1>4. k = 1 BY <1>1, <1>3
<1>5. DownAt(w, up, k)
  <2>1. 0 \in 0..(k - 1) /\ \A i \in (0 + 1)..(k - 1) : ~Raises(w[i]) BY <1>4
  <2> QED BY <1>1, <2>1 DEF DownAt
<1>6. ~bz'.up => DownAt(w, up, Len(w) + 1) BY <1>3, <1>5
<1> QED BY <1>1, <1>2, <1>6, DownAs DEF up

\* Down at its head, a message that bluetoothd is up finds the mirror down.
LEMMA DownFirst ==
  ASSUME BtDown, wire # <<>>, wire \in Seq(BtMsgs), Rises(Head(wire))
  PROVE  ~g.up
<1>1. 1 \in 1..Len(wire) /\ Head(wire) = wire[1] BY HeadSo
<1>2. PICK k : k = 1 OBVIOUS
<1>3. DownAt(wire, g.up, k) BY <1>1, <1>2 DEF BtDown
<1>4. 0..(k - 1) = {0} BY <1>2
<1> QED BY <1>3, <1>4 DEF DownAt

BtAwaited == Held(g, {}, 0) /\ BtDown

LEMMA ProcessAwaited ==
  ASSUME BtAssumption, BtSound, BtAwaited, Process
  PROVE  Held(g', {}, 0)
<1> DEFINE m == Head(wire)
           y == g'
<1>1. /\ wire # <<>> /\ wire \in Seq(BtMsgs) /\ BtBase /\ Sane(g) /\ m \in BtMsgs /\ Held(g, {}, 0) /\ BtDown
  BY HeadSo DEF Process, BtSound, BtAwaited, BtBase, BtOk, Sane
<1>2. y = IF m.kind # "reply" THEN OnSignal(g, m)
          ELSE IF \E p \in g.pending : AsSent(p) = m.call THEN Replied(g, m.call, m.err, m.objects)
          ELSE g
  BY DEF Process
<1>3. Rises(m) => ~g.up BY <1>1, DownFirst
<1> SUFFICES Held(y, {}, 0) OBVIOUS
<1> HIDE DEF m, y
<1>4. CASE m.kind # "reply"
  <2>1. m.kind = "name" /\ m.on => ~g.up BY <1>3 DEF Rises
  <2> QED BY <1>1, <1>2, <1>4, <2>1, OnSignalHeld
<1>5. CASE m.kind = "reply"
  <2> DEFINE c == m.call
             e == m.err
             o == m.objects
  <2>1. c \in BtCalls /\ o \in BtObjects BY <1>1, <1>5, ReplyTypes
  <2>2. y = IF \E p \in g.pending : AsSent(p) = c THEN Replied(g, c, e, o) ELSE g BY <1>2, <1>5
  <2> HIDE DEF c, e, o
  <2>3. CASE \E p \in g.pending : AsSent(p) = c
    <3>1. Held(Replied(g, c, e, o), {}, 0) BY <1>1, <2>1, <2>3, RepliedHeld
    <3> QED BY <2>2, <2>3, <3>1
  <2>4. CASE ~\E p \in g.pending : AsSent(p) = c BY <1>1, <2>2, <2>4
  <2> QED BY <2>3, <2>4
<1> QED BY <1>4, <1>5

LEMMA ShutHeld ==
  ASSUME NEW x, x \in BtMirrors, Shut(x)
  PROVE  Held(x, {}, 0)
<1>1. Weighty(x) = {} BY DEF Shut, Weighty
<1>2. x.powering \in BOOLEAN BY MirrorTypes
<1>3. \A d \in BtDevices : x.devs[d].op = "none" /\ ~x.devs[d].there BY DEF Shut, Bare
<1>4. Rooted(x) BY <1>3 DEF Rooted, Shut
<1> QED BY <1>1, <1>2, <1>3, <1>4, NothingHeld DEF Shut

LEMMA BtStepAwaited ==
  ASSUME BtAssumption, BtSound, BtComing, BtShut, BtAwaited, [BtNext]_btVars
  PROVE  BtAwaited'
<1>0. BtBase /\ Sane(g) /\ g \in BtMirrors /\ Held(g, {}, 0) /\ BtDown BY DEF BtBase, BtSound, BtAwaited, BtOk, Sane
<1>00. ~g.bus => wire = <<>> /\ Shut(g) /\ bz.slow = {} /\ ~bz.search BY ShutSo
<1> DEFINE y == g'
<1>9. Held(y, {}, 0) /\ BtDown' => BtAwaited' BY DEF BtAwaited, Held, OpsHeld, PowerHeld, Counted, Rooted, Weighty, Pairings, Powers
<1>1. CASE OpenBus
  <2>1. UNCHANGED <<bz, wire>> /\ ~g.bus BY <1>1, OpenBusSo
  <2>2. PICK z : /\ Sane(z) /\ SameCalls(g, z) /\ SameOps(g, z)
                 /\ z.bus /\ z.up = g.up /\ z.adapter = g.adapter /\ z.powered = g.powered /\ z.scan = g.scan
                 /\ y = Fetch(z)
    BY <1>1, OpenBusSo
  <2>3. Shut(g) BY <1>00, <2>1
  <2>4. Kin(g, z) BY <2>2 DEF Kin, SameOps, SameCalls, Weighty
  <2>5. Held(z, {}, 0) BY <1>0, <2>4, KinHeld
  <2>6. ~z.adapter BY <2>2, <2>3 DEF Shut
  <2> HIDE DEF y
  <2>7. Held(y, {}, 0) /\ SameAdapter(z, y) BY <1>0, <2>2, <2>5, <2>6, FetchHeld, FetchSo
  <2>8. y.up = g.up BY <2>2, <2>7 DEF SameAdapter
  <2>9. BtDown' BY <1>0, <2>1, <2>8, SameDown DEF y
  <2> QED BY <1>9, <2>7, <2>9
<1>2. CASE Process BY <1>0, <1>2, <1>9, ProcessAwaited, ProcessDown
<1>3. CASE AutoDue
  <2>1. PICK z : /\ Sane(z) /\ SameCalls(g, z) /\ SameOps(g, z) /\ SameAdapter(g, z) /\ y = AutoconnectNext(z)
    BY <1>3, AutoDueSo
  <2>2. UNCHANGED <<bz, wire>> BY <1>3, AutoDueSo
  <2>3. Kin(g, z) BY <2>1, KinSame DEF SameCalls
  <2>4. Held(z, {}, 0) BY <1>0, <2>3, KinHeld
  <2>5. Calm(z, y) BY <1>0, <2>1, AutoconnectNextCalm
  <2> HIDE DEF y
  <2>6. Held(y, {}, 0) BY <1>0, <2>1, <2>4, AutoconnectNextHeld
  <2>7. y.up = g.up BY <2>1, <2>5 DEF Calm, SameAdapter
  <2>8. BtDown' BY <1>0, <2>2, <2>7, SameDown DEF y
  <2> QED BY <1>9, <2>6, <2>8
<1>4. CASE Timeout
  <2>1. PICK p \in g.pending : /\ p \in BtCalls /\ p.what \in Reaches /\ AsSent(p) \in BtCalls
                               /\ AsSent(p).what = p.what /\ Over(g, wire, AsSent(p))
                               /\ y = Replied(g, AsSent(p), "failed", Empty)
    BY <1>4, TimeoutSo
  <2> DEFINE c == AsSent(p)
             e == "failed"
             o == Empty
  <2>2. c \in BtCalls /\ c.what \in Reaches /\ (\E q \in g.pending : AsSent(q) = c) /\ o \in BtObjects BY <2>1, EmptyOk
  <2>10. y = Replied(g, c, e, o) BY <2>1
  <2> HIDE DEF c, e, o
  <2>3. c \notin Asking(g) BY <2>2 DEF Asking, Reaches
  <2>4. Calm(g, Replied(g, c, e, o)) /\ Held(Replied(g, c, e, o), {}, 0) BY <1>0, <2>2, <2>3, RepliedCalm, RepliedHeld
  <2>5. Calm(g, y) /\ Held(y, {}, 0) BY <2>4, <2>10
  <2>6. wire' = wire /\ bz' = bz BY <1>4, TimeoutSo
  <2>7. y.up = g.up BY <2>5 DEF Calm
  <2>8. BtDown' BY <1>0, <2>6, <2>7, SameDown
  <2> QED BY <1>9, <2>5, <2>8
<1>5. CASE UserNext
  <2>1. UserDoes /\ UNCHANGED <<bz, wire, crossed>> BY <1>5, UserSo
  <2>2. Calm(g, y) /\ Held(y, {}, 0) BY <1>0, <2>1, UserCalm, UserHeld
  <2>3. y.up = g.up BY <2>2 DEF Calm
  <2>4. BtDown' BY <1>0, <2>1, <2>3, SameDown
  <2> QED BY <1>9, <2>2, <2>4
<1>6. CASE BluezNext
  <2>1. PICK b, s, k : BluezDoes(b, s, k) BY <1>6, BluezSo
  <2>2. Moved(g, y, k) BY <2>1 DEF BluezDoes, TellsWell
  <2> HIDE DEF y
  <2>3. y.pending = g.pending /\ SameAdapter(g, y) /\ SameOps(g, y) BY <1>0, <2>2, MovedSo
  <2>4. Kin(g, y) BY <2>3, KinSame
  <2>5. Held(y, {}, 0) BY <1>0, <2>4, KinHeld
  <2>6. BtDown'
    <3>1. CASE g.bus BY <1>0, <1>6, <3>1, BluezBtDown
    <3>2. CASE ~g.bus
      <4>1. wire' = <<>> /\ Shut(g') BY <1>6, <3>2, BluezShut
      <4> QED BY <4>1, EmptyDown DEF Shut
    <3> QED BY <3>1, <3>2
  <2> QED BY <1>9, <2>5, <2>6
<1>7. CASE LoseBus
  <2>1. y = [NoBus EXCEPT !.scan = g.scan] /\ g.scan \in BOOLEAN /\ wire' = <<>> BY <1>7, LoseBusSo
  <2> HIDE DEF y
  <2>2. Shut(y) /\ y \in BtMirrors BY <2>1, NoBusShut, NoBusSo
  <2>3. Held(y, {}, 0) BY <2>2, ShutHeld
  <2>4. BtDown' BY <2>1, <2>2, EmptyDown DEF Shut, y
  <2> QED BY <1>9, <2>3, <2>4
<1>8. CASE UNCHANGED btVars
  <2>1. g' = g /\ wire' = wire /\ bz' = bz BY <1>8 DEF btVars
  <2>2. Held(y, {}, 0) BY <1>0, <2>1
  <2>3. BtDown' BY <1>0, <2>1, SameDown
  <2> QED BY <1>9, <2>2, <2>3
<1> QED BY <1>1, <1>2, <1>3, <1>4, <1>5, <1>6, <1>7, <1>8, BtNextCases

LEMMA BtInitAwaited == BtInit => BtAwaited
<1> SUFFICES ASSUME BtInit PROVE BtAwaited OBVIOUS
<1>1. PICK on \in BOOLEAN : g = [NoBus EXCEPT !.scan = on] BY DEF BtInit
<1>2. Shut(g) /\ g \in BtMirrors BY <1>1, NoBusShut, NoBusSo
<1>3. wire = <<>> BY DEF BtInit
<1>4. Held(g, {}, 0) BY <1>2, ShutHeld
<1> DEFINE w == <<>>
<1>5. w \in Seq(BtMsgs) /\ Len(w) = 0 /\ w = wire BY <1>3, NoneSo
<1> HIDE DEF w
<1>6. bz.up BY DEF BtInit
<1>7. BtDown BY <1>5, <1>6 DEF BtDown
<1> QED BY <1>4, <1>7 DEF BtAwaited

\* What is held is what is awaited.
LEMMA BtAwaitedHolds ==
  ASSUME BtSound, BtAwaited
  PROVE  CallsAwaited
<1>1. Sane(g) /\ OpsHeld(g, {}) /\ PowerHeld(g) /\ Counted(g, 0) BY DEF BtSound, BtAwaited, BtOk, Sane, Held
<1>2. Awaited("power") = Powers(g) BY DEF Awaited, Powers, Weighty, Weighs
<1>3. Awaited("pair") \union {c \in Awaited("connect") : c.flag = "pair"} = Pairings(g)
  BY DEF Awaited, Pairings, Weighty, Weighs, IsPairing, Reaches
<1>4. \A d \in BtDevices : g.devs[d].op # "none" =>
        \E c \in g.pending : ~c.stale /\ c.dev = d /\ c.what \in {"pair", "connect", "disconnect"}
  BY <1>1 DEF OpsHeld, Weighty, Weighs, Reaches
<1>5. g.powering = (Awaited("power") # {}) BY <1>1, <1>2 DEF PowerHeld
<1>6. g.pairs = Cardinality(Pairings(g))
  <2>1. Cardinality(Pairings(g)) \in Nat BY <1>1, PairingsSo
  <2>2. PICK n : n = 0 OBVIOUS
  <2>3. Counted(g, n) BY <1>1, <2>2
  <2> QED BY <2>1, <2>2, <2>3 DEF Counted
<1> QED BY <1>3, <1>4, <1>5, <1>6 DEF CallsAwaited

(***************************************************************************)
(* The search. What is asked of bluetoothd, in the order it was, leaves it *)
(* searching exactly while the mirror does, unless the wire still says     *)
(* that a search is over; Followed says that then a search asked for is    *)
(* answered later.                                                         *)
(***************************************************************************)

\* No search runs, or is to be stopped, once the first n calls of q are taken.
SearchOff(s, q, n) ==
  \E j \in 0..n : /\ IF j = 0 THEN ~s ELSE q[j].what = "stop"
                  /\ \A i \in (j + 1)..n : q[i].what # "start"
\* One runs, or is asked for, or the mirror is told that it does not.
FailedStart(m)  == m.kind = "reply" /\ m.call.what = "start" /\ m.err = "failed"
SearchGone(m)   == m.kind \in {"name", "unplugged", "powered"} /\ ~m.on
Ending(x, w)    == \E k \in 1..Len(w) : SearchGone(w[k]) \/ (FailedStart(w[k]) /\ w[k].call \in x.pending)
Starts(x, s, w) ==
  \E j \in 0..Len(x.asked) :
    /\ IF j = 0 THEN s \/ Ending(x, w) ELSE x.asked[j].what = "start" /\ x.asked[j] \in x.pending
    /\ \A i \in (j + 1)..Len(x.asked) : x.asked[i].what # "stop"
\* No search is asked for while one runs, nor is everything.
Clear(x, s) == \A k \in 1..Len(x.asked) : x.asked[k].what \in {"start", "objects"} => SearchOff(s, x.asked, k - 1)
Seeks(x, s, w) == /\ Clear(x, s)
                  /\ x.active => Starts(x, s, w)
                  /\ ~x.active => SearchOff(s, x.asked, Len(x.asked))
\* The search is held only while it is wanted; unless `off', bluetoothd is at one, or will be, just then.
Lean(x) == x.active => Wanted(x)
Seeking(x, s, w, off) == off \/ Seeks(x, s, w)
Halts(x, s, off)      == off \/ SearchOff(s, x.asked, Len(x.asked))

LEMMA OffAppend ==
  ASSUME NEW s, NEW q, NEW r, Len(q) \in Nat, Len(r) = Len(q) + 1, \A i \in 1..Len(q) : r[i] = q[i]
  PROVE  /\ \A n \in 0..Len(q) : SearchOff(s, q, n) => SearchOff(s, r, n)
         /\ SearchOff(s, q, Len(q)) /\ r[Len(r)].what # "start" => SearchOff(s, r, Len(r))
         /\ r[Len(r)].what = "stop" => SearchOff(s, r, Len(r))
<1>1. \A n \in 0..Len(q) : SearchOff(s, q, n) => SearchOff(s, r, n)
  <2> SUFFICES ASSUME NEW n \in 0..Len(q), SearchOff(s, q, n) PROVE SearchOff(s, r, n) OBVIOUS
  <2>1. PICK j \in 0..n : /\ IF j = 0 THEN ~s ELSE q[j].what = "stop"
                          /\ \A i \in (j + 1)..n : q[i].what # "start"
    BY DEF SearchOff
  <2>2. j # 0 => r[j] = q[j] OBVIOUS
  <2>3. \A i \in (j + 1)..n : r[i] = q[i] OBVIOUS
  <2> QED BY <2>1, <2>2, <2>3 DEF SearchOff
<1>2. ASSUME SearchOff(s, q, Len(q)), r[Len(r)].what # "start" PROVE SearchOff(s, r, Len(r))
  <2>1. PICK j \in 0..Len(q) : /\ IF j = 0 THEN ~s ELSE q[j].what = "stop"
                               /\ \A i \in (j + 1)..Len(q) : q[i].what # "start"
    BY <1>2 DEF SearchOff
  <2>2. j # 0 => r[j] = q[j] OBVIOUS
  <2>3. \A i \in (j + 1)..Len(r) : r[i].what # "start"
    <3> TAKE i \in (j + 1)..Len(r)
    <3>1. CASE i = Len(r) BY <1>2, <3>1
    <3>2. CASE i # Len(r)
      <4>1. i \in (j + 1)..Len(q) /\ i \in 1..Len(q) BY <3>2
      <4> QED BY <2>1, <4>1
    <3> QED BY <3>1, <3>2
  <2>4. j \in 0..Len(r) OBVIOUS
  <2> QED BY <2>1, <2>2, <2>3, <2>4 DEF SearchOff
<1>3. ASSUME r[Len(r)].what = "stop" PROVE SearchOff(s, r, Len(r))
  <2>1. Len(r) \in 0..Len(r) /\ Len(r) # 0 OBVIOUS
  <2>2. \A i \in (Len(r) + 1)..Len(r) : r[i].what # "start" OBVIOUS
  <2> QED BY <1>3, <2>1, <2>2 DEF SearchOff
<1> QED BY <1>1, <1>2, <1>3

\* Nothing is asked, ...
LEMMA SameSeeking ==
  ASSUME NEW x, NEW y, SameCalls(x, y), y.active = x.active, NEW s, NEW w, NEW off, Seeking(x, s, w, off)
  PROVE  Seeking(y, s, w, off)
<1>1. CASE off BY <1>1 DEF Seeking
<1>2. CASE Seeks(x, s, w)
  <2>1. Seeks(y, s, w) BY <1>2 DEF Seeks, Clear, Starts, Ending, SameCalls
  <2> QED BY <2>1 DEF Seeking
<1> QED BY <1>1, <1>2 DEF Seeking

\* ... the search is given up, ...
LEMMA HaltSeeking ==
  ASSUME NEW x, NEW y, y.asked = x.asked, ~y.active, NEW s, NEW w, NEW v, NEW off, Seeking(x, s, w, off), Halts(x, s, off)
  PROVE  Seeking(y, s, v, off)
<1>1. CASE off BY <1>1 DEF Seeking
<1>2. CASE Seeks(x, s, w) /\ SearchOff(s, x.asked, Len(x.asked))
  <2>1. Seeks(y, s, v) BY <1>2 DEF Seeks, Clear
  <2> QED BY <2>1 DEF Seeking
<1> QED BY <1>1, <1>2 DEF Seeking, Halts

\* ... or a call is asked that is not about the search, ...
LEMMA AddedSeeking ==
  ASSUME NEW x \in BtMirrors, NEW y, NEW c, Added(x, y, c), c.what \notin {"start", "stop", "objects"},
         y.active = x.active, NEW s, NEW w, NEW off, Seeking(x, s, w, off)
  PROVE  Seeking(y, s, w, off)
<1>1. CASE off BY <1>1 DEF Seeking
<1>2. CASE Seeks(x, s, w)
  <2> DEFINE q == x.asked
             r == y.asked
  <2>1. /\ Len(q) \in Nat /\ Len(r) = Len(q) + 1 /\ r[Len(q) + 1] = c /\ \A i \in 1..Len(q) : r[i] = q[i]
    BY AddedLen
  <2>2. x.pending \subseteq y.pending BY DEF Added
  <2>3. r[Len(r)] = c BY <2>1
  <2>4. /\ \A n \in 0..Len(q) : SearchOff(s, q, n) => SearchOff(s, r, n)
        /\ SearchOff(s, q, Len(q)) /\ r[Len(r)].what # "start" => SearchOff(s, r, Len(r))
    <3> HIDE DEF q, r
    <3> QED BY <2>1, OffAppend
  <2>5. Clear(y, s)
    <3> SUFFICES ASSUME NEW k \in 1..Len(r), r[k].what \in {"start", "objects"} PROVE SearchOff(s, r, k - 1)
      BY DEF Clear
    <3>1. k # Len(r) BY <2>3
    <3>2. k \in 1..Len(q) /\ r[k] = q[k] /\ k - 1 \in 0..Len(q) BY <2>1, <3>1
    <3>3. SearchOff(s, q, k - 1) BY <1>2, <3>2 DEF Seeks, Clear
    <3> QED BY <2>4, <3>2, <3>3
  <2>6. ASSUME y.active PROVE Starts(y, s, w)
    <3>1. PICK j \in 0..Len(q) :
            /\ IF j = 0 THEN s \/ Ending(x, w) ELSE q[j].what = "start" /\ q[j] \in x.pending
            /\ \A i \in (j + 1)..Len(q) : q[i].what # "stop"
      BY <1>2, <2>6 DEF Seeks, Starts
    <3>2. Ending(x, w) => Ending(y, w) BY <2>2 DEF Ending
    <3>3. j # 0 => r[j] = q[j] BY <2>1
    <3>4. \A i \in (j + 1)..Len(r) : r[i].what # "stop"
      <4> TAKE i \in (j + 1)..Len(r)
      <4>1. CASE i = Len(r) BY <2>3, <4>1
      <4>2. CASE i # Len(r)
        <5>1. i \in (j + 1)..Len(q) /\ i \in 1..Len(q) BY <2>1, <4>2
        <5> QED BY <2>1, <3>1, <5>1
      <4> QED BY <4>1, <4>2
    <3>5. j \in 0..Len(r) BY <2>1
    <3> QED BY <2>2, <3>1, <3>2, <3>3, <3>4, <3>5 DEF Starts
  <2>7. ASSUME ~y.active PROVE SearchOff(s, r, Len(r))
    BY <1>2, <2>3, <2>4, <2>7 DEF Seeks
  <2> QED BY <2>5, <2>6, <2>7 DEF Seeks, Seeking
<1> QED BY <1>1, <1>2 DEF Seeking

\* ... or the search is switched, ...
LEMMA TurnSeeking ==
  ASSUME NEW x \in BtMirrors, NEW y, y.active \in BOOLEAN, NEW c, Added(x, y, c),
         y.active # x.active, c.what = IF y.active THEN "start" ELSE "stop",
         NEW s, NEW w, NEW off, Seeking(x, s, w, off)
  PROVE  Seeking(y, s, w, off)
<1>1. CASE off BY <1>1 DEF Seeking
<1>2. CASE Seeks(x, s, w)
  <2> DEFINE q == x.asked
             r == y.asked
  <2>0. x.active \in BOOLEAN BY MirrorTypes
  <2>1. /\ Len(q) \in Nat /\ Len(r) = Len(q) + 1 /\ r[Len(q) + 1] = c /\ \A i \in 1..Len(q) : r[i] = q[i]
    BY AddedLen
  <2>2. c \in y.pending BY DEF Added
  <2>3. r[Len(r)] = c BY <2>1
  <2>4. /\ \A n \in 0..Len(q) : SearchOff(s, q, n) => SearchOff(s, r, n)
        /\ r[Len(r)].what = "stop" => SearchOff(s, r, Len(r))
    <3> HIDE DEF q, r
    <3> QED BY <2>1, OffAppend
  <2>5. Clear(y, s)
    <3> SUFFICES ASSUME NEW k \in 1..Len(r), r[k].what \in {"start", "objects"} PROVE SearchOff(s, r, k - 1)
      BY DEF Clear
    <3>1. CASE k # Len(r)
      <4>2. k \in 1..Len(q) /\ r[k] = q[k] /\ k - 1 \in 0..Len(q) BY <2>1, <3>1
      <4>3. SearchOff(s, q, k - 1) BY <1>2, <4>2 DEF Seeks, Clear
      <4> QED BY <2>4, <4>2, <4>3
    <3>2. CASE k = Len(r)
      <4>1. y.active /\ ~x.active BY <2>0, <2>3, <3>2
      <4>2. SearchOff(s, q, Len(q)) BY <1>2, <4>1 DEF Seeks
      <4>3. Len(q) = k - 1 /\ Len(q) \in 0..Len(q) BY <2>1, <3>2
      <4>4. SearchOff(s, r, Len(q)) BY <2>4, <4>2, <4>3
      <4> QED BY <4>3, <4>4
    <3> QED BY <3>1, <3>2
  <2>6. ASSUME y.active PROVE Starts(y, s, w)
    <3>1. Len(r) \in 0..Len(r) /\ Len(r) # 0 BY <2>1
    <3>2. \A i \in (Len(r) + 1)..Len(r) : r[i].what # "stop" BY <2>1
    <3> QED BY <2>2, <2>3, <2>6, <3>1, <3>2 DEF Starts
  <2>7. ASSUME ~y.active PROVE SearchOff(s, r, Len(r))
    BY <2>3, <2>4, <2>7
  <2> QED BY <2>5, <2>6, <2>7 DEF Seeks, Seeking
<1> QED BY <1>1, <1>2 DEF Seeking

\* ... or everything is asked for.
LEMMA AskedSeeking ==
  ASSUME NEW x, NEW z, z \in BtMirrors, z.asked = x.asked, NEW y, ~x.active, ~y.active,
         NEW c, Added(z, y, c), c.what = "objects",
         NEW s, NEW w, NEW v, NEW off, Seeking(x, s, w, off)
  PROVE  Seeking(y, s, v, off)
<1>1. CASE off BY <1>1 DEF Seeking
<1>2. CASE Seeks(x, s, w)
  <2> DEFINE q == x.asked
             r == y.asked
  <2>1. /\ Len(q) \in Nat /\ Len(r) = Len(q) + 1 /\ r[Len(q) + 1] = c /\ \A i \in 1..Len(q) : r[i] = q[i]
    BY AddedLen
  <2>3. r[Len(r)] = c BY <2>1
  <2>4. /\ \A n \in 0..Len(q) : SearchOff(s, q, n) => SearchOff(s, r, n)
        /\ SearchOff(s, q, Len(q)) /\ r[Len(r)].what # "start" => SearchOff(s, r, Len(r))
    <3> HIDE DEF q, r
    <3> QED BY <2>1, OffAppend
  <2>6. SearchOff(s, q, Len(q)) BY <1>2 DEF Seeks
  <2>5. Clear(y, s)
    <3> SUFFICES ASSUME NEW k \in 1..Len(r), r[k].what \in {"start", "objects"} PROVE SearchOff(s, r, k - 1)
      BY DEF Clear
    <3>1. CASE k # Len(r)
      <4>2. k \in 1..Len(q) /\ r[k] = q[k] /\ k - 1 \in 0..Len(q) BY <2>1, <3>1
      <4>3. SearchOff(s, q, k - 1) BY <1>2, <4>2 DEF Seeks, Clear
      <4> QED BY <2>4, <4>2, <4>3
    <3>2. CASE k = Len(r)
      <4>3. Len(q) = k - 1 /\ Len(q) \in 0..Len(q) BY <2>1, <3>2
      <4>4. SearchOff(s, r, Len(q)) BY <2>4, <2>6, <4>3
      <4> QED BY <4>3, <4>4
    <3> QED BY <3>1, <3>2
  <2>7. SearchOff(s, r, Len(r)) BY <2>3, <2>4, <2>6
  <2> QED BY <2>5, <2>7 DEF Seeks, Seeking
<1> QED BY <1>1, <1>2 DEF Seeking

Aims(x, s, w, off) == Lean(x) /\ Seeking(x, s, w, off)

LEMMA SameLean ==
  ASSUME NEW x, NEW y, SameAdapter(x, y), y.pairs = x.pairs, y.active = x.active, Lean(x)
  PROVE  Lean(y)
BY DEF SameAdapter, Lean, Wanted

LEMMA UpdateDiscoveryAims ==
  ASSUME BtBase, NEW x, Sane(x), NEW s, NEW w, NEW off, Seeking(x, s, w, off)
  PROVE  Aims(UpdateDiscovery(x), s, w, off)
<1> DEFINE y == UpdateDiscovery(x)
<1>1. y = UpdateDiscovery(x) OBVIOUS
<1> SUFFICES Aims(y, s, w, off) OBVIOUS
<1> HIDE DEF y
<1>2. /\ Sane(y) /\ SameAdapter(x, y) /\ SameOps(x, y)
      /\ y.active = Wanted(x)
      /\ y.active = x.active => SameCalls(x, y)
      /\ y.active # x.active => \E c : Added(x, y, c) /\ c.what = IF y.active THEN "start" ELSE "stop"
  BY <1>1, UpdateDiscoverySo
<1>3. Lean(y) BY <1>2 DEF Lean, Wanted, SameAdapter, SameOps
<1>4. x \in BtMirrors /\ y.active \in BOOLEAN BY <1>2, MirrorTypes DEF Sane
<1>5. CASE y.active = x.active BY <1>2, <1>3, <1>5, SameSeeking DEF Aims
<1>6. CASE y.active # x.active BY <1>2, <1>3, <1>4, <1>6, TurnSeeking DEF Aims
<1> QED BY <1>5, <1>6

LEMMA SentAims ==
  ASSUME NEW x, Sane(x), NEW y, NEW what, NEW d, NEW flag, SentBy(x, y, what, d, flag),
         what \notin {"start", "stop", "objects"}, NEW s, NEW w, NEW off, Aims(x, s, w, off)
  PROVE  Aims(y, s, w, off) /\ Sane(y)
<1>1. Sane(y) BY SentSane
<1>2. PICK c : Added(x, y, c) /\ c.what = what BY DEF SentBy
<1>3. x \in BtMirrors /\ y.active = x.active BY DEF SentBy, Sane
<1>4. Seeking(y, s, w, off) BY <1>2, <1>3, AddedSeeking DEF Aims
<1>5. Lean(y) BY <1>3, SameLean DEF SentBy, SameOps, Aims
<1> QED BY <1>1, <1>4, <1>5 DEF Aims

LEMMA SetAims ==
  ASSUME NEW x, Sane(x), NEW y, NEW d, NEW op, SetBy(x, y, d, op), NEW s, NEW w, NEW off, Aims(x, s, w, off)
  PROVE  Aims(y, s, w, off) /\ Sane(y)
BY SameSeeking, SameLean DEF SetBy, Aims

LEMMA SendConnectAims ==
  ASSUME BtBase, NEW x, Sane(x), NEW d, d \in BtDevices, NEW flag, flag \in Flags,
         NEW s, NEW w, NEW off, Aims(x, s, w, off)
  PROVE  Aims(SendConnect(x, d, flag), s, w, off) /\ Sane(SendConnect(x, d, flag))
<1> DEFINE y == SendConnect(x, d, flag)
<1> HIDE DEF y
<1>1. SendConnect(x, d, flag) = y BY DEF y
<1> SUFFICES Aims(y, s, w, off) /\ Sane(y) BY <1>1
<1>2. /\ Sane(y) /\ SameAdapter(x, y) /\ y.due = x.due /\ y.active = x.active
      /\ y.powering = x.powering /\ y.pairs = x.pairs
      /\ \A e \in BtDevices : y.devs[e] = IF e = d /\ x.devs[d].there THEN [x.devs[d] EXCEPT !.op = "connecting"]
                                        ELSE x.devs[e]
      /\ \E c : Added(x, y, c) /\ c.what = "connect" /\ c.dev = d /\ c.flag = flag
  BY SendConnectSo DEF y, Flags
<1>3. x \in BtMirrors BY DEF Sane
<1>4. Seeking(y, s, w, off) BY <1>2, <1>3, AddedSeeking DEF Aims
<1> QED BY <1>2, <1>4, SameLean DEF Aims

LEMMA AutoconnectNextAims ==
  ASSUME BtBase, NEW x, Sane(x), NEW y, y = AutoconnectNext(x), NEW s, NEW w, NEW off, Aims(x, s, w, off)
  PROVE  Aims(y, s, w, off)
<1>1. CASE y = x BY <1>1
<1>2. ASSUME NEW d \in BtDevices,
             /\ Sane(y) /\ SameAdapter(x, y) /\ y.due = x.due /\ y.active = x.active
             /\ y.powering = x.powering /\ y.pairs = x.pairs /\ x.devs[d].there /\ x.up /\ x.adapter
             /\ \A e \in BtDevices : y.devs[e] = IF e = d THEN [x.devs[d] EXCEPT !.tried = TRUE, !.op = "connecting"]
                                               ELSE x.devs[e],
             NEW c, Added(x, y, c) /\ c.what = "connect" /\ c.dev = d /\ c.flag = "auto"
      PROVE  Aims(y, s, w, off)
  <2>1. x \in BtMirrors BY DEF Sane
  <2>2. c.what \notin {"start", "stop", "objects"} BY <1>2
  <2>3. Seeking(y, s, w, off) BY <1>2, <2>1, <2>2, AddedSeeking DEF Aims
  <2> QED BY <1>2, <2>3, SameLean DEF Aims
<1> QED BY <1>1, <1>2, AutoconnectNextSo

LEMMA FinishPairAims ==
  ASSUME BtBase, NEW x, Sane(x), NEW y, y = FinishPair(x), NEW s, NEW w, NEW off, Aims(x, s, w, off)
  PROVE  Aims(y, s, w, off)
<1>1. PICK z : Sane(z) /\ SameCalls(x, z) /\ z.active = x.active /\ y = UpdateDiscovery(z) BY FinishPairSo
<1>2. Seeking(z, s, w, off) BY <1>1, SameSeeking DEF Aims
<1> QED BY <1>1, <1>2, UpdateDiscoveryAims

LEMMA OnConnectAims ==
  ASSUME BtBase, NEW x, Sane(x), NEW c \in BtCalls, NEW err, NEW r, OnConnectAs(x, r, c, err),
         NEW s, NEW w, NEW off, Aims(x, s, w, off)
  PROVE  Aims(r, s, w, off)
<1>1. CASE r = x BY <1>1
<1>2. CASE ~c.stale
  <2>1. PICK y, z : /\ SetBy(x, y, c.dev, "none")
                    /\ (z = y \/ SentBy(y, z, "trust", c.dev, "plain"))
                    /\ r \in {y, AutoconnectNext(y), FinishPair(z), z}
    BY <1>2 DEF OnConnectAs
  <2>2. Aims(y, s, w, off) /\ Sane(y) BY <2>1, SetAims
  <2>3. Aims(z, s, w, off) /\ Sane(z)
    <3> DEFINE what == "trust"
    <3>1. what \notin {"start", "stop", "objects"} /\ (z = y \/ SentBy(y, z, what, c.dev, "plain")) BY <2>1
    <3> HIDE DEF what
    <3> QED BY <2>2, <3>1, SentAims
  <2>4. CASE r = AutoconnectNext(y) BY <2>2, <2>4, AutoconnectNextAims
  <2>5. CASE r = FinishPair(z) BY <2>3, <2>5, FinishPairAims
  <2> QED BY <2>1, <2>2, <2>3, <2>4, <2>5
<1> QED BY <1>1, <1>2 DEF OnConnectAs

LEMMA OnPairAims ==
  ASSUME BtBase, NEW x, Sane(x), NEW c \in BtCalls, NEW err, NEW r, OnPairAs(x, r, c, err),
         NEW s, NEW w, NEW off, Aims(x, s, w, off)
  PROVE  Aims(r, s, w, off)
<1>1. CASE r = x BY <1>1
<1>2. ASSUME NEW y, SetBy(x, y, c.dev, "none"), r = FinishPair(y) PROVE Aims(r, s, w, off)
  <2>1. Aims(y, s, w, off) /\ Sane(y) BY <1>2, SetAims
  <2> QED BY <1>2, <2>1, FinishPairAims
<1>3. ASSUME NEW y, SentBy(x, y, "trust", c.dev, "plain"), r = SendConnect(y, c.dev, "pair") PROVE Aims(r, s, w, off)
  <2> DEFINE what == "trust"
             flag == "pair"
             d == c.dev
  <2>1. what \notin {"start", "stop", "objects"} /\ SentBy(x, y, what, d, "plain") /\ r = SendConnect(y, d, flag) BY <1>3
  <2>2. flag \in Flags /\ d \in BtDevices BY CallTypes DEF Flags
  <2> HIDE DEF what, flag, d
  <2>3. Aims(y, s, w, off) /\ Sane(y) BY <2>1, SentAims
  <2>4. Aims(SendConnect(y, d, flag), s, w, off) BY <2>2, <2>3, SendConnectAims
  <2> QED BY <2>1, <2>4
<1> QED BY <1>1, <1>2, <1>3 DEF OnPairAs

\* What a step leaves to come.
LEMMA ShiftSeeking ==
  ASSUME NEW x, NEW y, y.asked = x.asked, y.active = x.active, NEW s, NEW w, NEW v, NEW off, Seeking(x, s, w, off),
         Ending(x, w) => Ending(y, v), \A i \in 1..Len(x.asked) : x.asked[i] \in x.pending => x.asked[i] \in y.pending,
         Len(x.asked) \in Nat
  PROVE  Seeking(y, s, v, off)
<1>1. CASE off BY <1>1 DEF Seeking
<1>2. CASE Seeks(x, s, w)
  <2>1. Clear(y, s) BY <1>2 DEF Seeks, Clear
  <2>2. ~y.active => SearchOff(s, y.asked, Len(y.asked)) BY <1>2 DEF Seeks
  <2>3. ASSUME y.active PROVE Starts(y, s, v)
    <3>1. PICK j \in 0..Len(x.asked) :
            /\ IF j = 0 THEN s \/ Ending(x, w) ELSE x.asked[j].what = "start" /\ x.asked[j] \in x.pending
            /\ \A i \in (j + 1)..Len(x.asked) : x.asked[i].what # "stop"
      BY <1>2, <2>3 DEF Seeks, Starts
    <3>2. j # 0 => j \in 1..Len(x.asked) OBVIOUS
    <3> QED BY <3>1, <3>2 DEF Starts
  <2> QED BY <2>1, <2>2, <2>3 DEF Seeks, Seeking
<1> QED BY <1>1, <1>2 DEF Seeking

LEMMA FetchAims ==
  ASSUME BtBase, NEW x, Sane(x), ~x.active, NEW y, y = Fetch(x), NEW s, NEW w, NEW v, NEW off, Seeking(x, s, w, off)
  PROVE  Aims(y, s, v, off)
<1>1. /\ Sane(y) /\ SameAdapter(x, y) /\ SameOps(x, y) /\ y.active = x.active
      /\ \E z, c : Sane(z) /\ Aged(x, z) /\ Added(z, y, c) /\ c.what = "objects"
  BY FetchSo
<1>2. PICK z, c : Sane(z) /\ Aged(x, z) /\ Added(z, y, c) /\ c.what = "objects" BY <1>1
<1>3. z \in BtMirrors /\ z.asked = x.asked /\ ~y.active BY <1>1, <1>2 DEF Sane, Aged
<1>4. Seeking(y, s, v, off) BY <1>2, <1>3, AskedSeeking
<1> QED BY <1>3, <1>4 DEF Aims, Lean

LEMMA HaltAims ==
  ASSUME NEW x, NEW y, y.asked = x.asked, ~y.active, NEW s, NEW w, NEW v, NEW off, Seeking(x, s, w, off), Halts(x, s, off)
  PROVE  Aims(y, s, v, off)
BY HaltSeeking DEF Aims, Lean

LEMMA SignalShift ==
  ASSUME NEW x, Sane(x), NEW s, NEW w, NEW v, NEW off, Aims(x, s, w, off), Ending(x, w) => Ending(x, v)
  PROVE  Aims(x, s, v, off)
<1>1. Len(x.asked) \in Nat BY MirrorTypes DEF Sane
<1>2. Seeking(x, s, v, off) BY <1>1, ShiftSeeking DEF Aims
<1> QED BY <1>2 DEF Aims

\* A signal that the search is over ends it in the mirror, too.
LEMMA OnSignalAims ==
  ASSUME BtBase, NEW x, Sane(x), Rooted(x), NEW m \in BtMsgs, m.kind # "reply", m.kind = "name" /\ m.on => ~x.up,
         NEW s, NEW w, NEW v, NEW off, Aims(x, s, w, off),
         EndsSearch(m) => Halts(x, s, off), ~EndsSearch(m) => (Ending(x, w) => Ending(x, v)),
         NEW r, r = OnSignal(x, m)
  PROVE  Aims(r, s, v, off)
<1>1. /\ m.kind \in {"name", "powered", "adapter", "unplugged"} =>
           /\ m.on \in BOOLEAN /\ (m.kind = "adapter" => m.on) /\ (m.kind = "unplugged" => ~m.on)
      /\ m.kind \notin {"name", "powered", "adapter", "unplugged"} =>
           /\ m.kind \in {"added", "removed", "changed"} /\ m.dev \in BtDevices /\ m.as \in BtFacts
           /\ (m.kind # "removed" => m.as.there)
  BY SignalTypes
<1>2. ~EndsSearch(m) => Aims(x, s, v, off) BY SignalShift
<1>3. Seeking(x, s, w, off) BY DEF Aims
<1>4. ~x.adapter => ~x.active BY DEF Sane, Lit
<1>5. ASSUME NEW z, Switched(x, z, m.on), r = UpdateDiscovery(z), m.kind \in {"adapter", "powered"} PROVE Aims(r, s, v, off)
  <2>1. Sane(z) /\ SameCalls(x, z) /\ z.active = (IF m.on THEN x.active ELSE FALSE) BY <1>5 DEF Switched
  <2>2. CASE m.on
    <3>1. ~EndsSearch(m) BY <1>5, <2>2 DEF EndsSearch
    <3>2. Seeking(z, s, v, off) BY <1>2, <2>1, <2>2, <3>1, SameSeeking DEF Aims
    <3> QED BY <1>5, <2>1, <3>2, UpdateDiscoveryAims
  <2>3. CASE ~m.on
    <3>1. EndsSearch(m) BY <1>5, <2>3 DEF EndsSearch
    <3>2. z.asked = x.asked /\ ~z.active BY <2>1, <2>3 DEF SameCalls
    <3>3. Seeking(z, s, v, off) BY <1>3, <3>1, <3>2, HaltSeeking
    <3> QED BY <1>5, <2>1, <3>3, UpdateDiscoveryAims
  <2> QED BY <2>2, <2>3
<1>6. ASSUME NEW z, ShownAs(x, z, m.dev, m.as) \/ ShownAs(x, z, m.dev, Absent), m.kind \in {"added", "removed", "changed"}
      PROVE  Aims(z, s, v, off) /\ Sane(z)
  <2>1. Sane(z) /\ SameAdapter(x, z) /\ SameCalls(x, z) /\ z.active = x.active /\ z.pairs = x.pairs BY <1>6 DEF ShownAs
  <2>2. ~EndsSearch(m) BY <1>6 DEF EndsSearch
  <2>3. Aims(x, s, v, off) BY <1>2, <2>2
  <2>4. Seeking(z, s, v, off) BY <2>1, <2>3, SameSeeking DEF Aims
  <2>5. Lean(z) BY <2>1, <2>3, SameLean DEF Aims
  <2> QED BY <2>1, <2>4, <2>5 DEF Aims
<1>7. CASE m.kind = "name"
  <2>1. CASE m.on
    <3>1. r = Fetch(x) BY <1>7, <2>1, OnSignalSo
    <3>2. ~x.active BY <1>4, <1>7, <2>1 DEF Rooted
    <3> QED BY <1>3, <3>1, <3>2, FetchAims
  <2>2. CASE ~m.on
    <3>1. Emptied(x, r) BY <1>7, <2>2, OnSignalSo
    <3>2. EndsSearch(m) BY <1>7, <2>2 DEF EndsSearch
    <3>3. r.asked = x.asked /\ ~r.active BY <3>1 DEF Emptied, Aged
    <3> QED BY <1>3, <3>2, <3>3, HaltAims
  <2> QED BY <2>1, <2>2
<1>8. CASE m.kind = "adapter"
  <2>1. /\ ~x.up => r = x
        /\ x.up => \E z : Switched(x, z, m.on) /\ r = UpdateDiscovery(z)
    BY <1>8, OnSignalSo
  <2>2. ~EndsSearch(m) BY <1>1, <1>8 DEF EndsSearch
  <2> QED BY <1>2, <1>5, <1>8, <2>1, <2>2
<1>9. CASE m.kind = "unplugged"
  <2>1. /\ ~x.adapter => r = x
        /\ x.adapter => \E z : Emptied(x, z) /\ z.up = x.up /\ r = Fetch(z)
    BY <1>9, OnSignalSo
  <2>2. EndsSearch(m) BY <1>1, <1>9 DEF EndsSearch
  <2>3. CASE ~x.adapter BY <1>3, <1>4, <2>1, <2>2, <2>3, HaltAims
  <2>4. CASE x.adapter
    <3>1. PICK z : Emptied(x, z) /\ r = Fetch(z) BY <2>1, <2>4
    <3>2. z.asked = x.asked /\ ~z.active /\ Sane(z) BY <3>1 DEF Emptied, Aged
    <3>3. Seeking(z, s, v, off) BY <1>3, <2>2, <3>2, HaltSeeking
    <3> QED BY <3>1, <3>2, <3>3, FetchAims
  <2> QED BY <2>3, <2>4
<1>10. CASE m.kind = "powered"
  <2>1. /\ ~x.adapter => r = x
        /\ x.adapter => \E z : Switched(x, z, m.on) /\ r = UpdateDiscovery(z)
    BY <1>10, OnSignalSo
  <2>2. CASE ~x.adapter
    <3>1. EndsSearch(m) => Aims(r, s, v, off) BY <1>3, <1>4, <2>1, <2>2, HaltAims
    <3> QED BY <1>2, <2>1, <2>2, <3>1
  <2> QED BY <1>5, <1>10, <2>1, <2>2
<1>11. CASE m.kind = "added"
  <2>1. /\ ~x.up => r = x
        /\ x.up /\ ~x.adapter => r = UpdateDiscovery(x)
        /\ x.up /\ x.adapter => \E z : ShownAs(x, z, m.dev, m.as) /\ r = UpdateDiscovery(z)
    BY <1>11, OnSignalSo
  <2>2. Aims(x, s, v, off) BY <1>2, <1>11 DEF EndsSearch
  <2>3. \A z : Sane(z) /\ Aims(z, s, v, off) => Aims(UpdateDiscovery(z), s, v, off) BY UpdateDiscoveryAims DEF Aims
  <2>4. CASE x.up /\ x.adapter BY <1>6, <1>11, <2>1, <2>3, <2>4
  <2> QED BY <2>1, <2>2, <2>3, <2>4
<1>12. CASE m.kind = "removed"
  <2>1. ShownAs(x, r, m.dev, Absent) BY <1>12, OnSignalSo
  <2> QED BY <1>6, <1>12, <2>1
<1>13. CASE m.kind = "changed"
  <2>1. /\ ~x.devs[m.dev].there => r = x
        /\ x.devs[m.dev].there => ShownAs(x, r, m.dev, m.as)
    BY <1>13, OnSignalSo
  <2>2. Aims(x, s, v, off) BY <1>2, <1>13 DEF EndsSearch
  <2> QED BY <1>6, <1>13, <2>1, <2>2
<1> QED BY <1>1, <1>7, <1>8, <1>9, <1>10, <1>11, <1>12, <1>13

\* So does an answer.
LEMMA OnObjectsAims ==
  ASSUME BtBase, NEW x, Sane(x), NEW c, ~c.stale, NEW err, NEW o, o \in BtObjects, NEW r, r = OnObjects(x, c, err, o),
         NEW s, NEW w, NEW v, NEW off, Seeking(x, s, w, off), Halts(x, s, off)
  PROVE  Aims(r, s, v, off)
<1>1. /\ err # "done" => Emptied(x, r)
      /\ err = "done" => \E z : Renewed(x, z, o) /\ r = UpdateDiscovery(z)
  BY OnObjectsSo
<1>2. CASE err # "done"
  <2>1. r.asked = x.asked /\ ~r.active BY <1>1, <1>2 DEF Emptied, Aged
  <2> QED BY <2>1, HaltAims
<1>3. CASE err = "done"
  <2>1. PICK z : Renewed(x, z, o) /\ r = UpdateDiscovery(z) BY <1>1, <1>3
  <2>2. Sane(z) /\ z.asked = x.asked /\ ~z.active BY <2>1 DEF Renewed, Aged
  <2>3. Seeking(z, s, v, off) BY <2>2, HaltSeeking
  <2> QED BY <2>1, <2>2, <2>3, UpdateDiscoveryAims
<1> QED BY <1>2, <1>3

Answering(x, c) == /\ \E p \in x.pending : AsSent(p) = c
                   /\ \A p, q \in x.pending : AsSent(p) = AsSent(q) => p = q
                   /\ \A i \in 1..Len(x.asked) : AsSent(x.asked[i]) # c
EndingButFor(x, c, w) == \E k \in 1..Len(w) :
  SearchGone(w[k]) \/ (FailedStart(w[k]) /\ w[k].call \in x.pending /\ AsSent(w[k].call) # c)

LEMMA RepliedAims ==
  ASSUME BtBase, NEW x, Sane(x), NEW c \in BtCalls, ~c.stale, Answering(x, c), NEW err, NEW o, o \in BtObjects,
         NEW s, NEW w, NEW v, NEW off, Aims(x, s, w, off),
         c.what = "objects" \/ (c.what = "start" /\ err = "failed") => Halts(x, s, off),
         Ending(x, w) => EndingButFor(x, c, v) \/ (c.what = "start" /\ err = "failed" /\ c \in x.pending),
         NEW r, r = Replied(x, c, err, o)
  PROVE  Aims(r, s, v, off)
<1>1. RepliedAs(x, Replied(x, c, err, o), c, err, o) BY RepliedSo DEF Answering
<1>2. RepliedAs(x, r, c, err, o) BY <1>1
<1>3. PICK mine, y :
        /\ mine \in x.pending
        /\ AsSent(mine) = c /\ Released(x, y, mine)
        /\ c.what = "objects"    => r = OnObjects(y, mine, err, o)
        /\ c.what = "start"      => r = OnStart(y, mine, err)
        /\ c.what = "connect"    => r = OnConnect(y, mine, err)
        /\ c.what = "pair"       => r = OnPair(y, mine, err)
        /\ c.what = "disconnect" => r = IF mine.stale THEN y ELSE SetOp(y, c.dev, "none")
        /\ c.what = "power"      => r = IF mine.stale THEN y ELSE [y EXCEPT !.powering = FALSE]
        /\ c.what \notin {"objects", "start", "connect", "pair", "disconnect", "power"} => r = y
  BY <1>2 DEF RepliedAs
<1>4. mine \in BtCalls /\ mine.what = c.what /\ mine.dev = c.dev /\ c.dev \in BtDevices
  BY <1>3, CallTypes, MirrorTypes DEF Sane
<1>5. Sane(y) /\ y.active = x.active /\ SameAdapter(x, y) /\ y.pairs = x.pairs /\ y.asked = x.asked
      /\ y.pending = x.pending \ {mine}
  BY <1>3 DEF Released, SameOps
<1>6. Lean(y) BY <1>5, SameLean DEF Aims
<1>7. c \in x.pending => mine = c /\ ~mine.stale BY <1>3, CallTypes DEF Answering
<1>8. \A i \in 1..Len(x.asked) : x.asked[i] \in x.pending => x.asked[i] \in y.pending BY <1>3, <1>5 DEF Answering
<1>9. EndingButFor(x, c, v) => Ending(y, v) BY <1>3, <1>5 DEF EndingButFor, Ending
<1>10. Len(x.asked) \in Nat /\ x.active \in BOOLEAN BY MirrorTypes DEF Sane
<1>11. mine.stale \/ ~(c.what = "start" /\ err = "failed") => Seeking(y, s, v, off)
  <2>1. SUFFICES ASSUME mine.stale \/ ~(c.what = "start" /\ err = "failed") PROVE Seeking(y, s, v, off) OBVIOUS
  <2>2. Ending(x, w) => Ending(y, v) BY <1>7, <1>9, <2>1
  <2> QED BY <1>5, <1>8, <1>10, <2>2, ShiftSeeking DEF Aims
<1>12. mine.stale \/ ~(c.what = "start" /\ err = "failed") => Aims(y, s, v, off) BY <1>6, <1>11 DEF Aims
<1>13. CASE c.what = "objects"
  <2>1. r = OnObjects(y, mine, err, o) BY <1>3, <1>13
  <2>2. CASE mine.stale
    <3>1. r = y BY <1>5, <2>1, <2>2, OnObjectsSo
    <3> QED BY <1>12, <2>2, <3>1
  <2>3. CASE ~mine.stale
    <3>1. Seeking(y, s, v, off) BY <1>11, <1>13
    <3>2. Halts(y, s, off) BY <1>5, <1>13 DEF Halts
    <3> QED BY <1>5, <2>1, <2>3, <3>1, <3>2, OnObjectsAims
  <2> QED BY <2>2, <2>3
<1>14. CASE c.what = "start"
  <2>1. r = IF err = "failed" /\ ~mine.stale THEN [y EXCEPT !.active = FALSE] ELSE y BY <1>3, <1>14 DEF OnStart
  <2>2. CASE err = "failed" /\ ~mine.stale
    <3>1. r = [y EXCEPT !.active = FALSE] BY <2>1, <2>2
    <3>2. SameCalls(y, r) /\ ~r.active BY <1>5, <3>1, NotActiveSo
    <3>3. r.asked = x.asked BY <1>5, <3>2 DEF SameCalls
    <3>4. Halts(x, s, off) BY <1>14, <2>2
    <3> QED BY <3>2, <3>3, <3>4, HaltAims DEF Aims
  <2>3. CASE ~(err = "failed" /\ ~mine.stale) BY <1>12, <2>1, <2>3, <1>14
  <2> QED BY <2>2, <2>3
<1>15. CASE c.what \notin {"objects", "start"}
  <2>1. Aims(y, s, v, off) BY <1>12, <1>15
  <2>2. CASE c.what = "connect"
    <3>1. OnConnectAs(y, r, mine, err) BY <1>3, <1>4, <1>5, <2>2, OnConnectSo
    <3> QED BY <1>4, <1>5, <2>1, <3>1, OnConnectAims
  <2>3. CASE c.what = "pair"
    <3>1. OnPairAs(y, r, mine, err) BY <1>3, <1>4, <1>5, <2>3, OnPairSo
    <3> QED BY <1>4, <1>5, <2>1, <3>1, OnPairAims
  <2>4. CASE c.what = "disconnect"
    <3> DEFINE op == "none"
               d == c.dev
    <3>1. r = y \/ r = SetOp(y, d, op) BY <1>3, <2>4
    <3>2. op \in BtOps /\ d \in BtDevices BY <1>4 DEF BtOps
    <3> HIDE DEF op, d
    <3>3. SetBy(y, SetOp(y, d, op), d, op) BY <1>5, <3>2, SetOpSo
    <3>4. Aims(SetOp(y, d, op), s, v, off) BY <1>5, <2>1, <3>3, SetAims
    <3> QED BY <2>1, <3>1, <3>4
  <2>5. CASE c.what = "power"
    <3> DEFINE no == FALSE
    <3>1. (r = y \/ r = [y EXCEPT !.powering = no]) /\ no \in BOOLEAN BY <1>3, <2>5
    <3> HIDE DEF no
    <3>2. CASE r = y BY <2>1, <3>2
    <3>3. CASE r = [y EXCEPT !.powering = no]
      <4>1. SameAdapter(y, r) /\ SameCalls(y, r) /\ r.active = y.active /\ r.pairs = y.pairs BY <1>5, <3>1, <3>3, PoweringSo
      <4>2. Seeking(r, s, v, off) BY <2>1, <4>1, SameSeeking DEF Aims
      <4> QED BY <2>1, <4>1, <4>2, SameLean DEF Aims
    <3> QED BY <3>1, <3>2, <3>3
  <2>6. CASE c.what \notin {"connect", "pair", "disconnect", "power"} BY <1>3, <1>15, <2>1, <2>6
  <2> QED BY <2>2, <2>3, <2>4, <2>5, <2>6
<1> QED BY <1>13, <1>14, <1>15

LEMMA UserAims ==
  ASSUME BtBase, Sane(g), UserDoes, NEW s, NEW w, NEW off, Aims(g, s, w, off), NEW y, y = g'
  PROVE  Aims(y, s, w, off)
<1>0. \/ ScanAs(g, y) \/ SetPoweredAs(g, y)
      \/ \E d \in BtDevices : \/ PairAs(g, y, d) \/ DisconnectAs(g, y, d)
                              \/ DeviceIdle(d) /\ y = SendConnect(g, d, "plain")
                              \/ g.devs[d].there /\ SentBy(g, y, "remove", d, "plain")
  BY DEF UserDoes
<1>1. ASSUME ScanAs(g, y) PROVE Aims(y, s, w, off)
  <2>1. PICK z : Sane(z) /\ SameCalls(g, z) /\ z.active = g.active /\ y = UpdateDiscovery(z) BY <1>1 DEF ScanAs
  <2>2. Seeking(z, s, w, off) BY <2>1, SameSeeking DEF Aims
  <2> QED BY <2>1, <2>2, UpdateDiscoveryAims
<1>2. ASSUME SetPoweredAs(g, y) PROVE Aims(y, s, w, off)
  <2> DEFINE what == "power"
  <2>1. PICK d, flag, z : /\ SentBy(g, z, what, d, flag)
                          /\ Sane(y) /\ SameAdapter(z, y) /\ SameCalls(z, y) /\ y.active = z.active /\ y.pairs = z.pairs
    BY <1>2 DEF SetPoweredAs
  <2>2. what \notin {"start", "stop", "objects"} OBVIOUS
  <2> HIDE DEF what
  <2>3. Aims(z, s, w, off) BY <2>1, <2>2, SentAims
  <2>4. Seeking(y, s, w, off) BY <2>1, <2>3, SameSeeking DEF Aims
  <2> QED BY <2>1, <2>3, <2>4, SameLean DEF Aims
<1>3. ASSUME NEW d \in BtDevices, PairAs(g, y, d) PROVE Aims(y, s, w, off)
  <2> DEFINE what == "pair"
             op == "pairing"
             flag == "plain"
  <2>1. PICK z, u, v : /\ Sane(z) /\ SameCalls(g, z) /\ z.active = g.active /\ u = UpdateDiscovery(z) /\ Sane(u)
                       /\ SentBy(u, v, what, d, flag) /\ SetBy(v, y, d, op)
    BY <1>3 DEF PairAs
  <2>2. what \notin {"start", "stop", "objects"} OBVIOUS
  <2> HIDE DEF what, op, flag
  <2>3. Seeking(z, s, w, off) BY <2>1, SameSeeking DEF Aims
  <2>4. Aims(u, s, w, off) BY <2>1, <2>3, UpdateDiscoveryAims
  <2>5. Aims(v, s, w, off) /\ Sane(v) BY <2>1, <2>2, <2>4, SentAims
  <2> QED BY <2>1, <2>5, SetAims
<1>4. ASSUME NEW d \in BtDevices, DisconnectAs(g, y, d) PROVE Aims(y, s, w, off)
  <2> DEFINE what == "disconnect"
             op == "disconnecting"
             flag == "plain"
  <2>1. PICK v : SentBy(g, v, what, d, flag) /\ SetBy(v, y, d, op) BY <1>4 DEF DisconnectAs
  <2>2. what \notin {"start", "stop", "objects"} OBVIOUS
  <2> HIDE DEF what, op, flag
  <2>5. Aims(v, s, w, off) /\ Sane(v) BY <2>1, <2>2, SentAims
  <2> QED BY <2>1, <2>5, SetAims
<1>5. ASSUME NEW d \in BtDevices, y = SendConnect(g, d, "plain") PROVE Aims(y, s, w, off)
  <2> DEFINE flag == "plain"
  <2>1. y = SendConnect(g, d, flag) /\ flag \in Flags BY <1>5 DEF Flags
  <2> HIDE DEF flag
  <2>2. Aims(SendConnect(g, d, flag), s, w, off) BY <2>1, SendConnectAims
  <2> QED BY <2>1, <2>2
<1>6. ASSUME NEW d \in BtDevices, SentBy(g, y, "remove", d, "plain") PROVE Aims(y, s, w, off)
  <2> DEFINE what == "remove"
             flag == "plain"
  <2>1. SentBy(g, y, what, d, flag) /\ what \notin {"start", "stop", "objects"} BY <1>6
  <2> HIDE DEF what, flag
  <2> QED BY <2>1, SentAims
<1> QED BY <1>0, <1>1, <1>2, <1>3, <1>4, <1>5, <1>6

\* After what says that no search runs there is the answer to one asked for, if one runs.
StartReply(m)  == m.kind = "reply" /\ m.call.what = "start"
Followed(s, w) == s => \A i \in 1..Len(w) : EndsSearch(w[i]) => \E j \in (i + 1)..Len(w) : StartReply(w[j])
BtAimed == Aims(g, bz.search, wire, crossed) /\ (crossed \/ Followed(bz.search, wire))

\* So what says it crosses no search that is asked for.
LEMMA HeadHalts ==
  ASSUME BtSound, wire # <<>>, NEW m, m = Head(wire), EndsSearch(m), NEW s, Followed(s, wire),
         \A c \in g.pending : c.what = "start" => m.kind = "reply" /\ m.call = AsSent(c)
  PROVE  SearchOff(s, g.asked, Len(g.asked))
<1>1. /\ wire \in Seq(BtMsgs) /\ m = wire[1] /\ g \in BtMirrors /\ Apart(g, wire, bz.slow) /\ Len(wire) \in Nat /\ Len(wire) >= 1
  BY HeadSo DEF BtSound, BtOk
<1>2. g.asked \in Seq(BtCalls) /\ g.pending \in SUBSET BtCalls BY <1>1, MirrorTypes
<1>3. \A i \in 1..Len(g.asked) : g.asked[i].what # "start"
  <2> SUFFICES ASSUME NEW i \in 1..Len(g.asked), g.asked[i].what = "start" PROVE FALSE OBVIOUS
  <2>1. PICK p \in g.pending : AsSent(p) = g.asked[i] BY <1>1 DEF Apart
  <2>2. p.what = "start" BY <1>2, <2>1, CallTypes
  <2>3. m.kind = "reply" /\ m.call = g.asked[i] BY <2>1, <2>2
  <2>4. m.call \in Answered(wire) BY <1>1, <2>3 DEF Answered
  <2> QED BY <1>1, <2>3, <2>4 DEF Apart
<1>4. ~s
  <2> SUFFICES ASSUME s PROVE FALSE OBVIOUS
  <2>1. 1 \in 1..Len(wire) BY <1>1
  <2>2. PICK j \in (1 + 1)..Len(wire) : StartReply(wire[j]) BY <1>1, <2>1 DEF Followed
  <2>3. j \in 1..Len(wire) /\ j # 1 BY <1>1, <2>2
  <2>4. wire[j].call \in Answered(wire) /\ wire[j].call.what \notin Reaches BY <2>2, <2>3 DEF StartReply, Answered, Reaches
  <2>5. PICK p \in g.pending : AsSent(p) = wire[j].call BY <1>1, <2>4 DEF Apart
  <2>6. p.what = "start" BY <1>2, <2>2, <2>5, CallTypes DEF StartReply
  <2>7. m.kind = "reply" /\ m.call = wire[j].call BY <2>5, <2>6
  <2> QED BY <1>1, <2>1, <2>2, <2>3, <2>7 DEF Apart, Once, StartReply
<1>5. Len(g.asked) \in Nat BY <1>2
<1>6. 0 \in 0..Len(g.asked) /\ \A i \in (0 + 1)..Len(g.asked) : g.asked[i].what # "start" BY <1>3, <1>5
<1> QED BY <1>4, <1>6 DEF SearchOff

LEMMA FollowedTail ==
  ASSUME NEW w, w \in Seq(BtMsgs), w # <<>>, NEW s, Followed(s, w), NEW t, t = Tail(w)
  PROVE  Followed(s, t)
<1>1. /\ Len(t) = Len(w) - 1 /\ Len(w) \in Nat /\ \A i \in 1..Len(t) : t[i] = w[i + 1] /\ i + 1 \in 1..Len(w)
  BY HeadSo
<1> SUFFICES ASSUME s, NEW i \in 1..Len(t), EndsSearch(t[i]) PROVE \E j \in (i + 1)..Len(t) : StartReply(t[j])
  BY DEF Followed
<1>2. EndsSearch(w[i + 1]) /\ i + 1 \in 1..Len(w) BY <1>1
<1>3. PICK j \in ((i + 1) + 1)..Len(w) : StartReply(w[j]) BY <1>2 DEF Followed
<1>4. j - 1 \in (i + 1)..Len(t) /\ j - 1 \in 1..Len(t) /\ (j - 1) + 1 = j BY <1>1, <1>3
<1>5. t[j - 1] = w[j] BY <1>1, <1>4
<1> QED BY <1>3, <1>4, <1>5

LEMMA EndingTail ==
  ASSUME BtSound, wire # <<>>, NEW m, m = Head(wire), NEW t, t = Tail(wire), Ending(g, wire)
  PROVE  \/ SearchGone(m)
         \/ FailedStart(m) /\ m.call \in g.pending
         \/ Ending(g, t) /\ (m.kind = "reply" => EndingButFor(g, m.call, t))
<1>1. /\ wire \in Seq(BtMsgs) /\ m = wire[1] /\ Apart(g, wire, bz.slow) /\ Len(wire) \in Nat /\ Len(wire) >= 1
      /\ Len(t) = Len(wire) - 1 /\ \A i \in 1..Len(t) : t[i] = wire[i + 1] /\ i + 1 \in 1..Len(wire)
  BY HeadSo DEF BtSound, BtOk
<1>2. PICK k \in 1..Len(wire) : SearchGone(wire[k]) \/ (FailedStart(wire[k]) /\ wire[k].call \in g.pending) BY DEF Ending
<1>3. CASE k = 1 BY <1>1, <1>2, <1>3
<1>4. CASE k # 1
  <2>1. k - 1 \in 1..Len(t) /\ (k - 1) + 1 = k BY <1>1, <1>4
  <2>2. t[k - 1] = wire[k] BY <1>1, <2>1
  <2>3. Ending(g, t) BY <1>2, <2>1, <2>2 DEF Ending
  <2>4. ASSUME m.kind = "reply" PROVE EndingButFor(g, m.call, t)
    <3>1. CASE SearchGone(wire[k]) BY <2>1, <2>2, <3>1 DEF EndingButFor
    <3>2. CASE FailedStart(wire[k]) /\ wire[k].call \in g.pending
      <4>1. wire[k] \in BtMsgs /\ wire[k].kind = "reply" BY <1>1, <3>2 DEF FailedStart
      <4>2. wire[k].call \in BtCalls /\ ~wire[k].call.stale BY <4>1, ReplyTypes
      <4>3. AsSent(wire[k].call) = wire[k].call BY <4>2, CallTypes
      <4>4. wire[k].call # m.call
        <5>1. 1 \in 1..Len(wire) BY <1>1
        <5> QED BY <1>1, <1>4, <2>4, <4>1, <5>1 DEF Apart, Once
      <4> QED BY <2>1, <2>2, <3>2, <4>3, <4>4 DEF EndingButFor
    <3> QED BY <1>2, <3>1, <3>2
  <2> QED BY <2>3, <2>4
<1> QED BY <1>3, <1>4

LEMMA ProcessAims ==
  ASSUME BtAssumption, BtSound, BtAwaited, BtAimed, Process, NEW y, y = g', NEW t, t = wire', NEW off, off = crossed',
         NEW s, s = bz'.search
  PROVE  Aims(y, s, t, off) /\ (off \/ Followed(s, t))
<1> DEFINE m == Head(wire)
<1>0. t = Tail(wire) /\ s = bz.search BY DEF Process
<1>1. /\ wire # <<>> /\ wire \in Seq(BtMsgs) /\ BtBase /\ Sane(g) /\ m \in BtMsgs /\ Held(g, {}, 0) /\ BtDown
      /\ Apart(g, wire, bz.slow) /\ g \in BtMirrors /\ m = wire[1] /\ 1 \in 1..Len(wire)
  BY HeadSo DEF Process, BtSound, BtAwaited, BtBase, BtOk, Sane
<1>2. y = IF m.kind # "reply" THEN OnSignal(g, m)
          ELSE IF \E p \in g.pending : AsSent(p) = m.call THEN Replied(g, m.call, m.err, m.objects)
          ELSE g
  BY DEF Process
<1>3. off <=> \/ crossed
              \/ g.active /\ EndsSearch(m) /\ \E c \in g.pending :
                   c.what = "start" /\ ~(m.kind = "reply" /\ m.call = AsSent(c))
  BY DEF Process
<1>4. Rises(m) => ~g.up BY <1>1, DownFirst
<1> HIDE DEF m
<1>5. Lean(g) /\ (~off => Seeks(g, s, wire) /\ Followed(s, wire)) BY <1>0, <1>3 DEF BtAimed, Aims, Seeking
<1>6. Aims(g, s, wire, off) BY <1>5 DEF Aims, Seeking
<1>7. off \/ Followed(s, t) BY <1>0, <1>1, <1>5, FollowedTail
<1>8. EndsSearch(m) => Halts(g, s, off)
  <2> SUFFICES ASSUME EndsSearch(m), ~off PROVE SearchOff(s, g.asked, Len(g.asked)) BY DEF Halts
  <2>1. CASE ~g.active BY <1>5, <2>1 DEF Seeks
  <2>2. CASE g.active
    <3>1. \A c \in g.pending : c.what = "start" => m.kind = "reply" /\ m.call = AsSent(c) BY <1>3, <2>2
    <3>2. m = Head(wire) BY DEF m
    <3> QED BY <1>1, <1>5, <3>1, <3>2, HeadHalts
  <2> QED BY <2>1, <2>2
<1>9. Ending(g, wire) => \/ SearchGone(m)
                         \/ FailedStart(m) /\ m.call \in g.pending
                         \/ Ending(g, t) /\ (m.kind = "reply" => EndingButFor(g, m.call, t))
  <2>1. m = Head(wire) BY DEF m
  <2> QED BY <1>0, <1>1, <2>1, EndingTail
<1>10. CASE m.kind # "reply"
  <2>1. m.kind = "name" /\ m.on => ~g.up BY <1>4 DEF Rises
  <2>2. ~EndsSearch(m) => (Ending(g, wire) => Ending(g, t)) BY <1>9, <1>10 DEF EndsSearch, SearchGone, FailedStart
  <2>3. y = OnSignal(g, m) /\ Rooted(g) BY <1>1, <1>2, <1>10 DEF Held
  <2>4. Aims(y, s, t, off) BY <1>1, <1>6, <1>8, <1>10, <2>1, <2>2, <2>3, OnSignalAims
  <2> QED BY <1>7, <2>4
<1>11. CASE m.kind = "reply"
  <2> DEFINE c == m.call
             e == m.err
             o == m.objects
  <2>1. c \in BtCalls /\ ~c.stale /\ o \in BtObjects BY <1>1, <1>11, ReplyTypes
  <2>2. y = IF \E p \in g.pending : AsSent(p) = c THEN Replied(g, c, e, o) ELSE g BY <1>2, <1>11
  <2>3. c.what = "objects" \/ (c.what = "start" /\ e = "failed") => Halts(g, s, off) BY <1>8, <1>11 DEF EndsSearch
  <2>4. ~SearchGone(m) /\ (FailedStart(m) => c.what = "start" /\ e = "failed") BY <1>11 DEF SearchGone, FailedStart
  <2>5. Ending(g, wire) => \/ c.what = "start" /\ e = "failed" /\ c \in g.pending
                           \/ Ending(g, t) /\ EndingButFor(g, c, t)
    BY <1>9, <1>11, <2>4
  <2>6. c \in Answered(wire) BY <1>1, <1>11 DEF Answered
  <2> HIDE DEF c, e, o
  <2>7. AsSent(c) = c BY <2>1, CallTypes
  <2>8. CASE \E p \in g.pending : AsSent(p) = c
    <3>1. Answering(g, c)
      <4>1. ASSUME NEW i \in 1..Len(g.asked) PROVE AsSent(g.asked[i]) # c
        <5>1. g.asked[i] \in BtCalls /\ ~g.asked[i].stale BY <1>1, MirrorTypes DEF Apart
        <5>2. AsSent(g.asked[i]) = g.asked[i] BY <5>1, CallTypes
        <5> QED BY <1>1, <2>6, <5>2 DEF Apart
      <4> QED BY <1>1, <2>8, <4>1 DEF Answering, Apart
    <3>2. y = Replied(g, c, e, o) BY <2>2, <2>8
    <3>3. Aims(y, s, t, off) BY <1>1, <1>6, <2>1, <2>3, <2>5, <3>1, <3>2, RepliedAims
    <3> QED BY <1>7, <3>3
  <2>9. CASE ~\E p \in g.pending : AsSent(p) = c
    <3>1. y = g /\ c \notin g.pending BY <2>2, <2>7, <2>9
    <3>2. Ending(g, wire) => Ending(g, t) BY <2>5, <3>1
    <3>3. Aims(g, s, t, off) BY <1>1, <1>6, <3>2, SignalShift
    <3> QED BY <1>7, <3>1, <3>3
  <2> QED BY <2>8, <2>9
<1> QED BY <1>10, <1>11

\* Most of what bluetoothd tells does not say that a search is over, ...
Mild(s) == s \in Seq(BtMsgs) /\ \A i \in 1..Len(s) : ~EndsSearch(s[i])

LEMMA MildNone == Mild(<<>>)
BY NoneSo DEF Mild

LEMMA MildOne == ASSUME NEW m, m \in BtMsgs, ~EndsSearch(m) PROVE Mild(<<m>>)
<1> DEFINE s == <<m>>
<1>1. s \in Seq(BtMsgs) /\ Len(s) = 1 /\ s[1] = m BY OneSo
<1> HIDE DEF s
<1>2. \A i \in 1..Len(s) : i = 1 BY <1>1
<1>3. Mild(s) BY <1>1, <1>2 DEF Mild
<1> QED BY <1>3 DEF s

LEMMA MildCat == ASSUME NEW s, NEW r, Mild(s), Mild(r) PROVE Mild(s \o r)
<1> DEFINE w == s \o r
           N == Len(s)
           M == Len(r)
<1>1. /\ w \in Seq(BtMsgs) /\ N \in Nat /\ M \in Nat /\ Len(w) = N + M
      /\ \A i \in 1..N : w[i] = s[i]
      /\ \A i \in 1..M : w[N + i] = r[i]
  BY CatSo DEF Mild
<1> HIDE DEF w, N, M
<1>2. \A i \in 1..(N + M) : ~EndsSearch(w[i])
  <2> TAKE i \in 1..(N + M)
  <2>1. CASE i <= N
    <3>1. i \in 1..N BY <1>1, <2>1
    <3> QED BY <1>1, <3>1 DEF Mild, N
  <2>2. CASE ~(i <= N)
    <3>1. i - N \in 1..M /\ N + (i - N) = i BY <1>1, <2>2
    <3>2. ~EndsSearch(r[i - N]) BY <3>1 DEF Mild, M
    <3> QED BY <1>1, <3>1, <3>2
  <2> QED BY <2>1, <2>2
<1>3. Mild(w) BY <1>1, <1>2 DEF Mild
<1> QED BY <1>3 DEF w

LEMMA MildFails == ASSUME BzOk(bz), NEW F, F \subseteq bz.slow PROVE Mild(Fails(F))
<1>1. F \subseteq BtCalls /\ IsFiniteSet(F) /\ \A c \in F : ~c.stale /\ c.what \in Reaches
  BY FS_Subset, BzTypes DEF BzOk
<1> DEFINE s == Fails(F)
<1>2. s \in Seq(BtMsgs) /\ \A i \in 1..Len(s) : \E c \in F : s[i] = Reply(c, "failed") BY <1>1, FailsSo
<1> HIDE DEF s
<1>3. \A i \in 1..Len(s) : ~EndsSearch(s[i])
  <2> TAKE i \in 1..Len(s)
  <2>1. PICK c \in F : s[i] = Reply(c, "failed") BY <1>2
  <2>2. s[i].kind = "reply" /\ s[i].call = c BY <2>1 DEF Reply
  <2> QED BY <1>1, <2>2 DEF EndsSearch, Reaches
<1>4. Mild(s) BY <1>2, <1>3 DEF Mild
<1> QED BY <1>4 DEF s

LEMMA MildEach ==
  ASSUME BtAssumption, NEW kind, kind \in {"added", "changed"}, NEW S, S \subseteq BtDevices,
         NEW b, \A d \in S : b.devs[d] \in BtFacts /\ b.devs[d].there
  PROVE  Mild(AboutEach(kind, S, b))
<1> DEFINE s == AboutEach(kind, S, b)
           n == Cardinality(S)
           q == SetToSeq(S)
<1>1. EachOf(s, n, q, kind, S, b) BY AboutEachSo
<1> HIDE DEF s, n, q
<1>2. \A i \in 1..Len(s) : ~EndsSearch(s[i])
  <2> TAKE i \in 1..Len(s)
  <2>1. PICK d \in S : s[i] = About(kind, d, b.devs[d]) BY <1>1 DEF EachOf
  <2>2. s[i].kind = kind BY <2>1 DEF About
  <2> QED BY <2>2 DEF EndsSearch
<1>3. Mild(s) BY <1>1, <1>2 DEF Mild, EachOf
<1> QED BY <1>3 DEF s

LEMMA MildChanges ==
  ASSUME BtAssumption, NEW b, BzOk(b), \A d \in BtDevices : b.devs[d] # bz.devs[d] => b.devs[d].there
  PROVE  Mild(DevChanges(b, bz))
<1> DEFINE S == {d \in BtDevices : b.devs[d] # bz.devs[d]}
           kind == "changed"
<1>1. b.devs \in [BtDevices -> BtFacts] BY BzTypes DEF BzOk
<1>2. S \subseteq BtDevices /\ \A d \in S : b.devs[d] \in BtFacts /\ b.devs[d].there BY <1>1
<1>3. kind \in {"added", "changed"} OBVIOUS
<1>4. DevChanges(b, bz) = AboutEach(kind, S, b) BY DEF DevChanges
<1> HIDE DEF S, kind
<1>5. Mild(AboutEach(kind, S, b)) BY <1>2, <1>3, MildEach
<1> QED BY <1>4, <1>5

LEMMA MildAnd ==
  ASSUME NEW k, NEW v, NEW what, what \notin {"objects", "start"}, AndReply(k, v, what) \/ AndLate(k, v)
  PROVE  Mild(v)
<1>1. CASE v = <<>> BY <1>1, MildNone
<1>2. ASSUME NEW m, v = <<m>>, m \in BtMsgs, m.kind = "reply", m.call.what \notin {"objects", "start"} PROVE Mild(v)
  <2>1. ~EndsSearch(m) BY <1>2 DEF EndsSearch
  <2> QED BY <1>2, <2>1, MildOne
<1>3. CASE AndReply(k, v, what) BY <1>1, <1>2, <1>3 DEF AndReply
<1>4. CASE AndLate(k, v)
  <2>1. PICK m : v = <<m>> /\ m \in BtMsgs /\ m.kind = "reply" /\ m.call.what \in Reaches BY <1>4 DEF AndLate
  <2>2. m.call.what \notin {"objects", "start"} BY <2>1 DEF Reaches
  <2> QED BY <1>2, <2>1, <2>2
<1> QED BY <1>3, <1>4

\* ... and what ends one says so.
Gone(s) == s \in Seq(BtMsgs) /\ \E i \in 1..Len(s) : SearchGone(s[i])

LEMMA GoneOne == ASSUME NEW m, m \in BtMsgs, SearchGone(m) PROVE Gone(<<m>>)
<1> DEFINE s == <<m>>
<1>1. s \in Seq(BtMsgs) /\ Len(s) = 1 /\ s[1] = m BY OneSo
<1> HIDE DEF s
<1>2. 1 \in 1..Len(s) BY <1>1
<1>3. Gone(s) BY <1>1, <1>2 DEF Gone
<1> QED BY <1>3 DEF s

LEMMA GoneCat ==
  ASSUME NEW s, s \in Seq(BtMsgs), NEW r, r \in Seq(BtMsgs), Gone(s) \/ Gone(r)
  PROVE  Gone(s \o r)
<1> DEFINE w == s \o r
           N == Len(s)
           M == Len(r)
<1>1. /\ w \in Seq(BtMsgs) /\ N \in Nat /\ M \in Nat /\ Len(w) = N + M
      /\ \A i \in 1..N : w[i] = s[i]
      /\ \A i \in 1..M : w[N + i] = r[i]
  BY CatSo
<1> HIDE DEF w
<1>2. CASE Gone(s)
  <2>1. PICK i \in 1..N : SearchGone(s[i]) BY <1>2 DEF Gone
  <2>2. i \in 1..Len(w) /\ w[i] = s[i] BY <1>1, <2>1
  <2>3. Gone(w) BY <1>1, <2>1, <2>2 DEF Gone
  <2> QED BY <2>3 DEF w
<1>3. CASE Gone(r)
  <2>1. PICK i \in 1..M : SearchGone(r[i]) BY <1>3 DEF Gone
  <2>2. N + i \in 1..Len(w) /\ w[N + i] = r[i] BY <1>1, <2>1
  <2>3. Gone(w) BY <1>1, <2>1, <2>2 DEF Gone
  <2> QED BY <2>3 DEF w
<1> QED BY <1>2, <1>3

\* A step of bluetoothd ends a search and says so, or answers one of the calls that
\* are about it.
Slips(b, s) == (b.search => bz.search /\ Mild(s)) /\ (bz.search /\ ~b.search => Gone(s))
Search == {"start", "stop", "objects"}
Told(b, s, k) ==
  \/ Slips(b, s) /\ \A c \in k : c.what \notin Search
  \/ \E c, m : /\ k = {c} /\ s = <<m>> /\ m \in BtMsgs /\ m.kind = "reply" /\ m.call = c
               /\ \/ c.what = "objects" /\ b.search = bz.search
                  \/ c.what = "start" /\ IF m.err = "failed" THEN b.search = bz.search ELSE b.search
                  \/ c.what = "stop" /\ ~b.search

LEMMA TookOther ==
  ASSUME NEW k, NEW v, NEW what, what \notin Search, AndReply(k, v, what) \/ AndLate(k, v)
  PROVE  (\A c \in k : c.what \notin Search) /\ v \in Seq(BtMsgs) /\ Mild(v)
<1>1. what \notin {"objects", "start"} BY DEF Search
<1>2. Mild(v) BY <1>1, MildAnd
<1> QED BY <1>2 DEF AndReply, AndLate, Mild

LEMMA BluezTold ==
  ASSUME BtAssumption, BtSound, NEW b, NEW s, NEW k, BluezDoes(b, s, k)
  PROVE  Told(b, s, k)
<1>0. BzOk(bz) /\ BzOk(b) /\ bz.search \in BOOLEAN /\ b.search \in BOOLEAN /\ b.powered \in BOOLEAN
      /\ s \in Seq(BtMsgs) BY BzTypes DEF BtSound, BluezDoes, TellsWell, BzOk
<1>1. ASSUME b.search = bz.search, Mild(s), \A c \in k : c.what \notin Search PROVE Told(b, s, k)
  BY <1>0, <1>1 DEF Told, Slips
<1>2. CASE Answers(b, s, k)
  <2>1. PICK c, m : /\ k = {c} /\ s = <<m>> /\ m \in BtMsgs /\ m.kind = "reply" /\ m.call = c
                    /\ \/ c.what = "start" /\ IF m.err = "failed" THEN b.search = bz.search ELSE b.search
                       \/ c.what = "stop" /\ ~b.search
                       \/ c.what \notin {"start", "stop"} /\ b.search = bz.search
    BY <1>2 DEF Answers
  <2>2. CASE c.what \in Search BY <2>1, <2>2 DEF Told, Search
  <2>3. CASE c.what \notin Search
    <3>1. b.search = bz.search BY <2>1, <2>3 DEF Search
    <3>2. ~EndsSearch(m) BY <2>1, <2>3 DEF Search, EndsSearch
    <3>3. Mild(s) BY <2>1, <3>2, MildOne
    <3> QED BY <1>1, <2>1, <2>3, <3>1, <3>3
  <2> QED BY <2>2, <2>3
<1>3. CASE Keeps(b, s, k)
  <2>1. b.search = bz.search /\ s = <<>> /\ \A c \in k : c.what \in Reaches BY <1>3 DEF Keeps
  <2>2. Mild(s) /\ \A c \in k : c.what \notin Search BY <2>1, MildNone DEF Reaches, Search
  <2> QED BY <1>1, <2>1, <2>2
<1>4. CASE Changed(b, s, k)
  <2>1. PICK v : s = DevChanges(b, bz) \o v /\ (AndReply(k, v, "trust") \/ AndLate(k, v)) BY <1>4 DEF Changed
  <2> DEFINE what == "trust"
  <2>2. what \notin Search /\ (AndReply(k, v, what) \/ AndLate(k, v)) BY <2>1 DEF Search
  <2> HIDE DEF what
  <2>3. Mild(v) /\ \A c \in k : c.what \notin Search BY <2>2, TookOther
  <2>4. Mild(DevChanges(b, bz)) BY <1>0, <1>4, MildChanges DEF Changed
  <2>5. b.search = bz.search BY <1>4 DEF Changed
  <2>6. Mild(s) BY <2>1, <2>3, <2>4, MildCat
  <2> QED BY <1>1, <2>3, <2>5, <2>6
<1>5. CASE Removed(b, s, k)
  <2>1. PICK d, F : /\ d \in BtDevices
                    /\ F \subseteq bz.slow
                    /\ \E v : s = Fails(F) \o <<About("removed", d, Absent)>> \o v /\ AndReply(k, v, "remove")
    BY <1>5 DEF Removed
  <2>2. PICK v : s = Fails(F) \o <<About("removed", d, Absent)>> \o v /\ AndReply(k, v, "remove") BY <2>1
  <2> DEFINE m == About("removed", d, Absent)
             what == "remove"
  <2>3. m \in BtMsgs /\ m.kind = "removed" BY <2>1, SaidSo
  <2>4. s = Fails(F) \o <<m>> \o v BY <2>2
  <2>5. what \notin Search /\ AndReply(k, v, what) BY <2>2 DEF Search
  <2> HIDE DEF m, what
  <2>6. ~EndsSearch(m) BY <2>3 DEF EndsSearch
  <2>7. Mild(<<m>>) BY <2>3, <2>6, MildOne
  <2>8. Mild(v) /\ \A c \in k : c.what \notin Search BY <2>5, TookOther
  <2>9. Mild(Fails(F)) BY <1>0, <2>1, MildFails
  <2>10. Mild(Fails(F) \o <<m>>) BY <2>7, <2>9, MildCat
  <2>11. Mild(s) BY <2>4, <2>8, <2>10, MildCat
  <2>12. b.search = bz.search BY <1>5 DEF Removed
  <2> QED BY <1>1, <2>8, <2>11, <2>12
<1>6. CASE Finds(b, s, k)
  <2>1. PICK d \in BtDevices : s = <<About("added", d, Found)>> BY <1>6 DEF Finds
  <2> DEFINE m == About("added", d, Found)
  <2>2. m \in BtMsgs /\ m.kind = "added" BY SaidSo
  <2>3. s = <<m>> BY <2>1
  <2> HIDE DEF m
  <2>4. ~EndsSearch(m) BY <2>2 DEF EndsSearch
  <2>5. Mild(s) BY <2>2, <2>3, <2>4, MildOne
  <2>6. b.search = bz.search /\ k = {} BY <1>0, <1>6 DEF Finds
  <2> QED BY <1>1, <2>5, <2>6
<1>7. CASE Switches(b, s, k)
  <2>1. PICK p, v : /\ p = (IF b.powered # bz.powered THEN <<SignalOf("powered", b.powered)>> ELSE <<>>)
                    /\ s = DevChanges(b, bz) \o p \o Fails(bz.slow \ b.slow) \o v /\ AndReply(k, v, "power")
    BY <1>7 DEF Switches
  <2>2. \A d \in BtDevices : b.devs[d] # bz.devs[d] => b.devs[d].there
    <3>1. CASE b.devs = bz.devs BY <3>1
    <3>2. CASE NowUnpowered(b) BY <3>2 DEF NowUnpowered
    <3> QED BY <1>7, <3>1, <3>2 DEF Switches
  <2>3. Mild(DevChanges(b, bz)) BY <1>0, <2>2, MildChanges
  <2> DEFINE m == SignalOf("powered", b.powered)
  <2>4. m \in BtMsgs /\ m.kind = "powered" /\ m.on = b.powered BY <1>0, SaidSo
  <2>5. p = (IF b.powered # bz.powered THEN <<m>> ELSE <<>>) BY <2>1
  <2> HIDE DEF m
  <2>6. b.powered => Mild(p)
    <3>1. b.powered => Mild(<<m>>)
      <4>1. b.powered => ~EndsSearch(m) BY <2>4 DEF EndsSearch
      <4> QED BY <2>4, <4>1, MildOne
    <3> QED BY <2>5, <3>1, MildNone
  <2>7. p \in Seq(BtMsgs) BY <2>4, <2>5, OneSo, NoneSo
  <2>8. Mild(Fails(bz.slow \ b.slow))
    <3> DEFINE F == bz.slow \ b.slow
    <3>1. F \subseteq bz.slow OBVIOUS
    <3> HIDE DEF F
    <3>2. Mild(Fails(F)) BY <1>0, <3>1, MildFails
    <3> QED BY <3>2 DEF F
  <2>9. Mild(v) /\ \A c \in k : c.what \notin Search
    <3> DEFINE what == "power"
    <3>1. what \notin Search /\ AndReply(k, v, what) BY <2>1 DEF Search
    <3> HIDE DEF what
    <3> QED BY <3>1, TookOther
  <2>10. CASE b.powered
    <3>1. Mild(DevChanges(b, bz) \o p) BY <2>3, <2>6, <2>10, MildCat
    <3>2. Mild(DevChanges(b, bz) \o p \o Fails(bz.slow \ b.slow)) BY <2>8, <3>1, MildCat
    <3>3. Mild(s) BY <2>1, <2>9, <3>2, MildCat
    <3>4. b.search = bz.search BY <1>7, <2>10 DEF Switches, NowUnpowered
    <3> QED BY <1>1, <2>9, <3>3, <3>4
  <2>11. CASE ~b.powered
    <3>1. ~b.search BY <1>7, <2>11 DEF Switches, NowUnpowered
    <3>2. ASSUME bz.search PROVE Gone(s)
      <4>1. p = <<m>> BY <1>0, <2>5, <2>11, <3>2 DEF BzOk
      <4>2. SearchGone(m) BY <2>4, <2>11 DEF SearchGone
      <4>3. Gone(p) BY <2>4, <4>1, <4>2, GoneOne
      <4>4. Gone(DevChanges(b, bz) \o p) BY <2>3, <2>7, <4>3, GoneCat DEF Mild
      <4>5. Gone(DevChanges(b, bz) \o p \o Fails(bz.slow \ b.slow)) BY <2>8, <4>4, GoneCat DEF Mild, Gone
      <4> QED BY <2>1, <2>9, <4>5, GoneCat DEF Mild, Gone
    <3>3. Slips(b, s) BY <3>1, <3>2 DEF Slips
    <3> QED BY <2>9, <3>3 DEF Told
  <2> QED BY <2>10, <2>11
<1>8. ASSUME NEW m, m \in BtMsgs, SearchGone(m), NEW F, F = bz.slow,
             s = Fails(F) \o <<m>> \/ s = <<m>> \o Fails(F), ~b.search, k = {}
      PROVE  Told(b, s, k)
  <2>1. Gone(<<m>>) BY <1>8, GoneOne
  <2>2. F \subseteq bz.slow BY <1>8
  <2>3. Mild(Fails(F)) BY <1>0, <2>2, MildFails
  <2>4. Gone(s) BY <1>8, <2>1, <2>3, GoneCat DEF Mild, Gone
  <2> QED BY <1>8, <2>4 DEF Told, Slips
<1>9. CASE Downs(b, s, k)
  <2> DEFINE m == SignalOf("name", FALSE)
             F == bz.slow
  <2>1. m \in BtMsgs /\ SearchGone(m) BY SaidSo DEF SearchGone
  <2>2. (s = Fails(F) \o <<m>> \/ s = <<m>> \o Fails(F)) /\ F = bz.slow /\ ~b.search /\ k = {} BY <1>9 DEF Downs, Lost
  <2> HIDE DEF m, F
  <2> QED BY <1>8, <2>1, <2>2
<1>10. CASE Unplugs(b, s, k)
  <2> DEFINE m == SignalOf("unplugged", FALSE)
             F == bz.slow
  <2>1. m \in BtMsgs /\ SearchGone(m) BY SaidSo DEF SearchGone
  <2>2. s = Fails(F) \o <<m>> /\ F = bz.slow /\ ~b.search /\ k = {} BY <1>10 DEF Unplugs, Lost
  <2> HIDE DEF m, F
  <2> QED BY <1>8, <2>1, <2>2
<1>11. ASSUME ~bz.search, ~b.search, k = {} PROVE Told(b, s, k) BY <1>11 DEF Told, Slips
<1>12. CASE Ups(b, s, k)
  <2>1. ~bz.search BY <1>0, <1>12 DEF Ups, BzOk
  <2> QED BY <1>11, <1>12, <2>1 DEF Ups
<1>13. CASE Plugs(b, s, k) BY <1>11, <1>13 DEF Plugs
<1> QED BY <1>2, <1>3, <1>4, <1>5, <1>6, <1>7, <1>9, <1>10, <1>12, <1>13 DEF BluezDoes

\* A call is taken off those asked.
LEMMA OffShift ==
  ASSUME NEW u, NEW s, NEW q, NEW t, NEW n \in Nat, Len(q) \in Nat, n + 1 <= Len(q), Len(t) = Len(q) - 1,
         \A i \in 1..Len(t) : t[i] = q[i + 1],
         s => q[1].what = "start" \/ (u /\ q[1].what # "stop"), SearchOff(u, q, n + 1)
  PROVE  SearchOff(s, t, n)
<1>1. PICK j \in 0..(n + 1) : /\ IF j = 0 THEN ~u ELSE q[j].what = "stop"
                              /\ \A i \in (j + 1)..(n + 1) : q[i].what # "start"
  BY DEF SearchOff
<1>2. \A i \in 1..n : t[i] = q[i + 1] OBVIOUS
<1>3. CASE j < 2
  <2>1. \A i \in 1..n : t[i].what # "start"
    <3> TAKE i \in 1..n
    <3>1. i + 1 \in (j + 1)..(n + 1) BY <1>3
    <3> QED BY <1>1, <1>2, <3>1
  <2>2. ~s
    <3>1. CASE j = 0
      <4>1. 1 \in (j + 1)..(n + 1) BY <3>1
      <4>2. q[1].what # "start" BY <1>1, <4>1
      <4> QED BY <1>1, <3>1, <4>2
    <3>2. CASE j = 1 BY <1>1, <3>2
    <3> QED BY <1>3, <3>1, <3>2
  <2>3. 0 \in 0..n /\ \A i \in (0 + 1)..n : t[i].what # "start" BY <2>1
  <2> QED BY <2>2, <2>3 DEF SearchOff
<1>4. CASE ~(j < 2)
  <2>1. j - 1 \in 1..n /\ (j - 1) + 1 = j BY <1>4
  <2>2. t[j - 1].what = "stop" BY <1>1, <1>2, <1>4, <2>1
  <2>3. \A i \in ((j - 1) + 1)..n : t[i].what # "start"
    <3> TAKE i \in ((j - 1) + 1)..n
    <3>1. i + 1 \in (j + 1)..(n + 1) /\ i \in 1..n BY <2>1
    <3> QED BY <1>1, <1>2, <3>1
  <2>4. j - 1 \in 0..n /\ j - 1 # 0 BY <2>1
  <2> QED BY <2>2, <2>3, <2>4 DEF SearchOff
<1> QED BY <1>3, <1>4

\* What the mirror is told stays told.
LEMMA EndingCat ==
  ASSUME NEW x, NEW y, y.pending = x.pending, NEW v, v \in Seq(BtMsgs), NEW r, r \in Seq(BtMsgs), NEW w, w = v \o r
  PROVE  /\ Ending(x, v) => Ending(y, w)
         /\ Gone(r) => Ending(y, w)
         /\ \A m : r = <<m>> /\ FailedStart(m) /\ m.call \in x.pending => Ending(y, w)
<1> DEFINE N == Len(v)
           M == Len(r)
<1>1. /\ N \in Nat /\ M \in Nat /\ Len(w) = N + M
      /\ \A i \in 1..N : w[i] = v[i]
      /\ \A i \in 1..M : w[N + i] = r[i]
  BY CatSo
<1>2. ASSUME Ending(x, v) PROVE Ending(y, w)
  <2>1. PICK k \in 1..N : SearchGone(v[k]) \/ (FailedStart(v[k]) /\ v[k].call \in x.pending) BY <1>2 DEF Ending
  <2>2. k \in 1..Len(w) /\ w[k] = v[k] BY <1>1, <2>1
  <2> QED BY <2>1, <2>2 DEF Ending
<1>3. ASSUME NEW i \in 1..M, SearchGone(r[i]) \/ (FailedStart(r[i]) /\ r[i].call \in x.pending) PROVE Ending(y, w)
  <2>1. N + i \in 1..Len(w) /\ w[N + i] = r[i] BY <1>1
  <2> QED BY <1>3, <2>1 DEF Ending
<1>4. Gone(r) => Ending(y, w) BY <1>3 DEF Gone
<1>5. ASSUME NEW m, r = <<m>>, FailedStart(m), m.call \in x.pending PROVE Ending(y, w)
  <2>1. M = 1 /\ r[1] = m BY <1>5
  <2>2. 1 \in 1..M BY <2>1
  <2> QED BY <1>3, <1>5, <2>1, <2>2
<1> QED BY <1>2, <1>4, <1>5

\* What says that a search is over stays followed, ...
LEMMA FollowedCat ==
  ASSUME NEW v, v \in Seq(BtMsgs), NEW r, r \in Seq(BtMsgs), NEW w, w = v \o r, NEW u, NEW s, s => u,
         Followed(u, v), s => Mild(r)
  PROVE  Followed(s, w)
<1> DEFINE N == Len(v)
           M == Len(r)
<1>1. /\ N \in Nat /\ M \in Nat /\ Len(w) = N + M
      /\ \A i \in 1..N : w[i] = v[i]
      /\ \A i \in 1..M : w[N + i] = r[i]
  BY CatSo
<1> SUFFICES ASSUME s, NEW i \in 1..Len(w), EndsSearch(w[i]) PROVE \E j \in (i + 1)..Len(w) : StartReply(w[j])
  BY DEF Followed
<1>2. i <= N
  <2> SUFFICES ASSUME ~(i <= N) PROVE FALSE OBVIOUS
  <2>1. i - N \in 1..M /\ N + (i - N) = i BY <1>1
  <2>2. w[i] = r[i - N] BY <1>1, <2>1
  <2> QED BY <2>1, <2>2 DEF Mild
<1>3. i \in 1..N /\ w[i] = v[i] BY <1>1, <1>2
<1>4. PICK j \in (i + 1)..N : StartReply(v[j]) BY <1>3 DEF Followed
<1>5. j \in (i + 1)..Len(w) /\ j \in 1..N BY <1>1, <1>4
<1> QED BY <1>1, <1>4, <1>5

\* ... and is by the answer to one asked for.
LEMMA FollowedStart ==
  ASSUME NEW v, v \in Seq(BtMsgs), NEW m, m \in BtMsgs, NEW r, r = <<m>>, NEW w, w = v \o r, NEW s,
         StartReply(m), ~EndsSearch(m)
  PROVE  Followed(s, w)
<1>0. r \in Seq(BtMsgs) /\ Len(r) = 1 /\ r[1] = m BY OneSo
<1> DEFINE N == Len(v)
<1>1. /\ N \in Nat /\ Len(w) = N + 1 /\ 1 \in 1..Len(r) /\ w[N + 1] = m BY <1>0, CatSo
<1> SUFFICES ASSUME s, NEW i \in 1..Len(w), EndsSearch(w[i]) PROVE \E j \in (i + 1)..Len(w) : StartReply(w[j])
  BY DEF Followed
<1>2. i # N + 1 BY <1>1
<1>3. N + 1 \in (i + 1)..Len(w) BY <1>1, <1>2
<1> QED BY <1>1, <1>3

\* The first call asked is taken, and what is told is as `Told'.
LEMMA TakenSeeks ==
  ASSUME BtSound, NEW y, NEW c, Moved(g, y, {c}), c = Head(g.asked), g.asked # <<>>, y.pending = g.pending,
         y.active = g.active, NEW q, q = g.asked, NEW t, t = y.asked,
         Len(q) \in Nat, Len(q) >= 1, Len(t) = Len(q) - 1, c = q[1], \A i \in 1..Len(t) : t[i] = q[i + 1],
         NEW u, NEW s, NEW w, Seeks(g, u, wire),
         s => c.what = "start" \/ (u /\ c.what # "stop"),
         Ending(g, wire) => Ending(y, w),
         u /\ c.what # "stop" => s \/ Ending(y, w),
         c.what = "start" /\ c \in g.pending => s \/ Ending(y, w)
  PROVE  Seeks(y, s, w)
<1>1. ASSUME NEW n \in Nat, n + 1 <= Len(q), SearchOff(u, q, n + 1) PROVE SearchOff(s, t, n)
  <2>1. s => q[1].what = "start" \/ (u /\ q[1].what # "stop") OBVIOUS
  <2> QED BY <1>1, <2>1, OffShift
<1>2. Clear(y, s)
  <2> SUFFICES ASSUME NEW k \in 1..Len(t), t[k].what \in {"start", "objects"} PROVE SearchOff(s, t, k - 1) BY DEF Clear
  <2>1. k + 1 \in 1..Len(q) /\ q[k + 1].what \in {"start", "objects"} OBVIOUS
  <2>2. SearchOff(u, q, (k + 1) - 1) BY <2>1 DEF Seeks, Clear
  <2>3. PICK n : n = k - 1 OBVIOUS
  <2>4. n \in Nat /\ n + 1 <= Len(q) /\ n + 1 = (k + 1) - 1 BY <2>3
  <2>5. SearchOff(u, q, n + 1) BY <2>2, <2>4
  <2>6. SearchOff(s, t, n) BY <1>1, <2>4, <2>5
  <2> QED BY <2>3, <2>6
<1>3. ASSUME y.active PROVE Starts(y, s, w)
  <2>1. PICK j \in 0..Len(q) : /\ IF j = 0 THEN u \/ Ending(g, wire) ELSE q[j].what = "start" /\ q[j] \in g.pending
                               /\ \A i \in (j + 1)..Len(q) : q[i].what # "stop"
    BY <1>3 DEF Seeks, Starts
  <2>2. CASE j < 2
    <3>1. \A i \in (0 + 1)..Len(t) : t[i].what # "stop"
      <4> TAKE i \in (0 + 1)..Len(t)
      <4>1. i + 1 \in (j + 1)..Len(q) BY <2>2
      <4> QED BY <2>1, <4>1
    <3>2. s \/ Ending(y, w)
      <4>1. CASE j = 0
        <5>1. 1 \in (j + 1)..Len(q) BY <4>1
        <5>2. c.what # "stop" BY <2>1, <5>1
        <5> QED BY <2>1, <4>1, <5>2
      <4>2. CASE j = 1 BY <2>1, <4>2
      <4> QED BY <2>2, <4>1, <4>2
    <3>3. 0 \in 0..Len(t) OBVIOUS
    <3> QED BY <3>1, <3>2, <3>3 DEF Starts
  <2>3. CASE ~(j < 2)
    <3>1. PICK l : l = j - 1 OBVIOUS
    <3>2. l \in 1..Len(t) /\ l \in 0..Len(t) /\ l # 0 /\ l + 1 = j BY <2>3, <3>1
    <3>3. t[l] = q[j] BY <3>2
    <3>4. \A i \in (l + 1)..Len(t) : t[i].what # "stop"
      <4> TAKE i \in (l + 1)..Len(t)
      <4>1. i + 1 \in (j + 1)..Len(q) /\ i \in 1..Len(t) BY <3>2
      <4> QED BY <2>1, <4>1
    <3>5. t[l].what = "start" /\ t[l] \in y.pending BY <2>1, <2>3, <3>3
    <3> QED BY <3>2, <3>4, <3>5 DEF Starts
  <2> QED BY <2>2, <2>3
<1>4. ASSUME ~y.active PROVE SearchOff(s, t, Len(t))
  <2>1. SearchOff(u, q, Len(q)) BY <1>4 DEF Seeks
  <2>2. PICK n : n = Len(t) OBVIOUS
  <2>3. n \in Nat /\ n + 1 <= Len(q) /\ n + 1 = Len(q) BY <2>2
  <2>4. SearchOff(u, q, n + 1) BY <2>1, <2>3
  <2>5. SearchOff(s, t, n) BY <1>1, <2>3, <2>4
  <2> QED BY <2>2, <2>5
<1> QED BY <1>2, <1>3, <1>4 DEF Seeks

LEMMA BluezAims ==
  ASSUME BtAssumption, BtSound, BtAimed, BluezNext, g.bus, NEW y, y = g', NEW w, w = wire',
         NEW s, s = bz'.search, NEW off, off = crossed'
  PROVE  Aims(y, s, w, off) /\ (off \/ Followed(s, w))
<1>1. PICK b, r, k : BluezDoes(b, r, k) BY BluezSo
<1>2. Moved(g, y, k) /\ Tells(b, r) /\ r \in Seq(BtMsgs) BY <1>1 DEF BluezDoes, TellsWell
<1>3. g \in BtMirrors /\ wire \in Seq(BtMsgs) BY DEF BtSound, BtOk
<1>4. /\ y.pending = g.pending /\ SameAdapter(g, y) /\ y.pairs = g.pairs /\ y.active = g.active
      /\ \/ y.asked = g.asked /\ k = {}
         \/ /\ Len(g.asked) \in Nat /\ Len(g.asked) >= 1 /\ Len(y.asked) = Len(g.asked) - 1
            /\ k = {g.asked[1]} /\ Head(g.asked) = g.asked[1]
            /\ \A i \in 1..Len(y.asked) : y.asked[i] = g.asked[i + 1]
  BY <1>2, <1>3, MovedSo DEF SameOps
<1>5. w = wire \o r /\ s = b.search /\ off = crossed BY <1>2, BluezSo DEF Tells
<1>6. Lean(y) BY <1>4, SameLean DEF BtAimed, Aims
<1> SUFFICES ASSUME ~off PROVE Seeks(y, s, w) /\ Followed(s, w) BY <1>6 DEF Aims, Seeking
<1> DEFINE u == bz.search
<1>7. Seeks(g, u, wire) /\ Followed(u, wire) BY <1>5 DEF BtAimed, Aims, Seeking
<1>8. Told(b, r, k) BY <1>1, BluezTold
<1>9. /\ Ending(g, wire) => Ending(y, w)
      /\ Gone(r) => Ending(y, w)
      /\ \A m : r = <<m>> /\ FailedStart(m) /\ m.call \in g.pending => Ending(y, w)
  BY <1>2, <1>3, <1>4, <1>5, EndingCat
<1>10. u \in BOOLEAN /\ s \in BOOLEAN BY <1>1, <1>5, BzTypes DEF BtSound, BluezDoes, TellsWell, BzOk
<1>11. Slips(b, r) => (s => u) /\ (u /\ ~s => Ending(y, w)) /\ Followed(s, w)
  <2> SUFFICES ASSUME Slips(b, r) PROVE (s => u) /\ (u /\ ~s => Ending(y, w)) /\ Followed(s, w) OBVIOUS
  <2>1. (s => u /\ Mild(r)) /\ (u /\ ~s => Gone(r)) BY <1>5 DEF Slips
  <2> HIDE DEF u
  <2>2. Followed(s, w) BY <1>2, <1>3, <1>5, <1>7, <2>1, FollowedCat
  <2> QED BY <1>9, <2>1, <2>2
<1>12. CASE y.asked = g.asked /\ k = {}
  <2>1. Slips(b, r) BY <1>8, <1>12 DEF Told
  <2>2. (s => u) /\ (u /\ ~s => Ending(y, w)) /\ Followed(s, w) BY <1>11, <2>1
  <2> HIDE DEF u
  <2>3. \A n : SearchOff(u, g.asked, n) => SearchOff(s, y.asked, n) BY <1>12, <2>2 DEF SearchOff
  <2>4. Clear(y, s) BY <1>7, <1>12, <2>3 DEF Seeks, Clear
  <2>5. y.active => Starts(y, s, w)
    <3>1. u \/ Ending(g, wire) => s \/ Ending(y, w) BY <1>9, <2>2
    <3> QED BY <1>4, <1>7, <1>12, <3>1 DEF Seeks, Starts
  <2>6. ~y.active => SearchOff(s, y.asked, Len(y.asked)) BY <1>4, <1>7, <1>12, <2>3 DEF Seeks
  <2> QED BY <2>2, <2>4, <2>5, <2>6 DEF Seeks
<1>13. CASE ~(y.asked = g.asked /\ k = {})
  <2> DEFINE q == g.asked
             t == y.asked
             c == q[1]
  <2>1. /\ Len(q) \in Nat /\ Len(q) >= 1 /\ Len(t) = Len(q) - 1 /\ k = {c} /\ Head(q) = c
        /\ \A i \in 1..Len(t) : t[i] = q[i + 1]
    BY <1>4, <1>13
  <2>2. q # <<>> BY <2>1
  <2>3. c.what \in {"start", "objects"} => ~u
    <3>1. 1 \in 1..Len(q) BY <2>1
    <3>2. c.what \in {"start", "objects"} => SearchOff(u, q, 1 - 1) BY <1>7, <3>1 DEF Seeks, Clear
    <3>3. 1 - 1 = 0 OBVIOUS
    <3> QED BY <3>2, <3>3 DEF SearchOff
  <2>4. /\ s => c.what = "start" \/ (u /\ c.what # "stop")
        /\ u /\ c.what # "stop" => s \/ Ending(y, w)
        /\ c.what = "start" /\ c \in g.pending => s \/ Ending(y, w)
        /\ Followed(s, w)
    <3>1. CASE Slips(b, r) /\ \A d \in k : d.what \notin Search
      <4>1. c.what \notin Search BY <2>1, <3>1
      <4> QED BY <1>11, <3>1, <4>1 DEF Search
    <3>2. ASSUME NEW d, NEW m, k = {d}, r = <<m>>, m \in BtMsgs, m.kind = "reply", m.call = d,
                 \/ d.what = "objects" /\ b.search = bz.search
                 \/ d.what = "start" /\ IF m.err = "failed" THEN b.search = bz.search ELSE b.search
                 \/ d.what = "stop" /\ ~b.search
          PROVE  /\ s => c.what = "start" \/ (u /\ c.what # "stop")
                 /\ u /\ c.what # "stop" => s \/ Ending(y, w)
                 /\ c.what = "start" /\ c \in g.pending => s \/ Ending(y, w)
                 /\ Followed(s, w)
      <4>1. d = c BY <2>1, <3>2
      <4>2. CASE d.what = "objects" /\ s = u BY <2>3, <4>1, <4>2 DEF Followed
      <4>3. CASE d.what = "start" /\ m.err = "failed" /\ s = u
        <5>1. ~s BY <2>3, <4>1, <4>3
        <5>2. FailedStart(m) BY <3>2, <4>3 DEF FailedStart
        <5>3. c \in g.pending => Ending(y, w) BY <1>9, <3>2, <4>1, <5>2
        <5> QED BY <4>1, <4>3, <5>1, <5>3 DEF Followed
      <4>4. CASE d.what = "start" /\ m.err # "failed" /\ s
        <5>1. StartReply(m) /\ ~EndsSearch(m) BY <3>2, <4>4 DEF StartReply, EndsSearch
        <5>2. Followed(s, w) BY <1>3, <1>5, <3>2, <5>1, FollowedStart
        <5> QED BY <4>1, <4>4, <5>2
      <4>5. CASE d.what = "stop" /\ ~s BY <4>1, <4>5 DEF Followed
      <4> QED BY <1>5, <3>2, <4>2, <4>3, <4>4, <4>5
    <3> QED BY <1>8, <3>1, <3>2 DEF Told
  <2>5. Moved(g, y, {c}) /\ c = Head(g.asked) /\ c = q[1] /\ q = g.asked /\ t = y.asked BY <1>2, <2>1
  <2> HIDE DEF c, u
  <2>6. g.asked # <<>> BY <2>2
  <2> HIDE DEF q, t
  <2>7. Seeks(y, s, w) BY <1>4, <1>7, <1>9, <2>1, <2>4, <2>5, <2>6, TakenSeeks
  <2> QED BY <2>4, <2>7
<1> QED BY <1>12, <1>13

LEMMA AimedAs ==
  ASSUME NEW y, y = g', NEW w, w = wire', NEW s, s = bz'.search, NEW off, off = crossed',
         Aims(y, s, w, off), off \/ Followed(s, w)
  PROVE  BtAimed'
BY DEF BtAimed, Aims, Lean, Wanted, Seeking, Seeks, Clear, Starts, Ending, SearchOff, Followed

LEMMA ShutAims ==
  ASSUME NEW x, Shut(x), NEW s, ~s, NEW w, NEW off
  PROVE  Aims(x, s, w, off) /\ Followed(s, w)
<1>1. x.asked = <<>> /\ ~x.active BY DEF Shut
<1>2. Len(x.asked) = 0 BY <1>1
<1>3. 0 \in 0..0 /\ \A i \in (0 + 1)..0 : x.asked[i].what # "start" OBVIOUS
<1>4. SearchOff(s, x.asked, Len(x.asked)) BY <1>2, <1>3 DEF SearchOff
<1>5. Clear(x, s) BY <1>2 DEF Clear
<1> QED BY <1>1, <1>4, <1>5 DEF Aims, Lean, Seeking, Seeks, Followed

LEMMA TimeoutAims ==
  ASSUME BtAssumption, BtSound, Timeout, NEW y, y = g', NEW s, NEW off, NEW w, w = wire, Aims(g, s, w, off)
  PROVE  Aims(y, s, w, off)
<1>0. BtBase /\ Sane(g) /\ Apart(g, wire, bz.slow) /\ g \in BtMirrors /\ w \in Seq(BtMsgs) BY DEF BtBase, BtSound, BtOk, Sane
<1>1. PICK p \in g.pending : /\ p \in BtCalls /\ p.what \in Reaches /\ AsSent(p) \in BtCalls
                             /\ AsSent(p).what = p.what /\ Over(g, wire, AsSent(p))
                             /\ y = Replied(g, AsSent(p), "failed", Empty)
  BY TimeoutSo
<1> DEFINE c == AsSent(p)
           e == "failed"
           o == Empty
<1>2. c \in BtCalls /\ c.what \in Reaches /\ (\E q \in g.pending : AsSent(q) = c) /\ o \in BtObjects /\ Over(g, wire, c)
  BY <1>1, EmptyOk
<1>3. ~c.stale /\ y = Replied(g, c, e, o) BY <1>1, CallTypes
<1> HIDE DEF c, e, o
<1>4. Answering(g, c)
  <2>1. ASSUME NEW i \in 1..Len(g.asked) PROVE AsSent(g.asked[i]) # c
    <3>1. g.asked[i] \in BtCalls /\ ~g.asked[i].stale BY <1>0, MirrorTypes DEF Apart
    <3>2. AsSent(g.asked[i]) = g.asked[i] BY <3>1, CallTypes
    <3> QED BY <1>2, <3>2 DEF Over
  <2> QED BY <1>0, <1>2, <2>1 DEF Answering, Apart
<1>5. c.what # "objects" /\ c.what # "start" BY <1>2 DEF Reaches
<1>6. Ending(g, w) => EndingButFor(g, c, w)
  <2> SUFFICES ASSUME Ending(g, w) PROVE EndingButFor(g, c, w) OBVIOUS
  <2>1. PICK k \in 1..Len(w) : SearchGone(w[k]) \/ (FailedStart(w[k]) /\ w[k].call \in g.pending) BY DEF Ending
  <2>2. FailedStart(w[k]) /\ w[k].call \in g.pending => AsSent(w[k].call) # c
    <3>1. g.pending \subseteq BtCalls BY <1>0, MirrorTypes
    <3>2. w[k].call \in g.pending => AsSent(w[k].call).what = w[k].call.what BY <3>1, CallTypes
    <3> QED BY <1>5, <3>2 DEF FailedStart
  <2> QED BY <2>1, <2>2 DEF EndingButFor
<1> QED BY <1>0, <1>2, <1>3, <1>4, <1>5, <1>6, RepliedAims

LEMMA BtStepAimed ==
  ASSUME BtAssumption, BtSound, BtShut, BtAwaited, BtAimed, [BtNext]_btVars
  PROVE  BtAimed'
<1>0. BtBase /\ Sane(g) BY DEF BtBase, BtSound, BtOk, Sane
<1>00. ~g.bus => wire = <<>> /\ Shut(g) /\ bz.slow = {} /\ ~bz.search BY ShutSo
<1> DEFINE y == g'
           w == wire'
           s == bz'.search
           off == crossed'
<1>9. y = g' /\ w = wire' /\ s = bz'.search /\ off = crossed' OBVIOUS
<1> HIDE DEF y, w, s, off
<1> SUFFICES Aims(y, s, w, off) /\ (off \/ Followed(s, w)) BY <1>9, AimedAs
<1>10. ASSUME UNCHANGED <<bz, wire, crossed>>
       PROVE  Aims(g, s, w, off) /\ (off \/ Followed(s, w)) /\ w = wire
  <2>1. s = bz.search /\ w = wire /\ off = crossed BY <1>9, <1>10
  <2> QED BY <2>1 DEF BtAimed
<1>1. CASE OpenBus
  <2>1. Aims(g, s, w, off) /\ (off \/ Followed(s, w)) BY <1>1, <1>10, OpenBusSo
  <2>2. PICK z : Sane(z) /\ SameCalls(g, z) /\ z.active = g.active /\ y = Fetch(z) BY <1>1, <1>9, OpenBusSo
  <2>3. ~z.active BY <1>00, <1>1, <2>2, OpenBusSo DEF Shut
  <2>4. Seeking(z, s, w, off) BY <2>1, <2>2, SameSeeking DEF Aims
  <2>5. Aims(y, s, w, off) BY <1>0, <2>2, <2>3, <2>4, FetchAims
  <2> QED BY <2>1, <2>5
<1>2. CASE Process BY <1>2, <1>9, ProcessAims
<1>3. CASE AutoDue
  <2>1. Aims(g, s, w, off) /\ (off \/ Followed(s, w)) BY <1>3, <1>10, AutoDueSo
  <2>2. PICK z : /\ Sane(z) /\ SameCalls(g, z) /\ SameOps(g, z) /\ SameAdapter(g, z) /\ z.active = g.active
                 /\ y = AutoconnectNext(z)
    BY <1>3, <1>9, AutoDueSo
  <2>3. Seeking(z, s, w, off) BY <2>1, <2>2, SameSeeking DEF Aims
  <2>4. Lean(z) BY <2>1, <2>2, SameLean DEF Aims, SameOps
  <2>5. Aims(z, s, w, off) BY <2>3, <2>4 DEF Aims
  <2>6. Aims(y, s, w, off) BY <1>0, <2>2, <2>5, AutoconnectNextAims
  <2> QED BY <2>1, <2>6
<1>4. CASE Timeout
  <2>1. Aims(g, s, w, off) /\ (off \/ Followed(s, w)) /\ w = wire BY <1>4, <1>10, TimeoutSo
  <2>2. Aims(y, s, w, off) BY <1>4, <1>9, <2>1, TimeoutAims
  <2> QED BY <2>1, <2>2
<1>5. CASE UserNext
  <2>1. UserDoes /\ UNCHANGED <<bz, wire, crossed>> BY <1>5, UserSo
  <2>2. Aims(g, s, w, off) /\ (off \/ Followed(s, w)) BY <1>10, <2>1
  <2>3. Aims(y, s, w, off) BY <1>0, <1>9, <2>1, <2>2, UserAims
  <2> QED BY <2>2, <2>3
<1>6. CASE BluezNext
  <2>1. CASE g.bus BY <1>6, <1>9, <2>1, BluezAims
  <2>2. CASE ~g.bus
    <3>1. Shut(y) /\ ~s BY <1>6, <1>9, <2>2, BluezShut
    <3> QED BY <3>1, ShutAims
  <2> QED BY <2>1, <2>2
<1>7. CASE LoseBus
  <2>1. y = [NoBus EXCEPT !.scan = g.scan] /\ g.scan \in BOOLEAN /\ ~s BY <1>7, <1>9, LoseBusSo
  <2>2. Shut(y) BY <2>1, NoBusShut
  <2> QED BY <2>1, <2>2, ShutAims
<1>8. CASE UNCHANGED btVars
  <2>1. Aims(g, s, w, off) /\ (off \/ Followed(s, w)) /\ y = g BY <1>8, <1>9, <1>10 DEF btVars
  <2> QED BY <2>1
<1> QED BY <1>1, <1>2, <1>3, <1>4, <1>5, <1>6, <1>7, <1>8, BtNextCases

LEMMA BtInitAimed == BtInit => BtAimed
<1> SUFFICES ASSUME BtInit PROVE BtAimed OBVIOUS
<1>1. PICK on \in BOOLEAN : g = [NoBus EXCEPT !.scan = on] BY DEF BtInit
<1>2. Shut(g) BY <1>1, NoBusShut
<1>3. ~bz.search BY DEF BtInit
<1> QED BY <1>2, <1>3, ShutAims DEF BtAimed

LEMMA BtAimedWanted ==
  ASSUME BtSound, BtAimed
  PROVE  SearchOnlyWanted
<1>1. g.active => g.scan /\ g.powered /\ g.pairs = 0 BY DEF BtAimed, Aims, Lean, Wanted
<1>2. ASSUME Quiet PROVE bz.search = g.active \/ crossed
  <2> SUFFICES ASSUME ~crossed PROVE bz.search = g.active OBVIOUS
  <2>1. Seeks(g, bz.search, wire) BY DEF BtAimed, Aims, Seeking
  <2>2. bz.search \in BOOLEAN /\ g.active \in BOOLEAN BY BzTypes, MirrorTypes DEF BtSound, BzOk, BtOk
  <2>3. Len(wire) = 0 /\ Len(g.asked) = 0 BY <1>2 DEF Quiet
  <2>4. ASSUME g.active PROVE bz.search
    <3>1. PICK j \in 0..Len(g.asked) :
            IF j = 0 THEN bz.search \/ Ending(g, wire) ELSE g.asked[j].what = "start" /\ g.asked[j] \in g.pending
      BY <2>1, <2>4 DEF Seeks, Starts
    <3>2. j = 0 /\ ~Ending(g, wire) BY <2>3, <3>1 DEF Ending
    <3> QED BY <3>1, <3>2
  <2>5. ASSUME ~g.active PROVE ~bz.search
    <3>1. PICK j \in 0..Len(g.asked) : IF j = 0 THEN ~bz.search ELSE g.asked[j].what = "stop"
      BY <2>1, <2>5 DEF Seeks, SearchOff
    <3> QED BY <2>3, <3>1
  <2> QED BY <2>2, <2>4, <2>5
<1> QED BY <1>1, <1>2 DEF SearchOnlyWanted

(***************************************************************************)
(* The invariant of the runs.                                              *)
(***************************************************************************)

\* What every step keeps: each part is kept with those before it.
BtInv == BtSound /\ BtShut /\ BtComing /\ BtAwaited /\ BtAimed

LEMMA BtInitInv == BtInit => BtInv
BY BtAssumption, BtInitSound, BtInitShut, BtInitAwaited, BtInitAimed DEF BtInv

LEMMA BtStepInv == BtInv /\ [BtNext]_btVars => BtInv'
<1> SUFFICES ASSUME BtInv, [BtNext]_btVars PROVE BtInv' OBVIOUS
<1>1. BtSound' BY BtAssumption, BtStepSound DEF BtInv
<1>2. BtComing' BY BtAssumption, BtStepComing DEF BtInv
<1>3. BtShut' BY BtAssumption, BtStepShut DEF BtInv
<1>4. BtAwaited' BY BtAssumption, BtStepAwaited DEF BtInv
<1>5. BtAimed' BY BtAssumption, BtStepAimed DEF BtInv
<1> QED BY <1>1, <1>2, <1>3, <1>4, <1>5 DEF BtInv

\* Once all that bluetoothd and the bus said is processed the mirror is what
\* bluetoothd has; every operation, the power's change and every pairing that is
\* counted has a call that ends it; and it searches exactly while that is wanted, but
\* for searches that were crossed.
THEOREM BluetoothInvariant == BtSpec => []CallsAnswered
<1>1. BtInv => CallsAnswered BY BtComingTrue, BtAwaitedHolds, BtAimedWanted DEF BtInv, CallsAnswered
<1> QED BY <1>1, BtInitInv, BtStepInv, PTL DEF BtSpec
=============================================================================
