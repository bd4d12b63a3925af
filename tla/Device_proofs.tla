---------------------------- MODULE Device_proofs ----------------------------
(***************************************************************************)
(* Proofs about parts of the device that MCDevice runs: the levels         *)
(* (SoundLevel), what counts as listened to (Scrobbler), the alarm's clock *)
(* (AlarmClock), ear detection (EarBuds) and Home Assistant (HaQueue).     *)
(***************************************************************************)
EXTENDS SoundLevel, Scrobbler, AlarmClock, EarBuds, HaQueue, TLAPS, SequenceTheorems

(***************************************************************************)
(* The levels.                                                             *)
(***************************************************************************)
Percents == 0..100
States   == [vol : Percents, active : Devices \union {Nobody},
             entries : Seq(Devices \X Percents), dirty : BOOLEAN,
             duck : {NoDuck} \union (Percents \X Percents)]
Mpds     == {"up", "down", "drops"}

\* A list of levels: each device once, and no longer than it may be.
ListOK(es) ==
  /\ es \in Seq(Devices \X Percents) /\ Len(es) <= MaxDevices
  /\ \A i, j \in 1..Len(es) : es[i][1] = es[j][1] => i = j

\* A state of MPD and the volume memory.
StateOK(t) ==
  /\ t \in States /\ ListOK(t.entries)
  /\ IsOn(t) => Low(t) <= Base(t)

\* Levels that were chosen: the remembered ones, and the volume or the one before
\* it was lowered; but after a crash the volume may be a lowered one that nobody
\* knows of, which goes nowhere as each device has a level in the file.
AllReal(es)  == \A i \in 1..Len(es) : es[i][2] \in Real
VolReal(t)   == (IsOn(t) => Base(t) \in Real) /\ (Lowered(t) \/ t.vol \in Real)
AllKnown(t)  == t.active = Nobody /\ \A d \in Devices : Known(t.entries, d)
Chosen(t)    == AllReal(t.entries) /\ (VolReal(t) \/ AllKnown(t))

SoundTypes ==
  /\ StateOK(s) /\ ListOK(saved)
  /\ speaker \in Speakers \union {Nobody} /\ heads \in SUBSET Headsets
  /\ ringing \in BOOLEAN /\ talking \in BOOLEAN /\ bluez \in BOOLEAN /\ slipped \in BOOLEAN
  /\ pct \in 0..99 /\ faults \in Nat
SavedYet     == s.active = Nobody => s.entries = saved
ChosenAlways == ~slipped => Chosen(s) /\ AllReal(saved)

SoundInv == SoundTypes /\ SavedYet /\ ChosenAlways /\ NothingLeftLowered

LEMMA Constants ==
  /\ Nobody \notin Devices /\ Wired \in Devices /\ Headsets \subseteq Devices
  /\ Speakers \subseteq Devices /\ Buds \in Headsets
  /\ MaxDevices \in Nat /\ MaxDevices > 0 /\ FadeStep \in Nat /\ FadeStep > 0
  /\ Levels \subseteq Percents /\ NewMax \in Percents /\ Real \subseteq Percents
  /\ FadeStart \in 1..99 /\ TalkPercents \subseteq 0..99 /\ Unknown = -1
  BY SoundAssumption DEF Devices, Percents, Real, Unknown

LEMMA NotOn == \A b, l : Duck(b, l) # NoDuck
  BY DEF Duck, NoDuck

\* What remember() leaves: a list in order, the device at its head, and of the
\* others only what they had.
LEMMA RememberOK ==
  ASSUME NEW es, ListOK(es), NEW k \in Devices, NEW v \in Percents
  PROVE  LET r == Remember(es, k, v)
         IN  /\ ListOK(r) /\ Known(r, k) /\ LevelOf(r, k) = v
             /\ \A i \in 1..Len(r) : r[i][2] = v \/ \E j \in 1..Len(es) : r[i] = es[j]
<1> DEFINE n   == Len(es)
           at  == IF Known(es, k) THEN Index(es, k)
                  ELSE IF n < MaxDevices THEN n + 1 ELSE MaxDevices
           len == IF at > n THEN at ELSE n
           r   == [i \in 1..len |-> IF i = 1 THEN <<k, v>> ELSE IF i <= at THEN es[i - 1] ELSE es[i]]
<1>1. n \in Nat /\ n <= MaxDevices /\ DOMAIN es = 1..n /\ \A i \in 1..n : es[i] \in Devices \X Percents
  BY DEF ListOK
<1>3. at \in Nat /\ at >= 1 /\ at <= n + 1 /\ at <= MaxDevices
  <2>1. CASE Known(es, k)
    <3>1. Index(es, k) \in 1..n
      BY <1>1, <2>1 DEF Known, Index
    <3> QED BY <3>1, <2>1, <1>1, Constants
  <2>2. CASE ~Known(es, k)
    BY <2>2, <1>1, Constants
  <2> QED BY <2>1, <2>2
<1>4. \A i \in 1..n : i > at => es[i][1] # k
  <2>1. CASE Known(es, k)
    <3>1. Index(es, k) \in 1..n /\ es[Index(es, k)][1] = k
      BY <1>1, <2>1 DEF Known, Index
    <3> QED BY <3>1, <2>1, <1>1 DEF ListOK
  <2>2. CASE ~Known(es, k)
    BY <2>2, <1>1, <1>3 DEF Known
  <2> QED BY <2>1, <2>2
<1>5. \A i \in 1..n : i < at => es[i][1] # k
  <2>1. CASE Known(es, k)
    <3>1. Index(es, k) \in 1..n /\ es[Index(es, k)][1] = k
      BY <1>1, <2>1 DEF Known, Index
    <3> QED BY <3>1, <2>1, <1>1 DEF ListOK
  <2>2. CASE ~Known(es, k)
    BY <2>2, <1>1 DEF Known
  <2> QED BY <2>1, <2>2
<1> HIDE DEF at
<1>6. len \in Nat /\ len >= 1 /\ len <= MaxDevices /\ len <= n + 1 /\ (len = n + 1 => at = n + 1) /\ at <= len
  BY <1>1, <1>3
<1>a. Remember(es, k, v) = r
  BY DEF Remember, at
<1> HIDE DEF len
<1>7. r[1] = <<k, v>> /\ \A i \in 1..len : i # 1 => r[i] = (IF i <= at THEN es[i - 1] ELSE es[i])
  BY <1>6
<1>8. \A i \in 1..len : i # 1 => IF i <= at THEN i - 1 \in 1..n ELSE i \in 1..n
  BY <1>1, <1>3, <1>6
<1>9. \A i \in 1..len : r[i] \in Devices \X Percents
  <2> TAKE i \in 1..len
  <2>1. CASE i = 1
    BY <2>1, <1>7
  <2>2. CASE i # 1
    BY <2>2, <1>1, <1>7, <1>8
  <2> QED BY <2>1, <2>2
<1>10. r \in Seq(Devices \X Percents) /\ Len(r) = len /\ DOMAIN r = 1..len
  <2>1. r = [i \in 1..len |-> r[i]]
    OBVIOUS
  <2> HIDE DEF r
  <2>2. r \in [1..len -> Devices \X Percents]
    BY <2>1, <1>9
  <2> QED BY <2>2, <1>6
<1> HIDE DEF r
<1>11. \A i \in 1..len : i # 1 => r[i][1] # k
  <2> TAKE i \in 1..len
  <2>1. CASE i # 1 /\ i <= at
    <3>1. r[i] = es[i - 1] /\ i - 1 \in 1..n /\ i - 1 < at
      BY <2>1, <1>3, <1>7, <1>8
    <3> QED BY <3>1, <1>5
  <2>2. CASE i # 1 /\ ~(i <= at)
    <3>1. r[i] = es[i] /\ i \in 1..n /\ i > at
      BY <2>2, <1>3, <1>7, <1>8
    <3> QED BY <3>1, <1>4
  <2> QED BY <2>1, <2>2
<1>12. \A i, j \in 1..len : r[i][1] = r[j][1] => i = j
  <2> SUFFICES ASSUME NEW i \in 1..len, NEW j \in 1..len, r[i][1] = r[j][1] PROVE i = j
    OBVIOUS
  <2>1. CASE i = 1 \/ j = 1
    BY <2>1, <1>7, <1>11
  <2>2. CASE i # 1 /\ j # 1
    <3> DEFINE p(x) == IF x <= at THEN x - 1 ELSE x
    <3>1. p(i) \in 1..n /\ p(j) \in 1..n /\ r[i] = es[p(i)] /\ r[j] = es[p(j)]
      BY <2>2, <1>7, <1>8
    <3>2. p(i) # at /\ p(j) # at
      BY <2>2, <3>1, <1>3
    <3>3. p(i) = p(j)
      BY <3>1 DEF ListOK
    <3> QED BY <3>3, <3>2, <2>2, <1>3, <1>6
  <2> QED BY <2>1, <2>2
<1>13. Known(r, k) /\ LevelOf(r, k) = v
  <2>1. 1 \in DOMAIN r /\ r[1][1] = k /\ r[1][2] = v
    BY <1>6, <1>7, <1>10
  <2>2. Index(r, k) \in DOMAIN r /\ r[Index(r, k)][1] = k
    BY <2>1 DEF Index
  <2>3. Index(r, k) = 1
    BY <2>1, <2>2, <1>10, <1>12
  <2> QED BY <2>1, <2>3 DEF Known, LevelOf
<1>14. \A i \in 1..len : r[i][2] = v \/ \E j \in 1..n : r[i] = es[j]
  BY <1>7, <1>8
<1> QED BY <1>a, <1>6, <1>10, <1>12, <1>13, <1>14 DEF ListOK

LEMMA RememberReal ==
  ASSUME NEW es, ListOK(es), AllReal(es), NEW k \in Devices, NEW v \in Real
  PROVE  AllReal(Remember(es, k, v))
<1> DEFINE r == Remember(es, k, v)
<1>1. v \in Percents
  BY Constants
<1>2. \A i \in 1..Len(r) : r[i][2] = v \/ \E j \in 1..Len(es) : r[i] = es[j]
  BY <1>1, RememberOK
<1> HIDE DEF r
<1>3. AllReal(r)
  BY <1>2 DEF AllReal
<1> QED BY <1>3 DEF r

LEMMA LevelIn ==
  ASSUME NEW es, ListOK(es), NEW k, Known(es, k)
  PROVE  LevelOf(es, k) \in Percents /\ (AllReal(es) => LevelOf(es, k) \in Real)
<1>1. Index(es, k) \in DOMAIN es
  BY DEF Known, Index
<1>2. DOMAIN es = 1..Len(es) /\ \A i \in 1..Len(es) : es[i] \in Devices \X Percents
  BY DEF ListOK
<1> QED BY <1>1, <1>2 DEF LevelOf, AllReal

\* What a volume is read as, and set to.
LEMMA PutGet ==
  ASSUME NEW t \in States, NEW how
  PROVE  /\ Get(t, how) \in Percents \union {Unknown} /\ (how # "down" => Get(t, how) = t.vol)
         /\ Get(t, how) # Unknown => Get(t, how) = t.vol
         /\ \A v \in Percents : /\ Put(t, v, how) \in States
                                /\ Put(t, v, how).vol \in {t.vol, v}
                                /\ how = "up" => Put(t, v, how).vol = v
                                /\ Put(t, v, how).entries = t.entries
                                /\ Put(t, v, how).active = t.active
                                /\ Put(t, v, how).duck = t.duck
                                /\ Put(t, v, how).dirty = t.dirty
<1>0. t.vol \in Percents
  BY DEF States
<1>1. t.vol # Unknown
  BY <1>0 DEF Percents, Unknown
<1>2. /\ Get(t, how) \in Percents \union {Unknown} /\ (how # "down" => Get(t, how) = t.vol)
      /\ Get(t, how) # Unknown => Get(t, how) = t.vol
  BY <1>0, <1>1 DEF Get
<1>3. ASSUME NEW v \in Percents
      PROVE  LET x == [t EXCEPT !.vol = v]
             IN  /\ x \in States /\ x.vol = v /\ x.entries = t.entries
                 /\ x.active = t.active /\ x.duck = t.duck /\ x.dirty = t.dirty
  BY <1>3 DEF States
<1> QED BY <1>1, <1>2, <1>3 DEF Put

LEMMA DuckTypes ==
  ASSUME NEW t \in States, IsOn(t)
  PROVE  Base(t) \in Percents /\ Low(t) \in Percents /\ t.duck = Duck(Base(t), Low(t))
  BY DEF States, IsOn, Base, Low, Duck

\* switch_to(): in order; and if the volume doesn't slip, it is one that was chosen.
LEMMA SwitchedOK ==
  ASSUME NEW t, StateOK(t), NEW key \in Devices, NEW how
  PROVE  LET u == Switched(t, key, how)
         IN  /\ StateOK(u) /\ u.active = key /\ u.duck = NoDuck /\ u.dirty = FALSE
             /\ Chosen(t) /\ ~Slips(t, u) /\ key # t.active => Chosen(u)
<1> DEFINE cur    == IF IsOn(t) THEN Base(t) ELSE Get(t, how)
           noted  == IF t.active # Nobody /\ cur >= 0 THEN Remember(t.entries, t.active, cur)
                     ELSE t.entries
           target == IF Known(noted, key) THEN LevelOf(noted, key)
                     ELSE IF cur > NewMax THEN NewMax ELSE cur
           set    == IF target >= 0 /\ target # cur THEN Put(t, target, how) ELSE t
           es     == IF target >= 0 THEN Remember(noted, key, target) ELSE noted
           u      == [set EXCEPT !.active = key, !.duck = NoDuck, !.dirty = FALSE, !.entries = es]
<1>0. Switched(t, key, how) = u
  BY DEF Switched
<1>1. t \in States /\ ListOK(t.entries) /\ t.active \in Devices \union {Nobody} /\ t.vol \in Percents
  BY DEF StateOK, States
<1>2. cur \in Percents \union {Unknown}
  BY <1>1, PutGet, DuckTypes
<1> HIDE DEF cur
<1>3. (t.active # Nobody /\ cur >= 0) => t.active \in Devices /\ cur \in Percents
  BY <1>1, <1>2, Constants DEF Percents
<1>4. ListOK(noted)
  BY <1>1, <1>3, RememberOK
<1> HIDE DEF noted
<1>5. target \in Percents \union {Unknown} /\ (target >= 0 => target \in Percents)
  BY <1>2, <1>4, LevelIn, Constants DEF Percents
<1> HIDE DEF target
<1>6. ListOK(es)
  BY <1>4, <1>5, RememberOK
<1>7. set \in States
  BY <1>1, <1>5, PutGet
<1> HIDE DEF es, set
<1>8. u \in States /\ u.active = key /\ u.duck = NoDuck /\ u.dirty = FALSE /\ u.entries = es
  BY <1>6, <1>7 DEF States, ListOK
<1>9. StateOK(u)
  BY <1>6, <1>8 DEF StateOK, IsOn
<1>10. ASSUME Chosen(t), ~Slips(t, u), key # t.active PROVE Chosen(u)
  <2> HIDE DEF u
  <2>1. t.active # Nobody => VolReal(t)
    BY <1>10 DEF Chosen, AllKnown
  <2>2. VolReal(t) => cur \in Real \union {Unknown}
    BY <1>1, PutGet DEF VolReal, cur, Lowered
  <2>3. AllReal(noted)
    BY <1>1, <1>3, <1>10, <2>1, <2>2, RememberReal, Constants DEF noted, Chosen
  <2>4. target >= 0 => target \in Real
    <3>1. CASE Known(noted, key)
      BY <3>1, <1>4, <2>3, LevelIn DEF target
    <3>2. CASE ~Known(noted, key)
      <4>1. noted = t.entries \/ t.active # Nobody
        BY DEF noted
      <4>2. VolReal(t)
        BY <4>1, <3>2, <2>1, <1>10 DEF Chosen, AllKnown
      <4>3. cur \in Real \union {Unknown}
        BY <4>2, <2>2
      <4> QED BY <4>3, <3>2, Constants DEF target, Real, Percents
    <3> QED BY <3>1, <3>2
  <2>5. AllReal(es)
    BY <2>3, <2>4, <1>4, RememberReal DEF es
  <2>6. Known(u.entries, key) /\ LevelOf(u.entries, key) = u.vol
    BY <1>8, <1>10 DEF Slips
  <2>7. u.vol \in Real
    BY <2>5, <2>6, <1>6, <1>8, LevelIn
  <2> QED BY <2>5, <2>7, <1>8 DEF Chosen, VolReal, IsOn
<1> QED BY <1>0, <1>8, <1>9, <1>10

\* poll_cb() when the device has not changed: the volume stays, and what is
\* remembered of it is not a lowered one.
LEMMA RecordedOK ==
  ASSUME NEW t, StateOK(t), NEW how
  PROVE  LET u == Recorded(t, how)
         IN  /\ StateOK(u) /\ u.active = t.active /\ u.vol = t.vol
             /\ u = t \/ u.duck = NoDuck
             /\ t.active = Nobody => u = t
             /\ Chosen(t) => Chosen(u)
<1> DEFINE v  == Get(t, how)
           es == Remember(t.entries, t.active, v)
           a  == [t EXCEPT !.duck = NoDuck, !.dirty = TRUE, !.entries = es]
           b  == [t EXCEPT !.duck = NoDuck, !.dirty = FALSE]
           u  == Recorded(t, how)
<1>1. t \in States /\ ListOK(t.entries) /\ t.active \in Devices \union {Nobody}
  BY DEF StateOK, States
<1>2. v \in Percents \union {Unknown} /\ (v # Unknown => v = t.vol)
  BY <1>1, PutGet
<1>3. v >= 0 => v \in Percents
  BY <1>2, Constants DEF Percents
<1>4. CASE t.active = Nobody \/ v < 0 \/ (IsOn(t) /\ v = Low(t))
  <2>1. u = t
    BY <1>4 DEF Recorded
  <2> QED BY <2>1
<1>5. CASE ~(t.active = Nobody \/ v < 0 \/ (IsOn(t) /\ v = Low(t)))
  <2>1. v \in Percents /\ v = t.vol /\ t.active \in Devices /\ ~Lowered(t)
    BY <1>1, <1>2, <1>3, <1>5, Constants DEF Lowered, Percents
  <2> HIDE DEF v
  <2>2. ListOK(es)
    BY <2>1, <1>1, RememberOK
  <2>3. Chosen(t) => t.vol \in Real /\ AllReal(t.entries) /\ AllReal(es)
    BY <2>1, <1>1, RememberReal, Constants DEF Chosen, VolReal, AllKnown
  <2> HIDE DEF es
  <2>4. /\ a \in States /\ a.entries = es /\ a.duck = NoDuck /\ a.vol = t.vol /\ a.active = t.active
        /\ b \in States /\ b.entries = t.entries /\ b.duck = NoDuck /\ b.vol = t.vol /\ b.active = t.active
    BY <1>1, <2>2 DEF States, ListOK
  <2>5. u \in {a, b}
    BY <1>5 DEF Recorded, v, es
  <2> HIDE DEF a, b, u
  <2>6. StateOK(u) /\ u.active = t.active /\ u.vol = t.vol /\ u.duck = NoDuck
    BY <1>1, <2>2, <2>4, <2>5 DEF StateOK, IsOn
  <2>7. Chosen(t) => Chosen(u)
    BY <2>3, <2>4, <2>5, <2>6 DEF Chosen, VolReal, IsOn
  <2> QED BY <2>1, <2>6, <2>7, Constants DEF u
<1> QED BY <1>4, <1>5

\* A share of a level isn't above it.
LEMMA Share ==
  ASSUME NEW b \in Percents, NEW p \in 0..99
  PROVE  (b * p) \div 100 \in Percents /\ (b * p) \div 100 <= b
<1>1. b \in Nat /\ b <= 100 /\ p \in Nat /\ 100 - p \in Nat
  BY DEF Percents
<1>2. b * (100 - p) \in Nat /\ b * p \in Nat
  BY <1>1
<1>3. b * 100 = b * p + b * (100 - p)
  BY <1>1
<1>4. b * p <= b * 100
  BY <1>2, <1>3
<1> DEFINE x == b * p
<1> HIDE DEF x
<1>5. x \in Nat /\ x <= b * 100
  BY <1>2, <1>4 DEF x
<1>6. x \div 100 \in Nat /\ x \div 100 <= b
  BY <1>1, <1>5
<1> QED BY <1>1, <1>6 DEF x, Percents

\* rpod_volume_memory_duck(): in order; a level that slips is the only way to one
\* that was not chosen; and up it goes from a lowered level only, to the one before.
LEMMA DuckedOK ==
  ASSUME NEW t, StateOK(t), NEW p \in 0..100, NEW how
  PROVE  LET u == Ducked(t, p, how)
         IN  /\ StateOK(u) /\ u.active = t.active /\ u.entries = t.entries /\ u.dirty = t.dirty
             /\ how = "up" => IF p = 100 THEN u.duck = NoDuck ELSE Lowered(u)
             /\ Chosen(t) /\ ~Slips(t, u) => Chosen(u)
             /\ u.vol > t.vol => Lowered(t) /\ u.vol <= Base(t)
<1> DEFINE u == Ducked(t, p, how)
<1>1. t \in States /\ ListOK(t.entries) /\ t.vol \in Percents
  BY DEF StateOK, States
<1>2. CASE how = "down"
  <2>1. u = t
    BY <1>2 DEF Ducked
  <2> QED BY <2>1, <1>1, <1>2 DEF Percents
<1>3. CASE how # "down" /\ p = 100
  <2> DEFINE x == IF Lowered(t) THEN Put(t, Base(t), how) ELSE t
             y == [x EXCEPT !.duck = NoDuck]
  <2>1. u = y
    BY <1>3 DEF Ducked
  <2>2. Lowered(t) => IsOn(t) /\ Base(t) \in Percents
    BY <1>1, DuckTypes DEF Lowered
  <2>3. /\ x \in States /\ x.entries = t.entries /\ x.active = t.active /\ x.dirty = t.dirty
        /\ x.vol \in Percents /\ (~Lowered(t) => x.vol = t.vol)
        /\ Lowered(t) => x.vol \in {t.vol, Base(t)}
    BY <1>1, <2>2, PutGet
  <2> HIDE DEF x
  <2>4. /\ y \in States /\ y.entries = t.entries /\ y.active = t.active /\ y.dirty = t.dirty
        /\ y.vol = x.vol /\ y.duck = NoDuck
    BY <2>3 DEF States
  <2> HIDE DEF y
  <2>5. StateOK(y)
    BY <2>4, <1>1 DEF StateOK, IsOn
  <2>6. ASSUME Chosen(t), ~Slips(t, y) PROVE Chosen(y)
    <3>1. CASE AllKnown(t)
      BY <3>1, <2>4, <2>6 DEF Chosen, AllKnown
    <3>2. CASE VolReal(t) /\ ~Lowered(t)
      BY <3>2, <2>3, <2>4, <2>6 DEF Chosen, VolReal, IsOn
    <3>3. CASE VolReal(t) /\ Lowered(t)
      <4>1. t.duck # NoDuck /\ Base(t) \in Real
        BY <3>3 DEF VolReal, Lowered, IsOn
      <4>2. y # t /\ ~IsOn(y)
        BY <4>1, <2>4 DEF IsOn
      <4>3. y.vol = Base(t)
        BY <4>2, <3>3, <2>4, <2>6 DEF Slips
      <4> QED BY <4>1, <4>2, <4>3, <2>4, <2>6 DEF Chosen, VolReal
    <3> QED BY <3>1, <3>2, <3>3, <2>6 DEF Chosen
  <2>7. y.vol > t.vol => Lowered(t) /\ y.vol <= Base(t)
    BY <2>2, <2>3, <2>4, <1>1 DEF Percents
  <2> QED BY <1>3, <2>1, <2>4, <2>5, <2>6, <2>7
<1>4. CASE how # "down" /\ p # 100
  <2> DEFINE base == IF Lowered(t) THEN Base(t) ELSE t.vol
             low  == (base * p) \div 100
             x    == Put(t, low, how)
             y    == [x EXCEPT !.duck = Duck(base, low)]
  <2>1. u = y
    BY <1>4 DEF Ducked
  <2>2. base \in Percents
    BY <1>1, DuckTypes DEF Lowered
  <2>a. Lowered(t) => IsOn(t) /\ base = Base(t)
    BY DEF Lowered
  <2>b. ~Lowered(t) => base = t.vol
    OBVIOUS
  <2>c. Chosen(t) /\ VolReal(t) => base \in Real
    BY <2>a, <2>b DEF VolReal
  <2> HIDE DEF base
  <2>3. low \in Percents /\ low <= base
    BY <1>4, <2>2, Share
  <2> HIDE DEF low
  <2>4. /\ x \in States /\ x.entries = t.entries /\ x.active = t.active /\ x.dirty = t.dirty
        /\ x.vol \in {t.vol, low} /\ (how = "up" => x.vol = low)
    BY <1>1, <2>3, PutGet
  <2> HIDE DEF x
  <2>5. /\ y \in States /\ y.entries = t.entries /\ y.active = t.active /\ y.dirty = t.dirty
        /\ y.vol = x.vol /\ y.duck = Duck(base, low)
    BY <2>2, <2>3, <2>4 DEF States, Duck
  <2> HIDE DEF y
  <2>6. IsOn(y) /\ Base(y) = base /\ Low(y) = low
    BY <2>5, NotOn DEF IsOn, Base, Low, Duck
  <2>7. StateOK(y)
    BY <2>3, <2>5, <2>6, <1>1 DEF StateOK
  <2>8. how = "up" => Lowered(y)
    BY <2>4, <2>5, <2>6 DEF Lowered
  <2>9. ASSUME Chosen(t), ~Slips(t, y) PROVE Chosen(y)
    <3>1. CASE AllKnown(t)
      BY <3>1, <2>5, <2>9 DEF Chosen, AllKnown
    <3>2. CASE VolReal(t)
      <4>1. base \in Real
        BY <3>2, <2>9, <2>c
      <4>2. Lowered(y) \/ y.vol \in Real
        <5>1. CASE ~Lowered(t)
          BY <5>1, <3>2, <2>4, <2>5, <2>6 DEF VolReal, Lowered
        <5>2. CASE Lowered(t) /\ y # t
          BY <5>2, <2>5, <2>6, <2>9 DEF Slips, Lowered
        <5>3. CASE Lowered(t) /\ y = t
          BY <5>3
        <5> QED BY <5>1, <5>2, <5>3
      <4> QED BY <4>1, <4>2, <2>5, <2>6, <2>9 DEF Chosen, VolReal
    <3> QED BY <3>1, <3>2, <2>9 DEF Chosen
  <2>10. y.vol > t.vol => Lowered(t) /\ y.vol <= Base(t)
    BY <2>a, <2>b, <2>2, <2>3, <2>4, <2>5, <1>1 DEF Percents
  <2> QED BY <1>4, <2>1, <2>5, <2>7, <2>8, <2>9, <2>10
<1> QED BY <1>2, <1>3, <1>4

\* A callback's end keeps the levels in order.
LEMMA BecomesKeeps ==
  ASSUME SoundTypes, SavedYet, ChosenAlways, NEW t, NEW u, Becomes(t, u), StateOK(u),
         Chosen(s) /\ ~Slips(s, t) /\ ~Slips(t, u) => Chosen(u),
         u.active = Nobody => u.entries = s.entries /\ s.active = Nobody
  PROVE  /\ StateOK(s') /\ ListOK(saved') /\ slipped' \in BOOLEAN
         /\ SavedYet' /\ ChosenAlways'
<1>1. s' = u /\ saved' \in {saved, u.entries} /\ slipped' = (slipped \/ Slips(s, t) \/ Slips(t, u))
  BY DEF Becomes
<1>2. StateOK(s') /\ ListOK(saved') /\ slipped' \in BOOLEAN
  BY <1>1 DEF SoundTypes, StateOK
<1>3. SavedYet'
  BY <1>1 DEF SavedYet
<1>4. ~slipped' => Chosen(s') /\ AllReal(saved')
  BY <1>1 DEF ChosenAlways, Chosen
<1>5. ChosenAlways'
  BY <1>4 DEF ChosenAlways
<1> QED BY <1>2, <1>3, <1>5

LEMMA StaysHere ==
  ASSUME SoundTypes, SavedYet, ChosenAlways, Sets(s)
  PROVE  /\ StateOK(s') /\ ListOK(saved') /\ slipped' \in BOOLEAN
         /\ SavedYet' /\ ChosenAlways'
<1>1. StateOK(s)
  BY DEF SoundTypes
<1> QED BY <1>1, BecomesKeeps DEF Sets

LEMMA DuckKeeps ==
  ASSUME SoundTypes, SavedYet, ChosenAlways, NEW p \in 0..100, NEW how,
         Sets(Ducked(s, p, how))
  PROVE  /\ StateOK(s') /\ ListOK(saved') /\ slipped' \in BOOLEAN
         /\ SavedYet' /\ ChosenAlways'
<1> DEFINE u == Ducked(s, p, how)
<1>1. StateOK(s)
  BY DEF SoundTypes
<1>2. /\ StateOK(u) /\ u.active = s.active /\ u.entries = s.entries
      /\ Chosen(s) /\ ~Slips(s, u) => Chosen(u)
  BY <1>1, DuckedOK
<1> HIDE DEF u
<1>3. Becomes(s, u)
  BY DEF Sets, u
<1>4. Chosen(s) /\ ~Slips(s, s) /\ ~Slips(s, u) => Chosen(u)
  BY <1>2
<1>5. u.active = Nobody => u.entries = s.entries /\ s.active = Nobody
  BY <1>2
<1> QED BY <1>2, <1>3, <1>4, <1>5, BecomesKeeps

\* evaluate()
LEMMA EvaluatedOK ==
  ASSUME StateOK(s), NEW key \in Devices \union {Nobody}, NEW how
  PROVE  LET t == Evaluated(s, key, how)
         IN  /\ StateOK(t) /\ (Chosen(s) /\ ~Slips(s, t) => Chosen(t))
             /\ t = s \/ (t.active = key /\ key \in Devices /\ key # s.active /\ t.duck = NoDuck)
<1>1. CASE key \in {s.active, Nobody}
  BY <1>1 DEF Evaluated
<1>2. CASE key \notin {s.active, Nobody}
  <2>1. key \in Devices /\ Evaluated(s, key, how) = Switched(s, key, how)
    BY <1>2 DEF Evaluated
  <2> DEFINE t == Switched(s, key, how)
  <2>2. /\ StateOK(t) /\ t.active = key /\ t.duck = NoDuck
        /\ Chosen(s) /\ ~Slips(s, t) /\ key # s.active => Chosen(t)
    BY <2>1, SwitchedOK
  <2>3. key # s.active
    BY <1>2
  <2> HIDE DEF t
  <2>4. Evaluated(s, key, how) = t
    BY <2>1 DEF t
  <2> QED BY <2>1, <2>2, <2>3, <2>4
<1> QED BY <1>1, <1>2

\* Any device that is there is one.
LEMMA KeysIn ==
  ASSUME SoundTypes, NEW h \in SUBSET Headsets, NEW b, NEW key \in CurrentKeys(h, b)
  PROVE  key \in Devices \union {Nobody}
<1>1. s.active \in Devices \union {Nobody} /\ speaker \in Speakers \union {Nobody}
  BY DEF SoundTypes, StateOK, States
<1> QED BY <1>1, Constants DEF CurrentKeys

LEMMA AnswersFaults ==
  ASSUME SoundTypes, NEW how, Answers(how)
  PROVE  how \in Mpds /\ faults' \in Nat /\ (faults' = 0 => faults = 0 /\ how = "up")
  BY DEF SoundTypes, Answers, Mpds

LEMMA SoundInit == Init => SoundInv
<1> SUFFICES ASSUME Init PROVE SoundInv
  OBVIOUS
<1>1. /\ s.vol \in Levels /\ s.active = Nobody /\ s.entries = <<>> /\ s.duck = NoDuck
      /\ s \in [vol : Levels, active : {Nobody}, entries : {<<>>}, dirty : {FALSE}, duck : {NoDuck}]
  BY DEF Init
<1>2. <<>> \in Seq(Devices \X Percents) /\ Len(<<>>) = 0
  OBVIOUS
<1>3. s \in States
  BY <1>1, <1>2, Constants DEF States
<1>4. StateOK(s) /\ ListOK(saved)
  BY <1>1, <1>2, <1>3, Constants DEF StateOK, ListOK, IsOn, Init
<1>5. SoundTypes
  <2>1. /\ heads = {} /\ bluez = FALSE /\ speaker = Nobody /\ ringing = FALSE /\ pct = 0
        /\ talking = FALSE /\ slipped = FALSE /\ faults = 0
    BY DEF Init
  <2>2. pct \in 0..99 /\ faults \in Nat /\ heads \in SUBSET Headsets
    BY <2>1
  <2> QED BY <1>4, <2>1, <2>2 DEF SoundTypes
<1>6. SavedYet
  BY <1>1 DEF SavedYet, Init
<1>7. AllReal(s.entries) /\ AllReal(saved)
  BY <1>1, <1>2 DEF AllReal, Init
<1>8. VolReal(s)
  BY <1>1 DEF VolReal, IsOn, Real
<1>9. ChosenAlways
  BY <1>7, <1>8 DEF ChosenAlways, Chosen
<1>10. NothingLeftLowered
  BY <1>1 DEF NothingLeftLowered, Lowered, IsOn
<1> QED BY <1>5, <1>6, <1>9, <1>10 DEF SoundInv

\* What is left of an action, once the levels are in order.
LEMMA SoundParts ==
  ASSUME StateOK(s'), ListOK(saved'), slipped' \in BOOLEAN, SavedYet', ChosenAlways',
         speaker' \in Speakers \union {Nobody}, heads' \in SUBSET Headsets,
         ringing' \in BOOLEAN, talking' \in BOOLEAN, bluez' \in BOOLEAN,
         pct' \in 0..99, faults' \in Nat, NothingLeftLowered'
  PROVE  SoundInv'
<1>1. SoundTypes'
  BY DEF SoundTypes
<1> QED BY <1>1 DEF SoundInv

LEMMA PollKeeps == SoundInv /\ VolumePoll => SoundInv'
<1> SUFFICES ASSUME SoundInv, VolumePoll PROVE SoundInv'
  OBVIOUS
<1> USE DEF SoundInv
<1>1. PICK how \in Mpds, key \in CurrentKeys(heads, bluez) :
        /\ Answers(how)
        /\ LET t == Evaluated(s, key, how) IN Becomes(t, Recorded(t, how))
        /\ UNCHANGED <<outside, fade, talking>>
  BY DEF VolumePoll, Mpds
<1> DEFINE t == Evaluated(s, key, how)
           u == Recorded(t, how)
<1>2. key \in Devices \union {Nobody}
  BY KeysIn DEF SoundTypes
<1>3. /\ StateOK(t) /\ (Chosen(s) /\ ~Slips(s, t) => Chosen(t))
      /\ t = s \/ (t.active = key /\ key \in Devices /\ key # s.active /\ t.duck = NoDuck)
  BY <1>2, EvaluatedOK DEF SoundTypes
<1>4. Becomes(t, u)
  BY <1>1
<1> HIDE DEF t
<1>5. /\ StateOK(u) /\ u.active = t.active /\ u.vol = t.vol /\ (u = t \/ u.duck = NoDuck)
      /\ (t.active = Nobody => u = t) /\ (Chosen(t) => Chosen(u))
  BY <1>3, RecordedOK
<1> HIDE DEF u
<1>6. Chosen(s) /\ ~Slips(s, t) /\ ~Slips(t, u) => Chosen(u)
  BY <1>3, <1>5
<1>7. u.active = Nobody => u.entries = s.entries /\ s.active = Nobody
  BY <1>3, <1>5, Constants
<1>8. /\ StateOK(s') /\ ListOK(saved') /\ slipped' \in BOOLEAN
      /\ SavedYet' /\ ChosenAlways'
  BY <1>4, <1>5, <1>6, <1>7, BecomesKeeps
<1>9. faults' \in Nat /\ (faults' = 0 => faults = 0)
  BY <1>1, AnswersFaults
<1>10. u = s \/ u.duck = NoDuck
  BY <1>3, <1>5
<1>11. s' = u
  BY <1>4 DEF Becomes
<1>12. pct' = pct /\ talking' = talking /\ ringing' = ringing /\ heads' = heads /\ bluez' = bluez /\ speaker' = speaker
  BY <1>1 DEF outside, fade
<1>13. NothingLeftLowered'
  BY <1>9, <1>10, <1>11, <1>12 DEF NothingLeftLowered, Lowered, IsOn
<1> QED BY <1>8, <1>9, <1>12, <1>13, SoundParts DEF SoundTypes

LEMMA BtKeeps == SoundInv /\ BtChange => SoundInv'
<1> SUFFICES ASSUME SoundInv, BtChange PROVE SoundInv'
  OBVIOUS
<1> USE DEF SoundInv
<1> DEFINE gone == talking /\ Buds \notin heads'
<1>1. PICK how \in Mpds :
        /\ Answers(how) /\ bluez' \in BOOLEAN /\ heads' \in SUBSET Headsets
        /\ talking' = (talking /\ ~gone)
        /\ \E key \in CurrentKeys(heads', bluez') :
             LET t == Evaluated(s, key, how)
             IN  Becomes(t, IF gone THEN Ducked(t, 100, how) ELSE t)
        /\ UNCHANGED <<speaker, fade>>
  BY DEF BtChange, Mpds
<1>2. PICK key \in CurrentKeys(heads', bluez') :
        LET t == Evaluated(s, key, how)
        IN  Becomes(t, IF gone THEN Ducked(t, 100, how) ELSE t)
  BY <1>1
<1>3. key \in Devices \union {Nobody}
  BY <1>1, KeysIn DEF SoundTypes
<1> DEFINE t == Evaluated(s, key, how)
           d == Ducked(t, 100, how)
           u == IF gone THEN d ELSE t
<1>4. /\ StateOK(t) /\ (Chosen(s) /\ ~Slips(s, t) => Chosen(t))
      /\ t = s \/ (t.active = key /\ key \in Devices /\ key # s.active /\ t.duck = NoDuck)
  BY <1>3, EvaluatedOK DEF SoundTypes
<1>5. Becomes(t, u)
  BY <1>2
<1> HIDE DEF t
<1>6. /\ StateOK(d) /\ d.active = t.active /\ d.entries = t.entries
      /\ how = "up" => d.duck = NoDuck
      /\ Chosen(t) /\ ~Slips(t, d) => Chosen(d)
  BY <1>4, DuckedOK
<1> HIDE DEF d
<1>7. /\ StateOK(u) /\ u.active = t.active /\ u.entries = t.entries
      /\ (Chosen(t) /\ ~Slips(t, u) => Chosen(u)) /\ (how = "up" /\ gone => u.duck = NoDuck)
      /\ ~gone => u = t
  BY <1>4, <1>6
<1> HIDE DEF u
<1>8. Chosen(s) /\ ~Slips(s, t) /\ ~Slips(t, u) => Chosen(u)
  BY <1>4, <1>7
<1>9. u.active = Nobody => u.entries = s.entries /\ s.active = Nobody
  BY <1>4, <1>7, Constants
<1>10. /\ StateOK(s') /\ ListOK(saved') /\ slipped' \in BOOLEAN
       /\ SavedYet' /\ ChosenAlways'
  BY <1>5, <1>7, <1>8, <1>9, BecomesKeeps
<1>11. faults' \in Nat /\ (faults' = 0 => faults = 0 /\ how = "up")
  BY <1>1, AnswersFaults
<1>12. s' = u
  BY <1>5 DEF Becomes
<1>13. pct' = pct /\ ringing' = ringing /\ speaker' = speaker /\ talking' \in BOOLEAN
  BY <1>1 DEF fade
<1>14. ~talking' /\ ~gone => ~talking
  BY <1>1 DEF SoundTypes
<1>15. NothingLeftLowered'
  BY <1>4, <1>7, <1>11, <1>12, <1>13, <1>14 DEF NothingLeftLowered, Lowered, IsOn
<1> QED BY <1>1, <1>10, <1>11, <1>13, <1>15, SoundParts DEF SoundTypes

LEMMA AlarmKeeps ==
  SoundInv /\ (AlarmGoesOff \/ Fade \/ AlarmEnds \/ AlarmDismissed) => SoundInv'
<1> SUFFICES ASSUME SoundInv, AlarmGoesOff \/ Fade \/ AlarmEnds \/ AlarmDismissed PROVE SoundInv'
  OBVIOUS
<1> USE DEF SoundInv
<1>0. StateOK(s) /\ pct \in 0..99 /\ talking \in BOOLEAN /\ FadeStart \in 1..99 /\ FadeStep \in Nat
  BY Constants DEF SoundTypes
<1>1. CASE AlarmGoesOff
  <2>1. PICK how \in Mpds :
          /\ ringing' = TRUE /\ Answers(how) /\ Sets(Ducked(s, FadeStart, how))
          /\ pct' = (IF IsDucked(Ducked(s, FadeStart, how), how) THEN FadeStart ELSE 0)
          /\ UNCHANGED <<outside, talking>>
    BY <1>1 DEF AlarmGoesOff, Mpds
  <2> DEFINE u == Ducked(s, FadeStart, how)
  <2>2. FadeStart \in 0..100 /\ FadeStart # 100
    BY <1>0
  <2>3. /\ StateOK(s') /\ ListOK(saved') /\ slipped' \in BOOLEAN
        /\ SavedYet' /\ ChosenAlways'
    BY <2>1, <2>2, DuckKeeps
  <2>4. how = "up" => Lowered(u)
    BY <1>0, <2>2, DuckedOK
  <2>5. s' = u /\ pct' = (IF IsDucked(u, how) THEN FadeStart ELSE 0)
    BY <2>1 DEF Sets, Becomes
  <2> HIDE DEF u
  <2>6. faults' \in Nat /\ (faults' = 0 => how = "up")
    BY <2>1, AnswersFaults
  <2>7. pct' \in 0..99 /\ (faults' = 0 => pct' # 0)
    BY <1>0, <2>4, <2>5, <2>6 DEF IsDucked
  <2>8. NothingLeftLowered'
    BY <2>7 DEF NothingLeftLowered
  <2> QED BY <2>1, <2>3, <2>6, <2>7, <2>8, SoundParts DEF SoundTypes, outside
<1>2. ASSUME NEW how, Answers(how), EndFade(how), UNCHANGED <<outside, talking>>, ringing' \in BOOLEAN
      PROVE  SoundInv'
  <2>1. /\ StateOK(s') /\ ListOK(saved') /\ slipped' \in BOOLEAN
        /\ SavedYet' /\ ChosenAlways'
    <3>1. CASE pct # 0 /\ IsDucked(s, how)
      BY <1>2, <3>1, DuckKeeps DEF EndFade
    <3>2. CASE ~(pct # 0 /\ IsDucked(s, how))
      BY <1>2, <3>2, StaysHere DEF EndFade
    <3> QED BY <3>1, <3>2
  <2>2. faults' \in Nat /\ (faults' = 0 => faults = 0 /\ how = "up")
    BY <1>2, AnswersFaults
  <2>3. pct' = 0 /\ talking' = talking /\ s' = IF pct # 0 /\ IsDucked(s, how) THEN Ducked(s, 100, how) ELSE s
    BY <1>2 DEF EndFade, Sets, Becomes
  <2>4. how = "up" => Ducked(s, 100, how).duck = NoDuck
    BY <1>0, DuckedOK
  <2>5. NothingLeftLowered'
    <3>1. CASE pct # 0 /\ IsDucked(s, how)
      BY <3>1, <2>2, <2>3, <2>4 DEF NothingLeftLowered, Lowered, IsOn
    <3>2. CASE pct = 0
      BY <3>2, <2>2, <2>3 DEF NothingLeftLowered
    <3>3. CASE ~IsDucked(s, how)
      BY <3>3, <2>2, <2>3 DEF NothingLeftLowered, IsDucked
    <3> QED BY <3>1, <3>2, <3>3
  <2>6. heads' = heads /\ bluez' = bluez /\ speaker' = speaker
    BY <1>2 DEF outside
  <2> QED BY <1>2, <2>1, <2>2, <2>3, <2>5, <2>6, SoundParts DEF SoundTypes
<1>3. CASE AlarmEnds
  BY <1>2, <1>3 DEF AlarmEnds
<1>4. CASE Fade
  <2>1. PICK how \in Mpds :
          /\ pct # 0 /\ Answers(how)
          /\ IF ~IsDucked(s, how) THEN pct' = 0 /\ Sets(s)
             ELSE IF pct + FadeStep >= 100 THEN EndFade(how)
             ELSE pct' = pct + FadeStep /\ Sets(Ducked(s, pct', how))
          /\ UNCHANGED <<outside, ringing, talking>>
    BY <1>4 DEF Fade, Mpds
  <2>2. faults' \in Nat /\ (faults' = 0 => how = "up")
    BY <2>1, AnswersFaults
  <2>3. heads' = heads /\ bluez' = bluez /\ speaker' = speaker /\ ringing' = ringing /\ talking' = talking
    BY <2>1 DEF outside
  <2>4. CASE ~IsDucked(s, how)
    <3>1. /\ StateOK(s') /\ ListOK(saved') /\ slipped' \in BOOLEAN
          /\ SavedYet' /\ ChosenAlways'
      BY <2>1, <2>4, StaysHere
    <3>2. s' = s /\ pct' = 0
      BY <2>1, <2>4 DEF Sets, Becomes
    <3>3. NothingLeftLowered'
      BY <3>2, <2>2, <2>4 DEF NothingLeftLowered, IsDucked
    <3> QED BY <3>1, <3>2, <3>3, <2>2, <2>3, SoundParts DEF SoundTypes
  <2>5. CASE IsDucked(s, how) /\ pct + FadeStep >= 100
    BY <1>2, <2>1, <2>3, <2>5 DEF SoundTypes
  <2>6. CASE IsDucked(s, how) /\ ~(pct + FadeStep >= 100)
    <3>1. pct' = pct + FadeStep /\ Sets(Ducked(s, pct', how)) /\ pct # 0
      BY <2>1, <2>6
    <3>2. pct' \in 0..99 /\ pct' # 0 /\ pct' \in 0..100
      BY <3>1, <1>0, <2>6
    <3>3. /\ StateOK(s') /\ ListOK(saved') /\ slipped' \in BOOLEAN
          /\ SavedYet' /\ ChosenAlways'
      BY <3>1, <3>2, DuckKeeps
    <3>4. NothingLeftLowered'
      BY <3>2 DEF NothingLeftLowered
    <3> QED BY <3>2, <3>3, <3>4, <2>2, <2>3, SoundParts DEF SoundTypes
  <2> QED BY <2>4, <2>5, <2>6
<1>5. CASE AlarmDismissed
  <2>1. ringing' = FALSE /\ UNCHANGED <<s, saved, heads, bluez, speaker, pct, talking, slipped, faults>>
    BY <1>5 DEF AlarmDismissed, outside
  <2> QED BY <2>1 DEF SoundTypes, SavedYet, ChosenAlways, NothingLeftLowered
<1> QED BY <1>1, <1>3, <1>4, <1>5

LEMMA TalkKeeps ==
  SoundInv /\ (TalkEnds \/ \E p \in TalkPercents : Talk(p)) => SoundInv'
<1> SUFFICES ASSUME SoundInv, TalkEnds \/ \E p \in TalkPercents : Talk(p) PROVE SoundInv'
  OBVIOUS
<1> USE DEF SoundInv
<1>1. PICK p \in 0..100, how \in Mpds :
        /\ Answers(how) /\ Sets(Ducked(s, p, how)) /\ UNCHANGED <<outside, fade>>
        /\ talking' \in BOOLEAN /\ (talking' = FALSE => p = 100)
  <2>1. CASE TalkEnds
    <3>1. PICK how \in Mpds : /\ Answers(how) /\ Sets(Ducked(s, 100, how))
                              /\ UNCHANGED <<outside, fade>> /\ talking' = FALSE
      BY <2>1 DEF TalkEnds, Mpds
    <3>2. 100 \in 0..100
      OBVIOUS
    <3> QED BY <3>1, <3>2
  <2>2. ASSUME NEW p \in TalkPercents, Talk(p)
        PROVE \E q \in 0..100, how \in Mpds :
                /\ Answers(how) /\ Sets(Ducked(s, q, how)) /\ UNCHANGED <<outside, fade>>
                /\ talking' \in BOOLEAN /\ (talking' = FALSE => q = 100)
    <3>1. p \in 0..100
      BY <2>2, Constants
    <3> QED BY <2>2, <3>1 DEF Talk, Mpds
  <2> QED BY <2>1, <2>2
<1>2. /\ StateOK(s') /\ ListOK(saved') /\ slipped' \in BOOLEAN
      /\ SavedYet' /\ ChosenAlways'
  BY <1>1, DuckKeeps
<1>3. faults' \in Nat /\ (faults' = 0 => how = "up")
  BY <1>1, AnswersFaults
<1> DEFINE u == Ducked(s, p, how)
<1>4. how = "up" /\ p = 100 => u.duck = NoDuck
  BY DuckedOK DEF SoundTypes
<1>5. s' = u
  BY <1>1 DEF Sets, Becomes
<1> HIDE DEF u
<1>6. NothingLeftLowered'
  BY <1>1, <1>3, <1>4, <1>5 DEF NothingLeftLowered, Lowered, IsOn
<1>7. heads' = heads /\ bluez' = bluez /\ speaker' = speaker /\ ringing' = ringing /\ pct' = pct
  BY <1>1 DEF outside, fade
<1> QED BY <1>1, <1>2, <1>3, <1>6, <1>7, SoundParts DEF SoundTypes

LEMMA OthersKeep ==
  SoundInv /\ (SpeakerChange \/ Crash \/ \E v \in Levels : Turn(v)) => SoundInv'
<1> SUFFICES ASSUME SoundInv, SpeakerChange \/ Crash \/ \E v \in Levels : Turn(v) PROVE SoundInv'
  OBVIOUS
<1> USE DEF SoundInv
<1>1. CASE SpeakerChange
  <2>1. /\ speaker' \in Speakers \union {Nobody}
        /\ UNCHANGED <<s, saved, heads, bluez, ringing, pct, talking, slipped, faults>>
    BY <1>1 DEF SpeakerChange, fade
  <2> QED BY <2>1 DEF SoundTypes, SavedYet, ChosenAlways, NothingLeftLowered
<1>2. CASE Crash
  <2> DEFINE u == [s EXCEPT !.active = Nobody, !.entries = saved, !.dirty = FALSE, !.duck = NoDuck]
  <2>1. /\ faults' = faults + 1 /\ s' = u /\ saved' = saved /\ heads' = {} /\ bluez' = FALSE
        /\ speaker' = Nobody /\ ringing' = FALSE /\ pct' = 0 /\ talking' = FALSE
        /\ slipped' = (slipped \/ (IsOn(s) /\ \E d \in Devices : ~Known(saved, d)))
    BY <1>2 DEF Crash
  <2>2. s \in States /\ ListOK(saved) /\ faults \in Nat /\ slipped \in BOOLEAN
    BY DEF SoundTypes, StateOK
  <2>3. u \in States /\ u.active = Nobody /\ u.entries = saved /\ u.duck = NoDuck /\ u.vol = s.vol
    BY <2>2 DEF States, ListOK
  <2> HIDE DEF u
  <2>4. StateOK(s') /\ ~IsOn(s')
    BY <2>1, <2>2, <2>3 DEF StateOK, IsOn
  <2>5. SavedYet'
    BY <2>1, <2>3 DEF SavedYet
  <2>6. ASSUME ~slipped' PROVE Chosen(s') /\ AllReal(saved')
    <3>1. Chosen(s) /\ AllReal(saved) /\ (IsOn(s) => \A d \in Devices : Known(saved, d))
      BY <2>6, <2>1, <2>2 DEF ChosenAlways
    <3>2. CASE IsOn(s)
      BY <3>1, <3>2, <2>1, <2>3 DEF Chosen, AllKnown
    <3>3. CASE ~IsOn(s) /\ VolReal(s)
      BY <3>1, <3>3, <2>1, <2>3, <2>4 DEF Chosen, VolReal, Lowered
    <3>4. CASE AllKnown(s)
      <4>1. \A d \in Devices : Known(saved, d)
        BY <3>4 DEF AllKnown, SavedYet
      <4> QED BY <4>1, <3>1, <2>1, <2>3 DEF Chosen, AllKnown
    <3> QED BY <3>1, <3>2, <3>3, <3>4 DEF Chosen
  <2>7. ChosenAlways'
    BY <2>6 DEF ChosenAlways
  <2>8. NothingLeftLowered'
    BY <2>4 DEF NothingLeftLowered, Lowered
  <2>9. faults' \in Nat /\ slipped' \in BOOLEAN /\ ListOK(saved')
    BY <2>1, <2>2
  <2>10. /\ speaker' \in Speakers \union {Nobody} /\ heads' \in SUBSET Headsets
         /\ ringing' \in BOOLEAN /\ talking' \in BOOLEAN /\ bluez' \in BOOLEAN
    BY <2>1
  <2>11. pct' \in 0..99
    BY <2>1
  <2> QED BY <2>4, <2>5, <2>7, <2>8, <2>9, <2>10, <2>11, SoundParts
<1>3. ASSUME NEW v \in Levels, Turn(v) PROVE SoundInv'
  <2>1. s' = [s EXCEPT !.vol = v] /\ UNCHANGED <<saved, heads, bluez, speaker, ringing, pct, talking, slipped, faults>>
    BY <1>3 DEF Turn, outside, fade
  <2>2. s \in States /\ StateOK(s) /\ v \in Percents /\ v \in Real
    BY <1>3, Constants DEF SoundTypes, StateOK, Real
  <2>3. s' \in States /\ s'.vol = v /\ s'.active = s.active /\ s'.entries = s.entries /\ s'.duck = s.duck
    BY <2>1, <2>2 DEF States
  <2>4. StateOK(s')
    BY <2>2, <2>3 DEF StateOK, IsOn, Low, Base
  <2>5. SavedYet'
    BY <2>1, <2>3 DEF SavedYet
  <2>6. ASSUME ~slipped' PROVE Chosen(s') /\ AllReal(saved')
    <3>1. Chosen(s) /\ AllReal(saved)
      BY <2>6, <2>1 DEF ChosenAlways
    <3> QED BY <3>1, <2>1, <2>2, <2>3 DEF Chosen, VolReal, AllKnown, Lowered, IsOn, Base
  <2>7. ChosenAlways'
    BY <2>6 DEF ChosenAlways
  <2>8. NothingLeftLowered'
    BY <2>2, <2>3 DEF NothingLeftLowered, Lowered
  <2> QED BY <2>1, <2>4, <2>5, <2>7, <2>8, SoundParts DEF SoundTypes
<1> QED BY <1>1, <1>2, <1>3

LEMMA SoundStep == SoundInv /\ [Next]_vars => SoundInv'
<1> SUFFICES ASSUME SoundInv, [Next]_vars PROVE SoundInv'
  OBVIOUS
<1>1. CASE UNCHANGED vars
  BY <1>1 DEF SoundInv, SoundTypes, SavedYet, ChosenAlways, NothingLeftLowered, vars
<1>2. CASE Next
  BY <1>2, PollKeeps, BtKeeps, AlarmKeeps, TalkKeeps, OthersKeep DEF Next
<1> QED BY <1>1, <1>2

\* Each device has one level in the memory, and it was chosen; with neither the
\* alarm nor a conversation lowering it, the volume isn't left lowered.
THEOREM LevelsInvariant == Spec => []LevelsKept
<1>1. SoundInv => LevelsKept
  <2> SUFFICES ASSUME SoundInv PROVE LevelsKept
    OBVIOUS
  <2>1. s \in States /\ ListOK(s.entries) /\ SoundTypes /\ (IsOn(s) => Low(s) <= Base(s))
    BY DEF SoundInv, SoundTypes, StateOK
  <2>2. s.vol \in Percents /\ s.active \in Devices \union {Nobody}
    BY <2>1 DEF States
  <2>3. IsOn(s) => 0 <= Low(s) /\ Low(s) <= Base(s) /\ Base(s) <= 100
    BY <2>1, DuckTypes DEF Percents
  <2>4. /\ DOMAIN s.entries = 1..Len(s.entries)
        /\ \A i \in 1..Len(s.entries) : s.entries[i] \in Devices \X Percents
    BY <2>1 DEF ListOK
  <2>5. TypeOK
    BY <2>1, <2>2, <2>3, <2>4 DEF TypeOK, SoundTypes, ListOK, Percents
  <2>6. LevelsChosen
    BY <2>4 DEF SoundInv, ChosenAlways, Chosen, AllReal, LevelsChosen
  <2> QED BY <2>5, <2>6 DEF LevelsKept, SoundInv
<1> QED BY <1>1, SoundInit, SoundStep, PTL DEF Spec

\* The volume goes up by itself only from a lowered level, and not above the one
\* before it.
THEOREM RaisesOnlyLowered == Spec => RaisesOnlyItsOwn
<1> DEFINE Up == s'.vol > s.vol /\ s'.active = s.active /\ ~(\E v \in Levels : Turn(v))
                   => Lowered(s) /\ s'.vol <= Base(s)
<1>1. SoundInv /\ [Next]_vars => [Up]_vars
  <2> SUFFICES ASSUME SoundInv, Next, s'.vol > s.vol, s'.active = s.active,
                      ~(\E v \in Levels : Turn(v))
               PROVE  Lowered(s) /\ s'.vol <= Base(s)
    OBVIOUS
  <2>0. SoundTypes /\ StateOK(s) /\ s \in States /\ s.vol \in Percents /\ pct \in 0..99
    BY DEF SoundInv, SoundTypes, StateOK, States
  <2>a. ~(s.vol > s.vol)
    BY <2>0 DEF Percents
  <2>1. ASSUME NEW p \in 0..100, NEW how, Sets(Ducked(s, p, how))
        PROVE  Lowered(s) /\ s'.vol <= Base(s)
    <3>1. s' = Ducked(s, p, how)
      BY <2>1 DEF Sets, Becomes
    <3> DEFINE u == Ducked(s, p, how)
    <3>2. u.vol > s.vol => Lowered(s) /\ u.vol <= Base(s)
      BY <2>0, DuckedOK
    <3> QED BY <3>1, <3>2
  <2>2. ASSUME Sets(s) PROVE FALSE
    BY <2>2, <2>a DEF Sets, Becomes
  <2>3. ASSUME NEW how, EndFade(how) PROVE Lowered(s) /\ s'.vol <= Base(s)
    BY <2>1, <2>2, <2>3 DEF EndFade
  <2>4. CASE VolumePoll
    <3>1. PICK how \in Mpds, key \in CurrentKeys(heads, bluez) :
            LET t == Evaluated(s, key, how) IN Becomes(t, Recorded(t, how))
      BY <2>4 DEF VolumePoll, Mpds
    <3> DEFINE t == Evaluated(s, key, how)
               u == Recorded(t, how)
    <3>2. key \in Devices \union {Nobody}
      BY <2>0, KeysIn DEF SoundTypes
    <3>3. StateOK(t) /\ (t = s \/ (t.active = key /\ key # s.active))
      BY <2>0, <3>2, EvaluatedOK
    <3>4. s' = u
      BY <3>1 DEF Becomes
    <3> HIDE DEF t
    <3>5. u.active = t.active /\ u.vol = t.vol
      BY <3>3, RecordedOK
    <3> HIDE DEF u
    <3> QED BY <3>3, <3>4, <3>5, <2>a
  <2>5. CASE BtChange
    <3> DEFINE b == talking /\ Buds \notin heads'
    <3>1. PICK how \in Mpds, key \in CurrentKeys(heads', bluez') :
            /\ heads' \in SUBSET Headsets
            /\ LET t == Evaluated(s, key, how)
               IN  Becomes(t, IF b THEN Ducked(t, 100, how) ELSE t)
      BY <2>5 DEF BtChange, Mpds
    <3> HIDE DEF b
    <3> DEFINE t == Evaluated(s, key, how)
               d == Ducked(t, 100, how)
    <3>2. key \in Devices \union {Nobody}
      BY <2>0, <3>1, KeysIn
    <3>3. StateOK(t) /\ (t = s \/ (t.active = key /\ key # s.active))
      BY <2>0, <3>2, EvaluatedOK
    <3>4. s' = IF b THEN d ELSE t
      BY <3>1 DEF Becomes
    <3> HIDE DEF t
    <3>5. d.active = t.active /\ (d.vol > t.vol => Lowered(t) /\ d.vol <= Base(t))
      BY <3>3, DuckedOK
    <3> HIDE DEF d
    <3> QED BY <3>3, <3>4, <3>5, <2>a
  <2>6. CASE AlarmGoesOff
    BY <2>1, <2>6, Constants DEF AlarmGoesOff
  <2>7. CASE Fade
    <3>1. FadeStep \in Nat
      BY Constants
    <3>2. PICK how \in {"up", "down", "drops"} :
            IF ~IsDucked(s, how) THEN pct' = 0 /\ Sets(s)
            ELSE IF pct + FadeStep >= 100 THEN EndFade(how)
            ELSE pct' = pct + FadeStep /\ Sets(Ducked(s, pct', how))
      BY <2>7 DEF Fade
    <3>3. CASE ~(pct + FadeStep >= 100) /\ pct' = pct + FadeStep /\ Sets(Ducked(s, pct', how))
      <4>1. pct' \in 0..100
        BY <3>1, <3>3, <2>0
      <4> QED BY <4>1, <3>3, <2>1
    <3> QED BY <3>2, <3>3, <2>2, <2>3
  <2>8. CASE AlarmEnds
    BY <2>3, <2>8 DEF AlarmEnds
  <2>9. CASE TalkEnds
    BY <2>1, <2>9 DEF TalkEnds
  <2>10. ASSUME NEW p \in TalkPercents, Talk(p) PROVE Lowered(s) /\ s'.vol <= Base(s)
    <3>1. p \in 0..100
      BY <2>10, Constants
    <3> QED BY <2>1, <2>10, <3>1 DEF Talk
  <2>11. CASE SpeakerChange \/ AlarmDismissed
    BY <2>11, <2>a DEF SpeakerChange, AlarmDismissed
  <2>12. CASE Crash
    <3>1. s'.vol = s.vol
      BY <2>12, <2>0 DEF Crash, States
    <3> QED BY <3>1, <2>a
  <2> QED BY <2>4, <2>5, <2>6, <2>7, <2>8, <2>9, <2>10, <2>11, <2>12 DEF Next
<1> QED BY <1>1, SoundInit, SoundStep, PTL DEF Spec, RaisesOnlyItsOwn

(***************************************************************************)
(* The alarm's clock.                                                      *)
(***************************************************************************)
Set3   == [enabled : BOOLEAN, at : 0..DayLen - 1, sound : BOOLEAN]
Alarms == [enabled : BOOLEAN, at : 0..DayLen - 1, sound : BOOLEAN, ringing : BOOLEAN,
           snooze : Nat, last : Nat \union {Never}]

AlarmTypes ==
  /\ now \in Nat \ {0} /\ due \in BOOLEAN /\ al \in Alarms /\ afile \in Set3
  /\ clhist \in [rang : SUBSET Nat, wish : BOOLEAN, unsaved : BOOLEAN]
  /\ clcount \in [clicks : Nat, mishaps : Nat, set : BOOLEAN]

\* last_minute is one of those in which it went off or rPod began.
LastRang == (clhist.rang = {} /\ al.last = Never) \/ al.last \in clhist.rang

\* Of the minutes at the alarm's time of day, the others of these are a day back,
\* and after the clock was set still in the past; the last one is not a day ahead.
Gone(m) ==
  IF clcount.set THEN IF m = al.last THEN Minute(now) > m - DayLen ELSE Minute(now) > m
  ELSE IF m = al.last THEN Minute(now) >= m ELSE Minute(now) >= m + DayLen
AllGone == \A m \in clhist.rang : m % DayLen = al.at => Gone(m)

ClockInv == AlarmTypes /\ LastRang /\ AllGone /\ SnoozeAsWanted /\ SetForGood

LEMMA ClockConstants ==
  /\ MinuteLen \in Nat /\ MinuteLen > 0 /\ DayLen \in Nat /\ DayLen > 0
  /\ SnoozeLen \in Nat /\ SnoozeLen > 0 /\ LastCheck \in Nat /\ Never = -1 /\ NoSnooze = 0
  BY ClockAssumption DEF Never, NoSnooze

\* Two minutes at the same time of day are a day apart.
LEMMA DayApart ==
  ASSUME NEW a \in Nat, NEW b \in Nat, a > b, a % DayLen = b % DayLen
  PROVE  a >= b + DayLen
<1> DEFINE D == DayLen
           p == a \div D
           q == b \div D
<1>1. D \in Nat /\ D > 0
  BY ClockConstants
<1> HIDE DEF D
<1>2. p \in Nat /\ a = D * p + (a % D)
  BY <1>1
<1>3. q \in Nat /\ b = D * q + (b % D)
  BY <1>1
<1>4. a % D \in Nat /\ a % D = b % D
  BY <1>1 DEF D
<1> HIDE DEF p, q
<1>5. D * p > D * q
  BY <1>1, <1>2, <1>3, <1>4
<1>6. p >= q + 1
  <2>1. CASE p <= q
    <3>1. D * p <= D * q
      BY <2>1, <1>1, <1>2, <1>3
    <3> QED BY <3>1, <1>1, <1>2, <1>3, <1>5
  <2> QED BY <2>1, <1>2, <1>3
<1>7. D * p >= D * (q + 1)
  BY <1>1, <1>2, <1>3, <1>6
<1>8. D * (q + 1) = D * q + D
  BY <1>1, <1>3
<1>9. a >= b + D
  BY <1>1, <1>2, <1>3, <1>4, <1>7, <1>8
<1> QED BY <1>9 DEF D

\* Time that goes on, or back by less than a day.
LEMMA MinuteOf == ASSUME NEW t \in Nat PROVE Minute(t) \in Nat
  BY ClockConstants DEF Minute

LEMMA MinuteBack ==
  ASSUME NEW t \in Nat, NEW x \in Nat, NEW k \in Nat, t - x <= k * MinuteLen
  PROVE  Minute(x) >= Minute(t) - k
<1> DEFINE L == MinuteLen
           p == t \div L
           q == x \div L
<1>1. L \in Nat /\ L > 0
  BY ClockConstants
<1>2. t - x <= k * L
  OBVIOUS
<1> HIDE DEF L
<1>3. p \in Nat /\ L * p <= t
  BY <1>1
<1>4. q \in Nat /\ x < L * q + L
  BY <1>1
<1> HIDE DEF p, q
<1>5. L * p - k * L < L * q + L
  <2>1. L * p \in Nat /\ k * L \in Nat /\ L * q \in Nat
    BY <1>1, <1>3, <1>4
  <2> QED BY <2>1, <1>1, <1>2, <1>3, <1>4
<1>6. L * p < L * (q + 1 + k)
  <2>1. L * (q + 1 + k) = L * q + L + k * L
    BY <1>1, <1>4
  <2>2. L * p \in Nat /\ k * L \in Nat /\ L * q \in Nat
    BY <1>1, <1>3, <1>4
  <2> QED BY <2>1, <2>2, <1>1, <1>5
<1>7. p < q + 1 + k
  <2>1. CASE p >= q + 1 + k
    <3>1. L * p >= L * (q + 1 + k)
      BY <2>1, <1>1, <1>3, <1>4
    <3>2. L * p \in Nat /\ L * (q + 1 + k) \in Nat
      BY <1>1, <1>3, <1>4
    <3> QED BY <3>1, <3>2, <1>6
  <2> QED BY <2>1, <1>3, <1>4
<1>8. q >= p - k
  BY <1>3, <1>4, <1>7
<1> QED BY <1>8 DEF p, q, L, Minute

LEMMA ClockTypesHold ==
  ASSUME AlarmTypes
  PROVE  /\ al.enabled \in BOOLEAN /\ al.at \in 0..DayLen - 1 /\ al.sound \in BOOLEAN
         /\ al.ringing \in BOOLEAN /\ al.snooze \in Nat /\ al.last \in Nat \union {Never}
         /\ clhist.rang \in SUBSET Nat /\ clhist.wish \in BOOLEAN /\ clhist.unsaved \in BOOLEAN
         /\ clcount.set \in BOOLEAN /\ now \in Nat /\ now > 0 /\ Minute(now) \in Nat
         /\ Settings(al) \in Set3
  BY MinuteOf DEF AlarmTypes, Alarms, Set3, Settings

\* A change of the settings, saved or not: when it keeps the rest in order.
LEMMA ChangeKeeps ==
  ASSUME ClockInv, NEW a, NEW said, Changes(a, said), a \in Alarms,
         said \in [rang : SUBSET Nat, wish : BOOLEAN, unsaved : BOOLEAN],
         said.unsaved = clhist.unsaved, a.ringing = al.ringing,
         (a.snooze = al.snooze /\ said.wish = clhist.wish) \/ (a.snooze = NoSnooze /\ said.wish = FALSE),
         \/ said.rang = {} /\ a.last = Never
         \/ said.rang = clhist.rang /\ a.last = al.last /\ a.at = al.at
  PROVE  ClockInv'
<1>1. AlarmTypes /\ now' = now /\ due' = due /\ al' = a
  BY DEF ClockInv, Changes
<1>2. /\ clcount' \in [clicks : Nat, mishaps : Nat, set : BOOLEAN] /\ clcount'.set = clcount.set
      /\ \/ afile' = Settings(a) /\ clhist' = [said EXCEPT !.unsaved = FALSE]
         \/ afile' = afile /\ clhist' = [said EXCEPT !.unsaved = TRUE]
  <2>1. clcount \in [clicks : Nat, mishaps : Nat, set : BOOLEAN]
    BY <1>1 DEF AlarmTypes
  <2>2. \/ clcount' = [clcount EXCEPT !.clicks = @ + 1]
        \/ clcount' = [clcount EXCEPT !.clicks = @ + 1, !.mishaps = @ + 1]
    BY DEF Changes
  <2>3. \/ afile' = Settings(a) /\ clhist' = [said EXCEPT !.unsaved = FALSE]
        \/ afile' = afile /\ clhist' = [said EXCEPT !.unsaved = TRUE]
    BY DEF Changes
  <2>4. clcount.clicks + 1 \in Nat /\ clcount.mishaps + 1 \in Nat
    BY <2>1
  <2>5. clcount' \in [clicks : Nat, mishaps : Nat, set : BOOLEAN] /\ clcount'.set = clcount.set
    BY <2>1, <2>2, <2>4
  <2> QED BY <2>3, <2>5
<1>3. /\ clhist' \in [rang : SUBSET Nat, wish : BOOLEAN, unsaved : BOOLEAN]
      /\ clhist'.rang = said.rang /\ clhist'.wish = said.wish
      /\ (~clhist'.unsaved => afile' = Settings(a))
  BY <1>2
<1>4. Settings(a) \in Set3
  BY DEF Settings, Alarms, Set3
<1>5. AlarmTypes'
  BY <1>1, <1>2, <1>3, <1>4 DEF AlarmTypes
<1>6. LastRang'
  BY <1>1, <1>3 DEF ClockInv, LastRang
<1>7. AllGone'
  BY <1>1, <1>2, <1>3 DEF ClockInv, AllGone, Gone
<1>8. SnoozeAsWanted'
  BY <1>1, <1>3 DEF ClockInv, SnoozeAsWanted
<1>9. SetForGood'
  BY <1>1, <1>3 DEF SetForGood
<1> QED BY <1>5, <1>6, <1>7, <1>8, <1>9 DEF ClockInv

LEMMA SettingsKeep ==
  ClockInv /\ ((\E on \in BOOLEAN : SetEnabled(on) \/ SetSound(on)) \/ \E m \in 0..DayLen - 1 : SetTime(m))
    => ClockInv'
<1> SUFFICES ASSUME ClockInv, (\E on \in BOOLEAN : SetEnabled(on) \/ SetSound(on))
                              \/ \E m \in 0..DayLen - 1 : SetTime(m)
             PROVE ClockInv'
  OBVIOUS
<1>0. AlarmTypes /\ al \in Alarms
      /\ clhist \in [rang : SUBSET Nat, wish : BOOLEAN, unsaved : BOOLEAN]
  BY DEF ClockInv, AlarmTypes
<1>1. ASSUME NEW on \in BOOLEAN PROVE
        /\ Quieted(on) \in Alarms /\ Quieted(on).at = al.at /\ Quieted(on).last = al.last
        /\ Quieted(on).ringing = al.ringing /\ Quieted(on).enabled = al.enabled
        /\ Quieted(on).sound = al.sound
        /\ Quieted(on).snooze = (IF on THEN al.snooze ELSE NoSnooze)
        /\ Said(on) \in [rang : SUBSET Nat, wish : BOOLEAN, unsaved : BOOLEAN]
        /\ Said(on).rang = clhist.rang /\ Said(on).unsaved = clhist.unsaved
        /\ Said(on).wish = (clhist.wish /\ on)
  BY <1>0, <1>1, ClockConstants DEF Quieted, Said, Alarms
<1>2. ASSUME NEW on \in BOOLEAN, SetEnabled(on) PROVE ClockInv'
  <2>1. CASE Changes([Quieted(on) EXCEPT !.enabled = on], Said(on))
    <3> DEFINE q == Quieted(on)
               a == [q EXCEPT !.enabled = on]
               said == Said(on)
    <3>1. /\ q \in Alarms /\ q.last = al.last /\ q.at = al.at /\ q.ringing = al.ringing
          /\ q.snooze = (IF on THEN al.snooze ELSE NoSnooze)
          /\ said \in [rang : SUBSET Nat, wish : BOOLEAN, unsaved : BOOLEAN]
          /\ said.rang = clhist.rang /\ said.unsaved = clhist.unsaved
          /\ said.wish = (clhist.wish /\ on)
      BY <1>1
    <3>2. Changes(a, said)
      BY <2>1
    <3> HIDE DEF q, said
    <3>3. /\ a \in Alarms /\ a.last = q.last /\ a.at = q.at /\ a.ringing = q.ringing
          /\ a.snooze = q.snooze
      BY <3>1, <1>2 DEF Alarms
    <3> HIDE DEF a
    <3>4. (a.snooze = al.snooze /\ said.wish = clhist.wish) \/ (a.snooze = NoSnooze /\ said.wish = FALSE)
      BY <3>1, <3>3, <1>0, <1>2
    <3> QED BY <3>1, <3>2, <3>3, <3>4, ChangeKeeps
  <2>2. CASE /\ al' = Quieted(on) /\ clhist' = Said(on)
             /\ clcount' = [clcount EXCEPT !.clicks = @ + 1] /\ UNCHANGED <<now, due, afile>>
    <3> DEFINE q == Quieted(on)
               said == Said(on)
    <3>1. /\ q \in Alarms /\ q.last = al.last /\ q.at = al.at /\ q.ringing = al.ringing
          /\ q.enabled = al.enabled /\ q.sound = al.sound
          /\ q.snooze = (IF on THEN al.snooze ELSE NoSnooze)
          /\ said \in [rang : SUBSET Nat, wish : BOOLEAN, unsaved : BOOLEAN]
          /\ said.rang = clhist.rang /\ said.unsaved = clhist.unsaved
          /\ said.wish = (clhist.wish /\ on)
      BY <1>1, <1>2
    <3>2. al' = q /\ clhist' = said
      BY <2>2
    <3> HIDE DEF q, said
    <3>3. clcount' \in [clicks : Nat, mishaps : Nat, set : BOOLEAN] /\ clcount'.set = clcount.set
      BY <1>0, <2>2 DEF AlarmTypes
    <3>4. AlarmTypes'
      BY <1>0, <3>1, <3>2, <3>3, <2>2 DEF AlarmTypes
    <3>5. LastRang'
      BY <3>1, <3>2 DEF ClockInv, LastRang
    <3>6. AllGone'
      BY <3>1, <3>2, <3>3, <2>2 DEF ClockInv, AllGone, Gone
    <3>7. SnoozeAsWanted'
      BY <3>1, <3>2, <1>2 DEF ClockInv, SnoozeAsWanted
    <3>8. SetForGood'
      BY <3>1, <3>2, <2>2 DEF ClockInv, SetForGood, Settings
    <3> QED BY <3>4, <3>5, <3>6, <3>7, <3>8 DEF ClockInv
  <2> QED BY <1>2, <2>1, <2>2 DEF SetEnabled
<1>3. ASSUME NEW on \in BOOLEAN, SetSound(on) PROVE ClockInv'
  <2> DEFINE a == [al EXCEPT !.sound = on]
  <2>1. a \in Alarms /\ a.last = al.last /\ a.at = al.at /\ a.ringing = al.ringing /\ a.snooze = al.snooze
    BY <1>0, <1>3 DEF Alarms
  <2>2. Changes(a, clhist)
    BY <1>3 DEF SetSound
  <2> HIDE DEF a
  <2> QED BY <1>0, <2>1, <2>2, ChangeKeeps
<1>4. ASSUME NEW m \in 0..DayLen - 1, SetTime(m) PROVE ClockInv'
  <2> DEFINE a == [al EXCEPT !.at = m, !.last = Never]
             said == [clhist EXCEPT !.rang = {}]
  <2>1. a \in Alarms /\ a.last = Never /\ a.ringing = al.ringing /\ a.snooze = al.snooze
    BY <1>0, <1>4 DEF Alarms
  <2>2. /\ said \in [rang : SUBSET Nat, wish : BOOLEAN, unsaved : BOOLEAN]
        /\ said.rang = {} /\ said.wish = clhist.wish /\ said.unsaved = clhist.unsaved
    BY <1>0
  <2>3. Changes(a, said)
    BY <1>4 DEF SetTime
  <2> HIDE DEF a, said
  <2> QED BY <2>1, <2>2, <2>3, ChangeKeeps
<1> QED BY <1>2, <1>3, <1>4

LEMMA CardKeeps == ClockInv /\ (Snooze \/ Stop \/ Dismiss) => ClockInv'
<1> SUFFICES ASSUME ClockInv, Snooze \/ Stop \/ Dismiss PROVE ClockInv'
  OBVIOUS
<1>0. /\ AlarmTypes /\ al \in Alarms /\ al.ringing = TRUE
      /\ clhist \in [rang : SUBSET Nat, wish : BOOLEAN, unsaved : BOOLEAN]
      /\ clhist.wish = FALSE /\ al.snooze = NoSnooze
  <2>1. AlarmTypes /\ al.ringing /\ SnoozeAsWanted
    BY DEF ClockInv, Snooze, Stop, Dismiss
  <2> QED BY <2>1, ClockTypesHold DEF AlarmTypes, SnoozeAsWanted
<1> DEFINE x == IF Snooze THEN now + SnoozeLen ELSE NoSnooze
           w == IF Snooze THEN TRUE ELSE FALSE
<1>1. now + SnoozeLen \in Nat /\ now + SnoozeLen # NoSnooze
  BY <1>0, ClockTypesHold, ClockConstants
<1>2. x \in Nat /\ (x # NoSnooze) = w /\ w \in BOOLEAN
  BY <1>1, ClockConstants
<1>3. /\ al' = [al EXCEPT !.ringing = FALSE, !.snooze = x] /\ clhist' = [clhist EXCEPT !.wish = w]
      /\ UNCHANGED <<now, due, afile, clcount>>
  <2>1. CASE Snooze
    BY <2>1, <1>0 DEF Snooze
  <2>2. CASE ~Snooze /\ Stop
    BY <2>2, <1>0 DEF Stop
  <2>3. CASE ~Snooze /\ Dismiss
    BY <2>3, <1>0 DEF Dismiss, Alarms
  <2> QED BY <2>1, <2>2, <2>3
<1> HIDE DEF x, w
<1>4. /\ al' \in Alarms /\ al'.at = al.at /\ al'.last = al.last /\ al'.enabled = al.enabled
      /\ al'.sound = al.sound /\ al'.ringing = FALSE /\ al'.snooze = x
  BY <1>0, <1>2, <1>3 DEF Alarms
<1>5. /\ clhist' \in [rang : SUBSET Nat, wish : BOOLEAN, unsaved : BOOLEAN]
      /\ clhist'.rang = clhist.rang /\ clhist'.wish = w /\ clhist'.unsaved = clhist.unsaved
  BY <1>0, <1>2, <1>3
<1>6. AlarmTypes'
  BY <1>0, <1>3, <1>4, <1>5 DEF AlarmTypes
<1>7. LastRang'
  BY <1>4, <1>5 DEF ClockInv, LastRang
<1>8. AllGone'
  BY <1>3, <1>4, <1>5 DEF ClockInv, AllGone, Gone
<1>9. SnoozeAsWanted'
  BY <1>2, <1>4, <1>5 DEF SnoozeAsWanted
<1>10. SetForGood'
  BY <1>3, <1>4, <1>5 DEF ClockInv, SetForGood, Settings
<1> QED BY <1>6, <1>7, <1>8, <1>9, <1>10 DEF ClockInv

LEMMA TimeKeeps == ClockInv /\ (Tick \/ ClockSet) => ClockInv'
<1> SUFFICES ASSUME ClockInv, Tick \/ ClockSet PROVE ClockInv'
  OBVIOUS
<1>0. /\ AlarmTypes /\ UNCHANGED <<al, afile, clhist>>
      /\ now \in Nat /\ Minute(now) \in Nat /\ DayLen \in Nat /\ DayLen > 0
      /\ clhist.rang \in SUBSET Nat /\ clcount.set \in BOOLEAN
  BY ClockTypesHold, ClockConstants DEF ClockInv, Tick, ClockSet
<1>1. CASE Tick
  <2>1. now' = now + 1 /\ due' = TRUE /\ UNCHANGED clcount
    BY <1>1 DEF Tick
  <2>2. now' \in Nat /\ now' > 0
    BY <2>1, <1>0
  <2>3. Minute(now') \in Nat /\ Minute(now') >= Minute(now)
    <3>1. 0 \in Nat /\ now - now' <= 0 * MinuteLen
      BY <2>1, <1>0, ClockConstants
    <3>2. Minute(now') >= Minute(now) - 0
      BY <3>1, <2>2, <1>0, MinuteBack
    <3> QED BY <3>2, <2>2, <1>0, MinuteOf
  <2>4. AlarmTypes'
    BY <1>0, <2>1, <2>2 DEF AlarmTypes
  <2>5. ASSUME NEW m \in clhist.rang, m % DayLen = al.at
        PROVE  IF clcount.set THEN IF m = al.last THEN Minute(now') > m - DayLen ELSE Minute(now') > m
               ELSE IF m = al.last THEN Minute(now') >= m ELSE Minute(now') >= m + DayLen
    <3>1. m \in Nat /\ Gone(m)
      BY <2>5, <1>0 DEF ClockInv, AllGone
    <3> QED BY <3>1, <2>3, <1>0 DEF Gone
  <2>6. AllGone'
    BY <2>5, <2>1, <1>0 DEF AllGone, Gone
  <2> QED BY <1>0, <2>4, <2>6 DEF ClockInv, LastRang, SnoozeAsWanted, SetForGood
<1>2. CASE ClockSet
  <2>1. /\ now' \in 1..LastCheck /\ ~clcount.set /\ due' = due
        /\ clcount' = [clcount EXCEPT !.mishaps = @ + 1, !.set = TRUE]
        /\ now - now' <= (DayLen - 1) * MinuteLen
    BY <1>2 DEF ClockSet
  <2>2. now' \in Nat /\ now' > 0
    BY <2>1, ClockConstants
  <2>3. clcount' \in [clicks : Nat, mishaps : Nat, set : BOOLEAN] /\ clcount'.set = TRUE
    <3>1. clcount \in [clicks : Nat, mishaps : Nat, set : BOOLEAN] /\ clcount.mishaps + 1 \in Nat
      BY <1>0 DEF AlarmTypes
    <3> QED BY <3>1, <2>1
  <2>4. Minute(now') \in Nat /\ Minute(now') >= Minute(now) - (DayLen - 1)
    <3>1. DayLen - 1 \in Nat
      BY <1>0
    <3> QED BY <3>1, <2>1, <2>2, <1>0, MinuteBack, MinuteOf
  <2>5. AlarmTypes'
    BY <1>0, <2>1, <2>2, <2>3 DEF AlarmTypes
  <2>6. ASSUME NEW m \in clhist.rang, m % DayLen = al.at
        PROVE  IF m = al.last THEN Minute(now') > m - DayLen ELSE Minute(now') > m
    <3>1. m \in Nat /\ Gone(m)
      BY <2>6, <1>0 DEF ClockInv, AllGone
    <3> QED BY <3>1, <2>1, <2>4, <1>0 DEF Gone
  <2>7. AllGone'
    BY <2>6, <2>3, <1>0 DEF AllGone, Gone
  <2> QED BY <1>0, <2>5, <2>7 DEF ClockInv, LastRang, SnoozeAsWanted, SetForGood
<1> QED BY <1>1, <1>2

LEMMA RestartKeeps == ClockInv /\ Restart => ClockInv'
<1> SUFFICES ASSUME ClockInv, Restart PROVE ClockInv'
  OBVIOUS
<1>1. /\ AlarmTypes /\ afile \in Set3 /\ Minute(now) \in Nat
      /\ al' = Started(afile, now) /\ clcount' = [clcount EXCEPT !.mishaps = @ + 1]
      /\ clhist' = [rang |-> {Minute(now)}, wish |-> FALSE, unsaved |-> FALSE]
      /\ UNCHANGED <<now, due, afile>>
  BY ClockTypesHold DEF ClockInv, Restart, AlarmTypes
<1>2. /\ al' \in Alarms /\ al'.last = Minute(now) /\ al'.ringing = FALSE /\ al'.snooze = NoSnooze
      /\ Settings(al') = afile
  BY <1>1, ClockConstants DEF Started, Alarms, Set3, Settings
<1>3. clcount' \in [clicks : Nat, mishaps : Nat, set : BOOLEAN] /\ clcount'.set = clcount.set
  BY <1>1 DEF AlarmTypes
<1>4. /\ clhist' \in [rang : SUBSET Nat, wish : BOOLEAN, unsaved : BOOLEAN]
      /\ clhist'.rang = {Minute(now)} /\ clhist'.wish = FALSE /\ clhist'.unsaved = FALSE
  BY <1>1
<1>5. AlarmTypes'
  BY <1>1, <1>2, <1>3, <1>4 DEF AlarmTypes
<1>6. LastRang'
  BY <1>2, <1>4 DEF LastRang
<1>7. Minute(now) > Minute(now) - DayLen /\ Minute(now) >= Minute(now)
  BY <1>1, ClockConstants
<1>8. AllGone'
  BY <1>1, <1>2, <1>4, <1>7 DEF AllGone, Gone
<1>9. SnoozeAsWanted'
  BY <1>2, <1>4 DEF SnoozeAsWanted
<1>10. SetForGood'
  BY <1>1, <1>2 DEF SetForGood
<1> QED BY <1>5, <1>6, <1>8, <1>9, <1>10 DEF ClockInv

\* When it goes off on time, the minutes before at that time of day are past.
LEMMA NotYet ==
  ASSUME ClockInv, OnTime
  PROVE  /\ Minute(now) \notin clhist.rang
         /\ \A m \in clhist.rang : m % DayLen = al.at =>
              IF clcount.set THEN Minute(now) > m ELSE Minute(now) >= m + DayLen
<1> DEFINE M == Minute(now)
<1>0. /\ M \in Nat /\ clhist.rang \in SUBSET Nat /\ DayLen \in Nat /\ DayLen > 0
      /\ clcount.set \in BOOLEAN
  BY ClockTypesHold, ClockConstants DEF ClockInv
<1>1. M % DayLen = al.at /\ M # al.last
  BY DEF OnTime, OfDay
<1>2. ASSUME NEW m \in clhist.rang, m % DayLen = al.at
      PROVE  IF clcount.set THEN M > m ELSE M >= m + DayLen
  <2>1. m \in Nat /\ Gone(m)
    BY <1>0, <1>2 DEF ClockInv, AllGone
  <2>2. CASE m # al.last
    BY <2>1, <2>2, <1>0 DEF Gone
  <2>3. CASE m = al.last /\ M > m
    <3>1. M >= m + DayLen
      BY <2>1, <2>3, <1>0, <1>1, <1>2, DayApart
    <3> QED BY <3>1, <2>1, <1>0
  <2>4. CASE m = al.last /\ ~(M > m)
    <3>1. m > M
      BY <2>1, <2>4, <1>0, <1>1
    <3>2. m >= M + DayLen
      BY <3>1, <2>1, <1>0, <1>1, <1>2, DayApart
    <3> QED BY <3>1, <3>2, <2>1, <2>4, <1>0 DEF Gone
  <2> QED BY <2>2, <2>3, <2>4
<1>3. M \notin clhist.rang
  <2>1. ASSUME M \in clhist.rang PROVE FALSE
    <3>1. IF clcount.set THEN M > M ELSE M >= M + DayLen
      BY <1>1, <1>2, <2>1
    <3> QED BY <3>1, <1>0
  <2> QED BY <2>1
<1> QED BY <1>2, <1>3

LEMMA CheckKeeps == ClockInv /\ Check => ClockInv'
<1> SUFFICES ASSUME ClockInv, Check PROVE ClockInv'
  OBVIOUS
<1>0. /\ AlarmTypes /\ al \in Alarms /\ due' = FALSE /\ UNCHANGED <<now, afile, clcount>>
      /\ clhist \in [rang : SUBSET Nat, wish : BOOLEAN, unsaved : BOOLEAN]
      /\ Minute(now) \in Nat /\ DayLen \in Nat /\ DayLen > 0 /\ clcount.set \in BOOLEAN
  BY ClockTypesHold, ClockConstants DEF ClockInv, AlarmTypes, Check
<1>1. CASE SnoozeOver /\ al' = GoesOff(al) /\ clhist' = [clhist EXCEPT !.wish = FALSE]
  <2>1. /\ al' \in Alarms /\ al'.at = al.at /\ al'.last = al.last /\ al'.enabled = al.enabled
        /\ al'.sound = al.sound /\ al'.ringing = TRUE /\ al'.snooze = NoSnooze
    BY <1>0, <1>1, ClockConstants DEF Alarms, GoesOff
  <2>2. /\ clhist' \in [rang : SUBSET Nat, wish : BOOLEAN, unsaved : BOOLEAN]
        /\ clhist'.rang = clhist.rang /\ clhist'.wish = FALSE /\ clhist'.unsaved = clhist.unsaved
    BY <1>0, <1>1
  <2>3. AlarmTypes'
    BY <1>0, <2>1, <2>2 DEF AlarmTypes
  <2>4. LastRang'
    BY <2>1, <2>2 DEF ClockInv, LastRang
  <2>5. AllGone'
    BY <1>0, <2>1, <2>2 DEF ClockInv, AllGone, Gone
  <2>6. SnoozeAsWanted'
    BY <2>1, <2>2 DEF SnoozeAsWanted
  <2>7. SetForGood'
    BY <1>0, <2>1, <2>2 DEF ClockInv, SetForGood, Settings
  <2> QED BY <2>3, <2>4, <2>5, <2>6, <2>7 DEF ClockInv
<1>2. CASE /\ OnTime /\ al' = [GoesOff(al) EXCEPT !.last = Minute(now)]
           /\ clhist' = [clhist EXCEPT !.rang = @ \union {Minute(now)}, !.wish = FALSE]
  <2> DEFINE M == Minute(now)
  <2>1. /\ al' \in Alarms /\ al'.at = al.at /\ al'.last = M /\ al'.enabled = al.enabled
        /\ al'.sound = al.sound /\ al'.ringing = TRUE /\ al'.snooze = NoSnooze
    BY <1>0, <1>2, ClockConstants DEF Alarms, GoesOff
  <2>2. /\ clhist' \in [rang : SUBSET Nat, wish : BOOLEAN, unsaved : BOOLEAN]
        /\ clhist'.rang = clhist.rang \union {M} /\ clhist'.wish = FALSE /\ clhist'.unsaved = clhist.unsaved
    BY <1>0, <1>2
  <2>3. AlarmTypes'
    BY <1>0, <2>1, <2>2 DEF AlarmTypes
  <2>4. LastRang'
    BY <2>1, <2>2 DEF LastRang
  <2>5. \A m \in clhist.rang : m # M /\ (m % DayLen = al.at => IF clcount.set THEN M > m ELSE M >= m + DayLen)
    BY <1>2, NotYet
  <2>6. M > M - DayLen /\ M >= M
    BY <1>0
  <2>7. ASSUME NEW m \in clhist'.rang, m % DayLen = al.at
        PROVE  IF clcount.set THEN IF m = M THEN M > m - DayLen ELSE M > m
               ELSE IF m = M THEN M >= m ELSE M >= m + DayLen
    BY <2>2, <2>5, <2>6, <2>7
  <2>8. AllGone'
    BY <1>0, <2>1, <2>7 DEF AllGone, Gone
  <2>9. SnoozeAsWanted'
    BY <2>1, <2>2 DEF SnoozeAsWanted
  <2>10. SetForGood'
    BY <1>0, <2>1, <2>2 DEF ClockInv, SetForGood, Settings
  <2> QED BY <2>3, <2>4, <2>8, <2>9, <2>10 DEF ClockInv
<1>3. CASE UNCHANGED <<al, clhist>>
  BY <1>0, <1>3 DEF ClockInv, AlarmTypes, LastRang, AllGone, Gone, SnoozeAsWanted, SetForGood
<1> QED BY <1>1, <1>2, <1>3 DEF Check

LEMMA ClockStep == ClockInv /\ [ClockNext]_clockVars => ClockInv'
<1> SUFFICES ASSUME ClockInv, [ClockNext]_clockVars PROVE ClockInv'
  OBVIOUS
<1>1. CASE UNCHANGED clockVars
  BY <1>1 DEF ClockInv, AlarmTypes, LastRang, AllGone, Gone, SnoozeAsWanted, SetForGood, clockVars
<1>2. CASE ClockNext
  BY <1>2, CheckKeeps, TimeKeeps, CardKeeps, RestartKeeps, SettingsKeep DEF ClockNext
<1> QED BY <1>1, <1>2

LEMMA ClockStarts == ClockInit => ClockInv
<1> SUFFICES ASSUME ClockInit PROVE ClockInv
  OBVIOUS
<1>1. /\ now = MinuteLen /\ due = FALSE /\ al = Started(afile, now)
      /\ afile = [enabled |-> TRUE, at |-> 2 % DayLen, sound |-> FALSE]
      /\ clhist = [rang |-> {Minute(now)}, wish |-> FALSE, unsaved |-> FALSE]
      /\ clcount = [clicks |-> 0, mishaps |-> 0, set |-> FALSE]
  BY DEF ClockInit
<1>2. now \in Nat /\ now > 0 /\ Minute(now) \in Nat /\ 2 % DayLen \in 0..DayLen - 1
  BY <1>1, ClockConstants, MinuteOf
<1>3. afile \in Set3
  BY <1>1, <1>2 DEF Set3
<1>4. /\ al \in Alarms /\ al.last = Minute(now) /\ al.ringing = FALSE /\ al.snooze = NoSnooze
      /\ Settings(al) = afile
  BY <1>1, <1>2, <1>3, ClockConstants DEF Started, Alarms, Set3, Settings
<1>5. /\ clhist \in [rang : SUBSET Nat, wish : BOOLEAN, unsaved : BOOLEAN]
      /\ clcount \in [clicks : Nat, mishaps : Nat, set : BOOLEAN]
      /\ clhist.rang = {Minute(now)} /\ clhist.wish = FALSE /\ clcount.set = FALSE
  BY <1>1, <1>2
<1>6. AlarmTypes
  <2>1. now \in Nat \ {0}
    BY <1>2
  <2>2. due \in BOOLEAN
    BY <1>1
  <2> QED BY <2>1, <2>2, <1>3, <1>4, <1>5 DEF AlarmTypes
<1>7. Minute(now) >= Minute(now)
  BY <1>2
<1>8. AllGone /\ LastRang
  BY <1>4, <1>5, <1>7 DEF AllGone, Gone, LastRang
<1>9. SnoozeAsWanted /\ SetForGood
  BY <1>4, <1>5 DEF SnoozeAsWanted, SetForGood
<1> QED BY <1>6, <1>8, <1>9 DEF ClockInv

\* The alarm goes off in its minute, once, unless rPod began in it or it rings; a
\* snooze is waited for while it is wanted; and a restart keeps what was set.
THEOREM AlarmInvariant == ClockSpec => AlarmRight
<1>1. ClockInv => ClockTypes /\ SnoozeAsWanted /\ SetForGood
  <2> SUFFICES ASSUME ClockInv PROVE ClockTypes
    BY DEF ClockInv
  <2>1. due \in BOOLEAN /\ AlarmTypes
    BY DEF ClockInv, AlarmTypes
  <2>2. al.last \in Int /\ al.snooze \in Int
    BY <2>1, ClockTypesHold, ClockConstants
  <2> QED BY <2>1, <2>2, ClockTypesHold DEF ClockTypes
<1> DEFINE Rings == Check /\ al.enabled /\ OfDay(now) = al.at => al'.ringing \/ Minute(now) \in clhist.rang
           Once  == Check /\ ~SnoozeOver /\ ~al.ringing /\ al'.ringing => Minute(now) \notin clhist.rang
<1>2. ClockInv /\ [ClockNext]_clockVars => [Rings]_clockVars
  <2> SUFFICES ASSUME ClockInv, Check, al.enabled, OfDay(now) = al.at, Minute(now) \notin clhist.rang
               PROVE  al'.ringing
    OBVIOUS
  <2>1. al \in Alarms /\ Minute(now) \in Nat /\ al.ringing \in BOOLEAN
    BY ClockTypesHold DEF ClockInv, AlarmTypes
  <2>2. Minute(now) # al.last
    BY <2>1, ClockConstants DEF ClockInv, LastRang
  <2>3. CASE SnoozeOver
    BY <2>1, <2>3 DEF Check, GoesOff, Alarms
  <2>4. CASE ~SnoozeOver /\ OnTime
    BY <2>1, <2>4 DEF Check, GoesOff, Alarms
  <2>5. CASE ~SnoozeOver /\ ~OnTime
    BY <2>1, <2>2, <2>5 DEF Check, OnTime
  <2> QED BY <2>3, <2>4, <2>5
<1>3. ClockInv /\ [ClockNext]_clockVars => [Once]_clockVars
  <2> SUFFICES ASSUME ClockInv, Check, ~SnoozeOver, ~al.ringing, al'.ringing
               PROVE  Minute(now) \notin clhist.rang
    OBVIOUS
  <2>1. OnTime
    BY DEF Check
  <2> QED BY <2>1, NotYet
<1> QED BY <1>1, <1>2, <1>3, ClockStarts, ClockStep, PTL
        DEF ClockSpec, AlarmRight, RingsOnItsMinute, OncePerMinute

(***************************************************************************)
(* Ear detection.                                                          *)
(***************************************************************************)
Reports == [kind : {"ear"}, in : 0..2] \union [kind : {"detect"}, on : BOOLEAN]
             \union [kind : {"press"}]

EarTypes ==
  /\ ears \in [link : {"idle", "wait", "connecting", "setup", "ready"}, step : 0..2,
               in_ear : -1..2, paused_by_ear : BOOLEAN, resume_at : 0..2,
               ctl : {"unknown", "on", "off"}]
  /\ pods \in [connected : BOOLEAN, worn : 0..2, detect : BOOLEAN, tells : BOOLEAN]
  /\ reports \in Seq(Reports)
  /\ music \in [state : {"play", "pause", "stop"}, airplay : BOOLEAN]
  /\ earhist \in [whose : {"nobody", "user", "ear"}, unseen : BOOLEAN, excuse : BOOLEAN, moot : BOOLEAN]

\* A pause of its own is of this session, in which a report came.
PausedHere ==
  ears.paused_by_ear => ears.link \in {"setup", "ready"} /\ ears.in_ear >= 0

EarInv == EarTypes /\ PausedHere /\ ResumesItsOwn /\ ComesBack

LEMMA EarFields ==
  ASSUME EarTypes
  PROVE  /\ ears.in_ear \in -1..2 /\ ears.resume_at \in 0..2 /\ ears.paused_by_ear \in BOOLEAN
         /\ pods.worn \in 0..2 /\ pods.detect \in BOOLEAN
         /\ earhist.unseen \in BOOLEAN /\ earhist.excuse \in BOOLEAN /\ earhist.moot \in BOOLEAN
         /\ music.state \in {"play", "pause", "stop"}
  BY DEF EarTypes

\* What follows when a session begins or ends and the pause is let go of.
LEMMA Let ==
  ASSUME EarInv, NEW link \in {"idle", "wait", "connecting", "setup", "ready"},
         ears' = Reset(ears, link), music' = music, reports' \in Seq(Reports),
         pods' \in [connected : BOOLEAN, worn : 0..2, detect : BOOLEAN, tells : BOOLEAN],
         \/ earhist' = earhist /\ ~ears.paused_by_ear
         \/ earhist' = [earhist EXCEPT !.excuse = @ \/ ears.paused_by_ear, !.unseen = FALSE, !.moot = FALSE]
  PROVE  EarInv'
<1>1. /\ ears' \in [link : {"idle", "wait", "connecting", "setup", "ready"}, step : 0..2,
                    in_ear : -1..2, paused_by_ear : BOOLEAN, resume_at : 0..2,
                    ctl : {"unknown", "on", "off"}]
      /\ ears'.paused_by_ear = FALSE
  <2>1. ears.resume_at \in 0..2 /\ -1 \in -1..2 /\ 0 \in 0..2
    BY EarFields DEF EarInv
  <2>2. ears' = [link |-> link, step |-> 0, in_ear |-> -1, paused_by_ear |-> FALSE,
                 resume_at |-> ears.resume_at, ctl |-> "unknown"]
    BY DEF Reset, NoSession
  <2> QED BY <2>1, <2>2
<1>2. /\ earhist' \in [whose : {"nobody", "user", "ear"}, unseen : BOOLEAN, excuse : BOOLEAN, moot : BOOLEAN]
      /\ earhist'.whose = earhist.whose
      /\ earhist'.excuse = (earhist.excuse \/ ears.paused_by_ear)
  BY EarFields DEF EarInv, EarTypes
<1>3. EarTypes'
  BY <1>1, <1>2 DEF EarInv, EarTypes
<1>4. PausedHere' /\ ResumesItsOwn'
  BY <1>1 DEF PausedHere, ResumesItsOwn
<1>5. ComesBack'
  BY <1>1, <1>2 DEF EarInv, ComesBack
<1> QED BY <1>3, <1>4, <1>5 DEF EarInv

LEMMA SessionKeeps ==
  EarInv /\ (Follow \/ Unfollow \/ (\E next \in {"connecting", "setup"} : Dial(next)) \/ Setup \/ Fail)
    => EarInv'
<1> SUFFICES ASSUME EarInv,
                    Follow \/ Unfollow \/ (\E next \in {"connecting", "setup"} : Dial(next)) \/ Setup \/ Fail
             PROVE EarInv'
  OBVIOUS
<1>0. EarTypes /\ <<>> \in Seq(Reports)
  BY DEF EarInv
<1>1. CASE Follow
  <2>1. /\ ears' = Reset(ears, "wait") /\ pods' = [pods EXCEPT !.connected = TRUE] /\ ~ears.paused_by_ear
        /\ UNCHANGED <<reports, music, earhist>>
    BY <1>1 DEF Follow, EarInv, PausedHere
  <2>2. pods' \in [connected : BOOLEAN, worn : 0..2, detect : BOOLEAN, tells : BOOLEAN]
    BY <2>1, <1>0 DEF EarTypes
  <2>3. reports' \in Seq(Reports)
    BY <2>1, <1>0 DEF EarTypes
  <2> QED BY <2>1, <2>2, <2>3, Let
<1>2. CASE Unfollow
  <2>1. /\ ears' = Reset(ears, "idle") /\ reports' = <<>> /\ music' = music
        /\ pods' = [pods EXCEPT !.connected = FALSE, !.tells = FALSE]
        /\ earhist' = [earhist EXCEPT !.excuse = @ \/ ears.paused_by_ear, !.unseen = FALSE, !.moot = FALSE]
    BY <1>2 DEF Unfollow
  <2>2. pods' \in [connected : BOOLEAN, worn : 0..2, detect : BOOLEAN, tells : BOOLEAN]
    BY <2>1, <1>0 DEF EarTypes
  <2> QED BY <1>0, <2>1, <2>2, Let
<1>3. ASSUME NEW next \in {"connecting", "setup"}, Dial(next) PROVE EarInv'
  <2>1. /\ ears.link \in {"wait", "connecting"} /\ ears' = [ears EXCEPT !.link = next]
        /\ UNCHANGED <<pods, reports, music, earhist>> /\ ~ears.paused_by_ear
    BY <1>3 DEF Dial, EarInv, PausedHere
  <2>2. EarTypes' /\ ears'.paused_by_ear = FALSE
    BY <2>1, <1>0, <1>3 DEF EarTypes
  <2> QED BY <2>1, <2>2 DEF EarInv, PausedHere, ResumesItsOwn, ComesBack
<1>4. CASE Setup
  <2>1. ears.link = "setup" /\ UNCHANGED <<music, earhist>>
    BY <1>4 DEF Setup
  <2>2. CASE ears.step < 2 /\ ears' = [ears EXCEPT !.step = @ + 1] /\ UNCHANGED <<pods, reports>>
    <3>1. ears.step \in 0..2 /\ ears.step + 1 \in 0..2
      BY <2>2, <1>0 DEF EarTypes
    <3>2. EarTypes' /\ ears'.paused_by_ear = ears.paused_by_ear /\ ears'.link = ears.link
          /\ ears'.in_ear = ears.in_ear /\ ears'.resume_at = ears.resume_at
      BY <2>1, <2>2, <3>1, <1>0 DEF EarTypes
    <3> QED BY <2>1, <3>2 DEF EarInv, PausedHere, ResumesItsOwn, ComesBack
  <2>3. CASE /\ ears' = [ears EXCEPT !.link = "ready"]
             /\ pods' = [pods EXCEPT !.tells = TRUE]
             /\ reports' = reports \o <<[kind |-> "ear", in |-> pods.worn],
                                        [kind |-> "detect", on |-> pods.detect]>>
    <3>1. [kind |-> "ear", in |-> pods.worn] \in Reports /\ [kind |-> "detect", on |-> pods.detect] \in Reports
      BY <1>0, EarFields DEF Reports
    <3>2. reports \in Seq(Reports)
      BY <1>0 DEF EarTypes
    <3>3. reports' \in Seq(Reports)
      BY <2>3, <3>1, <3>2
    <3>4. EarTypes' /\ ears'.paused_by_ear = ears.paused_by_ear /\ ears'.link = "ready"
          /\ ears'.in_ear = ears.in_ear /\ ears'.resume_at = ears.resume_at
      BY <2>1, <2>3, <3>3, <1>0 DEF EarTypes
    <3> QED BY <2>1, <3>4 DEF EarInv, PausedHere, ResumesItsOwn, ComesBack
  <2> QED BY <1>4, <2>2, <2>3 DEF Setup
<1>5. CASE Fail
  <2>1. /\ ears' = Reset(ears, "wait") /\ reports' = <<>> /\ music' = music
        /\ pods' = [pods EXCEPT !.tells = FALSE]
        /\ earhist' = [earhist EXCEPT !.excuse = @ \/ ears.paused_by_ear, !.unseen = FALSE, !.moot = FALSE]
    BY <1>5 DEF Fail, Ends
  <2>2. pods' \in [connected : BOOLEAN, worn : 0..2, detect : BOOLEAN, tells : BOOLEAN]
    BY <2>1, <1>0 DEF EarTypes
  <2> QED BY <1>0, <2>1, <2>2, Let
<1> QED BY <1>1, <1>2, <1>3, <1>4, <1>5

\* Somebody plays or pauses.
LEMMA HandKeeps ==
  ASSUME EarInv, NEW to \in {"play", "pause", "stop"}, Hand(to), ears' = ears, pods' = pods,
         reports' \in Seq(Reports)
  PROVE  EarInv'
<1>1. /\ music' = [music EXCEPT !.state = to]
      /\ earhist' = [earhist EXCEPT !.whose = IF to = "pause" THEN "user" ELSE @,
                                    !.unseen = ears.paused_by_ear]
  BY DEF Hand
<1>2. music'.state = to /\ music' \in [state : {"play", "pause", "stop"}, airplay : BOOLEAN]
  BY <1>1 DEF EarInv, EarTypes
<1>3. /\ earhist' \in [whose : {"nobody", "user", "ear"}, unseen : BOOLEAN, excuse : BOOLEAN, moot : BOOLEAN]
      /\ earhist'.unseen = ears.paused_by_ear /\ earhist'.moot = earhist.moot
      /\ to = "pause" => earhist'.whose = "user"
  BY <1>1, EarFields DEF EarInv, EarTypes
<1>4. EarTypes'
  BY <1>2, <1>3 DEF EarInv, EarTypes
<1> QED BY <1>2, <1>3, <1>4 DEF EarInv, PausedHere, ResumesItsOwn, ComesBack

\* on_ear()
LEMMA EarKeeps ==
  ASSUME EarInv, NEW in \in 0..2, NEW reached \in BOOLEAN, OnEar(in, reached),
         ears.link \in {"setup", "ready"}, pods' = pods, reports' \in Seq(Reports)
  PROVE  EarInv'
<1>0. EarTypes
  BY DEF EarInv
<1> DEFINE told == ears.in_ear >= 0 /\ in # ears.in_ear
<1>1. CASE told /\ SettingOn /\ Stops(in) /\ reached
  <2>1. /\ ears' = [ears EXCEPT !.in_ear = in, !.paused_by_ear = TRUE, !.resume_at = ears.in_ear]
        /\ music' = [music EXCEPT !.state = "pause"]
        /\ earhist' = [earhist EXCEPT !.whose = "ear", !.unseen = FALSE, !.excuse = FALSE, !.moot = FALSE]
        /\ in < ears.in_ear
    BY <1>1 DEF OnEar, Stops
  <2>2. ears.in_ear \in 0..2 /\ ~(in >= ears.in_ear) /\ in \in -1..2 /\ in >= 0
    BY <1>0, <1>1, <2>1, EarFields
  <2>3. /\ EarTypes' /\ ears'.in_ear = in /\ ears'.resume_at = ears.in_ear /\ ears'.link = ears.link
        /\ ears'.paused_by_ear = TRUE /\ music'.state = "pause" /\ earhist'.whose = "ear"
    BY <1>0, <2>1, <2>2 DEF EarTypes
  <2> QED BY <2>2, <2>3 DEF EarInv, PausedHere, ResumesItsOwn, ComesBack
<1>2. CASE ~(told /\ SettingOn /\ Stops(in) /\ reached) /\ told /\ SettingOn /\ Resumes(in)
  <2>1. /\ ears' = [ears EXCEPT !.in_ear = in, !.paused_by_ear = FALSE]
        /\ music' = [music EXCEPT !.state = IF @ = "pause" /\ reached THEN "play" ELSE @]
        /\ earhist' = [earhist EXCEPT !.unseen = FALSE, !.excuse = @ \/ ~reached \/ Unasked]
    BY <1>2 DEF OnEar
  <2>2. in \in -1..2 /\ Unasked \in BOOLEAN
    BY <1>0 DEF Unasked, SettingOn, EarTypes
  <2>3. /\ EarTypes' /\ ears'.paused_by_ear = FALSE
        /\ earhist'.excuse = (earhist.excuse \/ ~reached \/ Unasked)
        /\ music'.state = "pause" => ~reached
    BY <1>0, <2>1, <2>2, EarFields DEF EarTypes
  <2> QED BY <2>3 DEF EarInv, PausedHere, ResumesItsOwn, ComesBack
<1>3. CASE ~(told /\ SettingOn /\ Stops(in) /\ reached) /\ ~(told /\ SettingOn /\ Resumes(in))
  <2>1. /\ ears' = [ears EXCEPT !.in_ear = in] /\ music' = music
        /\ earhist' = [earhist EXCEPT !.moot = @ \/ (Resumes(in) /\ Unasked)]
    BY <1>3 DEF OnEar
  <2>2. in \in -1..2 /\ in >= 0
    OBVIOUS
  <2>3. /\ EarTypes' /\ ears'.paused_by_ear = ears.paused_by_ear /\ ears'.in_ear = in
        /\ ears'.resume_at = ears.resume_at /\ ears'.link = ears.link
        /\ earhist'.moot = (earhist.moot \/ (Resumes(in) /\ Unasked)) /\ earhist'.whose = earhist.whose
        /\ earhist'.unseen = earhist.unseen /\ earhist'.excuse = earhist.excuse
    BY <1>0, <2>1, <2>2, EarFields DEF EarTypes, SettingOn
  <2>4. ears.paused_by_ear /\ in >= ears.resume_at => earhist.moot \/ (Resumes(in) /\ Unasked)
    <3> SUFFICES ASSUME ears.paused_by_ear, in >= ears.resume_at, ~(Resumes(in) /\ Unasked) PROVE earhist.moot
      OBVIOUS
    <3>1. ears.in_ear \in 0..2 /\ ears.resume_at \in 0..2
      BY <1>0, EarFields DEF EarInv, PausedHere
    <3>2. ~(in > ears.in_ear)
      BY <1>3, <3>1 DEF Resumes, Unasked
    <3>3. ears.in_ear >= ears.resume_at
      BY <3>1, <3>2
    <3> QED BY <3>3 DEF EarInv, ComesBack
  <2> QED BY <2>1, <2>2, <2>3, <2>4 DEF EarInv, PausedHere, ResumesItsOwn, ComesBack
<1> QED BY <1>1, <1>2, <1>3

LEMMA ReceiveKeeps == EarInv /\ Receive => EarInv'
<1> SUFFICES ASSUME EarInv, Receive PROVE EarInv'
  OBVIOUS
<1> DEFINE r == Head(reports)
<1>1. /\ ears.link \in {"setup", "ready"} /\ reports # <<>> /\ reports \in Seq(Reports)
      /\ reports' = Tail(reports) /\ pods' = pods
  BY DEF Receive, EarInv, EarTypes
<1>2. r \in Reports /\ reports' \in Seq(Reports)
  BY <1>1
<1>3. \/ r.kind = "ear" /\ \E reached \in BOOLEAN : OnEar(r.in, reached)
      \/ /\ r.kind = "detect" /\ ears' = [ears EXCEPT !.ctl = IF r.on THEN "on" ELSE "off"]
         /\ UNCHANGED <<music, earhist, earcount>>
      \/ /\ r.kind = "press" /\ Hand(IF music.state = "play" THEN "pause" ELSE "play")
         /\ UNCHANGED <<ears, earcount>>
  BY DEF Receive
<1> HIDE DEF r
<1>4. CASE r.kind = "ear" /\ \E reached \in BOOLEAN : OnEar(r.in, reached)
  <2>1. r.in \in 0..2
    BY <1>2, <1>4 DEF Reports
  <2> QED BY <1>1, <1>2, <1>4, <2>1, EarKeeps
<1>5. CASE /\ ears' = [ears EXCEPT !.ctl = IF r.on THEN "on" ELSE "off"]
           /\ UNCHANGED <<music, earhist>>
  <2>1. EarTypes' /\ ears'.paused_by_ear = ears.paused_by_ear /\ ears'.link = ears.link
        /\ ears'.in_ear = ears.in_ear /\ ears'.resume_at = ears.resume_at
    BY <1>1, <1>2, <1>5 DEF EarInv, EarTypes
  <2> QED BY <1>5, <2>1 DEF EarInv, PausedHere, ResumesItsOwn, ComesBack
<1>6. CASE Hand(IF music.state = "play" THEN "pause" ELSE "play") /\ UNCHANGED ears
  BY <1>1, <1>2, <1>6, HandKeeps
<1> QED BY <1>3, <1>4, <1>5, <1>6

LEMMA UseKeeps ==
  EarInv /\ (Look \/ Move \/ Press \/ UserPlays \/ Redirect \/ SetDetection) => EarInv'
<1> SUFFICES ASSUME EarInv, Look \/ Move \/ Press \/ UserPlays \/ Redirect \/ SetDetection PROVE EarInv'
  OBVIOUS
<1>0. EarTypes /\ reports \in Seq(Reports)
  BY DEF EarInv, EarTypes
<1>1. CASE Look
  <2>1. /\ ears' = [ears EXCEPT !.paused_by_ear = (music.state = "pause")]
        /\ earhist' = [earhist EXCEPT !.unseen = @ /\ music.state = "pause"]
        /\ UNCHANGED <<pods, reports, music>> /\ ears.paused_by_ear
    BY <1>1 DEF Look
  <2>2. /\ EarTypes' /\ ears'.paused_by_ear = (music.state = "pause") /\ ears'.link = ears.link
        /\ ears'.in_ear = ears.in_ear /\ ears'.resume_at = ears.resume_at
        /\ earhist'.unseen = (earhist.unseen /\ music.state = "pause")
        /\ earhist'.whose = earhist.whose /\ earhist'.moot = earhist.moot
    BY <1>0, <2>1, EarFields DEF EarTypes
  <2> QED BY <2>1, <2>2 DEF EarInv, PausedHere, ResumesItsOwn, ComesBack
<1>2. CASE Move \/ Press
  <2>1. PICK n \in 0..2 :
          /\ pods' = [pods EXCEPT !.worn = n] \/ pods' = pods
          /\ reports' \in {reports, Append(reports, [kind |-> "ear", in |-> n]),
                           Append(reports, [kind |-> "press"])}
          /\ UNCHANGED <<ears, music, earhist>>
    BY <1>2 DEF Move, Press
  <2>2. [kind |-> "ear", in |-> n] \in Reports /\ [kind |-> "press"] \in Reports
    BY DEF Reports
  <2>3. reports' \in Seq(Reports)
    BY <1>0, <2>1, <2>2
  <2>4. pods' \in [connected : BOOLEAN, worn : 0..2, detect : BOOLEAN, tells : BOOLEAN]
    BY <1>0, <2>1 DEF EarTypes
  <2>5. EarTypes'
    BY <1>0, <2>1, <2>3, <2>4 DEF EarTypes
  <2> QED BY <2>1, <2>5 DEF EarInv, PausedHere, ResumesItsOwn, ComesBack
<1>3. CASE UserPlays
  <2>1. PICK to \in {"play", "pause", "stop"} : Hand(to)
    BY <1>3 DEF UserPlays
  <2> QED BY <1>0, <1>3, <2>1, HandKeeps DEF UserPlays
<1>4. CASE Redirect
  <2>1. music' = [music EXCEPT !.airplay = ~@] /\ UNCHANGED <<ears, pods, reports, earhist>>
    BY <1>4 DEF Redirect
  <2>2. /\ music' \in [state : {"play", "pause", "stop"}, airplay : BOOLEAN]
        /\ music'.state = music.state
    <3>1. music \in [state : {"play", "pause", "stop"}, airplay : BOOLEAN]
      BY <1>0 DEF EarTypes
    <3>2. music' = [music EXCEPT !.airplay = ~music.airplay] /\ (~music.airplay) \in BOOLEAN
      BY <2>1
    <3> QED BY <3>1, <3>2
  <2>3. EarTypes'
    BY <1>0, <2>1, <2>2 DEF EarTypes
  <2> QED BY <2>1, <2>2, <2>3 DEF EarInv, PausedHere, ResumesItsOwn, ComesBack
<1>5. CASE SetDetection
  <2> DEFINE on == ears.ctl = "off"
  <2>1. /\ ears' = [ears EXCEPT !.ctl = IF on THEN "on" ELSE "off"]
        /\ pods' = [pods EXCEPT !.detect = on] /\ UNCHANGED <<reports, music, earhist>>
    BY <1>5 DEF SetDetection
  <2>2. EarTypes' /\ ears'.paused_by_ear = ears.paused_by_ear /\ ears'.link = ears.link
        /\ ears'.in_ear = ears.in_ear /\ ears'.resume_at = ears.resume_at
    BY <1>0, <2>1 DEF EarTypes
  <2> QED BY <2>1, <2>2 DEF EarInv, PausedHere, ResumesItsOwn, ComesBack
<1> QED BY <1>1, <1>2, <1>3, <1>4, <1>5

\* A bud going back in resumes what its coming out paused, that only, and then does.
THEOREM EarsInvariant == EarSpec => []EarsRight
<1>1. EarInit => EarInv
  <2> SUFFICES ASSUME EarInit PROVE EarInv
    OBVIOUS
  <2>1. EarTypes /\ ears.paused_by_ear = FALSE /\ music.state = "play"
    BY DEF EarInit, NoSession, EarTypes
  <2> QED BY <2>1 DEF EarInv, PausedHere, ResumesItsOwn, ComesBack
<1>2. EarInv /\ [EarNext]_earVars => EarInv'
  <2> SUFFICES ASSUME EarInv, [EarNext]_earVars PROVE EarInv'
    OBVIOUS
  <2>1. CASE UNCHANGED earVars
    BY <2>1 DEF EarInv, EarTypes, PausedHere, ResumesItsOwn, ComesBack, earVars
  <2>2. CASE EarNext
    BY <2>2, SessionKeeps, ReceiveKeeps, UseKeeps DEF EarNext
  <2> QED BY <2>1, <2>2
<1>3. EarInv => EarsRight
  BY DEF EarInv, EarsRight
<1> QED BY <1>1, <1>2, <1>3, PTL DEF EarSpec

(***************************************************************************)
(* Home Assistant.                                                         *)
(***************************************************************************)
\* Of the jobs, the last of each entity decides.
HaJobs    == [entity : Entities, to : Vals, gen : Nat]
Homes     == [Servers -> [Entities -> Vals]]
HaPlaces  == {"asleep", "look", "call", "failed", "ask", "confirm", "fetch", "store", "error", "info"}
InJob     == {"call", "failed", "ask", "confirm"}
HaStates  == [url : Servers \union {None}, token : BOOLEAN, gen : Nat,
              st : {"connecting", "ok", "error", "unconfigured"},
              ents : {None} \union [Entities -> Vals], of : Servers \union {None},
              info : Servers \union {None}, jobs : Seq(HaJobs), pending : BOOLEAN, failed : BOOLEAN]
HaWorkers == [at : HaPlaces, gen : Nat, url : Servers \union {None}, job : {None} \union HaJobs,
              read : {None} \union [Entities -> Vals]]

HaTypes ==
  /\ ha \in HaStates /\ hw \in HaWorkers /\ home \in Homes
  /\ patch \in {None} \union [entity : Entities, to : Vals]
  /\ hahist \in [wish : Homes, clean : BOOLEAN, blur : BOOLEAN]

\* The worker's copies: of the server that is set, if that was not changed since.
WorkerIs ==
  /\ hw.gen <= ha.gen /\ (ha.ents # None => hw.gen = ha.gen /\ ha.url # None)
  /\ hw.at \in InJob => hw.job \in HaJobs /\ hw.job.gen = hw.gen
  /\ hw.at \in {"confirm", "store"} => hw.read \in [Entities -> Vals]
  /\ hw.at \notin {"asleep", "look"} =>
       hw.url \in Servers /\ (hw.gen = ha.gen => hw.url = ha.url /\ Configured(ha))

QueueIs ==
  /\ ha.jobs # <<>> \/ ha.pending => Configured(ha)
  /\ \A i \in 1..Len(ha.jobs) : ha.jobs[i].gen = ha.gen
  /\ patch # None /\ ha.jobs # <<>> => ha.jobs[Len(ha.jobs)].entity = patch.entity

Waits(e)  == \E i \in 1..Len(ha.jobs) : ha.jobs[i].entity = e
IsLast(i) == \A j \in 1..Len(ha.jobs) : j > i => ha.jobs[j].entity # ha.jobs[i].entity

\* Each device is as it was last told to be, or a job will make it so.
WishDue ==
  hahist.clean =>
    /\ hw.at = "call" => hw.gen = ha.gen
    /\ \A t \in Servers, e \in Entities :
         \/ home[t][e] = hahist.wish[t][e]
         \/ t = ha.url /\ (Waits(e) \/ (hw.at = "call" /\ hw.job.entity = e))
    /\ \A i \in 1..Len(ha.jobs) : IsLast(i) => ha.jobs[i].to = hahist.wish[ha.url][ha.jobs[i].entity]
    /\ \A e \in Entities : hw.at = "call" /\ hw.job.entity = e /\ ~Waits(e) => hw.job.to = hahist.wish[ha.url][e]

\* Each device is shown as it is, or a job, the end of one or a fetch will see to it.
InWork(e) == Waits(e) \/ (hw.at \in InJob /\ hw.job.entity = e)
ShownDue ==
  ~hahist.blur =>
    /\ hw.at \in {"confirm", "store"} /\ hw.gen = ha.gen => hw.read = home[ha.url]
    /\ ha.ents # None =>
         \/ ha.pending \/ hw.at \in {"fetch", "store"}
         \/ \A e \in Entities : ha.ents[e] = home[ha.url][e] \/ InWork(e)

HaInv == HaTypes /\ WorkerIs /\ QueueIs /\ WishDue /\ ShownDue /\ NoLostWakeup /\ OfThisServer

\* What an assignment to a field of g leaves
LEMMA SetJobs ==
  ASSUME NEW h \in HaStates, NEW x \in Seq(HaJobs)
  PROVE  LET r == [h EXCEPT !.jobs = x]
         IN  /\ r \in HaStates
             /\ r.url = h.url /\ r.token = h.token /\ r.gen = h.gen /\ r.st = h.st
             /\ r.ents = h.ents /\ r.of = h.of /\ r.info = h.info /\ r.jobs = x
             /\ r.pending = h.pending /\ r.failed = h.failed
  BY Zenon DEF HaStates

LEMMA SetEnts ==
  ASSUME NEW h \in HaStates, NEW x \in {None} \union [Entities -> Vals]
  PROVE  LET r == [h EXCEPT !.ents = x]
         IN  /\ r \in HaStates
             /\ r.url = h.url /\ r.token = h.token /\ r.gen = h.gen /\ r.st = h.st
             /\ r.ents = x /\ r.of = h.of /\ r.info = h.info /\ r.jobs = h.jobs
             /\ r.pending = h.pending /\ r.failed = h.failed
  BY Zenon DEF HaStates

LEMMA SetPending ==
  ASSUME NEW h \in HaStates, NEW x \in BOOLEAN
  PROVE  LET r == [h EXCEPT !.pending = x]
         IN  /\ r \in HaStates
             /\ r.url = h.url /\ r.token = h.token /\ r.gen = h.gen /\ r.st = h.st
             /\ r.ents = h.ents /\ r.of = h.of /\ r.info = h.info /\ r.jobs = h.jobs
             /\ r.pending = x /\ r.failed = h.failed
  BY Zenon DEF HaStates

LEMMA SetFailed ==
  ASSUME NEW h \in HaStates, NEW x \in BOOLEAN
  PROVE  LET r == [h EXCEPT !.failed = x]
         IN  /\ r \in HaStates
             /\ r.url = h.url /\ r.token = h.token /\ r.gen = h.gen /\ r.st = h.st
             /\ r.ents = h.ents /\ r.of = h.of /\ r.info = h.info /\ r.jobs = h.jobs
             /\ r.pending = h.pending /\ r.failed = x
  BY Zenon DEF HaStates

LEMMA SetSt ==
  ASSUME NEW h \in HaStates, NEW x \in {"connecting", "ok", "error", "unconfigured"}
  PROVE  LET r == [h EXCEPT !.st = x]
         IN  /\ r \in HaStates
             /\ r.url = h.url /\ r.token = h.token /\ r.gen = h.gen /\ r.st = x
             /\ r.ents = h.ents /\ r.of = h.of /\ r.info = h.info /\ r.jobs = h.jobs
             /\ r.pending = h.pending /\ r.failed = h.failed
  BY Zenon DEF HaStates

LEMMA SetInfo ==
  ASSUME NEW h \in HaStates, NEW x \in Servers \union {None}
  PROVE  LET r == [h EXCEPT !.info = x]
         IN  /\ r \in HaStates
             /\ r.url = h.url /\ r.token = h.token /\ r.gen = h.gen /\ r.st = h.st
             /\ r.ents = h.ents /\ r.of = h.of /\ r.info = x /\ r.jobs = h.jobs
             /\ r.pending = h.pending /\ r.failed = h.failed
  BY Zenon DEF HaStates

\* ... and to the worker's variables
LEMMA SetAt ==
  ASSUME NEW h \in HaWorkers, NEW x \in HaPlaces
  PROVE  LET r == [h EXCEPT !.at = x]
         IN  /\ r \in HaWorkers
             /\ r.at = x /\ r.gen = h.gen /\ r.url = h.url /\ r.job = h.job
             /\ r.read = h.read
  BY Zenon DEF HaWorkers

\* config_changed_locked()
LEMMA ChangedIs ==
  ASSUME NEW k \in HaStates
  PROVE  LET r == Changed(k)
         IN  /\ r \in HaStates /\ r.url = k.url /\ r.token = k.token /\ r.gen = k.gen + 1
             /\ r.ents = None /\ r.of = None /\ r.info = None /\ r.jobs = <<>>
             /\ r.pending = Configured(k)
             /\ r.st = IF Configured(k) THEN "connecting" ELSE "unconfigured"
  <1>1. k.gen + 1 \in Nat
    BY DEF HaStates
  <1> DEFINE n == k.gen + 1
             t == IF Configured(k) THEN "connecting" ELSE "unconfigured"
             p == Configured(k)
  <1>2. p \in BOOLEAN /\ t \in {"connecting", "unconfigured"} /\ n \in Nat
    BY <1>1, Zenon DEF Configured
  <1>3. Changed(k) = [k EXCEPT !.gen = n, !.ents = None, !.of = None, !.info = None, !.jobs = <<>>,
                               !.st = t, !.pending = p]
    BY Zenon DEF Changed
  <1> HIDE DEF n, t, p
  <1>4. <<>> \in Seq(HaJobs)
    OBVIOUS
  <1> DEFINE r == [k EXCEPT !.gen = n, !.ents = None, !.of = None, !.info = None, !.jobs = <<>>,
                            !.st = t, !.pending = p]
  <1>5. /\ r \in HaStates /\ r.url = k.url /\ r.token = k.token /\ r.gen = n /\ r.ents = None
        /\ r.of = None /\ r.info = None /\ r.jobs = <<>> /\ r.pending = p /\ r.st = t
    BY <1>2, <1>4, Zenon DEF HaStates
  <1> HIDE DEF r
  <1> QED
    BY <1>3, <1>5, Zenon DEF n, t, p, r

Hists == [wish : Homes, clean : BOOLEAN, blur : BOOLEAN]

LEMMA SetBlur ==
  ASSUME NEW h \in Hists, NEW c \in BOOLEAN, NEW b \in BOOLEAN
  PROVE  LET r == [h EXCEPT !.clean = c, !.blur = b]
         IN  r \in Hists /\ r.wish = h.wish /\ r.clean = c /\ r.blur = b
  BY Zenon DEF Hists
LEMMA SetClean ==
  ASSUME NEW h \in Hists, NEW c \in BOOLEAN
  PROVE  LET r == [h EXCEPT !.clean = c] IN r \in Hists /\ r.wish = h.wish /\ r.clean = c /\ r.blur = h.blur
  BY Zenon DEF Hists
LEMMA SetOnlyBlur ==
  ASSUME NEW h \in Hists, NEW b \in BOOLEAN
  PROVE  LET r == [h EXCEPT !.blur = b] IN r \in Hists /\ r.wish = h.wish /\ r.clean = h.clean /\ r.blur = b
  BY Zenon DEF Hists
LEMMA SetHome ==
  ASSUME NEW h \in Homes, NEW t \in Servers, NEW e \in Entities, NEW v \in Vals
  PROVE  LET r == [h EXCEPT ![t][e] = v]
         IN  r \in Homes /\ \A u \in Servers, d \in Entities : r[u][d] = IF u = t /\ d = e THEN v ELSE h[u][d]
  BY DEF Homes
LEMMA SetWish ==
  ASSUME NEW h \in Hists, NEW t \in Servers, NEW e \in Entities, NEW v \in Vals
  PROVE  LET r == [h EXCEPT !.wish[t][e] = v]
         IN  /\ r \in Hists /\ r.clean = h.clean /\ r.blur = h.blur
             /\ \A u \in Servers, d \in Entities : r.wish[u][d] = IF u = t /\ d = e THEN v ELSE h.wish[u][d]
  <1> DEFINE w == [h.wish EXCEPT ![t][e] = v]
             r == [h EXCEPT !.wish = w]
  <1>1. h.wish \in Homes
    BY Zenon DEF Hists
  <1>2. w \in Homes /\ \A u \in Servers, d \in Entities : w[u][d] = IF u = t /\ d = e THEN v ELSE h.wish[u][d]
    BY <1>1, SetHome
  <1>3. r = [h EXCEPT !.wish[t][e] = v]
    OBVIOUS
  <1> HIDE DEF w
  <1>4. r \in Hists /\ r.clean = h.clean /\ r.blur = h.blur /\ r.wish = w
    BY <1>2, Zenon DEF Hists
  <1> HIDE DEF r
  <1> QED
    BY <1>2, <1>3, <1>4

\* rpod's call of the worker
LEMMA Signalled ==
  ASSUME hw \in HaWorkers, Signal
  PROVE  /\ hw' \in HaWorkers /\ hw'.at = IF hw.at = "asleep" THEN "look" ELSE hw.at
         /\ hw'.gen = hw.gen /\ hw'.url = hw.url /\ hw'.job = hw.job /\ hw'.read = hw.read
  <1>1. CASE hw.at = "asleep"
    <2>1. hw' = [hw EXCEPT !.at = "look"] /\ "look" \in HaPlaces
      BY <1>1 DEF Signal, Asleep, HaPlaces
    <2> QED
      BY <1>1, <2>1, SetAt
  <1>2. CASE hw.at # "asleep"
    BY <1>2 DEF Signal, Asleep
  <1> QED
    BY <1>1, <1>2

LEMMA ActKeeps ==
  ASSUME HaInv, NEW e \in Entities, NEW v \in Vals, Act(e, v)
  PROVE  HaInv'
<1> DEFINE n == Len(ha.jobs)
           j == [entity |-> e, to |-> v, gen |-> ha.gen]
<1>1. /\ ha \in HaStates /\ hw \in HaWorkers /\ home \in Homes /\ hahist \in Hists /\ patch = None
      /\ Configured(ha) /\ UNCHANGED home /\ Signal /\ ha.url \in Servers
      /\ ha.gen \in Nat /\ ha.jobs \in Seq(HaJobs) /\ n \in Nat
  BY DEF HaInv, HaTypes, Hists, Act, Queued, Configured, HaStates
<1>2. j \in HaJobs /\ j.entity = e /\ j.to = v /\ j.gen = ha.gen /\ patch' = [entity |-> e, to |-> v]
  BY <1>1 DEF HaJobs, Act
<1> HIDE DEF j
<1>3. /\ ha.jobs' = Append(ha.jobs, j) /\ ha' \in HaStates
      /\ UNCHANGED <<ha.url, ha.token, ha.gen, ha.st, ha.ents, ha.of, ha.info, ha.pending, ha.failed>>
  <2>1. Append(ha.jobs, j) \in Seq(HaJobs)
    BY <1>1, <1>2
  <2>2. ha' = [ha EXCEPT !.jobs = Append(ha.jobs, j)]
    BY DEF Act, Queued, j
  <2> QED
    BY <1>1, <2>1, <2>2, SetJobs
<1>4. /\ Len(ha.jobs') = n + 1 /\ ha.jobs'[n + 1] = j
      /\ \A i \in 1..n : ha.jobs'[i] = ha.jobs[i] /\ ha.jobs[i] \in HaJobs
      /\ ha.jobs' # <<>>
  BY <1>1, <1>2, <1>3
<1>5. /\ hw' \in HaWorkers /\ hw'.at = IF hw.at = "asleep" THEN "look" ELSE hw.at
      /\ hw'.gen = hw.gen /\ hw'.url = hw.url /\ hw'.job = hw.job /\ hw'.read = hw.read
  BY <1>1, Signalled
<1>6. /\ hahist' \in Hists /\ UNCHANGED <<hahist.clean, hahist.blur>>
      /\ \A u \in Servers, d \in Entities :
           hahist'.wish[u][d] = IF u = ha.url /\ d = e THEN v ELSE hahist.wish[u][d]
  <2>1. hahist' = [hahist EXCEPT !.wish[ha.url][e] = v]
    BY DEF Act
  <2>2. hahist \in Hists /\ ha.url \in Servers
    BY <1>1
  <2> QED
    BY ONLY <2>1, <2>2, SetWish
<1> HIDE DEF n
<1>7. HaTypes' /\ WorkerIs' /\ NoLostWakeup' /\ OfThisServer'
  <2>1. HaTypes'
    BY <1>1, <1>2, <1>3, <1>5, <1>6 DEF HaTypes, Hists
  <2>2. WorkerIs'
    BY <1>3, <1>5 DEF HaInv, WorkerIs, Configured, InJob
  <2>3. NoLostWakeup'
    BY <1>5 DEF NoLostWakeup, Asleep
  <2>4. OfThisServer'
    BY <1>3 DEF HaInv, OfThisServer, Configured
  <2> QED
    BY <2>1, <2>2, <2>3, <2>4
<1>8. QueueIs'
  <2>1. Configured(ha)' /\ patch'.entity = e
    BY <1>1, <1>2, <1>3 DEF Configured
  <2>2. \A i \in 1..Len(ha'.jobs) : ha'.jobs[i].gen = ha'.gen
    <3> TAKE i \in 1..Len(ha'.jobs)
    <3>1. i \in 1..n \/ i = n + 1
      BY <1>1, <1>3, <1>4
    <3>2. \A k \in 1..n : ha.jobs[k].gen = ha.gen
      BY DEF HaInv, QueueIs, n
    <3> QED BY <1>2, <1>3, <1>4, <3>1, <3>2
  <2>3. ha'.jobs[Len(ha'.jobs)].entity = e
    BY <1>2, <1>3, <1>4
  <2> QED BY <2>1, <2>2, <2>3 DEF QueueIs
<1>9. \A d : /\ Waits(d) => Waits(d)'
             /\ d = e => Waits(d)'
  <2> SUFFICES ASSUME NEW d PROVE (Waits(d) => Waits(d)') /\ (d = e => Waits(d)')
    OBVIOUS
  <2>1. Waits(d) => Waits(d)'
    BY <1>1, <1>3, <1>4 DEF Waits, n
  <2>2. d = e => Waits(d)'
    <3>1. n + 1 \in 1..Len(ha'.jobs) /\ ha'.jobs[n + 1].entity = e
      BY <1>1, <1>2, <1>3, <1>4
    <3> QED
      BY <3>1 DEF Waits
  <2> QED
    BY <2>1, <2>2
<1>10. WishDue'
  <2> SUFFICES ASSUME hahist'.clean PROVE WishDue'
    BY DEF WishDue
  <2>1. hahist.clean
    BY <1>6
  <2>2. \A i \in 1..n + 1 : IsLast(i)' => ha'.jobs[i].to = hahist'.wish[ha.url][ha'.jobs[i].entity]
    <3> TAKE i \in 1..n + 1
    <3> SUFFICES ASSUME IsLast(i)' PROVE ha'.jobs[i].to = hahist'.wish[ha.url][ha'.jobs[i].entity]
      OBVIOUS
    <3>1. CASE i = n + 1
      BY <1>1, <1>2, <1>3, <1>4, <1>6, <3>1
    <3>2. CASE i \in 1..n
      <4>1. ha.jobs[i].entity # e /\ n + 1 \in 1..n + 1 /\ n + 1 > i
        BY <1>1, <1>2, <1>3, <1>4, <3>2 DEF IsLast
      <4>2. IsLast(i)
        BY <1>1, <1>3, <1>4, <3>2 DEF IsLast, n
      <4>3. ha.jobs[i].to = hahist.wish[ha.url][ha.jobs[i].entity]
        BY <2>1, <3>2, <4>2 DEF HaInv, WishDue, n
      <4>4. ha.jobs[i].entity \in Entities
        BY <1>4, <3>2 DEF HaJobs
      <4> QED
        BY <1>1, <1>3, <1>4, <1>6, <3>2, <4>1, <4>3, <4>4
    <3> QED
      BY <1>1, <3>1, <3>2
  <2>3. \A d \in Entities : hw.at = "call" /\ hw.job.entity = d /\ ~Waits(d)' =>
                             hw.job.to = hahist'.wish[ha.url][d]
    BY <1>1, <1>6, <1>9, <2>1 DEF HaInv, WishDue
  <2>4. hw'.at = "call" => hw.at = "call" /\ hw.gen = ha.gen
    BY <1>5, <2>1 DEF HaInv, WishDue
  <2>5. ASSUME NEW t \in Servers, NEW d \in Entities
        PROVE  \/ home[t][d] = hahist'.wish[t][d]
               \/ t = ha.url /\ (Waits(d)' \/ (hw'.at = "call" /\ hw'.job.entity = d))
    <3>1. \/ home[t][d] = hahist.wish[t][d]
          \/ t = ha.url /\ (Waits(d) \/ (hw.at = "call" /\ hw.job.entity = d))
      BY <2>1 DEF HaInv, WishDue
    <3> QED
      BY <1>5, <1>6, <1>9, <3>1
  <2> QED
    BY <1>1, <1>3, <1>4, <1>5, <2>2, <2>3, <2>4, <2>5 DEF WishDue
<1>11. ShownDue'
  <2>1. \A d \in Entities : InWork(d) => InWork(d)'
    BY <1>5, <1>9 DEF InWork, InJob
  <2> QED
    BY <1>1, <1>3, <1>5, <1>6, <2>1 DEF HaInv, ShownDue
<1> QED
  BY <1>7, <1>8, <1>10, <1>11 DEF HaInv

LEMMA JobsSame ==
  ASSUME UNCHANGED ha.jobs
  PROVE  (\A d : Waits(d)' = Waits(d)) /\ (\A i : IsLast(i)' = IsLast(i))
  BY DEF Waits, IsLast

\* An action that moves no job and no device, or forgets a call whose device is
\* as it asked
LEMMA WishSame ==
  ASSUME WishDue, UNCHANGED <<ha.jobs, ha.url, ha.gen, home, hahist.wish>>, hahist'.clean => hahist.clean,
         \/ UNCHANGED <<hw.at, hw.gen, hw.job>>
         \/ hw.at # "call" /\ hw'.at # "call"
  PROVE  WishDue'
  BY JobsSame DEF WishDue

LEMMA PatchKeeps == HaInv /\ Patch => HaInv'
<1> SUFFICES ASSUME HaInv, Patch PROVE HaInv'
  OBVIOUS
<1>1. /\ ha \in HaStates /\ hahist \in Hists /\ patch # None /\ patch' = None
      /\ UNCHANGED <<hw, home, hacount>>
      /\ patch.entity \in Entities /\ patch.to \in Vals
      /\ ha.ents \in {None} \union [Entities -> Vals] /\ ha.jobs \in Seq(HaJobs)
  BY DEF HaInv, HaTypes, Hists, Patch, HaStates
<1> DEFINE b == hahist.blur \/ ~Underway
           f == [ha.ents EXCEPT ![patch.entity] = patch.to]
<1>2. hahist' \in Hists /\ UNCHANGED <<hahist.wish, hahist.clean>> /\ hahist'.blur = b
  <2>1. hahist' = [hahist EXCEPT !.blur = b]
    BY DEF Patch
  <2>2. b \in BOOLEAN
    BY <1>1, Zenon DEF Hists
  <2> HIDE DEF b
  <2> QED
    BY <1>1, <2>1, <2>2, SetOnlyBlur
<1>3. /\ ha' \in HaStates
      /\ UNCHANGED <<ha.url, ha.token, ha.gen, ha.st, ha.of, ha.info, ha.jobs, ha.pending, ha.failed>>
      /\ ha.ents = None => ha'.ents = None
      /\ ha.ents # None => /\ ha'.ents \in [Entities -> Vals]
                           /\ \A d \in Entities : d # patch.entity => ha'.ents[d] = ha.ents[d]
  <2>1. CASE ha.ents = None
    BY <1>1, <2>1 DEF Patch
  <2>2. CASE ha.ents # None
    <3>1. /\ f \in [Entities -> Vals] /\ f \in {None} \union [Entities -> Vals]
          /\ \A d \in Entities : d # patch.entity => f[d] = ha.ents[d]
      BY <1>1, <2>2
    <3>2. ha' = [ha EXCEPT !.ents = f]
      BY <2>2 DEF Patch
    <3> HIDE DEF f
    <3>3. /\ ha' \in HaStates /\ ha'.ents = f
          /\ UNCHANGED <<ha.url, ha.token, ha.gen, ha.st, ha.of, ha.info, ha.jobs, ha.pending, ha.failed>>
      BY <1>1, <3>1, <3>2, SetEnts
    <3> QED
      BY <2>2, <3>1, <3>3
  <2> QED
    BY <2>1, <2>2
<1>4. None \notin [Entities -> Vals]
  BY HaAssumption
<1>5. HaTypes' /\ WorkerIs' /\ QueueIs' /\ NoLostWakeup' /\ OfThisServer'
  <2>1. HaTypes'
    BY <1>1, <1>2, <1>3 DEF HaInv, HaTypes, Hists
  <2>2. WorkerIs'
    BY <1>1, <1>3 DEF HaInv, WorkerIs, Configured
  <2>3. QueueIs'
    BY <1>1, <1>3 DEF HaInv, QueueIs, Configured
  <2>4. NoLostWakeup'
    BY <1>1, <1>3 DEF HaInv, NoLostWakeup, Asleep
  <2>5. OfThisServer'
    BY <1>1, <1>3, <1>4 DEF HaInv, OfThisServer, Configured
  <2> QED
    BY <2>1, <2>2, <2>3, <2>4, <2>5
<1>6. WishDue'
  BY <1>1, <1>2, <1>3, WishSame DEF HaInv
<1>7. \A d : InWork(d)' = InWork(d)
  BY <1>1, <1>3, JobsSame DEF InWork
<1>8. Underway => InWork(patch.entity)
  <2>1. Len(ha.jobs) > 0 => ha.jobs # <<>> /\ Len(ha.jobs) \in 1..Len(ha.jobs)
    BY <1>1
  <2> QED
    BY <1>1, <2>1 DEF HaInv, QueueIs, Underway, InWork, Waits, InJob
<1>9. ShownDue'
  <2> SUFFICES ASSUME ~hahist'.blur PROVE ShownDue'
    BY DEF ShownDue
  <2>1. ~hahist.blur /\ \A d : d = patch.entity => InWork(d)'
    BY <1>2, <1>7, <1>8
  <2>2. ASSUME NEW d \in Entities, ha.ents # None, ha.ents[d] = home[ha.url][d]
        PROVE  ha'.ents[d] = home[ha.url][d] \/ InWork(d)'
    BY <1>3, <2>1, <2>2
  <2>3. ha'.ents # None => ha.ents # None
    BY <1>3
  <2> QED
    BY <1>1, <1>3, <1>7, <2>1, <2>2, <2>3 DEF HaInv, ShownDue
<1> QED
  BY <1>5, <1>6, <1>9 DEF HaInv

\* What the rest of the invariant is, where nothing but flags of g changes
LEMMA FlagsKeep ==
  ASSUME HaInv, ha' \in HaStates, hw' \in HaWorkers, UNCHANGED <<patch, home, hahist>>,
         UNCHANGED <<ha.url, ha.token, ha.gen, ha.st, ha.ents, ha.of, ha.info, ha.jobs>>,
         UNCHANGED <<hw.gen, hw.url, hw.job, hw.read>>,
         \/ hw'.at = hw.at /\ UNCHANGED ha.pending
         \/ ha'.pending /\ Configured(ha) /\ hw'.at # "asleep" /\ (hw'.at = hw.at \/ hw'.at = "look")
            /\ (hw.at = "call" => hw'.at = "call")
  PROVE  HaInv'
<1>1. HaTypes'
  BY DEF HaInv, HaTypes
<1>2. WorkerIs'
  BY DEF HaInv, WorkerIs, Configured, InJob
<1>3. QueueIs'
  BY DEF HaInv, QueueIs, Configured
<1>4. WishDue'
  BY WishSame DEF HaInv
<1>5. NoLostWakeup'
  BY DEF HaInv, NoLostWakeup, Asleep
<1>6. OfThisServer'
  BY DEF HaInv, OfThisServer, Configured
<1>7. \A d : hw'.at = hw.at => InWork(d)' = InWork(d)
  BY JobsSame DEF InWork
<1>8. ShownDue'
  BY <1>7 DEF HaInv, ShownDue
<1> QED
  BY <1>1, <1>2, <1>3, <1>4, <1>5, <1>6, <1>8 DEF HaInv

LEMMA RefreshKeeps == HaInv /\ Refresh => HaInv'
<1> SUFFICES ASSUME HaInv, Refresh PROVE HaInv'
  OBVIOUS
<1>1. ha \in HaStates /\ hw \in HaWorkers /\ Configured(ha) /\ Signal /\ UNCHANGED <<patch, home, hahist>>
  BY DEF HaInv, HaTypes, Refresh
<1>2. /\ ha' \in HaStates /\ ha'.pending
      /\ UNCHANGED <<ha.url, ha.token, ha.gen, ha.st, ha.ents, ha.of, ha.info, ha.jobs>>
  <2>1. ha' = [ha EXCEPT !.pending = TRUE] /\ TRUE \in BOOLEAN
    BY DEF Refresh
  <2> QED
    BY <1>1, <2>1, SetPending, Zenon
<1> QED
  BY <1>1, <1>2, Signalled, FlagsKeep

LEMMA TakeFailureKeeps == HaInv /\ TakeFailure => HaInv'
<1> SUFFICES ASSUME HaInv, TakeFailure PROVE HaInv'
  OBVIOUS
<1>1. ha \in HaStates /\ hw \in HaWorkers /\ UNCHANGED <<hw, patch, home, hahist>>
  BY DEF HaInv, HaTypes, TakeFailure
<1>2. /\ ha' \in HaStates
      /\ UNCHANGED <<ha.url, ha.token, ha.gen, ha.st, ha.ents, ha.of, ha.info, ha.jobs, ha.pending>>
  <2>1. ha' = [ha EXCEPT !.failed = FALSE] /\ FALSE \in BOOLEAN
    BY DEF TakeFailure
  <2> QED
    BY <1>1, <2>1, SetFailed, Zenon
<1> QED
  BY <1>1, <1>2, FlagsKeep

\* The server changed: nothing of before is left but what the worker has in hand.
LEMMA ConfigureKeeps ==
  ASSUME HaInv, NEW url \in Servers \union {None}, NEW token \in BOOLEAN, Configure(url, token)
  PROVE  HaInv'
<1>1. /\ ha \in HaStates /\ hw \in HaWorkers /\ hahist \in Hists /\ ha.gen \in Nat
      /\ ha.jobs \in Seq(HaJobs) /\ patch = None /\ UNCHANGED <<patch, home>> /\ Signal
  BY DEF HaInv, HaTypes, Hists, Configure, HaStates
<1>2. /\ ha' \in HaStates /\ ha'.url = url /\ ha'.token = token /\ ha'.gen = ha.gen + 1
      /\ ha'.ents = None /\ ha'.of = None /\ ha'.info = None /\ ha'.jobs = <<>>
      /\ ha'.pending = (url # None /\ token)
      /\ ha'.st = IF url # None /\ token THEN "connecting" ELSE "unconfigured"
  <2> DEFINE k == [ha EXCEPT !.url = url, !.token = token]
  <2>1. ha' = Changed(k)
    BY DEF Configure
  <2>2. k \in HaStates /\ k.url = url /\ k.token = token /\ k.gen = ha.gen
    <3>1. ha \in HaStates
      BY <1>1
    <3> QED
      BY <3>1, Zenon DEF HaStates
  <2> HIDE DEF k
  <2>3. Configured(k) = (url # None /\ token)
    BY <2>2, Zenon DEF Configured
  <2> QED
    BY <2>1, <2>2, <2>3, ChangedIs, Zenon
<1>3. /\ hw' \in HaWorkers /\ hw'.at = IF hw.at = "asleep" THEN "look" ELSE hw.at
      /\ hw'.gen = hw.gen /\ hw'.url = hw.url /\ hw'.job = hw.job /\ hw'.read = hw.read
  BY <1>1, Signalled
<1> DEFINE c == hahist.clean /\ ha.jobs = <<>> /\ hw.at # "call"
<1>4. hahist' \in Hists /\ UNCHANGED hahist.wish /\ hahist'.clean = c /\ hahist'.blur
  <2>1. hahist' = [hahist EXCEPT !.clean = c, !.blur = TRUE]
    BY DEF Configure
  <2>2. c \in BOOLEAN /\ TRUE \in BOOLEAN
    BY <1>1, Zenon DEF Hists
  <2> HIDE DEF c
  <2> QED
    BY <1>1, <2>1, <2>2, SetBlur, Zenon
<1>5. HaTypes'
  BY <1>1, <1>2, <1>3, <1>4 DEF HaInv, HaTypes, Hists
<1>6. WorkerIs'
  <2>1. hw.gen \in Nat /\ hw.gen <= ha.gen
    BY <1>1 DEF HaInv, WorkerIs, HaWorkers
  <2>2. hw'.gen <= ha'.gen /\ hw'.gen # ha'.gen
    BY <1>1, <1>2, <1>3, <2>1
  <2>3. ha'.ents = None
    BY <1>2
  <2>4. hw'.at \notin {"asleep", "look"} => hw'.at = hw.at /\ hw.at \notin {"asleep", "look"}
    BY <1>3
  <2> QED
    BY <1>3, <2>2, <2>3, <2>4 DEF HaInv, WorkerIs, InJob
<1>7. QueueIs'
  <2>1. ha'.pending => Configured(ha')
    BY <1>2, Zenon DEF Configured
  <2>2. ha'.jobs = <<>> /\ 1..Len(ha'.jobs) = {}
    BY <1>2
  <2> QED
    BY <1>1, <2>1, <2>2 DEF QueueIs
<1>8. NoLostWakeup' /\ OfThisServer'
  BY <1>2, <1>3 DEF NoLostWakeup, Asleep, OfThisServer, Configured
<1>9. ShownDue'
  BY <1>4 DEF ShownDue
<1>10. WishDue'
  <2> SUFFICES ASSUME hahist'.clean PROVE WishDue'
    BY DEF WishDue
  <2>1. hahist.clean /\ ha.jobs = <<>> /\ hw.at # "call" /\ hw'.at # "call"
    BY <1>3, <1>4
  <2>2. \A d : ~Waits(d)
    BY <2>1 DEF Waits
  <2>3. \A t \in Servers, d \in Entities : home'[t][d] = hahist'.wish[t][d]
    BY <1>1, <1>4, <2>1, <2>2 DEF HaInv, WishDue
  <2>4. 1..Len(ha'.jobs) = {}
    BY <1>2
  <2> QED
    BY <2>1, <2>3, <2>4 DEF WishDue
<1> QED
  BY <1>5, <1>6, <1>7, <1>8, <1>9, <1>10 DEF HaInv

\* The oldest job becomes the worker's.
LEMMA TakeJobKeeps == HaInv /\ TakeJob => HaInv'
<1> SUFFICES ASSUME HaInv, TakeJob PROVE HaInv'
  OBVIOUS
<1> DEFINE n == Len(ha.jobs)
<1>1. /\ ha \in HaStates /\ hw \in HaWorkers /\ ha.jobs \in Seq(HaJobs) /\ ha.jobs # <<>>
      /\ hw.at = "look" /\ UNCHANGED <<patch, home, hahist>> /\ Configured(ha)
      /\ ha.gen \in Nat /\ ha.url \in Servers
  BY DEF HaInv, HaTypes, HaStates, TakeJob, QueueIs, Configured
<1>2. /\ n \in Nat /\ n > 0 /\ Head(ha.jobs) = ha.jobs[1] /\ Tail(ha.jobs) \in Seq(HaJobs)
      /\ Len(Tail(ha.jobs)) = n - 1 /\ Head(ha.jobs) \in HaJobs
      /\ \A i \in 1..n - 1 : Tail(ha.jobs)[i] = ha.jobs[i + 1]
  BY <1>1
<1>3. /\ ha' \in HaStates /\ ha'.jobs = Tail(ha.jobs)
      /\ UNCHANGED <<ha.url, ha.token, ha.gen, ha.st, ha.ents, ha.of, ha.info, ha.pending, ha.failed>>
  <2>1. ha' = [ha EXCEPT !.jobs = Tail(ha.jobs)]
    BY DEF TakeJob
  <2> QED
    BY <1>1, <1>2, <2>1, SetJobs
<1>4. /\ hw' \in HaWorkers /\ hw'.at = "call" /\ hw'.gen = ha.gen /\ hw'.url = ha.url
      /\ hw'.job = Head(ha.jobs) /\ hw'.read = hw.read
  <2>1. hw' = [hw EXCEPT !.at = "call", !.gen = ha.gen, !.url = ha.url, !.job = Head(ha.jobs)]
    BY DEF TakeJob
  <2>2. /\ "call" \in HaPlaces /\ ha.gen \in Nat /\ ha.url \in Servers \union {None}
        /\ Head(ha.jobs) \in {None} \union HaJobs /\ hw \in HaWorkers
    BY <1>1, <1>2 DEF HaPlaces
  <2> DEFINE w == [hw EXCEPT !.at = "call", !.gen = ha.gen, !.url = ha.url, !.job = Head(ha.jobs)]
  <2>3. /\ w \in HaWorkers /\ w.at = "call" /\ w.gen = ha.gen /\ w.url = ha.url
        /\ w.job = Head(ha.jobs) /\ w.read = hw.read
    BY <2>2, Zenon DEF HaWorkers
  <2> HIDE DEF w
  <2> QED
    BY <2>1, <2>3, Zenon DEF w
<1>5. /\ \A i \in 1..n - 1 : ha'.jobs[i] = ha.jobs[i + 1] /\ i + 1 \in 1..n
      /\ Len(ha'.jobs) = n - 1
  BY <1>2, <1>3
<1>6. hw'.job.gen = ha.gen /\ hw'.job.entity \in Entities
  BY <1>1, <1>2, <1>4 DEF HaInv, QueueIs, HaJobs
<1>7. \A d : Waits(d) => Waits(d)' \/ hw'.job.entity = d
  <2> SUFFICES ASSUME NEW d, NEW i \in 1..n, ha.jobs[i].entity = d, i # 1 PROVE Waits(d)'
    BY <1>2, <1>4 DEF Waits
  <2>1. i - 1 \in 1..n - 1 /\ ha'.jobs[i - 1] = ha.jobs[i]
    BY <1>2, <1>5
  <2> QED
    BY <1>5, <2>1 DEF Waits
<1>8. \A d : Waits(d)' => \E i \in 2..n : ha.jobs[i].entity = d
  <2> SUFFICES ASSUME NEW d, NEW i \in 1..n - 1, ha'.jobs[i].entity = d
               PROVE  \E k \in 2..n : ha.jobs[k].entity = d
    BY <1>5 DEF Waits
  <2>1. i + 1 \in 2..n /\ ha.jobs[i + 1].entity = d
    BY <1>2, <1>5
  <2> QED
    BY <2>1
<1>9. HaTypes'
  BY <1>1, <1>3, <1>4 DEF HaInv, HaTypes
<1>10. WorkerIs'
  BY <1>1, <1>2, <1>3, <1>4, <1>6 DEF HaInv, WorkerIs, Configured, InJob
<1>11. QueueIs'
  <2>1. ha'.jobs # <<>> => n > 1 /\ ha'.jobs[n - 1] = ha.jobs[n]
    BY <1>2, <1>3, <1>5
  <2> QED
    BY <1>1, <1>3, <1>5, <2>1 DEF HaInv, QueueIs, Configured
<1>12. NoLostWakeup' /\ OfThisServer'
  BY <1>3, <1>4 DEF HaInv, NoLostWakeup, Asleep, OfThisServer, Configured
<1>13. WishDue'
  <2> SUFFICES ASSUME hahist.clean PROVE WishDue'
    BY <1>1 DEF WishDue
  <2>1. \A t \in Servers, e \in Entities : home[t][e] = hahist.wish[t][e] \/ (t = ha.url /\ Waits(e))
    BY <1>1 DEF HaInv, WishDue
  <2>2. ASSUME NEW i \in 1..n - 1, IsLast(i)' PROVE ha'.jobs[i].to = hahist.wish[ha.url][ha'.jobs[i].entity]
    <3>1. IsLast(i + 1)
      <4> SUFFICES ASSUME NEW k \in 1..n, k > i + 1 PROVE ha.jobs[k].entity # ha.jobs[i + 1].entity
        BY DEF IsLast
      <4>1. k - 1 \in 1..n - 1 /\ k - 1 > i /\ ha'.jobs[k - 1] = ha.jobs[k]
        BY <1>2, <1>5
      <4> QED
        BY <1>5, <2>2, <4>1 DEF IsLast
    <3>2. i + 1 \in 1..n /\ ha'.jobs[i] = ha.jobs[i + 1]
      BY <1>5
    <3> QED
      BY <3>1, <3>2 DEF HaInv, WishDue
  <2>3. ASSUME NEW e \in Entities, hw'.job.entity = e, ~Waits(e)'
        PROVE  hw'.job.to = hahist.wish[ha.url][e]
    <3>1. IsLast(1)
      <4> SUFFICES ASSUME NEW k \in 1..n, k > 1, ha.jobs[k].entity = ha.jobs[1].entity PROVE FALSE
        BY DEF IsLast
      <4>1. k - 1 \in 1..n - 1 /\ ha'.jobs[k - 1] = ha.jobs[k]
        BY <1>2, <1>5
      <4> QED
        BY <1>2, <1>4, <1>5, <2>3, <4>1 DEF Waits
    <3>2. 1 \in 1..n
      BY <1>2
    <3> QED
      BY <1>2, <1>4, <2>3, <3>1, <3>2 DEF HaInv, WishDue
  <2> QED
    BY <1>1, <1>3, <1>4, <1>5, <1>7, <2>1, <2>2, <2>3 DEF WishDue
<1>14. ShownDue'
  <2>1. \A d : InWork(d) => InWork(d)'
    BY <1>1, <1>4, <1>7 DEF InWork, InJob
  <2> QED
    BY <1>1, <1>3, <1>4, <2>1 DEF HaInv, ShownDue
<1> QED
  BY <1>9, <1>10, <1>11, <1>12, <1>13, <1>14 DEF HaInv

LEMMA TakeRefreshKeeps == HaInv /\ TakeRefresh => HaInv'
<1> SUFFICES ASSUME HaInv, TakeRefresh PROVE HaInv'
  OBVIOUS
<1>1. /\ ha \in HaStates /\ hw \in HaWorkers /\ ha.jobs = <<>> /\ hw.at = "look"
      /\ UNCHANGED <<patch, home, hahist>> /\ ha.gen \in Nat /\ ha.url \in Servers \union {None}
      /\ ha.pending \in BOOLEAN
  BY DEF HaInv, HaTypes, HaStates, TakeRefresh
<1>2. CASE ha.pending /\ Configured(ha)
  <2>1. /\ ha' \in HaStates /\ ha'.pending = FALSE
        /\ UNCHANGED <<ha.url, ha.token, ha.gen, ha.st, ha.ents, ha.of, ha.info, ha.jobs, ha.failed>>
    <3>1. ha' = [ha EXCEPT !.pending = FALSE] /\ FALSE \in BOOLEAN /\ ha \in HaStates
      BY <1>1, <1>2 DEF TakeRefresh
    <3> QED
      BY <3>1, SetPending, Zenon
  <2>2. /\ hw' \in HaWorkers /\ hw'.at = "fetch" /\ hw'.gen = ha.gen /\ hw'.url = ha.url
        /\ UNCHANGED <<hw.job, hw.read>>
    <3>1. /\ hw' = [hw EXCEPT !.at = "fetch", !.gen = ha.gen, !.url = ha.url] /\ "fetch" \in HaPlaces
          /\ hw \in HaWorkers /\ ha.gen \in Nat /\ ha.url \in Servers \union {None}
      BY <1>1, <1>2 DEF TakeRefresh, HaPlaces
    <3> DEFINE w == [hw EXCEPT !.at = "fetch", !.gen = ha.gen, !.url = ha.url]
    <3>2. /\ w \in HaWorkers /\ w.at = "fetch" /\ w.gen = ha.gen /\ w.url = ha.url
          /\ w.job = hw.job /\ w.read = hw.read
      BY <3>1, Zenon DEF HaWorkers
    <3> HIDE DEF w
    <3> QED
      BY <3>1, <3>2, Zenon DEF w
  <2>3. HaTypes'
    BY <1>1, <2>1, <2>2 DEF HaInv, HaTypes
  <2>4. WorkerIs'
    BY <1>1, <1>2, <2>1, <2>2 DEF HaInv, WorkerIs, Configured, InJob
  <2>5. QueueIs' /\ NoLostWakeup' /\ OfThisServer'
    BY <1>1, <2>1, <2>2 DEF HaInv, QueueIs, Configured, NoLostWakeup, Asleep, OfThisServer
  <2>6. WishDue'
    BY <1>1, <2>1, <2>2, WishSame DEF HaInv
  <2>7. ShownDue'
    BY <2>2 DEF ShownDue
  <2> QED
    BY <2>3, <2>4, <2>5, <2>6, <2>7 DEF HaInv
<1>3. CASE ~(ha.pending /\ Configured(ha))
  <2>1. ~ha.pending /\ UNCHANGED ha
    BY <1>3 DEF HaInv, QueueIs, TakeRefresh
  <2>2. hw' \in HaWorkers /\ hw'.at = "asleep" /\ UNCHANGED <<hw.gen, hw.url, hw.job, hw.read>>
    <3>1. hw' = [hw EXCEPT !.at = "asleep"] /\ "asleep" \in HaPlaces
      BY <1>3 DEF TakeRefresh, Goes, HaPlaces
    <3> QED
      BY <1>1, <3>1, SetAt
  <2>3. HaTypes'
    BY <1>1, <2>1, <2>2 DEF HaInv, HaTypes
  <2>4. WorkerIs'
    BY <2>1, <2>2 DEF HaInv, WorkerIs, Configured, InJob
  <2>5. QueueIs' /\ NoLostWakeup' /\ OfThisServer'
    BY <1>1, <2>1, <2>2 DEF HaInv, QueueIs, Configured, NoLostWakeup, Asleep, OfThisServer
  <2>6. WishDue'
    BY <1>1, <2>1, <2>2, WishSame DEF HaInv
  <2>7. \A d : InWork(d) => InWork(d)'
    BY <1>1, <2>1, JobsSame DEF InWork, InJob
  <2>8. ShownDue'
    BY <1>1, <2>1, <2>2, <2>7 DEF HaInv, ShownDue
  <2> QED
    BY <2>3, <2>4, <2>5, <2>6, <2>8 DEF HaInv
<1> QED
  BY <1>2, <1>3

\* The call reaches the server the job was meant for, or its failure is seen.
LEMMA CallKeeps ==
  ASSUME HaInv, NEW heard \in BOOLEAN, NEW answered \in BOOLEAN, Call(heard, answered)
  PROVE  HaInv'
<1> DEFINE e  == hw.job.entity
           to == IF answered THEN "ask" ELSE "failed"
<1>1. /\ ha \in HaStates /\ hw \in HaWorkers /\ home \in Homes /\ hahist \in Hists /\ hw.at = "call"
      /\ UNCHANGED <<ha, patch>> /\ hw.url \in Servers /\ hw.job \in HaJobs /\ (answered => heard)
      /\ e \in Entities /\ hw.job.to \in Vals
  BY DEF HaInv, HaTypes, Hists, Call, WorkerIs, InJob, HaJobs
<1>2. hw' \in HaWorkers /\ hw'.at = to /\ UNCHANGED <<hw.gen, hw.url, hw.job, hw.read>>
  <2>1. hw' = [hw EXCEPT !.at = to] /\ to \in HaPlaces
    BY DEF Call, Goes, HaPlaces
  <2> HIDE DEF to
  <2> QED
    BY <1>1, <2>1, SetAt
<1>3. /\ home' \in Homes
      /\ \A t \in Servers, d \in Entities :
           home'[t][d] = IF heard /\ t = hw.url /\ d = e THEN hw.job.to ELSE home[t][d]
  <2>1. CASE heard
    <3>1. home' = [home EXCEPT ![hw.url][e] = hw.job.to]
      BY <2>1 DEF Call
    <3>2. home \in Homes /\ hw.url \in Servers /\ e \in Entities /\ hw.job.to \in Vals
      BY <1>1
    <3> HIDE DEF e
    <3> DEFINE h == [home EXCEPT ![hw.url][e] = hw.job.to]
    <3>3. /\ h \in Homes
          /\ \A t \in Servers, d \in Entities : h[t][d] = IF t = hw.url /\ d = e THEN hw.job.to ELSE home[t][d]
      BY <3>2, SetHome
    <3> HIDE DEF h
    <3>4. home' = h
      BY <3>1, Zenon DEF h
    <3> QED
      BY <2>1, <3>3, <3>4
  <2>2. CASE ~heard
    BY <1>1, <2>2 DEF Call
  <2> QED
    BY <2>1, <2>2
<1>4. /\ hahist' \in Hists /\ UNCHANGED <<hahist.wish, hahist.blur>>
      /\ answered => UNCHANGED hahist
      /\ ~answered => hahist'.clean = FALSE
  <2>1. CASE answered
    BY <1>1, <2>1 DEF Call
  <2>2. CASE ~answered
    <3>1. hahist' = [hahist EXCEPT !.clean = FALSE] /\ FALSE \in BOOLEAN /\ hahist \in Hists
      BY <1>1, <2>2 DEF Call
    <3>2. /\ hahist' \in Hists /\ UNCHANGED <<hahist.wish, hahist.blur>> /\ hahist'.clean = FALSE
      BY <3>1, SetClean, Zenon
    <3> QED
      BY <2>2, <3>2
  <2> QED
    BY <2>1, <2>2
<1>5. to \in {"ask", "failed"}
  OBVIOUS
<1> HIDE DEF to
<1>6. HaTypes'
  BY <1>1, <1>2, <1>3, <1>4 DEF HaInv, HaTypes, Hists
<1>7. WorkerIs' /\ QueueIs' /\ NoLostWakeup' /\ OfThisServer'
  <2>1. WorkerIs'
    BY <1>1, <1>2, <1>5 DEF HaInv, WorkerIs, Configured, InJob
  <2> QED
    BY <1>1, <1>2, <1>5, <2>1 DEF HaInv, QueueIs, Configured, NoLostWakeup, Asleep, OfThisServer
<1>8. \A d : Waits(d)' = Waits(d)
  BY <1>1, JobsSame
<1>9. WishDue'
  <2> SUFFICES ASSUME hahist'.clean PROVE WishDue'
    BY DEF WishDue
  <2>1. answered /\ heard /\ UNCHANGED hahist /\ hahist.clean
    BY <1>1, <1>4
  <2>2. hw.url = ha.url
    BY <1>1, <2>1 DEF HaInv, WishDue, WorkerIs
  <2>3. ASSUME NEW t \in Servers, NEW d \in Entities
        PROVE  home'[t][d] = hahist.wish[t][d] \/ (t = ha.url /\ Waits(d))
    <3>1. CASE t = hw.url /\ d = e
      <4>1. ~Waits(e) => hw.job.to = hahist.wish[ha.url][e]
        BY <1>1, <2>1 DEF HaInv, WishDue
      <4> QED
        BY <1>3, <2>1, <2>2, <3>1, <4>1
    <3>2. CASE ~(t = hw.url /\ d = e)
      BY <1>3, <2>1, <2>2, <3>2 DEF HaInv, WishDue
    <3> QED
      BY <3>1, <3>2
  <2>4. \A i \in 1..Len(ha.jobs) : IsLast(i) => ha.jobs[i].to = hahist.wish[ha.url][ha.jobs[i].entity]
    BY <2>1 DEF HaInv, WishDue
  <2> QED
    BY <1>1, <1>2, <1>5, <2>1, <2>3, <2>4, JobsSame DEF WishDue
<1>10. ShownDue'
  <2> SUFFICES ASSUME ~hahist'.blur, ha.ents # None PROVE ShownDue'
    BY <1>1, <1>2, <1>5 DEF ShownDue
  <2>1. hw.url = ha.url
    BY <1>1 DEF HaInv, WorkerIs
  <2>2. \A d : InWork(d)' = InWork(d)
    BY <1>1, <1>2, <1>5, <1>8 DEF InWork, InJob
  <2>3. InWork(e)
    BY <1>1 DEF InWork, InJob
  <2>4. \A d \in Entities : d # e => home'[ha.url][d] = home[ha.url][d]
    BY <1>1, <1>3, <2>1
  <2> QED
    BY <1>1, <1>2, <1>4, <1>5, <2>1, <2>2, <2>3, <2>4 DEF HaInv, ShownDue
<1> QED
  BY <1>6, <1>7, <1>9, <1>10 DEF HaInv

LEMMA FailedKeeps == HaInv /\ Failed => HaInv'
<1> SUFFICES ASSUME HaInv, Failed PROVE HaInv'
  OBVIOUS
<1>1. /\ ha \in HaStates /\ hw \in HaWorkers /\ hw.at = "failed" /\ UNCHANGED <<patch, home, hahist>>
  BY DEF HaInv, HaTypes, Failed
<1>2. hw' \in HaWorkers /\ hw'.at = "look" /\ UNCHANGED <<hw.gen, hw.url, hw.job, hw.read>>
  <2>1. hw' = [hw EXCEPT !.at = "look"] /\ "look" \in HaPlaces
    BY DEF Failed, Goes, HaPlaces
  <2> QED
    BY <1>1, <2>1, SetAt
<1>3. CASE hw.gen = ha.gen
  <2>1. /\ ha' \in HaStates /\ ha'.pending
        /\ UNCHANGED <<ha.url, ha.token, ha.gen, ha.st, ha.ents, ha.of, ha.info, ha.jobs>>
    <3>1. ha' = [ha EXCEPT !.failed = TRUE, !.pending = TRUE] /\ ha \in HaStates
      BY <1>1, <1>3 DEF Failed
    <3> DEFINE r == [ha EXCEPT !.failed = TRUE, !.pending = TRUE]
    <3>2. /\ r \in HaStates /\ r.url = ha.url /\ r.token = ha.token /\ r.gen = ha.gen /\ r.st = ha.st
          /\ r.ents = ha.ents /\ r.of = ha.of /\ r.info = ha.info /\ r.jobs = ha.jobs /\ r.pending = TRUE
      BY <3>1, Zenon DEF HaStates
    <3> HIDE DEF r
    <3> QED
      BY <3>1, <3>2, Zenon DEF r
  <2>2. Configured(ha)
    BY <1>1, <1>3 DEF HaInv, WorkerIs
  <2> QED
    BY <1>1, <1>2, <2>1, <2>2, FlagsKeep
<1>4. CASE hw.gen # ha.gen
  <2>1. UNCHANGED ha /\ ha.ents = None
    BY <1>4 DEF HaInv, WorkerIs, Failed
  <2>2. HaTypes'
    BY <1>1, <1>2, <2>1 DEF HaInv, HaTypes
  <2>3. WorkerIs'
    BY <1>1, <1>2, <2>1 DEF HaInv, WorkerIs, Configured, InJob
  <2>4. QueueIs' /\ NoLostWakeup' /\ OfThisServer'
    BY <1>1, <1>2, <2>1 DEF HaInv, QueueIs, Configured, NoLostWakeup, Asleep, OfThisServer
  <2>5. WishDue'
    BY <1>1, <1>2, <2>1, WishSame DEF HaInv
  <2>6. ShownDue'
    BY <1>2, <2>1 DEF ShownDue
  <2> QED
    BY <2>2, <2>3, <2>4, <2>5, <2>6 DEF HaInv
<1> QED
  BY <1>3, <1>4

\* What is read is what is so, at the server the worker asks.
LEMMA ReadsKeeps ==
  ASSUME HaInv, NEW ok \in BOOLEAN, Reads(ok)
  PROVE  HaInv'
<1> DEFINE good == IF hw.at = "ask" THEN "confirm" ELSE "store"
           bad  == IF hw.at = "ask" THEN "look" ELSE "error"
<1>1. /\ ha \in HaStates /\ hw \in HaWorkers /\ home \in Homes /\ hahist \in Hists
      /\ hw.at \in {"ask", "fetch"} /\ UNCHANGED <<ha, patch, home>> /\ hw.url \in Servers
      /\ home[hw.url] \in [Entities -> Vals]
  BY DEF HaInv, HaTypes, Hists, Reads, WorkerIs, Homes
<1>2. /\ hw' \in HaWorkers /\ UNCHANGED <<hw.gen, hw.url, hw.job>>
      /\ ok => hw'.at = good /\ hw'.read = home[hw.url]
      /\ ~ok => hw'.at = bad /\ hw'.read = hw.read
  <2>1. CASE ok
    <3>1. /\ hw' = [hw EXCEPT !.at = good, !.read = home[hw.url]]
          /\ hw \in HaWorkers /\ good \in HaPlaces /\ home[hw.url] \in {None} \union [Entities -> Vals]
      BY <1>1, <2>1 DEF Reads, HaPlaces
    <3> HIDE DEF good
    <3> DEFINE w == [hw EXCEPT !.at = good, !.read = home[hw.url]]
    <3>2. /\ w \in HaWorkers /\ w.at = good /\ w.gen = hw.gen /\ w.url = hw.url
          /\ w.job = hw.job /\ w.read = home[hw.url]
      BY <3>1, Zenon DEF HaWorkers
    <3> HIDE DEF w
    <3>3. hw' = w
      BY <3>1 DEF w
    <3> QED
      BY <2>1, <3>2, <3>3, Zenon
  <2>2. CASE ~ok
    <3>1. hw' = [hw EXCEPT !.at = bad] /\ bad \in HaPlaces
      BY <1>1, <2>2 DEF Reads, HaPlaces
    <3> HIDE DEF bad
    <3> QED
      BY <1>1, <2>2, <3>1, SetAt
  <2> QED
    BY <2>1, <2>2
<1>3. /\ hahist' \in Hists /\ UNCHANGED <<hahist.wish, hahist.clean>>
      /\ ~hahist'.blur => ok /\ (hw.at = "ask" => ~hahist.blur)
  <2> DEFINE b == IF ok THEN hahist.blur /\ hw.at = "ask" ELSE TRUE
  <2>1. hahist' = [hahist EXCEPT !.blur = b]
    BY DEF Reads
  <2>2. b \in BOOLEAN /\ (~b => ok /\ (hw.at = "ask" => ~hahist.blur))
    BY <1>1, Zenon DEF Hists
  <2> HIDE DEF b
  <2>3. hahist' \in Hists /\ UNCHANGED <<hahist.wish, hahist.clean>> /\ hahist'.blur = b
    BY <1>1, <2>1, <2>2, SetOnlyBlur
  <2> QED
    BY <2>2, <2>3, Zenon
<1>4. HaTypes'
  BY <1>1, <1>2, <1>3 DEF HaInv, HaTypes, Hists
<1>5. WorkerIs'
  BY <1>1, <1>2 DEF HaInv, WorkerIs, Configured, InJob
<1>6. QueueIs' /\ NoLostWakeup' /\ OfThisServer'
  BY <1>1, <1>2 DEF HaInv, QueueIs, Configured, NoLostWakeup, Asleep, OfThisServer
<1>7. WishDue'
  BY <1>1, <1>2, <1>3, WishSame DEF HaInv
<1>8. ShownDue'
  <2> SUFFICES ASSUME ~hahist'.blur PROVE ShownDue'
    BY DEF ShownDue
  <2>1. ok /\ hw'.at = good /\ hw'.read = home[hw.url] /\ (hw.gen = ha.gen => hw.url = ha.url)
    BY <1>1, <1>2, <1>3 DEF HaInv, WorkerIs
  <2>2. CASE hw.at = "ask"
    <3>1. ~hahist.blur /\ \A d : InWork(d)' = InWork(d)
      BY <1>1, <1>2, <1>3, <2>1, <2>2, JobsSame DEF InWork, InJob
    <3> QED
      BY <1>1, <1>2, <2>1, <2>2, <3>1 DEF HaInv, ShownDue
  <2>3. CASE hw.at = "fetch"
    BY <1>1, <1>2, <2>1, <2>3 DEF ShownDue
  <2> QED
    BY <1>1, <2>2, <2>3
<1> QED
  BY <1>4, <1>5, <1>6, <1>7, <1>8 DEF HaInv

LEMMA ConfirmKeeps == HaInv /\ Confirm => HaInv'
<1> SUFFICES ASSUME HaInv, Confirm PROVE HaInv'
  OBVIOUS
<1> DEFINE e == hw.job.entity
           f == [ha.ents EXCEPT ![e] = hw.read[e]]
<1>1. /\ ha \in HaStates /\ hw \in HaWorkers /\ hw.at = "confirm" /\ UNCHANGED <<patch, home, hahist>>
      /\ hw.read \in [Entities -> Vals] /\ e \in Entities /\ ha.ents \in {None} \union [Entities -> Vals]
      /\ (ha.ents # None => hw.gen = ha.gen)
  BY DEF HaInv, HaTypes, HaStates, Confirm, WorkerIs, InJob, HaJobs
<1>2. hw' \in HaWorkers /\ hw'.at = "look" /\ UNCHANGED <<hw.gen, hw.url, hw.job>>
  <2>1. /\ hw' = [hw EXCEPT !.at = "look", !.read = None] /\ hw \in HaWorkers /\ "look" \in HaPlaces
        /\ None \in {None} \union [Entities -> Vals]
    BY <1>1 DEF Confirm, HaPlaces
  <2> DEFINE w == [hw EXCEPT !.at = "look", !.read = None]
  <2>2. w \in HaWorkers /\ w.at = "look" /\ w.gen = hw.gen /\ w.url = hw.url /\ w.job = hw.job
    BY <2>1, Zenon DEF HaWorkers
  <2> HIDE DEF w
  <2> QED
    BY <2>1, <2>2, Zenon DEF w
<1>3. /\ ha' \in HaStates
      /\ UNCHANGED <<ha.url, ha.token, ha.gen, ha.st, ha.of, ha.info, ha.jobs, ha.pending, ha.failed>>
      /\ ha.ents = None => ha'.ents = None
      /\ ha.ents # None =>
           /\ ha'.ents \in [Entities -> Vals]
           /\ \A d \in Entities : ha'.ents[d] = IF d = e THEN hw.read[e] ELSE ha.ents[d]
  <2>1. CASE ha.ents = None
    BY <1>1, <2>1 DEF Confirm
  <2>2. CASE ha.ents # None
    <3>1. /\ f \in [Entities -> Vals] /\ f \in {None} \union [Entities -> Vals]
          /\ \A d \in Entities : f[d] = IF d = e THEN hw.read[e] ELSE ha.ents[d]
      BY <1>1, <2>2
    <3>2. ha' = [ha EXCEPT !.ents = f]
      BY <1>1, <2>2 DEF Confirm
    <3> HIDE DEF f, e
    <3>3. /\ ha' \in HaStates /\ ha'.ents = f
          /\ UNCHANGED <<ha.url, ha.token, ha.gen, ha.st, ha.of, ha.info, ha.jobs, ha.pending, ha.failed>>
      BY <1>1, <3>1, <3>2, SetEnts
    <3> QED
      BY <2>2, <3>1, <3>3
  <2> QED
    BY <2>1, <2>2
<1>4. None \notin [Entities -> Vals]
  BY HaAssumption
<1>5. HaTypes'
  BY <1>1, <1>2, <1>3 DEF HaInv, HaTypes
<1>6. WorkerIs'
  BY <1>1, <1>2, <1>3 DEF HaInv, WorkerIs, Configured, InJob
<1>7. QueueIs' /\ NoLostWakeup' /\ OfThisServer'
  <2>1. QueueIs'
    BY <1>1, <1>3 DEF HaInv, QueueIs, Configured
  <2>2. OfThisServer'
    BY <1>3, <1>4 DEF HaInv, OfThisServer, Configured
  <2> QED
    BY <1>2, <2>1, <2>2 DEF NoLostWakeup, Asleep
<1>8. WishDue'
  BY <1>1, <1>2, <1>3, WishSame DEF HaInv
<1>9. ShownDue'
  <2> SUFFICES ASSUME ~hahist.blur, ha.ents # None PROVE ShownDue'
    BY <1>1, <1>2, <1>3 DEF ShownDue
  <2>1. hw.read = home[ha.url]
    BY <1>1 DEF HaInv, ShownDue
  <2>2. \A d : Waits(d)' = Waits(d)
    BY <1>3, JobsSame
  <2>3. ha.pending \/ \A d \in Entities : ha'.ents[d] = home[ha.url][d] \/ InWork(d)'
    <3>1. ha.pending \/ \A d \in Entities : ha.ents[d] = home[ha.url][d] \/ InWork(d)
      BY <1>1 DEF HaInv, ShownDue
    <3>2. \A d \in Entities : d # e /\ InWork(d) => InWork(d)'
      BY <1>1, <2>2 DEF InWork
    <3> QED
      BY <1>1, <1>3, <2>1, <3>1, <3>2
  <2> QED
    BY <1>1, <1>2, <1>3, <2>3 DEF ShownDue
<1> QED
  BY <1>5, <1>6, <1>7, <1>8, <1>9 DEF HaInv

\* The end of a fetch: what was read, if the server was not changed since.
LEMMA StoreKeeps == HaInv /\ Store => HaInv'
<1> SUFFICES ASSUME HaInv, Store PROVE HaInv'
  OBVIOUS
<1> DEFINE at == IF hw.gen = ha.gen /\ ha.info = None THEN "info" ELSE "look"
<1>1. /\ ha \in HaStates /\ hw \in HaWorkers /\ hw.at = "store" /\ UNCHANGED <<patch, home, hahist>>
      /\ hw.read \in [Entities -> Vals] /\ (ha.ents # None => hw.gen = ha.gen) /\ hw.url \in Servers
      /\ (hw.gen = ha.gen => hw.url = ha.url /\ Configured(ha))
  BY DEF HaInv, HaTypes, HaStates, Store, WorkerIs
<1>2. hw' \in HaWorkers /\ hw'.at = at /\ UNCHANGED <<hw.gen, hw.url, hw.job>>
  <2>1. /\ hw' = [hw EXCEPT !.at = at, !.read = None] /\ hw \in HaWorkers /\ at \in HaPlaces
        /\ None \in {None} \union [Entities -> Vals]
    BY <1>1 DEF Store, HaPlaces
  <2> HIDE DEF at
  <2> DEFINE w == [hw EXCEPT !.at = at, !.read = None]
  <2>2. w \in HaWorkers /\ w.at = at /\ w.gen = hw.gen /\ w.url = hw.url /\ w.job = hw.job
    BY <2>1, Zenon DEF HaWorkers
  <2> HIDE DEF w
  <2> QED
    BY <2>1, <2>2, Zenon DEF w
<1>3. at \in {"info", "look"}
  OBVIOUS
<1> HIDE DEF at
<1>4. /\ ha' \in HaStates /\ UNCHANGED <<ha.url, ha.token, ha.gen, ha.info, ha.jobs, ha.pending, ha.failed>>
      /\ hw.gen # ha.gen => UNCHANGED ha
      /\ hw.gen = ha.gen => ha'.ents = hw.read /\ ha'.of = hw.url /\ ha'.st = "ok"
  <2>1. CASE hw.gen = ha.gen
    <3>1. /\ ha' = [ha EXCEPT !.ents = hw.read, !.of = hw.url, !.st = "ok"] /\ ha \in HaStates
          /\ hw.read \in {None} \union [Entities -> Vals] /\ hw.url \in Servers \union {None}
      BY <1>1, <2>1 DEF Store
    <3> DEFINE r == [ha EXCEPT !.ents = hw.read, !.of = hw.url, !.st = "ok"]
    <3>2. /\ r \in HaStates /\ r.url = ha.url /\ r.token = ha.token /\ r.gen = ha.gen /\ r.st = "ok"
          /\ r.ents = hw.read /\ r.of = hw.url /\ r.info = ha.info /\ r.jobs = ha.jobs
          /\ r.pending = ha.pending /\ r.failed = ha.failed
      BY <3>1, Zenon DEF HaStates
    <3> HIDE DEF r
    <3>3. ha' = r
      BY <3>1, Zenon DEF r
    <3> QED
      BY <2>1, <3>2, <3>3
  <2>2. CASE hw.gen # ha.gen
    BY <1>1, <2>2 DEF Store
  <2> QED
    BY <2>1, <2>2
<1>5. None \notin [Entities -> Vals]
  BY HaAssumption
<1>6. HaTypes'
  BY <1>1, <1>2, <1>4 DEF HaInv, HaTypes
<1>7. WorkerIs'
  BY <1>1, <1>2, <1>3, <1>4 DEF HaInv, WorkerIs, Configured, InJob
<1>8. QueueIs' /\ NoLostWakeup' /\ OfThisServer'
  <2>1. QueueIs'
    BY <1>1, <1>4 DEF HaInv, QueueIs, Configured
  <2>2. OfThisServer'
    BY <1>1, <1>4, <1>5 DEF HaInv, OfThisServer, Configured
  <2> QED
    BY <1>2, <1>3, <2>1, <2>2 DEF NoLostWakeup, Asleep
<1>9. WishDue'
  BY <1>1, <1>2, <1>3, <1>4, WishSame DEF HaInv
<1>10. ShownDue'
  <2> SUFFICES ASSUME ~hahist.blur, hw.gen = ha.gen PROVE ShownDue'
    BY <1>1, <1>2, <1>3, <1>4 DEF ShownDue
  <2>1. ha'.ents = home[ha.url]
    BY <1>1, <1>4 DEF HaInv, ShownDue
  <2> QED
    BY <1>1, <1>2, <1>3, <1>4, <2>1 DEF ShownDue
<1> QED
  BY <1>6, <1>7, <1>8, <1>9, <1>10 DEF HaInv

\* The end of a fetch that failed, and that of asking for the server's name
LEMMA EndKeeps ==
  ASSUME HaInv, NEW ok \in BOOLEAN, StoreError \/ Info(ok)
  PROVE  HaInv'
<1>1. /\ ha \in HaStates /\ hw \in HaWorkers /\ hw.at \in {"error", "info"} /\ UNCHANGED <<patch, home, hahist>>
      /\ hw.url \in Servers /\ (hw.gen = ha.gen => hw.url = ha.url /\ Configured(ha))
  BY DEF HaInv, HaTypes, StoreError, Info, WorkerIs
<1>2. hw' \in HaWorkers /\ hw'.at = "look" /\ UNCHANGED <<hw.gen, hw.url, hw.job, hw.read>>
  <2>1. hw' = [hw EXCEPT !.at = "look"] /\ "look" \in HaPlaces
    BY DEF StoreError, Info, Goes, HaPlaces
  <2> QED
    BY <1>1, <2>1, SetAt
<1>3. /\ ha' \in HaStates
      /\ UNCHANGED <<ha.url, ha.token, ha.gen, ha.ents, ha.of, ha.jobs, ha.pending, ha.failed>>
      /\ ha'.st = ha.st \/ (ha'.st = "error" /\ Configured(ha))
      /\ ha'.info = ha.info \/ ha'.info = ha.url
  <2>1. \/ UNCHANGED ha
        \/ hw.gen = ha.gen /\ ha' = [ha EXCEPT !.st = "error"]
        \/ hw.gen = ha.gen /\ ha' = [ha EXCEPT !.info = hw.url]
    BY DEF StoreError, Info
  <2>2. CASE hw.gen = ha.gen /\ ha' = [ha EXCEPT !.st = "error"]
    BY <1>1, <2>2, SetSt
  <2>3. CASE hw.gen = ha.gen /\ ha' = [ha EXCEPT !.info = hw.url]
    BY <1>1, <2>3, SetInfo
  <2> QED
    BY <1>1, <2>1, <2>2, <2>3
<1>4. HaTypes'
  BY <1>1, <1>2, <1>3 DEF HaInv, HaTypes
<1>5. WorkerIs'
  BY <1>1, <1>2, <1>3 DEF HaInv, WorkerIs, Configured, InJob
<1>6. QueueIs' /\ NoLostWakeup' /\ OfThisServer'
  BY <1>1, <1>2, <1>3 DEF HaInv, QueueIs, Configured, NoLostWakeup, Asleep, OfThisServer
<1>7. WishDue'
  BY <1>1, <1>2, <1>3, WishSame DEF HaInv
<1>8. \A d : InWork(d) => InWork(d)'
  BY <1>1, <1>3, JobsSame DEF InWork, InJob
<1>9. ShownDue'
  BY <1>1, <1>2, <1>3, <1>8 DEF HaInv, ShownDue
<1> QED
  BY <1>4, <1>5, <1>6, <1>7, <1>9 DEF HaInv

LEMMA ByHandKeeps ==
  ASSUME HaInv, NEW t \in Servers, NEW e \in Entities, ByHand(t, e)
  PROVE  HaInv'
<1>1. /\ hahist \in Hists /\ home \in Homes /\ UNCHANGED <<ha, hw, patch>> /\ Flip(home[t][e]) \in Vals
  BY DEF HaInv, HaTypes, Hists, ByHand, Flip, Vals
<1>2. home' \in Homes
  <2>1. home' = [home EXCEPT ![t][e] = Flip(home[t][e])]
    BY <1>1 DEF ByHand, Homes
  <2> QED
    BY <1>1, <2>1, SetHome
<1>3. hahist' \in Hists /\ UNCHANGED hahist.wish /\ hahist'.clean = FALSE /\ hahist'.blur = TRUE
  <2>1. /\ hahist' = [hahist EXCEPT !.clean = FALSE, !.blur = TRUE]
        /\ hahist \in Hists /\ TRUE \in BOOLEAN /\ FALSE \in BOOLEAN
    BY <1>1 DEF ByHand
  <2> QED
    BY <2>1, SetBlur, Zenon
<1>4. HaTypes'
  BY <1>1, <1>2, <1>3 DEF HaInv, HaTypes, Hists
<1>5. WorkerIs' /\ QueueIs' /\ NoLostWakeup' /\ OfThisServer'
  BY <1>1 DEF HaInv, WorkerIs, QueueIs, NoLostWakeup, Asleep, OfThisServer
<1>6. WishDue' /\ ShownDue'
  BY <1>3 DEF WishDue, ShownDue
<1> QED
  BY <1>4, <1>5, <1>6 DEF HaInv

LEMMA HaStarts == HaInit => HaInv
<1> SUFFICES ASSUME HaInit PROVE HaInv
  OBVIOUS
<1>1. PICK t \in Servers, v \in Vals :
        /\ ha = [url |-> t, token |-> TRUE, gen |-> 0, st |-> "connecting", ents |-> None,
                 of |-> None, info |-> None, jobs |-> <<>>, pending |-> FALSE, failed |-> FALSE]
        /\ home = [u \in Servers |-> [e \in Entities |-> IF u = t THEN v ELSE Flip(v)]]
  BY DEF HaInit
<1>2. /\ hw = [at |-> "look", gen |-> 0, url |-> None, job |-> None, read |-> None] /\ patch = None
      /\ hahist = [wish |-> home, clean |-> TRUE, blur |-> TRUE]
  BY DEF HaInit
<1>3. home \in Homes
  BY <1>1 DEF Homes, Flip, Vals
<1>4. HaTypes
  <2>1. ha \in HaStates
    <3>1. <<>> \in Seq(HaJobs) /\ 0 \in Nat
      OBVIOUS
    <3> QED
      BY <1>1, <3>1, Zenon DEF HaStates
  <2>2. hw \in HaWorkers
    BY <1>2 DEF HaWorkers, HaPlaces
  <2>3. hahist \in Hists
    BY <1>2, <1>3, Zenon DEF Hists
  <2> QED
    BY <1>2, <1>3, <2>1, <2>2, <2>3 DEF HaTypes, Hists
<1>5. None \notin Servers
  BY HaAssumption
<1>6. WorkerIs /\ QueueIs /\ NoLostWakeup /\ OfThisServer
  BY <1>1, <1>2, <1>5 DEF WorkerIs, QueueIs, NoLostWakeup, Asleep, OfThisServer, Configured, InJob
<1>7. WishDue /\ ShownDue
  BY <1>1, <1>2 DEF WishDue, ShownDue
<1> QED
  BY <1>4, <1>6, <1>7 DEF HaInv

LEMMA HaStep == HaInv /\ [HaNext]_haVars => HaInv'
<1> SUFFICES ASSUME HaInv, [HaNext]_haVars PROVE HaInv'
  OBVIOUS
<1>1. CASE UNCHANGED haVars
  <2>1. UNCHANGED <<ha, hw, patch, home, hahist>>
    BY <1>1 DEF haVars
  <2> QED
    BY <2>1 DEF HaInv, HaTypes, WorkerIs, QueueIs, WishDue, ShownDue, NoLostWakeup, Asleep, OfThisServer,
                Waits, IsLast, InWork
<1>2. CASE HaNext
  BY <1>2, ActKeeps, ConfigureKeeps, CallKeeps, ReadsKeeps, EndKeeps, ByHandKeeps, PatchKeeps,
     RefreshKeeps, TakeFailureKeeps, TakeJobKeeps, TakeRefreshKeeps, FailedKeeps, ConfirmKeeps,
     StoreKeeps DEF HaNext
<1> QED
  BY <1>1, <1>2

\* Whatever server is set while the worker calls and asks, and however late its
\* replies, what is shown and queued is of the server that is set, and the devices
\* end as they were last told to be and are shown so (ha.c).
THEOREM HaInvariant == HaSpec => []HaRight
<1>1. HaInv => HaRight
  <2> SUFFICES ASSUME HaInv PROVE HaRight
    OBVIOUS
  <2>1. JobsStayHome
    BY DEF HaInv, HaTypes, HaStates, QueueIs, WorkerIs, JobsStayHome, InJob
  <2>2. ASSUME hahist.clean, ha.jobs = <<>>, hw.at # "call" PROVE home = hahist.wish
    <3>1. \A d : ~Waits(d)
      BY <2>2 DEF Waits
    <3>2. \A t \in Servers, e \in Entities : home[t][e] = hahist.wish[t][e]
      BY <2>2, <3>1 DEF HaInv, WishDue
    <3>3. home \in Homes /\ hahist.wish \in Homes
      BY DEF HaInv, HaTypes
    <3> QED
      BY <3>2, <3>3 DEF Homes
  <2>3. ASSUME Asleep, ha.ents # None, ~hahist.blur PROVE ha.ents = home[ha.url]
    <3>1. ha.jobs = <<>> /\ ~ha.pending
      BY <2>3 DEF HaInv, NoLostWakeup
    <3>2. \A d : ~InWork(d)
      BY <2>3, <3>1 DEF InWork, Waits, InJob, Asleep
    <3>3. \A e \in Entities : ha.ents[e] = home[ha.url][e]
      BY <2>3, <3>1, <3>2 DEF HaInv, ShownDue, Asleep
    <3>4. ha.ents \in [Entities -> Vals] /\ ha.url \in Servers \union {None} /\ home \in Homes
      BY <2>3 DEF HaInv, HaTypes, HaStates
    <3>5. ha.url # None
      BY <2>3 DEF HaInv, WorkerIs
    <3> QED
      BY <3>3, <3>4, <3>5 DEF Homes
  <2> QED
    BY <2>1, <2>2, <2>3 DEF HaRight, LastWishWins, ShownIsSo, HaInv
<1> QED
  BY <1>1, HaStarts, HaStep, PTL DEF HaSpec

(***************************************************************************)
(* The scrobbler.                                                          *)
(***************************************************************************)
Tunes    == Songs \union {Silence, Video}
Playings == [song : Tunes, n : Nat, pos : Nat, state : {"play", "pause"}]
Places   == [song : Tunes, pos : Nat]
Polls    == [at : {"idle", "song", "save"}, current : Tunes, sent : BOOLEAN, last : Places,
             status : [state : {"play", "pause", "stop"}, pos : Nat, dur : Nat, n : Nat]]
Histories == [song : Tunes, far : Nat, times : Nat, due : BOOLEAN]

ScrobTypes ==
  /\ mpd \in Playings /\ scrob \in Polls /\ file \in Places
  /\ suspended \in [on : BOOLEAN, over : Playings]
  /\ sees \in [cut : BOOLEAN, torn : SUBSET Nat, back : SUBSET Nat, again : SUBSET Nat]
  /\ 1..mpd.n \subseteq DOMAIN plays /\ \A n \in DOMAIN plays : plays[n] \in Histories

\* The play that the scrobbler is at, also while a video is on; never the video's.
Now == IF suspended.on THEN suspended.over ELSE mpd

NowRight ==
  /\ Now.n \in 1..mpd.n /\ Now.song # Video /\ plays[Now.n].song = Now.song
  /\ Now.pos <= plays[Now.n].far
  /\ Now.n \notin sees.back => Now.pos + Grace >= plays[Now.n].far
  /\ scrob.at # "idle" => ~suspended.on

\* A status is of this play, and no further than that has got, or of an earlier one.
StatusRight ==
  scrob.at = "song" =>
    /\ scrob.status.n <= mpd.n
    /\ scrob.status.n = mpd.n =>
         /\ scrob.status.pos <= plays[mpd.n].far
         /\ scrob.status.dur = IF mpd.song = Silence THEN 0 ELSE Duration[mpd.song]

FileRight == scrob.at # "save" => file = scrob.last

\* A song said to be submitted is, or is the one before it again.
SentTrue ==
  scrob.current = Now.song /\ scrob.sent /\ Now.song # Silence =>
    plays[Now.n].times > 0 \/ Now.n \in sees.again

\* A submitted play is the last one, no further in than it has got, and will be
\* known by that.
LastRight ==
  ~sees.cut /\ sees.torn = {} /\ Now.n \notin sees.back /\ plays[Now.n].times > 0 =>
    /\ scrob.last.song = Now.song /\ scrob.last.pos <= plays[Now.n].far
    /\ scrob.current = Now.song => scrob.sent
    /\ scrob.at = "song" /\ scrob.status.n = Now.n => scrob.status.pos + Grace >= scrob.last.pos

ScrobInv == /\ ScrobTypes /\ NowRight /\ StatusRight /\ FileRight /\ SentTrue /\ LastRight
            /\ ListensRight

LEMMA ScrobConstants ==
  /\ Silence \notin Songs /\ Video \notin Songs /\ Video # Silence /\ Grace \in Nat
  /\ MinDuration \in Nat /\ \A song \in Songs \union {Video} : Duration[song] \in Nat
  /\ \A d \in Nat : Threshold(d) \in Nat
  BY ScrobAssumption DEF Threshold

LEMMA ScrobStarts == ScrobInit => ScrobInv
<1> SUFFICES ASSUME ScrobInit PROVE ScrobInv
  OBVIOUS
<1> PICK song \in Songs : mpd = [song |-> song, n |-> 1, pos |-> 0, state |-> "play"] /\ plays = <<NewPlay(song)>>
  BY DEF ScrobInit
<1>1. NewPlay(song) \in Histories /\ NewPlay(song).song = song /\ NewPlay(song).far = 0 /\ NewPlay(song).times = 0
      /\ NewPlay(song).due = FALSE
  BY DEF NewPlay, Histories, Tunes
<1>2. DOMAIN plays = {1} /\ plays[1] = NewPlay(song)
  OBVIOUS
<1>3. mpd \in Playings /\ mpd.n = 1 /\ mpd.song = song /\ mpd.pos = 0
  BY DEF Playings, Tunes
<1>4. NoSong \in Places /\ NoStatus \in [state : {"play", "pause", "stop"}, pos : Nat, dur : Nat, n : Nat]
  BY DEF NoSong, NoStatus, Places, Tunes
<1>5. scrob \in Polls /\ scrob.at = "idle" /\ scrob.current = Silence /\ scrob.sent = FALSE
      /\ scrob.last = NoSong /\ file = NoSong
  BY <1>4 DEF ScrobInit, Created, Polls, Tunes
<1>6. suspended \in [on : BOOLEAN, over : Playings] /\ suspended.on = FALSE
  BY <1>3 DEF ScrobInit
<1>7. sees \in [cut : BOOLEAN, torn : SUBSET Nat, back : SUBSET Nat, again : SUBSET Nat]
  BY DEF ScrobInit
<1>8. Now = mpd
  BY <1>6 DEF Now
<1>9. ScrobTypes
  BY <1>1, <1>2, <1>3, <1>4, <1>5, <1>6, <1>7 DEF ScrobTypes
<1>10. NowRight /\ StatusRight /\ FileRight /\ SentTrue /\ LastRight
  BY <1>1, <1>2, <1>3, <1>5, <1>6, <1>8, ScrobConstants DEF NowRight, StatusRight, FileRight, SentTrue, LastRight
<1>11. ListensRight
  BY <1>1, <1>2 DEF ListensRight, CountsOnce, Heard, Deserved
<1> QED BY <1>9, <1>10, <1>11 DEF ScrobInv

\* What the steps below know of the parts.
LEMMA ScrobParts ==
  ASSUME ScrobInv
  PROVE  /\ mpd.song \in Tunes /\ mpd.n \in Nat /\ mpd.pos \in Nat /\ mpd.state \in {"play", "pause"}
         /\ suspended.on \in BOOLEAN /\ suspended.over \in Playings
         /\ Now \in Playings /\ Now.song \in Songs \union {Silence} /\ Now.n \in Nat /\ Now.pos \in Nat
         /\ Now.n \in DOMAIN plays /\ mpd.n \in DOMAIN plays
         /\ \A n \in DOMAIN plays : /\ plays[n].song \in Tunes /\ plays[n].far \in Nat
                                     /\ plays[n].times \in Nat /\ plays[n].due \in BOOLEAN
         /\ scrob.at \in {"idle", "song", "save"} /\ scrob.current \in Tunes /\ scrob.sent \in BOOLEAN
         /\ scrob.last.song \in Tunes /\ scrob.last.pos \in Nat
         /\ scrob.status.n \in Nat /\ scrob.status.pos \in Nat /\ scrob.status.dur \in Nat
         /\ scrob.status.state \in {"play", "pause", "stop"}
<1>1. mpd \in Playings /\ suspended.on \in BOOLEAN /\ suspended.over \in Playings
  BY DEF ScrobInv, ScrobTypes
<1>2. mpd.song \in Tunes /\ mpd.n \in Nat /\ mpd.pos \in Nat /\ mpd.state \in {"play", "pause"}
  BY <1>1, Zenon DEF Playings
<1>3. Now \in Playings
  BY <1>1 DEF Now
<1>4. Now.song \in Tunes /\ Now.n \in Nat /\ Now.pos \in Nat
  BY <1>3, Zenon DEF Playings
<1>5. Now.song # Video /\ Now.n \in 1..mpd.n
  BY DEF ScrobInv, NowRight
<1>6. 1..mpd.n \subseteq DOMAIN plays /\ mpd.n \in 1..mpd.n
  BY <1>2, <1>4, <1>5 DEF ScrobInv, ScrobTypes
<1>7. \A n \in DOMAIN plays : /\ plays[n].song \in Tunes /\ plays[n].far \in Nat
                               /\ plays[n].times \in Nat /\ plays[n].due \in BOOLEAN
  <2> SUFFICES ASSUME NEW n \in DOMAIN plays
               PROVE  /\ plays[n].song \in Tunes /\ plays[n].far \in Nat
                      /\ plays[n].times \in Nat /\ plays[n].due \in BOOLEAN
    OBVIOUS
  <2>1. plays[n] \in Histories
    BY DEF ScrobInv, ScrobTypes
  <2> QED BY <2>1, Zenon DEF Histories
<1>8. scrob \in Polls
  BY DEF ScrobInv, ScrobTypes
<1>9. /\ scrob.at \in {"idle", "song", "save"} /\ scrob.current \in Tunes /\ scrob.sent \in BOOLEAN
      /\ scrob.last \in Places
      /\ scrob.status \in [state : {"play", "pause", "stop"}, pos : Nat, dur : Nat, n : Nat]
  BY <1>8, Zenon DEF Polls
<1>10. scrob.last.song \in Tunes /\ scrob.last.pos \in Nat
  BY <1>9, Zenon DEF Places
<1>11. /\ scrob.status.n \in Nat /\ scrob.status.pos \in Nat /\ scrob.status.dur \in Nat
       /\ scrob.status.state \in {"play", "pause", "stop"}
  BY <1>9, Zenon
<1>12. Now.song \in Songs \union {Silence}
  BY <1>4, <1>5 DEF Tunes
<1> QED BY <1>1, <1>2, <1>3, <1>4, <1>5, <1>6, <1>7, <1>9, <1>10, <1>11, <1>12

LEMMA PollStatusScrob ==
  ASSUME ScrobInv, PollStatus
  PROVE  ScrobInv'
<1> USE ScrobParts
<1> DEFINE st == [state |-> mpd.state, pos |-> mpd.pos, n |-> mpd.n,
                  dur |-> IF mpd.song = Silence THEN 0 ELSE Duration[mpd.song]]
           q == [scrob EXCEPT !.at = "song", !.status = st]
<1>1. Now = mpd /\ UNCHANGED <<mpd, file, suspended, plays, sees>> /\ scrob.at = "idle" /\ ~suspended.on
  BY DEF PollStatus, Now
<1>2. st \in [state : {"play", "pause", "stop"}, pos : Nat, dur : Nat, n : Nat]
      /\ st.pos = mpd.pos /\ st.n = mpd.n /\ st.dur = (IF mpd.song = Silence THEN 0 ELSE Duration[mpd.song])
  <2>1. (IF mpd.song = Silence THEN 0 ELSE Duration[mpd.song]) \in Nat
    BY ScrobConstants DEF Tunes
  <2> QED BY <2>1
<1> HIDE DEF st
<1>3. scrob \in Polls
  BY DEF ScrobInv, ScrobTypes
<1>4. q \in Polls /\ q.at = "song" /\ q.status = st /\ q.current = scrob.current /\ q.sent = scrob.sent
      /\ q.last = scrob.last
  BY <1>2, <1>3, Zenon DEF Polls
<1>5. scrob' = q
  BY DEF PollStatus, st
<1> HIDE DEF q
<1>6. Now' = Now
  BY <1>1 DEF Now
<1>7. ScrobTypes'
  BY <1>1, <1>4, <1>5 DEF ScrobInv, ScrobTypes
<1>8. NowRight' /\ FileRight' /\ SentTrue'
  BY <1>1, <1>4, <1>5, <1>6 DEF ScrobInv, NowRight, FileRight, SentTrue
<1>9. StatusRight'
  BY <1>1, <1>2, <1>4, <1>5 DEF ScrobInv, NowRight, StatusRight
<1>10. LastRight'
  BY <1>1, <1>2, <1>4, <1>5, <1>6, ScrobConstants DEF ScrobInv, NowRight, LastRight
<1>11. ListensRight'
  BY <1>1 DEF ScrobInv, ListensRight, CountsOnce, Heard, Deserved
<1> QED BY <1>7, <1>8, <1>9, <1>10, <1>11 DEF ScrobInv

LEMMA SaveScrob ==
  ASSUME ScrobInv, Save
  PROVE  ScrobInv'
<1> USE ScrobParts
<1> DEFINE q == [scrob EXCEPT !.at = "idle"]
<1>1. UNCHANGED <<mpd, suspended, plays, sees>> /\ file' = scrob.last
  BY DEF Save
<1>3. scrob \in Polls
  BY DEF ScrobInv, ScrobTypes
<1>4. q \in Polls /\ q.at = "idle" /\ q.status = scrob.status /\ q.current = scrob.current /\ q.sent = scrob.sent
      /\ q.last = scrob.last /\ scrob.last \in Places
  BY <1>3, Zenon DEF Polls
<1>5. scrob' = q
  BY DEF Save
<1> HIDE DEF q
<1>6. Now' = Now
  BY <1>1 DEF Now
<1>7. ScrobTypes'
  BY <1>1, <1>4, <1>5 DEF ScrobInv, ScrobTypes
<1>8. NowRight' /\ FileRight' /\ SentTrue' /\ StatusRight' /\ LastRight'
  BY <1>1, <1>4, <1>5, <1>6 DEF ScrobInv, NowRight, FileRight, SentTrue, StatusRight, LastRight
<1>11. ListensRight'
  BY <1>1 DEF ScrobInv, ListensRight, CountsOnce, Heard, Deserved
<1> QED BY <1>7, <1>8, <1>11 DEF ScrobInv

\* No song is submitted while it is Silence.
LEMMA SilenceNeverCounts ==
  ASSUME ScrobInv, sees.torn = {}, plays[Now.n].times > 0
  PROVE  Now.song \in Songs
  BY ScrobParts, ScrobConstants DEF ScrobInv, NowRight, ListensRight, Deserved

LEMMA PollFailsScrob ==
  ASSUME ScrobInv, PollFails
  PROVE  ScrobInv'
<1> USE ScrobParts
<1> DEFINE q == [scrob EXCEPT !.current = Silence]
<1>1. UNCHANGED <<mpd, file, suspended, plays, sees>> /\ scrob.at = "idle"
  BY DEF PollFails
<1>3. scrob \in Polls /\ Silence \in Tunes
  BY DEF ScrobInv, ScrobTypes, Tunes
<1>4. q \in Polls /\ q.at = scrob.at /\ q.status = scrob.status /\ q.current = Silence /\ q.sent = scrob.sent
      /\ q.last = scrob.last
  BY <1>3, Zenon DEF Polls
<1>5. scrob' = q
  BY DEF PollFails
<1> HIDE DEF q
<1>6. Now' = Now
  BY <1>1 DEF Now
<1>7. ScrobTypes'
  BY <1>1, <1>4, <1>5 DEF ScrobInv, ScrobTypes
<1>8. NowRight' /\ FileRight' /\ SentTrue' /\ StatusRight'
  BY <1>1, <1>4, <1>5, <1>6 DEF ScrobInv, NowRight, FileRight, SentTrue, StatusRight
<1>9. LastRight'
  BY <1>1, <1>4, <1>5, <1>6, SilenceNeverCounts, ScrobConstants DEF ScrobInv, LastRight
<1>11. ListensRight'
  BY <1>1 DEF ScrobInv, ListensRight, CountsOnce, Heard, Deserved
<1> QED BY <1>7, <1>8, <1>9, <1>11 DEF ScrobInv

LEMMA DiesScrob ==
  ASSUME ScrobInv, NEW truncated \in BOOLEAN, Dies(truncated)
  PROVE  ScrobInv'
<1> USE ScrobParts
<1> DEFINE q == Created(file')
           r == [suspended EXCEPT !.on = FALSE]
           e == [sees EXCEPT !.cut = @ \/ scrob.at = "save"]
<1>1. UNCHANGED plays /\ mpd' = Now /\ suspended' = r /\ scrob' = q /\ sees' = e
      /\ file' = (IF truncated THEN NoSong ELSE file) /\ (truncated => scrob.at = "save")
  BY DEF Dies, Now
<1>2. file' \in Places
  <2>1. NoSong \in Places
    BY DEF NoSong, Places, Tunes
  <2> QED BY <2>1, <1>1 DEF ScrobInv, ScrobTypes
<1>3. q \in Polls /\ q.at = "idle" /\ q.current = Silence /\ q.sent = FALSE /\ q.last = file'
  <2>1. NoStatus \in [state : {"play", "pause", "stop"}, pos : Nat, dur : Nat, n : Nat]
    BY DEF NoStatus
  <2> QED BY <1>2, <2>1 DEF Created, Polls, Tunes
<1>4. r \in [on : BOOLEAN, over : Playings] /\ r.on = FALSE
  BY DEF ScrobInv, ScrobTypes
<1>5. /\ e \in [cut : BOOLEAN, torn : SUBSET Nat, back : SUBSET Nat, again : SUBSET Nat]
      /\ e.cut = (sees.cut \/ scrob.at = "save") /\ e.torn = sees.torn /\ e.back = sees.back
      /\ e.again = sees.again
  <2>1. sees \in [cut : BOOLEAN, torn : SUBSET Nat, back : SUBSET Nat, again : SUBSET Nat]
    BY DEF ScrobInv, ScrobTypes
  <2> QED BY <2>1, Zenon
<1> HIDE DEF q, r, e
<1>6. Now' = Now
  BY <1>1, <1>4 DEF Now
<1>7. ScrobTypes'
  <2>1. 1..Now.n \subseteq DOMAIN plays
    BY DEF ScrobInv, ScrobTypes, NowRight
  <2> QED BY <2>1, <1>1, <1>2, <1>3, <1>4, <1>5 DEF ScrobInv, ScrobTypes
<1>8. NowRight' /\ FileRight' /\ SentTrue' /\ StatusRight'
  BY <1>1, <1>3, <1>4, <1>5, <1>6 DEF ScrobInv, NowRight, FileRight, SentTrue, StatusRight
<1>9. LastRight'
  BY <1>1, <1>3, <1>5, <1>6, SilenceNeverCounts, ScrobConstants DEF ScrobInv, FileRight, LastRight
<1>11. ListensRight'
  BY <1>1, <1>5 DEF ScrobInv, ListensRight, CountsOnce, Heard, Deserved
<1> QED BY <1>7, <1>8, <1>9, <1>11 DEF ScrobInv

\* What moves the song, to pos, and its history with it.
LEMMA MovesScrob ==
  ASSUME ScrobInv, ~suspended.on, NEW pos \in Nat,
         mpd' = [mpd EXCEPT !.pos = pos],
         plays' = [plays EXCEPT ![mpd.n].far = IF @ < pos THEN pos ELSE @],
         UNCHANGED <<scrob, file, suspended>>,
         sees' \in [cut : BOOLEAN, torn : SUBSET Nat, back : SUBSET Nat, again : SUBSET Nat],
         sees'.cut = sees.cut, sees'.torn = sees.torn, sees'.again = sees.again,
         sees.back \subseteq sees'.back,
         mpd.n \notin sees'.back => pos + Grace >= plays[mpd.n].far
  PROVE  ScrobInv'
<1> USE ScrobParts
<1> DEFINE m == [mpd EXCEPT !.pos = pos]
           n == mpd.n
           f == IF plays[n].far < pos THEN pos ELSE plays[n].far
           h == [plays[n] EXCEPT !.far = f]
<1>1. Now = mpd
  BY DEF Now
<1>2. m \in Playings /\ m.n = n /\ m.song = mpd.song /\ m.pos = pos /\ m.state = mpd.state
  BY Zenon DEF ScrobInv, ScrobTypes, Playings
<1>3. mpd' = m
  OBVIOUS
<1>4. f \in Nat /\ f >= pos /\ f >= plays[n].far /\ (f = pos \/ f = plays[n].far)
  OBVIOUS
<1> HIDE DEF m, f
<1>5. h \in Histories /\ h.far = f /\ h.song = plays[n].song /\ h.times = plays[n].times /\ h.due = plays[n].due
  <2>1. plays[n] \in Histories
    BY DEF ScrobInv, ScrobTypes
  <2> QED BY <2>1, <1>4, Zenon DEF Histories
<1>6. plays' = [plays EXCEPT ![n] = h]
  BY DEF f
<1> HIDE DEF h
<1>7. DOMAIN plays' = DOMAIN plays /\ plays'[n] = h /\ \A k \in DOMAIN plays : k # n => plays'[k] = plays[k]
  BY <1>6
<1>8. Now' = m
  BY <1>3 DEF Now
<1>9. ScrobTypes'
  BY <1>2, <1>3, <1>5, <1>7 DEF ScrobInv, ScrobTypes
<1>10. NowRight' /\ FileRight' /\ SentTrue'
  BY <1>1, <1>2, <1>3, <1>4, <1>5, <1>7, <1>8, ScrobConstants DEF ScrobInv, NowRight, FileRight, SentTrue
<1>11. StatusRight' /\ LastRight'
  BY <1>1, <1>2, <1>3, <1>4, <1>5, <1>7, <1>8 DEF ScrobInv, StatusRight, LastRight
<1>12. CountsOnce' /\ Heard'
  BY <1>5, <1>7 DEF ScrobInv, ListensRight, CountsOnce, Heard
<1>13. Deserved'
  <2> SUFFICES ASSUME NEW k \in DOMAIN plays, plays'[k].times > 0, k \notin sees.torn
               PROVE  /\ plays'[k].song \in Songs /\ Duration[plays'[k].song] >= MinDuration
                      /\ plays'[k].far >= Threshold(Duration[plays'[k].song])
    BY <1>7 DEF Deserved
  <2>1. plays'[k].times = plays[k].times /\ plays'[k].song = plays[k].song /\ plays'[k].far >= plays[k].far
        /\ plays'[k].far \in Nat
    BY <1>4, <1>5, <1>7
  <2>2. /\ plays[k].song \in Songs /\ Duration[plays[k].song] >= MinDuration
        /\ plays[k].far >= Threshold(Duration[plays[k].song])
    BY <2>1 DEF ScrobInv, ListensRight, Deserved
  <2>3. Threshold(Duration[plays[k].song]) \in Nat
    BY <2>2, ScrobConstants
  <2> QED BY <2>1, <2>2, <2>3
<1> QED BY <1>9, <1>10, <1>11, <1>12, <1>13 DEF ScrobInv, ListensRight

LEMMA PlayOnScrob ==
  ASSUME ScrobInv, PlayOn
  PROVE  ScrobInv'
<1> USE ScrobParts
<1>1. mpd' = [mpd EXCEPT !.pos = mpd.pos + 1] /\ ~suspended.on
      /\ plays' = [plays EXCEPT ![mpd.n].far = IF @ < mpd.pos + 1 THEN mpd.pos + 1 ELSE @]
      /\ UNCHANGED <<scrob, file, suspended>> /\ sees' = sees
  BY DEF PlayOn
<1>2. mpd.n \notin sees.back => mpd.pos + 1 + Grace >= plays[mpd.n].far
  BY <1>1, ScrobConstants DEF ScrobInv, NowRight, Now
<1>3. mpd.pos + 1 \in Nat
  OBVIOUS
<1>4. sees \in [cut : BOOLEAN, torn : SUBSET Nat, back : SUBSET Nat, again : SUBSET Nat]
  BY DEF ScrobInv, ScrobTypes
<1> QED BY <1>1, <1>2, <1>3, <1>4, MovesScrob

LEMMA SeekToScrob ==
  ASSUME ScrobInv, NEW pos \in 0..(MaxThreshold + 1), SeekTo(pos)
  PROVE  ScrobInv'
<1> USE ScrobParts
<1> DEFINE b == IF pos + Grace < plays[mpd.n].far THEN sees.back \union {mpd.n} ELSE sees.back
           e == [sees EXCEPT !.back = b]
<1>1. mpd' = [mpd EXCEPT !.pos = pos] /\ ~suspended.on
      /\ plays' = [plays EXCEPT ![mpd.n].far = IF @ < pos THEN pos ELSE @]
      /\ UNCHANGED <<scrob, file, suspended>> /\ sees' = e
  BY DEF SeekTo
<1>2. sees \in [cut : BOOLEAN, torn : SUBSET Nat, back : SUBSET Nat, again : SUBSET Nat]
  BY DEF ScrobInv, ScrobTypes
<1>a. sees.back \in SUBSET Nat
  BY <1>2, Zenon
<1>3. pos \in Nat /\ b \in SUBSET Nat /\ sees.back \subseteq b /\ (mpd.n \notin b => pos + Grace >= plays[mpd.n].far)
  BY <1>a, ScrobConstants
<1> HIDE DEF b
<1>4. /\ e \in [cut : BOOLEAN, torn : SUBSET Nat, back : SUBSET Nat, again : SUBSET Nat]
      /\ e.cut = sees.cut /\ e.torn = sees.torn /\ e.back = b /\ e.again = sees.again
  BY <1>2, <1>3, Zenon
<1> HIDE DEF e
<1> QED BY <1>1, <1>3, <1>4, MovesScrob

LEMMA ToggleScrob ==
  ASSUME ScrobInv, Toggle
  PROVE  ScrobInv'
<1> USE ScrobParts
<1> DEFINE st == IF mpd.state = "play" THEN "pause" ELSE "play"
           m == [mpd EXCEPT !.state = st]
<1>1. mpd' = m /\ ~suspended.on /\ UNCHANGED <<scrob, file, suspended, plays, sees>>
  BY DEF Toggle
<1>2. st \in {"play", "pause"}
  OBVIOUS
<1> HIDE DEF st
<1>3. m \in Playings /\ m.n = mpd.n /\ m.song = mpd.song /\ m.pos = mpd.pos
  BY <1>2, Zenon DEF ScrobInv, ScrobTypes, Playings
<1> HIDE DEF m
<1>4. Now = mpd /\ Now' = m
  BY <1>1 DEF Now
<1>5. ScrobTypes'
  BY <1>1, <1>3 DEF ScrobInv, ScrobTypes
<1>6. NowRight' /\ FileRight' /\ SentTrue' /\ StatusRight' /\ LastRight'
  BY <1>1, <1>3, <1>4 DEF ScrobInv, NowRight, FileRight, SentTrue, StatusRight, LastRight
<1>7. ListensRight'
  BY <1>1 DEF ScrobInv, ListensRight, CountsOnce, Heard, Deserved
<1> QED BY <1>5, <1>6, <1>7 DEF ScrobInv

\* Where a play is added after this one, those up to this one stay as they are.
LEMMA AddedPlay ==
  ASSUME ScrobInv, NEW song \in Tunes,
         plays' = [n \in 1..(mpd.n + 1) |-> IF n <= mpd.n THEN plays[n] ELSE NewPlay(song)]
  PROVE  /\ DOMAIN plays' = 1..(mpd.n + 1)
         /\ \A n \in 1..mpd.n : n \in DOMAIN plays /\ plays'[n] = plays[n]
         /\ \A n \in DOMAIN plays' : plays'[n] \in Histories
         /\ plays'[mpd.n + 1].song = song /\ plays'[mpd.n + 1].far = 0
         /\ \A n \in DOMAIN plays' : n \in 1..mpd.n \/ (plays'[n].times = 0 /\ plays'[n].due = FALSE)
<1> USE ScrobParts
<1>1. NewPlay(song) \in Histories /\ NewPlay(song).song = song /\ NewPlay(song).far = 0
      /\ NewPlay(song).times = 0 /\ NewPlay(song).due = FALSE
  BY DEF NewPlay, Histories
<1>2. \A n \in 1..mpd.n : n \in DOMAIN plays
  BY DEF ScrobInv, ScrobTypes
<1>3. \A n \in 1..(mpd.n + 1) : plays'[n] = IF n <= mpd.n THEN plays[n] ELSE NewPlay(song)
  OBVIOUS
<1>4. \A n \in DOMAIN plays : plays[n] \in Histories
  BY DEF ScrobInv, ScrobTypes
<1>5. DOMAIN plays' = 1..(mpd.n + 1)
  OBVIOUS
<1>6. \A n \in 1..mpd.n : n \in 1..(mpd.n + 1) /\ n <= mpd.n
  OBVIOUS
<1>7. \A n \in 1..(mpd.n + 1) : n <= mpd.n => n \in 1..mpd.n
  OBVIOUS
<1>8. mpd.n + 1 \in 1..(mpd.n + 1) /\ ~(mpd.n + 1 <= mpd.n)
  OBVIOUS
<1> QED BY <1>1, <1>2, <1>3, <1>4, <1>5, <1>6, <1>7, <1>8

LEMMA AddedCounts ==
  ASSUME ScrobInv, NEW song \in Tunes,
         plays' = [n \in 1..(mpd.n + 1) |-> IF n <= mpd.n THEN plays[n] ELSE NewPlay(song)],
         sees'.cut = sees.cut, sees'.torn = sees.torn, sees'.back = sees.back,
         sees.again \subseteq sees'.again
  PROVE  ListensRight'
<1>1. /\ \A n \in 1..mpd.n : n \in DOMAIN plays /\ plays'[n] = plays[n]
      /\ \A n \in DOMAIN plays' : n \in 1..mpd.n \/ (plays'[n].times = 0 /\ plays'[n].due = FALSE)
  BY AddedPlay
<1>2. CountsOnce'
  BY <1>1 DEF ScrobInv, ListensRight, CountsOnce
<1>3. Heard'
  BY <1>1 DEF ScrobInv, ListensRight, Heard
<1>4. Deserved'
  <2> SUFFICES ASSUME NEW n \in DOMAIN plays', plays'[n].times > 0, n \notin sees.torn
               PROVE  /\ plays'[n].song \in Songs /\ Duration[plays'[n].song] >= MinDuration
                      /\ plays'[n].far >= Threshold(Duration[plays'[n].song])
    BY DEF Deserved
  <2>0. plays'[n].times # 0
    OBVIOUS
  <2>1. n \in DOMAIN plays /\ plays'[n] = plays[n]
    BY <2>0, <1>1, Zenon
  <2>2. plays[n].times > 0
    BY <2>1
  <2>3. /\ plays[n].song \in Songs /\ Duration[plays[n].song] >= MinDuration
        /\ plays[n].far >= Threshold(Duration[plays[n].song])
    BY <2>1, <2>2 DEF ScrobInv, ListensRight, Deserved
  <2> QED BY <2>1, <2>3
<1> QED BY <1>2, <1>3, <1>4 DEF ListensRight

LEMMA NextSongScrob ==
  ASSUME ScrobInv, NEW song \in Songs \union {Silence}, NextSong(song)
  PROVE  ScrobInv'
<1> USE ScrobParts
<1> DEFINE m == [song |-> song, n |-> mpd.n + 1, pos |-> 0, state |-> "play"]
           b == IF song = scrob.current THEN sees.again \union {mpd.n + 1} ELSE sees.again
           e == [sees EXCEPT !.again = b]
<1>1. mpd' = m /\ ~suspended.on /\ UNCHANGED <<scrob, file, suspended>> /\ sees' = e
      /\ plays' = [n \in 1..(mpd.n + 1) |-> IF n <= mpd.n THEN plays[n] ELSE NewPlay(song)]
  BY DEF NextSong
<1>2. m \in Playings /\ m.song = song /\ m.n = mpd.n + 1 /\ m.pos = 0 /\ song \in Tunes
  BY DEF Playings, Tunes
<1> HIDE DEF m
<1>3. sees \in [cut : BOOLEAN, torn : SUBSET Nat, back : SUBSET Nat, again : SUBSET Nat]
  BY DEF ScrobInv, ScrobTypes
<1>a. sees.again \in SUBSET Nat
  BY <1>3, Zenon
<1>4. b \in SUBSET Nat /\ sees.again \subseteq b /\ (song = scrob.current => mpd.n + 1 \in b)
  BY <1>a
<1> HIDE DEF b
<1>5. /\ e \in [cut : BOOLEAN, torn : SUBSET Nat, back : SUBSET Nat, again : SUBSET Nat]
      /\ e.cut = sees.cut /\ e.torn = sees.torn /\ e.back = sees.back /\ e.again = b
  BY <1>3, <1>4, Zenon
<1> HIDE DEF e
<1>6. /\ DOMAIN plays' = 1..(mpd.n + 1)
      /\ \A n \in 1..mpd.n : n \in DOMAIN plays /\ plays'[n] = plays[n]
      /\ \A n \in DOMAIN plays' : plays'[n] \in Histories
      /\ plays'[mpd.n + 1].song = song /\ plays'[mpd.n + 1].far = 0
      /\ \A n \in DOMAIN plays' : n \in 1..mpd.n \/ (plays'[n].times = 0 /\ plays'[n].due = FALSE)
  BY <1>1, <1>2, AddedPlay
<1>7. Now' = m /\ mpd.n + 1 \in 1..(mpd.n + 1)
  BY <1>1 DEF Now
<1>8. ScrobTypes'
  BY <1>1, <1>2, <1>5, <1>6 DEF ScrobInv, ScrobTypes
<1>14. song # Video
  BY ScrobConstants
<1>15. NowRight'
  <2>1. Now'.n = mpd.n + 1 /\ mpd'.n = mpd.n + 1 /\ Now'.song = song /\ Now'.pos = 0
    BY <1>1, <1>2, <1>7
  <2>2. Now'.pos + Grace >= plays'[mpd.n + 1].far
    BY <1>6, <2>1, ScrobConstants
  <2>3. scrob'.at # "idle" => ~suspended'.on
    BY <1>1
  <2> QED BY <1>6, <1>7, <1>14, <2>1, <2>2, <2>3 DEF NowRight
<1>9. FileRight'
  BY <1>1 DEF ScrobInv, FileRight
<1>10. StatusRight'
  BY <1>1, <1>2 DEF ScrobInv, StatusRight
<1>11. plays'[mpd.n + 1].times = 0
  BY <1>6, <1>7
<1>12. SentTrue' /\ LastRight'
  BY <1>1, <1>2, <1>4, <1>5, <1>7, <1>11 DEF SentTrue, LastRight
<1>13. ListensRight'
  BY <1>1, <1>2, <1>4, <1>5, AddedCounts
<1> QED BY <1>8, <1>9, <1>10, <1>12, <1>13, <1>15 DEF ScrobInv

LEMMA VideoPlaysScrob ==
  ASSUME ScrobInv, VideoPlays
  PROVE  ScrobInv'
<1> USE ScrobParts
<1> DEFINE m == [song |-> Video, n |-> mpd.n + 1, pos |-> Duration[Video], state |-> "play"]
           r == [on |-> TRUE, over |-> mpd]
<1>1. mpd' = m /\ ~suspended.on /\ scrob.at = "idle" /\ UNCHANGED <<scrob, file, sees>> /\ suspended' = r
      /\ plays' = [n \in 1..(mpd.n + 1) |-> IF n <= mpd.n THEN plays[n] ELSE NewPlay(Video)]
  BY DEF VideoPlays, Suspend
<1>2. m \in Playings /\ m.n = mpd.n + 1 /\ Video \in Tunes
  BY ScrobConstants DEF Playings, Tunes
<1> HIDE DEF m
<1>3. r \in [on : BOOLEAN, over : Playings] /\ r.on = TRUE /\ r.over = mpd
  BY DEF ScrobInv, ScrobTypes
<1> HIDE DEF r
<1>4. Now = mpd /\ Now' = mpd
  BY <1>1, <1>3 DEF Now
<1>6. /\ DOMAIN plays' = 1..(mpd.n + 1)
      /\ \A n \in 1..mpd.n : n \in DOMAIN plays /\ plays'[n] = plays[n]
      /\ \A n \in DOMAIN plays' : plays'[n] \in Histories
  BY <1>1, <1>2, AddedPlay
<1>7. mpd.n \in 1..mpd.n /\ mpd.n \in 1..(mpd.n + 1)
  BY <1>4 DEF ScrobInv, NowRight
<1>8. ScrobTypes'
  BY <1>1, <1>2, <1>3, <1>6 DEF ScrobInv, ScrobTypes
<1>9. NowRight' /\ FileRight' /\ StatusRight' /\ SentTrue' /\ LastRight'
  BY <1>1, <1>2, <1>3, <1>4, <1>6, <1>7 DEF ScrobInv, NowRight, FileRight, StatusRight, SentTrue, LastRight
<1>10. ListensRight'
  BY <1>1, <1>2, AddedCounts
<1> QED BY <1>8, <1>9, <1>10 DEF ScrobInv

LEMMA VideoEndsScrob ==
  ASSUME ScrobInv, VideoEnds
  PROVE  ScrobInv'
<1> USE ScrobParts
<1> DEFINE m == [suspended.over EXCEPT !.state = "pause"]
           r == [on |-> FALSE, over |-> suspended.over]
<1>1. mpd' = m /\ mpd.song = Video /\ scrob.at = "idle" /\ UNCHANGED <<scrob, file, plays, sees>> /\ suspended' = r
  BY DEF VideoEnds, Suspend
<1>2. Now = suspended.over
  BY <1>1 DEF ScrobInv, NowRight, Now
<1>3. m \in Playings /\ m.song = Now.song /\ m.n = Now.n /\ m.pos = Now.pos
  BY <1>2, Zenon DEF Playings
<1>4. r \in [on : BOOLEAN, over : Playings] /\ r.on = FALSE
  OBVIOUS
<1> HIDE DEF m, r
<1>5. Now' = m
  BY <1>1, <1>4 DEF Now
<1>6. 1..Now.n \subseteq 1..mpd.n
  BY DEF ScrobInv, NowRight
<1>8. ScrobTypes'
  BY <1>1, <1>3, <1>4, <1>6 DEF ScrobInv, ScrobTypes
<1>9. NowRight' /\ FileRight' /\ StatusRight' /\ SentTrue' /\ LastRight'
  BY <1>1, <1>3, <1>4, <1>5 DEF ScrobInv, NowRight, FileRight, StatusRight, SentTrue, LastRight
<1>10. ListensRight'
  BY <1>1 DEF ScrobInv, ListensRight, CountsOnce, Heard, Deserved
<1> QED BY <1>8, <1>9, <1>10 DEF ScrobInv

\* The poll: what it takes for submitted is, or is the song before it again; and
\* what it submits was not.
LEMMA PollSongScrob ==
  ASSUME ScrobInv, PollSong
  PROVE  ScrobInv'
<1> USE ScrobParts
<1> DEFINE n     == mpd.n
           song  == mpd.song
           seen  == scrob.status
           fresh == song # scrob.current
           sent  == IF fresh THEN Resume(song, seen.pos) ELSE scrob.sent
           enough == /\ seen.state = "play" /\ song # Silence
                     /\ seen.dur >= MinDuration /\ seen.pos >= Threshold(seen.dur)
           sends == enough /\ ~sent
           back  == IF sends THEN [song |-> song, pos |-> seen.pos] ELSE scrob.last
           at    == IF sends THEN "save" ELSE "idle"
           known == song # Silence /\ (sent \/ enough)
           q     == [scrob EXCEPT !.at = at, !.current = song, !.sent = known, !.last = back,
                                  !.status = NoStatus]
           times == IF sends THEN plays[n].times + 1 ELSE plays[n].times
           seenfar == IF enough THEN plays[n].due \/ n = seen.n ELSE plays[n].due
           h     == [plays[n] EXCEPT !.due = seenfar, !.times = times]
           torn  == IF n # seen.n THEN sees.torn \union {n} ELSE sees.torn
           again == IF fresh /\ song = scrob.last.song /\ seen.pos + Grace >= scrob.last.pos
                    THEN sees.again \union {n} ELSE sees.again
           e     == [sees EXCEPT !.torn = torn, !.again = again]
<1>1. Now = mpd /\ UNCHANGED <<mpd, file, suspended>> /\ scrob.at = "song" /\ ~suspended.on
      /\ seen.n <= n /\ song \in Songs \union {Silence}
  BY DEF PollSong, ScrobInv, NowRight, StatusRight, Now
<1>2. scrob' = q /\ sees' = e
  BY Zenon DEF PollSong
<1>3. plays' = IF ~enough THEN plays
               ELSE [plays EXCEPT ![n].due = @ \/ n = seen.n, ![n].times = IF sends THEN @ + 1 ELSE @]
  BY Zenon DEF PollSong
<1>4. enough \in BOOLEAN /\ sent \in BOOLEAN /\ (sends <=> enough /\ ~sent)
  BY DEF Resume
<1>5. at \in {"idle", "song", "save"} /\ (at = "save" <=> sends) /\ at # "song" /\ known \in BOOLEAN
      /\ (known <=> song # Silence /\ (sent \/ enough))
  BY <1>4
<1>6. back \in Places /\ (sends => back.song = song /\ back.pos = seen.pos) /\ (~sends => back = scrob.last)
  <2>1. scrob.last \in Places
    BY Zenon DEF ScrobInv, ScrobTypes, Polls
  <2> QED BY <2>1 DEF Places
<1>7. NoStatus \in [state : {"play", "pause", "stop"}, pos : Nat, dur : Nat, n : Nat]
  BY DEF NoStatus
<1>8. seenfar \in BOOLEAN /\ times \in Nat
  <2>1. plays[n].due \in BOOLEAN /\ plays[n].times \in Nat
    OBVIOUS
  <2> HIDE DEF enough, sends
  <2>2. times \in Nat
    BY <2>1
  <2>3. seenfar \in BOOLEAN
    BY <2>1, Zenon
  <2> QED BY <2>2, <2>3
<1>9. torn \in SUBSET Nat /\ again \in SUBSET Nat /\ sees.torn \subseteq torn /\ sees.again \subseteq again
      /\ (n \notin torn => seen.n = n) /\ (torn = {} => sees.torn = {} /\ seen.n = n)
  <2>1. sees.torn \in SUBSET Nat /\ sees.again \in SUBSET Nat
    BY Zenon DEF ScrobInv, ScrobTypes
  <2> QED BY <2>1
<1>10. sent => (scrob.sent /\ ~fresh) \/ n \in again
  BY DEF Resume
\* A play submitted before is known to be.
<1>11. ~sees.cut /\ torn = {} /\ n \notin sees.back /\ plays[n].times > 0 =>
         sent /\ song \in Songs /\ scrob.last.song = song /\ scrob.last.pos <= plays[n].far
  <2> SUFFICES ASSUME ~sees.cut, torn = {}, n \notin sees.back, plays[n].times > 0
               PROVE  sent /\ song \in Songs /\ scrob.last.song = song /\ scrob.last.pos <= plays[n].far
    OBVIOUS
  <2>1. sees.torn = {} /\ seen.n = n
    BY <1>9
  <2>2. /\ scrob.last.song = song /\ scrob.last.pos <= plays[n].far /\ (scrob.current = song => scrob.sent)
        /\ seen.pos + Grace >= scrob.last.pos
    BY <1>1, <2>1 DEF ScrobInv, LastRight
  <2>3. song \in Songs
    BY <1>1, <2>1, SilenceNeverCounts
  <2> QED BY <2>2, <2>3 DEF Resume
\* What is far enough deserves it.
<1>12. enough /\ n \notin torn => /\ song \in Songs /\ Duration[song] >= MinDuration
                                /\ plays[n].far >= Threshold(Duration[song])
  <2> SUFFICES ASSUME enough, n \notin torn
               PROVE  /\ song \in Songs /\ Duration[song] >= MinDuration
                      /\ plays[n].far >= Threshold(Duration[song])
    OBVIOUS
  <2>1. song \in Songs
    BY <1>1
  <2>2. seen.dur = Duration[song] /\ seen.pos <= plays[n].far
    BY <1>1, <1>9, <2>1, ScrobConstants DEF ScrobInv, StatusRight
  <2>3. Threshold(Duration[song]) \in Nat
    BY <2>1, ScrobConstants
  <2>4. seen.dur >= MinDuration /\ seen.pos >= Threshold(seen.dur)
    OBVIOUS
  <2> QED BY <2>1, <2>2, <2>3, <2>4
<1>13. q \in Polls /\ q.at = at /\ q.current = song /\ q.sent = known /\ q.last = back
  <2> HIDE DEF at, known, back, song
  <2>1. scrob \in Polls /\ song \in Tunes
    BY DEF ScrobInv, ScrobTypes, song
  <2> QED BY <1>5, <1>6, <1>7, <2>1, Zenon DEF Polls
<1>14. h \in Histories /\ h.song = plays[n].song /\ h.far = plays[n].far /\ h.times = times /\ h.due = seenfar
  <2> HIDE DEF times, seenfar, n
  <2>1. plays[n] \in Histories
    BY DEF ScrobInv, ScrobTypes, n
  <2> QED BY <1>8, <2>1, Zenon DEF Histories
<1>15. /\ e \in [cut : BOOLEAN, torn : SUBSET Nat, back : SUBSET Nat, again : SUBSET Nat]
       /\ e.cut = sees.cut /\ e.torn = torn /\ e.back = sees.back /\ e.again = again
  <2> HIDE DEF torn, again
  <2>1. sees \in [cut : BOOLEAN, torn : SUBSET Nat, back : SUBSET Nat, again : SUBSET Nat]
    BY DEF ScrobInv, ScrobTypes
  <2> QED BY <1>9, <2>1, Zenon
<1>16. enough => plays' = [plays EXCEPT ![n] = h]
  BY <1>3
<1>17. ~enough => plays' = plays /\ times = plays[n].times /\ seenfar = plays[n].due
  BY <1>3
<1>18. DOMAIN plays' = DOMAIN plays /\ \A k \in DOMAIN plays : k # n => plays'[k] = plays[k]
  <2> HIDE DEF h, enough
  <2> QED BY <1>16, <1>17
<1>19. /\ plays'[n] \in Histories /\ plays'[n].song = plays[n].song /\ plays'[n].far = plays[n].far
       /\ plays'[n].times = times /\ plays'[n].due = seenfar
  <2>1. plays[n] \in Histories
    BY DEF ScrobInv, ScrobTypes
  <2>2. n \in DOMAIN plays
    OBVIOUS
  <2> HIDE DEF h, enough, times, seenfar, n
  <2>3. CASE enough
    BY <1>14, <1>16, <2>2, <2>3
  <2>4. CASE ~enough
    BY <1>17, <2>1, <2>4
  <2> QED BY <2>3, <2>4
<1>20. (sends => times = plays[n].times + 1) /\ (~sends => times = plays[n].times)
       /\ (enough => (seenfar <=> plays[n].due \/ n = seen.n))
  OBVIOUS
<1> HIDE DEF q, h, e, at, back, known, times, seenfar, torn, again, sends, enough, sent
<1>21. Now' = mpd
  BY <1>1 DEF Now
<1>22. ScrobTypes'
  BY <1>1, <1>2, <1>13, <1>15, <1>18, <1>19 DEF ScrobInv, ScrobTypes
<1>23. NowRight' /\ StatusRight' /\ FileRight'
  BY <1>1, <1>2, <1>4, <1>5, <1>6, <1>13, <1>15, <1>18, <1>19, <1>21
     DEF ScrobInv, NowRight, StatusRight, FileRight
<1>24. SentTrue'
  <2> SUFFICES ASSUME known PROVE times > 0 \/ n \in again
    BY <1>1, <1>2, <1>13, <1>15, <1>19, <1>21 DEF SentTrue
  <2>1. CASE sends
    BY <2>1, <1>20
  <2>2. CASE ~sends
    <3>1. sent /\ song # Silence
      BY <2>2, <1>4, <1>5
    <3>2. CASE n \in again
      BY <3>2
    <3>3. CASE scrob.sent /\ ~fresh
      <4>1. plays[n].times > 0 \/ n \in sees.again
        BY <3>1, <3>3, <1>1 DEF ScrobInv, SentTrue
      <4> QED BY <4>1, <2>2, <1>9, <1>20
    <3> QED BY <3>1, <3>2, <3>3, <1>10
  <2> QED BY <2>1, <2>2
<1>25. LastRight'
  <2> SUFFICES ASSUME ~sees.cut, torn = {}, n \notin sees.back, times > 0
               PROVE  back.song = song /\ back.pos <= plays[n].far /\ known
    BY <1>1, <1>2, <1>5, <1>13, <1>15, <1>19, <1>21 DEF LastRight
  <2>1. CASE sends
    <3>1. seen.pos <= plays[n].far
      BY <1>1, <1>9 DEF ScrobInv, StatusRight
    <3>2. song # Silence
      BY <2>1, <1>4 DEF enough
    <3> QED BY <2>1, <3>1, <3>2, <1>4, <1>5, <1>6
  <2>2. CASE ~sends
    BY <2>2, <1>5, <1>6, <1>11, <1>20, ScrobConstants
  <2> QED BY <2>1, <2>2
<1>26. CountsOnce'
  <2> SUFFICES ASSUME NEW k \in DOMAIN plays PROVE plays'[k].times <= 1 \/ sees.cut \/ k \in sees.back \/ torn # {}
    BY <1>2, <1>15, <1>18 DEF CountsOnce
  <2>0. plays[k].times <= 1 \/ sees.cut \/ k \in sees.back \/ torn # {}
    BY <1>9 DEF ScrobInv, ListensRight, CountsOnce
  <2>1. CASE k # n
    BY <2>0, <2>1, <1>18
  <2>2. CASE k = n /\ ~sends
    BY <2>0, <2>2, <1>19, <1>20
  <2>3. CASE k = n /\ sends
    BY <2>3, <1>4, <1>11, <1>19, <1>20
  <2> QED BY <2>1, <2>2, <2>3
<1>27. Heard'
  <2> SUFFICES ASSUME NEW k \in DOMAIN plays, plays'[k].due PROVE plays'[k].times > 0 \/ k \in again
    BY <1>2, <1>15, <1>18 DEF Heard
  <2>0. plays[k].due => plays[k].times > 0 \/ k \in again
    BY <1>9 DEF ScrobInv, ListensRight, Heard
  <2>1. CASE k # n
    BY <2>0, <2>1, <1>18
  <2>2. CASE k = n /\ sends
    BY <2>2, <1>19, <1>20
  <2>3. CASE k = n /\ ~enough
    BY <2>0, <2>3, <1>17, <1>19
  <2>4. CASE k = n /\ enough /\ ~sends
    <3>1. known
      BY <2>4, <1>5 DEF enough
    <3>2. plays'[n].times > 0 \/ n \in again
      BY <3>1, <1>2, <1>13, <1>15, <1>21, <1>24, <1>5, <1>1 DEF SentTrue
    <3> QED BY <2>4, <3>2
  <2> QED BY <2>1, <2>2, <2>3, <2>4
<1>28. Deserved'
  <2> SUFFICES ASSUME NEW k \in DOMAIN plays, plays'[k].times > 0, k \notin torn
               PROVE  /\ plays'[k].song \in Songs /\ Duration[plays'[k].song] >= MinDuration
                      /\ plays'[k].far >= Threshold(Duration[plays'[k].song])
    BY <1>2, <1>15, <1>18 DEF Deserved
  <2>0. plays[k].times > 0 => /\ plays[k].song \in Songs /\ Duration[plays[k].song] >= MinDuration
                              /\ plays[k].far >= Threshold(Duration[plays[k].song])
    BY <1>9 DEF ScrobInv, ListensRight, Deserved
  <2>1. CASE k # n
    BY <2>0, <2>1, <1>18
  <2>2. CASE k = n /\ ~sends
    BY <2>0, <2>2, <1>19, <1>20
  <2>3. CASE k = n /\ sends
    <3>1. plays[n].song = song
      BY <1>1 DEF ScrobInv, NowRight
    <3> QED BY <2>3, <3>1, <1>4, <1>12, <1>19
  <2> QED BY <2>1, <2>2, <2>3
<1> QED BY <1>22, <1>23, <1>24, <1>25, <1>26, <1>27, <1>28 DEF ScrobInv, ListensRight

LEMMA ScrobSteps == ScrobInv /\ [ScrobNext]_scrobVars => ScrobInv'
<1> SUFFICES ASSUME ScrobInv, [ScrobNext]_scrobVars PROVE ScrobInv'
  OBVIOUS
<1>1. CASE UNCHANGED scrobVars
  BY <1>1 DEF scrobVars, ScrobInv, ScrobTypes, NowRight, StatusRight, FileRight, SentTrue, LastRight, Now,
     ListensRight, CountsOnce, Heard, Deserved
<1> QED BY <1>1, PollStatusScrob, PollSongScrob, SaveScrob, PollFailsScrob, PlayOnScrob, ToggleScrob,
           VideoPlaysScrob, VideoEndsScrob, DiesScrob, NextSongScrob, SeekToScrob DEF ScrobNext

\* What counts as listened to counts once, when it deserves it and then surely:
\* over failures of MPD, seeks, pauses, videos in between and rPod's deaths at any
\* point, of any number of songs and plays (scrobbler.c).
THEOREM ListensInvariant == ScrobSpec => []ListensRight
<1>1. ScrobInv => ListensRight
  BY DEF ScrobInv
<1> QED BY <1>1, ScrobStarts, ScrobSteps, PTL DEF ScrobSpec
=============================================================================
