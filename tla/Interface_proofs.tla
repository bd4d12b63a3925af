-------------------------- MODULE Interface_proofs --------------------------
(***************************************************************************)
(* The wheel's socket and the gestures, for any buttons in use, any number *)
(* of clients, any buffer and any number of packets, restarts and timers.  *)
(* First what each gesture leaves behind, then the socket, then the steps. *)
(***************************************************************************)
EXTENDS ClickWheel, Screens, TLAPS, SequenceTheorems, FiniteSetTheorems, WellFoundedInduction

Btns == [down : BOOLEAN, swallow : BOOLEAN, held : BOOLEAN, offered : BOOLEAN,
         began : {"awake", "dim", "asleep"}, acts : Nat]
Uis == [btn : [Buttons -> Btns], asleep : BOOLEAN, dim : BOOLEAN, dark : BOOLEAN,
        center : BOOLEAN, scan : BOOLEAN, was : BOOLEAN, mpd : {"play", "pause"},
        quiet : BOOLEAN, timer : BOOLEAN, empty : BOOLEAN, going : BOOLEAN, off : BOOLEAN,
        overlap : BOOLEAN]

\* The screen is dark exactly when asleep, and only dims when asleep.
SleepRight(v) == v.asleep = v.dark /\ (v.dim => v.asleep)

\* A press that counts or has acted is one that may; until it is held, a
\* transport button that counts has done nothing.
Live(r) == r.down /\ ~r.swallow
MayAct(r, b) == r.began = "awake" \/ (r.began = "dim" /\ b \in Transport)
PressRight(r, b) ==
  /\ r.acts <= 1
  /\ (r.acts > 0 \/ Live(r)) => MayAct(r, b)
  /\ Live(r) /\ ~r.held /\ b \in Transport => r.acts = 0

\* Nothing that is still to come starts the music by itself.
QuietRight(v) == ~v.overlap /\ v.quiet => v.mpd # "play" /\ ~(v.scan /\ v.was)

Shape(v) == v \in Uis /\ QuietRight(v) /\ \A b \in Buttons : PressRight(v.btn[b], b)

CenterRight(v) == Center \in Buttons => v.center = (Center \in Counting(v))
ScanRight(v) == v.scan => \E b \in Scanners \intersect Counting(v) : v.btn[b].held

\* What every gesture and every timer of the UI keeps.
UiRight(v) == Shape(v) /\ SleepRight(v) /\ CenterRight(v) /\ ScanRight(v)

SameSleep(w, v) == w.asleep = v.asleep /\ w.dim = v.dim /\ w.dark = v.dark
SameMusic(w, v) == /\ w.scan = v.scan /\ w.was = v.was /\ w.mpd = v.mpd
                   /\ w.quiet = v.quiet /\ w.overlap = v.overlap
WithButton(v, b, r) == [v EXCEPT !.btn = [v.btn EXCEPT ![b] = r]]
SameDown(w, v) == \A b \in Buttons : w.btn[b].down = v.btn[b].down
-----------------------------------------------------------------------------
\* The fields of the UI's record have their types.
LEMMA FieldTypes == ASSUME NEW v \in Uis
  PROVE /\ v.btn \in [Buttons -> Btns] /\ v.mpd \in {"play", "pause"}
        /\ v.asleep \in BOOLEAN /\ v.dim \in BOOLEAN /\ v.dark \in BOOLEAN /\ v.center \in BOOLEAN
        /\ v.scan \in BOOLEAN /\ v.was \in BOOLEAN /\ v.quiet \in BOOLEAN /\ v.timer \in BOOLEAN
        /\ v.empty \in BOOLEAN /\ v.going \in BOOLEAN /\ v.off \in BOOLEAN /\ v.overlap \in BOOLEAN
BY Zenon DEF Uis

\* So have those of a button's.
LEMMA ButtonTypes == ASSUME NEW r \in Btns
  PROVE /\ r.down \in BOOLEAN /\ r.swallow \in BOOLEAN /\ r.held \in BOOLEAN
        /\ r.offered \in BOOLEAN /\ r.began \in {"awake", "dim", "asleep"} /\ r.acts \in Nat
BY Zenon DEF Btns

\* Which buttons count is said by the buttons alone.
LEMMA CountingSame == ASSUME NEW v, NEW w, w.btn = v.btn PROVE Counting(w) = Counting(v)
BY DEF Counting

\* A state with the same buttons and centre, asleep and quiet as it should be,
\* and no scan that was not there, is right.
LEMMA Carried ==
  ASSUME NEW v, UiRight(v), NEW w \in Uis, w.btn = v.btn, w.center = v.center,
         SleepRight(w), QuietRight(w), w.scan => v.scan
  PROVE UiRight(w)
<1>1. Counting(w) = Counting(v)  BY CountingSame
<1>2. Shape(w)  BY DEF Shape, UiRight
<1>3. CenterRight(w)  BY <1>1 DEF UiRight, CenterRight
<1>4. ScanRight(w)  BY <1>1 DEF UiRight, ScanRight
<1> QED  BY <1>2, <1>3, <1>4 DEF UiRight

\* A scan stays right while what holds it does.
LEMMA ScanCarried ==
  ASSUME NEW v, ScanRight(v), NEW w, w.scan => v.scan,
         \A b \in Scanners \intersect Counting(v) : v.btn[b].held => b \in Counting(w) /\ w.btn[b].held
  PROVE ScanRight(w)
BY DEF ScanRight

\* The encoder lets go of a centre button that does not count.
LEMMA CenterUp ==
  ASSUME NEW v \in Uis, Center \in Buttons => ~v.center, Center \notin Counting(v) PROVE CenterRight(v)
<1>1. v.center \in BOOLEAN  BY FieldTypes
<1> QED  BY <1>1 DEF CenterRight

\* One button's record replaced, as long as its press is right.
LEMMA PutButton ==
  ASSUME NEW v, Shape(v), NEW b \in Buttons, NEW r \in Btns, PressRight(r, b),
         NEW w, w = WithButton(v, b, r)
  PROVE /\ Shape(w) /\ SameSleep(w, v) /\ SameMusic(w, v) /\ w.center = v.center
        /\ w.btn[b] = r /\ \A c \in Buttons : c # b => w.btn[c] = v.btn[c]
        /\ \A c \in Buttons : c # b => (c \in Counting(w) <=> c \in Counting(v))
        /\ b \in Counting(w) <=> Live(r)
<1>0. v \in Uis /\ v.btn \in [Buttons -> Btns]  BY FieldTypes DEF Shape
<1>1. [v.btn EXCEPT ![b] = r] \in [Buttons -> Btns]  BY <1>0, Zenon
<1>2. w \in Uis  BY <1>0, <1>1, Zenon DEF Uis, WithButton
<1>3. SameSleep(w, v) /\ SameMusic(w, v) /\ w.center = v.center /\ w.btn = [v.btn EXCEPT ![b] = r]
  BY <1>0, Zenon DEF Uis, SameSleep, SameMusic, WithButton
<1>4. w.btn[b] = r /\ \A c \in Buttons : c # b => w.btn[c] = v.btn[c]  BY <1>0, <1>3
<1>5. QuietRight(w)  BY <1>3 DEF Shape, QuietRight, SameMusic
<1>6. \A c \in Buttons : PressRight(w.btn[c], c)
  <2> TAKE c \in Buttons
  <2>1. CASE c = b  BY <2>1, <1>4
  <2>2. CASE c # b  BY <2>2, <1>4 DEF Shape
  <2> QED  BY <2>1, <2>2
<1>7. \A c \in Buttons : c # b => (c \in Counting(w) <=> c \in Counting(v))  BY <1>4 DEF Counting
<1>8. b \in Counting(w) <=> Live(r)  BY <1>4 DEF Counting, Live
<1> QED  BY <1>2, <1>3, <1>4, <1>5, <1>6, <1>7, <1>8 DEF Shape

\* The level the encoder is given.
LEMMA PutCenter ==
  ASSUME NEW v, Shape(v), NEW x \in BOOLEAN, NEW w, w = [v EXCEPT !.center = x]
  PROVE Shape(w) /\ SameSleep(w, v) /\ SameMusic(w, v) /\ w.btn = v.btn /\ w.center = x
<1>0. v \in Uis  BY DEF Shape
<1>1. w \in Uis  BY <1>0, Zenon DEF Uis
<1>2. SameSleep(w, v) /\ SameMusic(w, v) /\ w.btn = v.btn /\ w.center = x
  BY <1>0, Zenon DEF Uis, SameSleep, SameMusic
<1>3. QuietRight(w)  BY <1>2 DEF Shape, QuietRight, SameMusic
<1> QED  BY <1>1, <1>2, <1>3 DEF Shape

\* A scan that ends leaves MPD as it found it.
LEMMA ScanStopped ==
  ASSUME NEW v, Shape(v)
  PROVE /\ Shape(ScanStop(v)) /\ SameSleep(ScanStop(v), v)
        /\ ScanStop(v).btn = v.btn /\ ScanStop(v).center = v.center
        /\ ScanStop(v).quiet = v.quiet /\ ScanStop(v).overlap = v.overlap
        /\ ~ScanStop(v).scan
<1>0. v \in Uis /\ v.scan \in BOOLEAN /\ v.was \in BOOLEAN /\ v.mpd \in {"play", "pause"}
  BY FieldTypes DEF Shape
<1>1. CASE ~v.scan
  BY <1>1, Zenon DEF ScanStop, SameSleep
<1>2. CASE v.scan
  <2> DEFINE x == IF v.was THEN "play" ELSE v.mpd
             q == [v EXCEPT !.scan = FALSE, !.was = FALSE, !.mpd = x]
  <2>1. x \in {"play", "pause"}  BY <1>0
  <2>2. q \in Uis  BY <1>0, <2>1, Zenon DEF Uis
  <2>3. SameSleep(q, v) /\ q.btn = v.btn /\ q.center = v.center /\ q.quiet = v.quiet
        /\ q.overlap = v.overlap /\ q.scan = FALSE /\ q.mpd = x
    BY <1>0, Zenon DEF Uis, SameSleep
  <2>4. ScanStop(v) = q  BY <1>2, Zenon DEF ScanStop
  <2>5. x = "play" => v.mpd = "play" \/ v.was  BY <1>0
  <2> HIDE DEF q, x
  <2>6. QuietRight(q)  BY <1>2, <2>3, <2>5 DEF Shape, QuietRight
  <2> QED  BY <2>2, <2>3, <2>4, <2>6 DEF Shape
<1> QED  BY <1>0, <1>1, <1>2

\* A scan that begins finds MPD and pauses it.
LEMMA ScanStarted ==
  ASSUME NEW v, Shape(v)
  PROVE /\ Shape(ScanStart(v)) /\ SameSleep(ScanStart(v), v)
        /\ ScanStart(v).btn = v.btn /\ ScanStart(v).center = v.center
<1>0. v \in Uis /\ v.scan \in BOOLEAN /\ v.was \in BOOLEAN /\ v.mpd \in {"play", "pause"}
  BY FieldTypes DEF Shape
<1>1. CASE v.scan \/ v.mpd = "stop"
  BY <1>1, Zenon DEF ScanStart, SameSleep
<1>2. CASE ~(v.scan \/ v.mpd = "stop")
  <2> DEFINE q == [v EXCEPT !.scan = TRUE, !.was = (v.mpd = "play"), !.mpd = "pause"]
  <2>1. q \in Uis  BY <1>0, Zenon DEF Uis
  <2>2. SameSleep(q, v) /\ q.btn = v.btn /\ q.center = v.center /\ q.quiet = v.quiet
        /\ q.overlap = v.overlap /\ q.scan = TRUE /\ q.was = (v.mpd = "play") /\ q.mpd = "pause"
    BY <1>0, Zenon DEF Uis, SameSleep
  <2>3. ScanStart(v) = q  BY <1>2, Zenon DEF ScanStart
  <2> HIDE DEF q
  <2>4. QuietRight(q)  BY <2>2 DEF Shape, QuietRight
  <2> QED  BY <2>1, <2>2, <2>3, <2>4 DEF Shape
<1> QED  BY <1>1, <1>2

\* The curtain goes up.
LEMMA WokeRight ==
  ASSUME NEW v, Shape(v)
  PROVE /\ Shape(Woke(v)) /\ SameMusic(Woke(v), v) /\ Woke(v).btn = v.btn
        /\ Woke(v).center = v.center /\ ~Woke(v).asleep /\ SleepRight(Woke(v))
<1> DEFINE q == [v EXCEPT !.asleep = FALSE, !.dim = FALSE, !.dark = FALSE]
<1>0. v \in Uis  BY DEF Shape
<1>1. q \in Uis  BY <1>0, Zenon DEF Uis
<1>2. SameMusic(q, v) /\ q.btn = v.btn /\ q.center = v.center /\ q.asleep = FALSE /\ q.dim = FALSE
      /\ q.dark = FALSE
  BY <1>0, Zenon DEF Uis, SameMusic
<1>3. Woke(v) = q  BY Zenon DEF Woke
<1> HIDE DEF q
<1>4. SleepRight(q) /\ QuietRight(q)  BY <1>2 DEF Shape, SleepRight, QuietRight, SameMusic
<1> QED  BY <1>1, <1>2, <1>3, <1>4 DEF Shape

\* Waking leaves everything else as it was.
LEMMA WakeRight ==
  ASSUME NEW v, UiRight(v)
  PROVE /\ UiRight(Wake(v)) /\ Wake(v).btn = v.btn /\ SameMusic(Wake(v), v)
        /\ UiRight(Woke(v)) /\ Woke(v).btn = v.btn
        /\ UiRight(Turned(v)) /\ Turned(v).btn = v.btn
<1>1. Shape(Woke(v)) /\ SameMusic(Woke(v), v) /\ Woke(v).btn = v.btn /\ Woke(v).center = v.center
      /\ SleepRight(Woke(v))
  BY WokeRight DEF UiRight
<1>2. UiRight(Woke(v))  BY <1>1, Carried DEF Shape, SameMusic
<1>3. SameMusic(v, v)  BY DEF SameMusic
<1> QED  BY <1>1, <1>2, <1>3 DEF Wake, Turned
-----------------------------------------------------------------------------
\* A press that has not acted yet acts.
LEMMA ActedRight ==
  ASSUME NEW v, Shape(v), NEW b \in Buttons, v.btn[b].acts = 0, MayAct(v.btn[b], b),
         v.btn[b].held \/ b \notin Transport \/ ~Live(v.btn[b])
  PROVE /\ Shape(Acted(v, b)) /\ SameSleep(Acted(v, b), v) /\ SameMusic(Acted(v, b), v)
        /\ Acted(v, b).center = v.center /\ SameDown(Acted(v, b), v)
        /\ Counting(Acted(v, b)) = Counting(v)
        /\ \A c \in Buttons : Acted(v, b).btn[c].held = v.btn[c].held
<1> DEFINE r == [v.btn[b] EXCEPT !.acts = v.btn[b].acts + 1]
           w == Acted(v, b)
<1>0. v.btn \in [Buttons -> Btns] /\ v.btn[b] \in Btns  BY FieldTypes DEF Shape
<1>1. r \in Btns
  <2>1. v.btn[b].acts + 1 \in Nat  BY <1>0, ButtonTypes
  <2> QED  BY <1>0, <2>1, Zenon DEF Btns
<1>2. /\ r.down = v.btn[b].down /\ r.swallow = v.btn[b].swallow /\ r.held = v.btn[b].held
      /\ r.began = v.btn[b].began /\ r.acts = v.btn[b].acts + 1
  BY <1>0, Zenon DEF Btns
<1>3. w = WithButton(v, b, r)  BY Zenon DEF Acted, WithButton
<1> HIDE DEF r, w
<1>4. PressRight(r, b)  BY <1>0, <1>2, ButtonTypes DEF PressRight, MayAct, Live
<1>5. /\ Shape(w) /\ SameSleep(w, v) /\ SameMusic(w, v) /\ w.center = v.center
      /\ w.btn[b] = r /\ \A c \in Buttons : c # b => w.btn[c] = v.btn[c]
      /\ \A c \in Buttons : c # b => (c \in Counting(w) <=> c \in Counting(v))
      /\ b \in Counting(w) <=> Live(r)
  BY <1>1, <1>3, <1>4, PutButton
<1>6. SameDown(w, v) /\ \A c \in Buttons : w.btn[c].held = v.btn[c].held
  BY <1>2, <1>5 DEF SameDown
<1>7. b \in Counting(v) <=> Live(r)  BY <1>2 DEF Counting, Live
<1>8. Counting(w) \subseteq Buttons /\ Counting(v) \subseteq Buttons  BY DEF Counting
<1>9. Counting(w) = Counting(v)  BY <1>5, <1>7, <1>8
<1> QED  BY <1>5, <1>6, <1>9 DEF w

\* All buttons replaced at once.
LEMMA PutButtons ==
  ASSUME NEW v, Shape(v), NEW f \in [Buttons -> Btns], \A b \in Buttons : PressRight(f[b], b),
         NEW w, w = [v EXCEPT !.btn = f]
  PROVE Shape(w) /\ SameSleep(w, v) /\ SameMusic(w, v) /\ w.center = v.center /\ w.btn = f
<1>0. v \in Uis  BY DEF Shape
<1>1. w \in Uis  BY <1>0, Zenon DEF Uis
<1>2. SameSleep(w, v) /\ SameMusic(w, v) /\ w.center = v.center /\ w.btn = f
  BY <1>0, Zenon DEF Uis, SameSleep, SameMusic
<1>3. QuietRight(w)  BY <1>2 DEF Shape, QuietRight, SameMusic
<1> QED  BY <1>1, <1>2, <1>3 DEF Shape

\* A scan that is going has been stopped, and nothing counts any more.
LEMMA LetGoRight ==
  ASSUME NEW v, Shape(v), ScanRight(v)
  PROVE /\ Shape(LetGo(v)) /\ SameSleep(LetGo(v), v) /\ LetGo(v).center = v.center
        /\ ~LetGo(v).scan /\ Counting(LetGo(v)) = {} /\ SameDown(LetGo(v), v)
<1> DEFINE holding == \E b \in Scanners \intersect Counting(v) : v.btn[b].held
           x == IF holding THEN ScanStop(v) ELSE v
           f == [b \in Buttons |->
                   IF b \in Counting(v)
                   THEN [x.btn[b] EXCEPT !.swallow = TRUE, !.began = "asleep", !.acts = 0]
                   ELSE x.btn[b]]
           w == LetGo(v)
<1>0. v \in Uis /\ v.btn \in [Buttons -> Btns] /\ v.scan \in BOOLEAN  BY FieldTypes DEF Shape
<1>1. w = [x EXCEPT !.btn = f]  BY Zenon DEF LetGo
<1>2. Shape(x) /\ SameSleep(x, v) /\ x.btn = v.btn /\ x.center = v.center /\ ~x.scan
  <2>1. CASE holding  BY <2>1, ScanStopped
  <2>2. CASE ~holding
    <3>1. ~v.scan  BY <2>2 DEF ScanRight
    <3> QED  BY <2>2, <3>1 DEF SameSleep
  <2> QED  BY <2>1, <2>2
<1> HIDE DEF holding, x
<1>3. \A b \in Buttons : /\ f[b] \in Btns /\ f[b].down = v.btn[b].down /\ PressRight(f[b], b)
                         /\ ~Live(f[b])
  <2> TAKE b \in Buttons
  <2>0. v.btn[b] \in Btns  BY <1>0
  <2>1. CASE b \in Counting(v)
    <3> DEFINE q == [v.btn[b] EXCEPT !.swallow = TRUE, !.began = "asleep", !.acts = 0]
    <3>1. q \in Btns  BY <2>0, Zenon DEF Btns
    <3>2. q.down = v.btn[b].down /\ q.swallow = TRUE /\ q.acts = 0  BY <2>0, Zenon DEF Btns
    <3>3. f[b] = q  BY <2>1, <1>2, Zenon
    <3> HIDE DEF q, f
    <3> QED  BY <3>1, <3>2, <3>3 DEF PressRight, Live
  <2>2. CASE b \notin Counting(v)
    <3>1. f[b] = v.btn[b]  BY <2>2, <1>2, Zenon
    <3>2. ~Live(v.btn[b])  BY <2>2 DEF Counting, Live
    <3> HIDE DEF f
    <3> QED  BY <2>0, <3>1, <3>2 DEF Shape
  <2> QED  BY <2>1, <2>2
<1>4. f \in [Buttons -> Btns]
  <2>1. f = [b \in Buttons |-> f[b]]  BY Zenon
  <2> HIDE DEF f
  <2> QED  BY <1>3, <2>1
<1> HIDE DEF f, w
<1>5. Shape(w) /\ SameSleep(w, x) /\ SameMusic(w, x) /\ w.center = x.center /\ w.btn = f
  BY <1>1, <1>2, <1>3, <1>4, PutButtons
<1>6. Counting(w) = {}  BY <1>3, <1>5 DEF Counting, Live
<1>7. SameDown(w, v)  BY <1>3, <1>5 DEF SameDown
<1>8. SameSleep(w, v) /\ ~w.scan /\ w.center = v.center  BY <1>2, <1>5 DEF SameSleep, SameMusic
<1> QED  BY <1>5, <1>6, <1>7, <1>8 DEF w

\* Falling asleep: no button counts, and the encoder has let go.
LEMMA SleepLeaves ==
  ASSUME NEW v, UiRight(v), NEW dim \in BOOLEAN, NEW w,
         w = [Sleep(v, dim) EXCEPT !.dark = TRUE]
  PROVE UiRight(w) /\ SameDown(w, v)
<1> DEFINE a == [v EXCEPT !.dim = dim, !.asleep = TRUE]
           g == LetGo(a)
           s == Sleep(v, dim)
<1>0. v \in Uis /\ v.center \in BOOLEAN  BY FieldTypes DEF Shape, UiRight
<1>1. a \in Uis  BY <1>0, Zenon DEF Uis
<1>2. a.dim = dim /\ a.asleep = TRUE /\ a.btn = v.btn /\ a.center = v.center /\ SameMusic(a, v)
  BY <1>0, Zenon DEF Uis, SameMusic
<1>3. s = IF Center \in Counting(v) THEN [g EXCEPT !.center = FALSE] ELSE g
  BY Zenon DEF Sleep, DropCenter
<1> HIDE DEF a
<1>4. Counting(a) = Counting(v) /\ ScanRight(a)
  BY <1>2, CountingSame DEF UiRight, ScanRight, SameMusic
<1>5. Shape(a)  BY <1>1, <1>2 DEF UiRight, Shape, QuietRight, SameMusic
<1>6. /\ Shape(g) /\ SameSleep(g, a) /\ g.center = a.center
      /\ ~g.scan /\ Counting(g) = {} /\ SameDown(g, a)
  BY <1>4, <1>5, LetGoRight
<1> HIDE DEF g
<1>7. Shape(s) /\ SameSleep(s, g) /\ s.btn = g.btn /\ ~s.scan /\ (Center \in Buttons => ~s.center)
  <2>1. CASE Center \in Counting(v)
    BY <1>3, <1>6, <2>1, PutCenter DEF SameMusic
  <2>2. CASE Center \notin Counting(v)
    BY <1>2, <1>3, <1>6, <2>2 DEF UiRight, CenterRight, SameSleep
  <2> QED  BY <2>1, <2>2
<1> HIDE DEF s
<1>8. w = [s EXCEPT !.dark = TRUE]  BY DEF s
<1>9. w \in Uis  BY <1>7, <1>8, Zenon DEF Shape, Uis
<1>10. w.btn = s.btn /\ w.center = s.center /\ SameMusic(w, s) /\ w.dim = s.dim
       /\ w.asleep = s.asleep /\ w.dark = TRUE
  BY <1>7, <1>8, Zenon DEF Shape, Uis, SameMusic
<1>11. Shape(w)  BY <1>7, <1>9, <1>10 DEF Shape, QuietRight, SameMusic
<1>12. SleepRight(w)  BY <1>2, <1>6, <1>7, <1>10 DEF SleepRight, SameSleep
<1>13. Counting(w) = {}  BY <1>6, <1>7, <1>10, CountingSame
<1>14. CenterRight(w) /\ ScanRight(w)
  BY <1>7, <1>9, <1>10, <1>13, CenterUp DEF ScanRight, SameMusic
<1>15. SameDown(w, v)  BY <1>2, <1>6, <1>7, <1>10 DEF SameDown
<1> QED  BY <1>11, <1>12, <1>14, <1>15 DEF UiRight

\* The screen goes dark, or was.
LEMMA DarkRight ==
  ASSUME NEW v, UiRight(v), NEW dim \in BOOLEAN
  PROVE UiRight(GoDark(v, dim)) /\ SameDown(GoDark(v, dim), v)
<1>1. SameDown(v, v)  BY DEF SameDown
<1>2. CASE dim /\ v.asleep  BY <1>1, <1>2 DEF GoDark
<1>3. CASE ~(dim /\ v.asleep)
  <2>1. GoDark(v, dim) = [Sleep(v, dim) EXCEPT !.dark = TRUE]  BY <1>3, Zenon DEF GoDark
  <2> QED  BY <2>1, SleepLeaves
<1> QED  BY <1>2, <1>3

\* The scan is over and MPD does not play.
LEMMA NightRight ==
  ASSUME NEW v, UiRight(v)
  PROVE UiRight(Night(v)) /\ SameDown(Night(v), v)
<1> DEFINE t == [v EXCEPT !.timer = FALSE]
           s == ScanStop(t)
           m == IF s.mpd = "play" THEN "pause" ELSE s.mpd
           q == [s EXCEPT !.mpd = m, !.quiet = TRUE]
<1>0. v \in Uis  BY DEF UiRight, Shape
<1>1. t \in Uis  BY <1>0, Zenon DEF Uis
<1>2. t.btn = v.btn /\ t.center = v.center /\ SameSleep(t, v) /\ SameMusic(t, v)
  BY <1>0, Zenon DEF Uis, SameSleep, SameMusic
<1> HIDE DEF t
<1>3. UiRight(t)
  <2>1. SleepRight(t) /\ QuietRight(t) /\ (t.scan => v.scan)
    BY <1>2 DEF UiRight, Shape, SleepRight, QuietRight, SameSleep, SameMusic
  <2> QED  BY <1>1, <1>2, <2>1, Carried
<1>4. Shape(s) /\ SameSleep(s, t) /\ s.btn = t.btn /\ s.center = t.center /\ ~s.scan
  BY <1>3, ScanStopped DEF UiRight
<1> HIDE DEF s
<1>5. m \in {"play", "pause"} /\ m # "play"  BY <1>4, FieldTypes DEF Shape
<1> HIDE DEF m
<1>6. /\ q \in Uis /\ SameSleep(q, s) /\ q.btn = s.btn /\ q.center = s.center
      /\ q.mpd = m /\ q.quiet = TRUE /\ q.scan = s.scan
  BY <1>4, <1>5, Zenon DEF Shape, Uis, SameSleep
<1>7. Night(v) = GoDark(q, FALSE)  BY Zenon DEF Night, q, m, s, t
<1> HIDE DEF q
<1>8. SleepRight(q) /\ QuietRight(q) /\ ~q.scan
  BY <1>3, <1>4, <1>5, <1>6 DEF UiRight, SleepRight, QuietRight, SameSleep
<1>9. UiRight(q)  BY <1>3, <1>4, <1>6, <1>8, Carried
<1>10. UiRight(GoDark(q, FALSE)) /\ SameDown(GoDark(q, FALSE), q)  BY <1>9, DarkRight
<1> QED  BY <1>2, <1>4, <1>6, <1>7, <1>10 DEF SameDown

\* The source of the buttons is gone: all of them are up.
LEMMA CancelRight ==
  ASSUME NEW v, UiRight(v)
  PROVE UiRight(Cancel(v)) /\ \A b \in Buttons : ~Cancel(v).btn[b].down
<1> DEFINE g == LetGo(v)
           f == [b \in Buttons |-> [g.btn[b] EXCEPT !.down = FALSE, !.swallow = FALSE]]
           x == [g EXCEPT !.btn = f]
           w == Cancel(v)
<1>0. v \in Uis /\ v.center \in BOOLEAN  BY FieldTypes DEF Shape, UiRight
<1>1. w = IF Center \in Counting(v) THEN [x EXCEPT !.center = FALSE] ELSE x
  BY Zenon DEF Cancel, DropCenter
<1>2. /\ Shape(g) /\ SameSleep(g, v) /\ g.center = v.center
      /\ ~g.scan /\ Counting(g) = {} /\ SameDown(g, v)
  BY LetGoRight DEF UiRight
<1> HIDE DEF g
<1>3. \A b \in Buttons : f[b] \in Btns /\ ~f[b].down /\ PressRight(f[b], b)
  <2> TAKE b \in Buttons
  <2> DEFINE r == [g.btn[b] EXCEPT !.down = FALSE, !.swallow = FALSE]
  <2>0. g.btn[b] \in Btns  BY <1>2, FieldTypes DEF Shape
  <2>1. r \in Btns  BY <2>0, Zenon DEF Btns
  <2>2. r.down = FALSE /\ r.held = g.btn[b].held /\ r.acts = g.btn[b].acts /\ r.began = g.btn[b].began
    BY <2>0, Zenon DEF Btns
  <2>3. f[b] = r  BY Zenon
  <2>4. PressRight(g.btn[b], b)  BY <1>2 DEF Shape
  <2> HIDE DEF r, f
  <2> QED  BY <2>1, <2>2, <2>3, <2>4 DEF PressRight, Live, MayAct
<1>4. f \in [Buttons -> Btns]
  <2>1. f = [b \in Buttons |-> f[b]]  BY Zenon
  <2> HIDE DEF f
  <2> QED  BY <1>3, <2>1
<1> HIDE DEF f
<1>5. Shape(x) /\ SameSleep(x, g) /\ SameMusic(x, g) /\ x.center = g.center /\ x.btn = f
  BY <1>2, <1>3, <1>4, PutButtons
<1> HIDE DEF x, w
<1>6. Shape(w) /\ SameSleep(w, x) /\ w.btn = x.btn /\ ~w.scan /\ (Center \in Buttons => ~w.center)
  <2>1. CASE Center \in Counting(v)
    <3>1. w = [x EXCEPT !.center = FALSE]  BY <1>1, <2>1
    <3>2. Shape(w) /\ SameSleep(w, x) /\ SameMusic(w, x) /\ w.btn = x.btn /\ w.center = FALSE
      BY <1>5, <3>1, PutCenter
    <3> QED  BY <1>2, <1>5, <3>2 DEF SameMusic
  <2>2. CASE Center \notin Counting(v)
    BY <1>1, <1>2, <1>5, <2>2 DEF UiRight, CenterRight, SameSleep, SameMusic
  <2> QED  BY <2>1, <2>2
<1>7. Counting(w) = {}  BY <1>3, <1>5, <1>6 DEF Counting
<1>8. SleepRight(w)  BY <1>2, <1>5, <1>6 DEF UiRight, SleepRight, SameSleep
<1>9. CenterRight(w) /\ ScanRight(w)
  BY <1>6, <1>7, CenterUp DEF ScanRight, Shape
<1> QED  BY <1>3, <1>5, <1>6, <1>8, <1>9 DEF UiRight, w
-----------------------------------------------------------------------------
\* What the user asks of MPD: it goes on or pauses, and need not stay quiet.
LEMMA ToggleRight ==
  ASSUME NEW v, Shape(v)
  PROVE /\ Shape(TogglePause(v)) /\ SameSleep(TogglePause(v), v) /\ TogglePause(v).btn = v.btn
        /\ TogglePause(v).center = v.center /\ TogglePause(v).scan = v.scan
<1> DEFINE m == IF v.mpd = "play" THEN "pause" ELSE "play"
           w == TogglePause(v)
<1>1. w = [v EXCEPT !.mpd = m, !.quiet = FALSE]  BY Zenon DEF TogglePause
<1>2. m \in {"play", "pause"}  OBVIOUS
<1> HIDE DEF m, w
<1>3. /\ w \in Uis /\ SameSleep(w, v) /\ w.btn = v.btn /\ w.center = v.center
      /\ w.quiet = FALSE /\ w.scan = v.scan
  BY <1>1, <1>2, Zenon DEF Shape, Uis, SameSleep
<1>4. Shape(w)  BY <1>3 DEF Shape, QuietRight
<1> QED  BY <1>3, <1>4 DEF w

\* A button goes down.
LEMMA PressDownRight ==
  ASSUME NEW v, UiRight(v), NEW b \in Buttons, ~v.btn[b].down
  PROVE /\ UiRight(PressDown(v, b)) /\ PressDown(v, b).btn[b].down
        /\ \A c \in Buttons : c # b => PressDown(v, b).btn[c].down = v.btn[c].down
<1> DEFINE swallowed == v.asleep /\ ~(v.dim /\ b \in Transport)
           a == IF v.asleep THEN Woke(v) ELSE v
           r == [Up EXCEPT !.down = TRUE, !.swallow = swallowed, !.began = Began(v)]
           x == [a EXCEPT !.btn[b] = r]
           y == [x EXCEPT !.center = TRUE]
           w == PressDown(v, b)
<1>0. Shape(v) /\ v.btn[b] \in Btns /\ v.asleep \in BOOLEAN /\ v.dim \in BOOLEAN
  BY FieldTypes DEF UiRight, Shape
<1>1. w = IF swallowed THEN x ELSE IF b = Center THEN Acted(y, b)
          ELSE IF b = Menu THEN Acted(x, b) ELSE x
  BY Zenon DEF PressDown
<1>2. UiRight(a) /\ a.btn = v.btn
  BY <1>0, WakeRight
<1>3. swallowed \in BOOLEAN /\ Began(v) \in {"awake", "dim", "asleep"}
  BY <1>0 DEF Began
<1>4. /\ r.down = TRUE /\ r.swallow = swallowed /\ r.began = Began(v) /\ r.acts = 0 /\ r.held = FALSE
      /\ r \in Btns
  BY <1>3, Zenon DEF Up, Btns
<1>5. ~swallowed => MayAct(r, b)
  <2> HIDE DEF r
  <2> QED  BY <1>0, <1>4 DEF Began, MayAct
<1> HIDE DEF a, r, swallowed
<1>6. PressRight(r, b)  BY <1>4, <1>5 DEF PressRight, Live
<1>7. x = WithButton(a, b, r)  BY Zenon DEF WithButton
<1> HIDE DEF x
<1>8. /\ Shape(x) /\ SameSleep(x, a) /\ SameMusic(x, a) /\ x.center = a.center
      /\ x.btn[b] = r /\ \A c \in Buttons : c # b => x.btn[c] = a.btn[c]
      /\ \A c \in Buttons : c # b => (c \in Counting(x) <=> c \in Counting(a))
      /\ b \in Counting(x) <=> Live(r)
  BY <1>2, <1>4, <1>6, <1>7, PutButton DEF UiRight
<1>9. b \notin Counting(a)  BY <1>2 DEF Counting
<1>10. SleepRight(x) /\ ScanRight(x)
  <2>1. \A c \in Scanners \intersect Counting(a) : a.btn[c].held => c \in Counting(x) /\ x.btn[c].held
    BY <1>8, <1>9 DEF Scanners
  <2> QED  BY <1>2, <1>8, <2>1, ScanCarried DEF UiRight, SleepRight, SameSleep, SameMusic
<1>11. b # Center \/ swallowed => CenterRight(x)
  <2>1. (b # Center \/ swallowed) /\ Center \in Buttons
          => (Center \in Counting(x) <=> Center \in Counting(a))
    BY <1>4, <1>8, <1>9 DEF Live
  <2> QED  BY <1>2, <1>8, <2>1 DEF UiRight, CenterRight
<1>12. CASE swallowed \/ b \notin {Center, Menu}
  <2>1. w = x  BY <1>1, <1>12
  <2>2. UiRight(x)  BY <1>8, <1>10, <1>11, <1>12 DEF UiRight
  <2> QED  BY <1>2, <1>4, <1>8, <2>1, <2>2
<1>13. CASE ~swallowed /\ b = Center
  <2>1. w = Acted(y, b)  BY <1>1, <1>13
  <2>2. Shape(y) /\ SameSleep(y, x) /\ SameMusic(y, x) /\ y.btn = x.btn /\ y.center = TRUE
    BY <1>8, PutCenter, Zenon
  <2> HIDE DEF y
  <2>3. y.btn[b].acts = 0 /\ MayAct(y.btn[b], b) /\ b \notin Transport
    BY <1>4, <1>5, <1>8, <1>13, <2>2 DEF Transport
  <2>4. /\ Shape(w) /\ SameSleep(w, y) /\ SameMusic(w, y)
        /\ w.center = y.center /\ SameDown(w, y) /\ Counting(w) = Counting(y)
        /\ \A c \in Buttons : w.btn[c].held = y.btn[c].held
    BY <2>1, <2>2, <2>3, ActedRight
  <2>5. Counting(y) = Counting(x) /\ b \in Counting(x)
    BY <1>4, <1>8, <1>13, <2>2, CountingSame DEF Live
  <2>6. CenterRight(w)  BY <1>13, <2>2, <2>4, <2>5 DEF CenterRight
  <2>7. ScanRight(w)
    <3>1. \A c \in Scanners \intersect Counting(x) : x.btn[c].held => c \in Counting(w) /\ w.btn[c].held
      BY <2>2, <2>4, <2>5 DEF Scanners
    <3> QED  BY <1>10, <2>2, <2>4, <3>1, ScanCarried DEF SameMusic
  <2>8. SleepRight(w)  BY <1>10, <2>2, <2>4 DEF SleepRight, SameSleep
  <2>9. \A c \in Buttons : w.btn[c].down = x.btn[c].down  BY <2>2, <2>4 DEF SameDown
  <2> QED  BY <1>2, <1>4, <1>8, <2>4, <2>6, <2>7, <2>8, <2>9 DEF UiRight
<1>14. CASE ~swallowed /\ b = Menu /\ b # Center
  <2>1. w = Acted(x, b)  BY <1>1, <1>14
  <2>2. x.btn[b].acts = 0 /\ MayAct(x.btn[b], b) /\ b \notin Transport
    BY <1>4, <1>5, <1>8, <1>14 DEF Transport
  <2>3. /\ Shape(w) /\ SameSleep(w, x) /\ SameMusic(w, x)
        /\ w.center = x.center /\ SameDown(w, x) /\ Counting(w) = Counting(x)
        /\ \A c \in Buttons : w.btn[c].held = x.btn[c].held
    BY <1>8, <2>1, <2>2, ActedRight
  <2>4. CenterRight(w)  BY <1>11, <1>14, <2>3 DEF CenterRight
  <2>5. ScanRight(w)
    <3>1. \A c \in Scanners \intersect Counting(x) : x.btn[c].held => c \in Counting(w) /\ w.btn[c].held
      BY <2>3 DEF Scanners
    <3> QED  BY <1>10, <2>3, <3>1, ScanCarried DEF SameMusic
  <2>6. SleepRight(w)  BY <1>10, <2>3 DEF SleepRight, SameSleep
  <2> QED  BY <1>2, <1>4, <1>8, <2>3, <2>4, <2>5, <2>6 DEF UiRight, SameDown
<1> QED  BY <1>12, <1>13, <1>14 DEF w

\* A button comes up.
LEMMA ReleaseRight ==
  ASSUME NEW v, UiRight(v), NEW b \in Buttons, v.btn[b].down
  PROVE /\ UiRight(Release(v, b)) /\ ~Release(v, b).btn[b].down
        /\ \A c \in Buttons : c # b => Release(v, b).btn[c].down = v.btn[c].down
<1> DEFINE r == [v.btn[b] EXCEPT !.down = FALSE, !.swallow = FALSE]
           x == [v EXCEPT !.btn[b].down = FALSE, !.btn[b].swallow = FALSE]
           w == Release(v, b)
<1>0. Shape(v) /\ v.btn \in [Buttons -> Btns] /\ v.btn[b] \in Btns /\ PressRight(v.btn[b], b)
  BY FieldTypes DEF UiRight, Shape
<1>1. w = IF v.btn[b].swallow THEN x
          ELSE IF b = Center THEN [x EXCEPT !.center = FALSE]
          ELSE IF b = PlayPause /\ ~v.btn[b].held THEN Acted(TogglePause(x), b)
          ELSE IF b \in Scanners
               THEN (IF v.btn[b].held THEN ScanStop(x) ELSE Acted([x EXCEPT !.quiet = FALSE], b))
          ELSE x
  BY Zenon DEF Release
<1>2. /\ r.down = FALSE /\ r.held = v.btn[b].held /\ r.acts = v.btn[b].acts
      /\ r.began = v.btn[b].began /\ r \in Btns
  BY <1>0, Zenon DEF Btns
<1>3. x = WithButton(v, b, r)  BY <1>0, Zenon DEF WithButton
<1> HIDE DEF r, x
<1>4. PressRight(r, b) /\ ~Live(r)  BY <1>0, <1>2 DEF PressRight, Live, MayAct
<1>5. /\ Shape(x) /\ SameSleep(x, v) /\ SameMusic(x, v) /\ x.center = v.center
      /\ x.btn[b] = r /\ \A c \in Buttons : c # b => x.btn[c] = v.btn[c]
      /\ \A c \in Buttons : c # b => (c \in Counting(x) <=> c \in Counting(v))
      /\ b \in Counting(x) <=> Live(r)
  BY <1>0, <1>2, <1>3, <1>4, PutButton
<1>6. SleepRight(x)  BY <1>5 DEF UiRight, SleepRight, SameSleep
<1>7. b # Center \/ v.btn[b].swallow => CenterRight(x)
  <2>1. (b # Center \/ v.btn[b].swallow) /\ Center \in Buttons
          => (Center \in Counting(x) <=> Center \in Counting(v))
    BY <1>4, <1>5 DEF Counting
  <2> QED  BY <1>5, <2>1 DEF UiRight, CenterRight
<1>8. b \notin Scanners \/ v.btn[b].swallow \/ ~v.btn[b].held => ScanRight(x)
  <2> SUFFICES ASSUME b \notin Scanners \/ v.btn[b].swallow \/ ~v.btn[b].held, x.scan
               PROVE \E c \in Scanners \intersect Counting(x) : x.btn[c].held
    BY DEF ScanRight
  <2>1. PICK c \in Scanners \intersect Counting(v) : v.btn[c].held
    BY <1>5 DEF UiRight, ScanRight, SameMusic
  <2>2. c # b /\ c \in Buttons  BY <2>1 DEF Counting
  <2> QED  BY <1>5, <2>1, <2>2
<1>9. ASSUME NEW y, Shape(y), SameSleep(y, x), y.btn = x.btn, y.center = x.center, y.scan = x.scan,
             ~v.btn[b].swallow, ~v.btn[b].held, b \in Transport, w = Acted(y, b)
      PROVE UiRight(w) /\ SameDown(w, x)
  <2>1. y.btn[b].acts = 0 /\ MayAct(y.btn[b], b) /\ ~Live(y.btn[b])
    BY <1>0, <1>2, <1>4, <1>5, <1>9 DEF PressRight, Live, MayAct
  <2>2. /\ Shape(w) /\ SameSleep(w, y) /\ SameMusic(w, y)
        /\ w.center = y.center /\ SameDown(w, y) /\ Counting(w) = Counting(y)
        /\ \A c \in Buttons : w.btn[c].held = y.btn[c].held
    BY <1>9, <2>1, ActedRight
  <2>3. Counting(y) = Counting(x)  BY <1>9, CountingSame
  <2>4. CenterRight(w)  BY <1>7, <1>9, <2>2, <2>3 DEF CenterRight, Transport
  <2>5. ScanRight(w)
    <3>1. \A c \in Scanners \intersect Counting(x) : x.btn[c].held => c \in Counting(w) /\ w.btn[c].held
      BY <1>9, <2>2, <2>3 DEF Scanners
    <3> QED  BY <1>8, <1>9, <2>2, <3>1, ScanCarried DEF SameMusic
  <2>6. SleepRight(w)  BY <1>6, <1>9, <2>2 DEF SleepRight, SameSleep
  <2> QED  BY <1>9, <2>2, <2>4, <2>5, <2>6 DEF UiRight, SameDown
<1>10. UiRight(w) /\ SameDown(w, x)
  <2>1. CASE v.btn[b].swallow
    BY <1>1, <1>5, <1>6, <1>7, <1>8, <2>1 DEF UiRight, SameDown
  <2>2. CASE ~v.btn[b].swallow /\ b = Center
    <3>1. w = [x EXCEPT !.center = FALSE]  BY <1>1, <2>2
    <3>2. Shape(w) /\ SameSleep(w, x) /\ SameMusic(w, x) /\ w.btn = x.btn /\ w.center = FALSE
      BY <1>5, <3>1, PutCenter
    <3>3. Counting(w) = Counting(x) /\ b \notin Counting(x)  BY <1>4, <1>5, <3>2, CountingSame
    <3>4. b \notin Scanners  BY <2>2, ButtonsAssumption DEF Scanners
    <3>5. CenterRight(w)  BY <2>2, <3>2, <3>3, CenterUp DEF Shape
    <3>6. ScanRight(w)  BY <1>8, <3>2, <3>3, <3>4, ScanCarried DEF SameMusic
    <3>7. SleepRight(w)  BY <1>6, <3>2 DEF SleepRight, SameSleep
    <3> QED  BY <3>2, <3>5, <3>6, <3>7 DEF UiRight, SameDown
  <2>3. CASE ~v.btn[b].swallow /\ b = PlayPause /\ ~v.btn[b].held
    <3>1. b # Center /\ b \in Transport  BY <2>3, ButtonsAssumption DEF Transport
    <3>2. w = Acted(TogglePause(x), b)  BY <1>1, <2>3, <3>1
    <3> QED  BY <1>5, <1>9, <2>3, <3>1, <3>2, ToggleRight
  <2>4. CASE ~v.btn[b].swallow /\ b \in Scanners /\ v.btn[b].held
    <3>1. b # Center /\ b # PlayPause  BY <2>4, ButtonsAssumption DEF Scanners
    <3>2. w = ScanStop(x)  BY <1>1, <2>4, <3>1
    <3>3. /\ Shape(w) /\ SameSleep(w, x) /\ w.btn = x.btn /\ w.center = x.center /\ ~w.scan
      BY <1>5, <3>2, ScanStopped
    <3>4. Counting(w) = Counting(x)  BY <3>3, CountingSame
    <3>5. CenterRight(w)  BY <1>7, <3>1, <3>3, <3>4 DEF CenterRight
    <3> QED  BY <1>6, <3>3, <3>5 DEF UiRight, ScanRight, SleepRight, SameSleep, SameDown
  <2>5. CASE ~v.btn[b].swallow /\ b \in Scanners /\ ~v.btn[b].held
    <3> DEFINE y == [x EXCEPT !.quiet = FALSE]
    <3>1. b # Center /\ b # PlayPause /\ b \in Transport
      BY <2>5, ButtonsAssumption DEF Scanners, Transport
    <3>2. w = Acted(y, b)  BY <1>1, <2>5, <3>1
    <3>3. x \in Uis  BY <1>5 DEF Shape
    <3>4. /\ y \in Uis /\ SameSleep(y, x) /\ y.btn = x.btn /\ y.center = x.center
          /\ y.scan = x.scan /\ y.quiet = FALSE
      BY <3>3, Zenon DEF Uis, SameSleep
    <3> HIDE DEF y
    <3>5. Shape(y)  BY <1>5, <3>4 DEF Shape, QuietRight
    <3> QED  BY <1>9, <2>5, <3>1, <3>2, <3>4, <3>5
  <2>6. CASE ~v.btn[b].swallow /\ b # Center /\ ~(b = PlayPause /\ ~v.btn[b].held) /\ b \notin Scanners
    <3>1. w = x  BY <1>1, <2>6
    <3> QED  BY <1>5, <1>6, <1>7, <1>8, <2>6, <3>1 DEF UiRight, SameDown
  <2> QED  BY <2>1, <2>2, <2>3, <2>4, <2>5, <2>6
<1> QED  BY <1>2, <1>5, <1>10 DEF w, SameDown

\* A button whose hold is due.
LEMMA HoldRight ==
  ASSUME NEW v, UiRight(v), NEW b \in Buttons, NEW list \in BOOLEAN
  PROVE UiRight(Hold(v, b, list)) /\ SameDown(Hold(v, b, list), v)
<1> DEFINE p == [v.btn[b] EXCEPT !.offered = TRUE, !.held = TRUE]
           q == [v.btn[b] EXCEPT !.offered = TRUE]
           r == [v.btn[b] EXCEPT !.held = TRUE]
           w == Hold(v, b, list)
<1>0. /\ Shape(v) /\ v.btn \in [Buttons -> Btns] /\ v.btn[b] \in Btns /\ PressRight(v.btn[b], b)
      /\ SameDown(v, v)
  BY FieldTypes DEF UiRight, Shape, SameDown
<1>1. CASE b \notin Counting(v) \/ v.btn[b].held
  BY <1>0, <1>1 DEF Hold
<1>2. CASE b \in Counting(v) /\ ~v.btn[b].held
  <2>1. w = IF b = PlayPause /\ ~v.btn[b].offered
            THEN IF list THEN Acted(WithButton(v, b, p), b) ELSE WithButton(v, b, q)
            ELSE IF b = PlayPause THEN Night(WithButton(v, b, r))
            ELSE IF b \in Scanners THEN Acted(ScanStart(WithButton(v, b, r)), b)
            ELSE v
    <3>1. WithButton(v, b, p) = [v EXCEPT !.btn[b].offered = TRUE, !.btn[b].held = TRUE]
      BY <1>0, Zenon DEF WithButton
    <3>2. WithButton(v, b, q) = [v EXCEPT !.btn[b].offered = TRUE]  BY <1>0, Zenon DEF WithButton
    <3>3. WithButton(v, b, r) = [v EXCEPT !.btn[b].held = TRUE]  BY <1>0, Zenon DEF WithButton
    <3> HIDE DEF p, q, r
    <3> QED  BY <1>2, <3>1, <3>2, <3>3 DEF Hold
  <2>2. /\ p \in Btns /\ p.down = v.btn[b].down /\ p.swallow = v.btn[b].swallow /\ p.held = TRUE
        /\ p.began = v.btn[b].began /\ p.acts = v.btn[b].acts
        /\ q \in Btns /\ q.down = v.btn[b].down /\ q.swallow = v.btn[b].swallow /\ q.held = v.btn[b].held
        /\ q.began = v.btn[b].began /\ q.acts = v.btn[b].acts
        /\ r \in Btns /\ r.down = v.btn[b].down /\ r.swallow = v.btn[b].swallow /\ r.held = TRUE
        /\ r.began = v.btn[b].began /\ r.acts = v.btn[b].acts
    BY <1>0, Zenon DEF Btns
  <2> SUFFICES UiRight(w) /\ SameDown(w, v)  OBVIOUS
  <2> HIDE DEF p, q, r, w
  <2>3. PressRight(p, b) /\ PressRight(q, b) /\ PressRight(r, b)
    BY <1>0, <2>2 DEF PressRight, Live, MayAct
  <2>4. Live(v.btn[b])  BY <1>2 DEF Counting, Live
  <2>5. b \in Transport => v.btn[b].acts = 0 /\ MayAct(v.btn[b], b)
    BY <1>0, <1>2, <2>4 DEF PressRight
  <2>6. ASSUME NEW s \in Btns, PressRight(s, b), s.down = v.btn[b].down, s.swallow = v.btn[b].swallow,
               NEW x, x = WithButton(v, b, s)
        PROVE /\ UiRight(x) /\ SameDown(x, v) /\ SameSleep(x, v) /\ SameMusic(x, v)
              /\ x.btn[b] = s /\ b \in Counting(x)
    <3>1. /\ Shape(x) /\ SameSleep(x, v) /\ SameMusic(x, v) /\ x.center = v.center
          /\ x.btn[b] = s /\ \A c \in Buttons : c # b => x.btn[c] = v.btn[c]
          /\ \A c \in Buttons : c # b => (c \in Counting(x) <=> c \in Counting(v))
          /\ b \in Counting(x) <=> Live(s)
      BY <1>0, <2>6, PutButton
    <3>2. b \in Counting(x)  BY <2>4, <2>6, <3>1 DEF Live
    <3>3. Counting(x) \subseteq Buttons /\ Counting(v) \subseteq Buttons  BY DEF Counting
    <3>4. Counting(x) = Counting(v)  BY <1>2, <3>1, <3>2, <3>3
    <3>5. CenterRight(x)  BY <3>1, <3>4 DEF UiRight, CenterRight
    <3>6. ScanRight(x)
      <4>1. \A c \in Scanners \intersect Counting(v) : v.btn[c].held => c \in Counting(x) /\ x.btn[c].held
        BY <1>2, <3>1, <3>4 DEF Scanners
      <4> QED  BY <3>1, <4>1, ScanCarried DEF UiRight, SameMusic
    <3>7. SleepRight(x)  BY <3>1 DEF UiRight, SleepRight, SameSleep
    <3> QED  BY <2>6, <3>1, <3>2, <3>5, <3>6, <3>7 DEF UiRight, SameDown
  <2>7. ASSUME NEW y, Shape(y), SameSleep(y, v), y.center = v.center, SameDown(y, v),
               Center \in Buttons => (Center \in Counting(y) <=> Center \in Counting(v)),
               y.btn[b].acts = 0, MayAct(y.btn[b], b), y.btn[b].held, b \in Counting(y),
               y.scan => v.scan \/ b \in Scanners,
               \A c \in Scanners \intersect Counting(v) : v.btn[c].held => c \in Counting(y) /\ y.btn[c].held,
               w = Acted(y, b)
        PROVE UiRight(w) /\ SameDown(w, v)
    <3>1. /\ Shape(w) /\ SameSleep(w, y) /\ SameMusic(w, y)
          /\ w.center = y.center /\ SameDown(w, y) /\ Counting(w) = Counting(y)
          /\ \A c \in Buttons : w.btn[c].held = y.btn[c].held
      BY <2>7, ActedRight
    <3>2. CenterRight(w)  BY <2>7, <3>1 DEF UiRight, CenterRight
    <3>3. ScanRight(w)
      <4>1. CASE b \in Scanners  BY <2>7, <3>1, <4>1 DEF ScanRight
      <4>2. CASE b \notin Scanners
        <5>1. \A c \in Scanners \intersect Counting(v) : v.btn[c].held => c \in Counting(w) /\ w.btn[c].held
          BY <2>7, <3>1 DEF Scanners
        <5>2. w.scan => v.scan  BY <2>7, <3>1, <4>2 DEF SameMusic
        <5> QED  BY <5>1, <5>2, ScanCarried DEF UiRight
      <4> QED  BY <4>1, <4>2
    <3>4. SleepRight(w)  BY <2>7, <3>1 DEF UiRight, SleepRight, SameSleep
    <3> QED  BY <2>7, <3>1, <3>2, <3>3, <3>4 DEF UiRight, SameDown
  <2>8. CASE b = PlayPause /\ ~v.btn[b].offered /\ list
    <3> DEFINE x == WithButton(v, b, p)
    <3>0. b \in Transport /\ b # Center /\ b \notin Scanners
      BY <2>8, ButtonsAssumption DEF Transport, Scanners
    <3>1. w = Acted(x, b)  BY <2>1, <2>8
    <3>2. /\ UiRight(x) /\ SameDown(x, v) /\ SameSleep(x, v) /\ SameMusic(x, v)
          /\ x.btn[b] = p /\ b \in Counting(x)
      BY <2>2, <2>3, <2>6
    <3>3. /\ x.center = v.center /\ \A c \in Buttons : c # b => x.btn[c] = v.btn[c]
          /\ \A c \in Buttons : c # b => (c \in Counting(x) <=> c \in Counting(v))
      BY <1>0, <2>2, <2>3, PutButton
    <3> HIDE DEF x
    <3>4. \A c \in Scanners \intersect Counting(v) : v.btn[c].held => c \in Counting(x) /\ x.btn[c].held
      BY <3>0, <3>3 DEF Scanners
    <3>5. x.btn[b].acts = 0 /\ MayAct(x.btn[b], b) /\ x.btn[b].held
      BY <2>2, <2>5, <3>0, <3>2 DEF MayAct
    <3>6. Shape(x) /\ (x.scan => v.scan)  BY <3>2 DEF UiRight, SameMusic
    <3> QED  BY <2>7, <3>0, <3>1, <3>2, <3>3, <3>4, <3>5, <3>6
  <2>9. CASE b = PlayPause /\ ~v.btn[b].offered /\ ~list
    BY <2>1, <2>2, <2>3, <2>6, <2>9
  <2>10. CASE b = PlayPause /\ v.btn[b].offered
    <3> DEFINE x == WithButton(v, b, r)
    <3>1. UiRight(x) /\ SameDown(x, v)  BY <2>2, <2>3, <2>6
    <3>2. w = Night(x)  BY <2>1, <2>10
    <3> HIDE DEF x
    <3> QED  BY <3>1, <3>2, NightRight DEF SameDown
  <2>11. CASE b # PlayPause /\ b \in Scanners
    <3> DEFINE x == WithButton(v, b, r)
               y == ScanStart(x)
    <3>0. b \in Transport /\ b # Center
      BY <2>11, ButtonsAssumption DEF Transport, Scanners
    <3>1. w = Acted(y, b)  BY <2>1, <2>11
    <3>2. /\ UiRight(x) /\ SameDown(x, v) /\ SameSleep(x, v) /\ SameMusic(x, v)
          /\ x.btn[b] = r /\ b \in Counting(x)
      BY <2>2, <2>3, <2>6
    <3>3. /\ x.center = v.center /\ \A c \in Buttons : c # b => x.btn[c] = v.btn[c]
          /\ \A c \in Buttons : c # b => (c \in Counting(x) <=> c \in Counting(v))
      BY <1>0, <2>2, <2>3, PutButton
    <3> HIDE DEF x
    <3>4. Shape(y) /\ SameSleep(y, x) /\ y.btn = x.btn /\ y.center = x.center
      BY <3>2, ScanStarted DEF UiRight
    <3> HIDE DEF y
    <3>5. Counting(y) = Counting(x)  BY <3>4, CountingSame
    <3>6. y.btn[b].acts = 0 /\ MayAct(y.btn[b], b) /\ y.btn[b].held
      BY <2>2, <2>5, <3>0, <3>2, <3>4 DEF MayAct
    <3>7. \A c \in Scanners \intersect Counting(v) : v.btn[c].held => c \in Counting(y) /\ y.btn[c].held
      BY <1>2, <3>3, <3>4, <3>5 DEF Scanners
    <3>8. SameSleep(y, v) /\ SameDown(y, v)  BY <3>2, <3>4 DEF SameSleep, SameDown
    <3> QED  BY <2>7, <2>11, <3>0, <3>1, <3>2, <3>3, <3>4, <3>5, <3>6, <3>7, <3>8
  <2>12. CASE b # PlayPause /\ b \notin Scanners
    <3>1. w = v  BY <2>1, <2>12
    <3> QED  BY <1>0, <3>1
  <2> QED  BY <2>8, <2>9, <2>10, <2>11, <2>12
<1> QED  BY <1>1, <1>2

\* What the UI does with an event, and what it then takes to be down.

\* What the UI does with an event, and what it then takes to be down.
LEMMA HandleRight ==
  ASSUME UiRight(u), NEW e, e.type \in {"button", "touch", "wheel"},
         e.type = "button" => e.code \in Buttons, e.value \in BOOLEAN
  PROVE /\ UiRight(Handle(e))
        /\ \A b \in Buttons : Handle(e).btn[b].down =
             (IF e.type = "button" /\ e.code = b THEN e.value ELSE u.btn[b].down)
<1>1. CASE e.type = "touch" \/ e.type = "wheel"
  <2>1. Handle(e) = u \/ Handle(e) = Turned(u)  BY <1>1 DEF Handle
  <2>2. UiRight(Handle(e)) /\ Handle(e).btn = u.btn  BY <2>1, WakeRight
  <2> QED  BY <1>1, <2>2
<1>2. CASE e.type = "button"
  <2> DEFINE w == Feed(u, e.code, e.value)
  <2>0. e.code \in Buttons  BY <1>2
  <2>1. Handle(e) = w  BY <1>2 DEF Handle
  <2>2. u.btn[e.code].down \in BOOLEAN
    BY <2>0, FieldTypes, ButtonTypes DEF UiRight, Shape
  <2>3. UiRight(w) /\ w.btn[e.code].down = e.value
        /\ \A c \in Buttons : c # e.code => w.btn[c].down = u.btn[c].down
    <3>1. CASE u.btn[e.code].down = e.value  BY <3>1 DEF Feed
    <3>2. CASE u.btn[e.code].down # e.value /\ e.value
      <4>1. w = PressDown(u, e.code) /\ ~u.btn[e.code].down  BY <2>2, <3>2 DEF Feed
      <4>2. /\ UiRight(w) /\ w.btn[e.code].down
            /\ \A c \in Buttons : c # e.code => w.btn[c].down = u.btn[c].down
        BY <2>0, <4>1, PressDownRight
      <4>3. w.btn[e.code].down \in BOOLEAN  BY <2>0, <4>2, FieldTypes, ButtonTypes DEF UiRight, Shape
      <4> QED  BY <3>2, <4>2, <4>3
    <3>3. CASE u.btn[e.code].down # e.value /\ ~e.value
      <4>1. w = Release(u, e.code) /\ u.btn[e.code].down  BY <2>2, <3>3 DEF Feed
      <4>2. /\ UiRight(w) /\ ~w.btn[e.code].down
            /\ \A c \in Buttons : c # e.code => w.btn[c].down = u.btn[c].down
        BY <2>0, <4>1, ReleaseRight
      <4>3. w.btn[e.code].down \in BOOLEAN  BY <2>0, <4>2, FieldTypes, ButtonTypes DEF UiRight, Shape
      <4> QED  BY <3>3, <4>2, <4>3
    <3> QED  BY <3>1, <3>2, <3>3
  <2> HIDE DEF w
  <2> QED  BY <1>2, <2>1, <2>3
<1> QED  BY <1>1, <1>2
-----------------------------------------------------------------------------
\* The UI's own steps that no button takes: its timers, an alarm, the battery.
UiStep(w, v) == UiRight(w) /\ SameDown(w, v)

\* A flag of the UI that neither the buttons nor the music depend on.
LEMMA PutFlags ==
  ASSUME NEW v, UiRight(v), NEW w \in Uis, w.btn = v.btn, w.center = v.center,
         SameSleep(w, v), SameMusic(w, v)
  PROVE UiStep(w, v)
<1>1. SleepRight(w) /\ QuietRight(w) /\ (w.scan => v.scan)
  BY DEF UiRight, Shape, SleepRight, QuietRight, SameSleep, SameMusic
<1> QED  BY <1>1, Carried DEF UiStep, SameDown

\* A fresh process has no button down and no scan.
LEMMA FreshRight ==
  ASSUME NEW m \in {"play", "pause"}, NEW q \in BOOLEAN, NEW o \in BOOLEAN, ~o /\ q => m # "play"
  PROVE UiRight(Fresh(m, q, o)) /\ \A b \in Buttons : ~Fresh(m, q, o).btn[b].down
<1> DEFINE w == Fresh(m, q, o)
<1>1. Up \in Btns /\ ~Up.down /\ Up.acts = 0  BY DEF Up, Btns
<1>2. /\ w.btn = [b \in Buttons |-> Up] /\ w.asleep = FALSE /\ w.dim = FALSE /\ w.dark = FALSE
      /\ w.center = FALSE /\ w.scan = FALSE /\ w.mpd = m /\ w.quiet = q /\ w.overlap = o
  BY Zenon DEF Fresh
<1>3. w \in Uis
  <2>1. [b \in Buttons |-> Up] \in [Buttons -> Btns]  BY <1>1, Zenon
  <2> QED  BY <2>1, Zenon DEF Fresh, Uis
<1> HIDE DEF w
<1>4. \A b \in Buttons : PressRight(w.btn[b], b) /\ ~w.btn[b].down
  BY <1>1, <1>2 DEF PressRight, Live
<1>5. Counting(w) = {}  BY <1>4 DEF Counting
<1>6. QuietRight(w) /\ SleepRight(w) /\ ScanRight(w)
  BY <1>2 DEF QuietRight, SleepRight, ScanRight
<1>7. CenterRight(w)  BY <1>2, <1>3, <1>5, CenterUp
<1> QED  BY <1>3, <1>4, <1>6, <1>7 DEF UiRight, Shape, w

\* MPD is paused if it plays, and is to stay so; no scan is going, or one
\* whose end is let off.
LEMMA PausedRight ==
  ASSUME NEW v, UiRight(v), NEW w \in Uis, w.btn = v.btn, w.center = v.center, SameSleep(w, v),
         w.scan = v.scan, w.mpd # "play", w.scan => w.overlap
  PROVE UiStep(w, v)
<1>1. SleepRight(w) /\ QuietRight(w)
  BY FieldTypes DEF UiRight, SleepRight, QuietRight, SameSleep
<1> QED  BY <1>1, Carried DEF UiStep, SameDown

\* rpod_shutdown_now(), at once or later.
LEMMA ShutDownRight ==
  ASSUME NEW v, UiRight(v), NEW later \in BOOLEAN
  PROVE UiStep(ShutDown(v, later), v)
<1> DEFINE m == IF v.mpd = "play" THEN "pause" ELSE v.mpd
           w == [v EXCEPT !.going = TRUE, !.quiet = TRUE, !.overlap = v.scan, !.mpd = m]
<1>0. v \in Uis /\ v.mpd \in {"play", "pause"} /\ v.scan \in BOOLEAN
  BY FieldTypes DEF UiRight, Shape
<1>1. CASE v.going  BY <1>1 DEF ShutDown, UiStep, SameDown
<1>2. CASE ~v.going
  <2>1. m \in {"play", "pause"} /\ m # "play"  BY <1>0
  <2>2. ShutDown(v, later) = IF later THEN Wake(w) ELSE [w EXCEPT !.off = TRUE]
    BY <1>2, Zenon DEF ShutDown
  <2> HIDE DEF m
  <2>3. /\ w \in Uis /\ w.btn = v.btn /\ w.center = v.center /\ SameSleep(w, v) /\ w.scan = v.scan
        /\ w.mpd = m /\ w.overlap = v.scan
    BY <1>0, <2>1, Zenon DEF Uis, SameSleep
  <2> HIDE DEF w
  <2>4. UiStep(w, v)  BY <2>1, <2>3, PausedRight
  <2>5. CASE later  BY <2>2, <2>4, <2>5, WakeRight DEF UiStep, SameDown
  <2>6. CASE ~later
    <3> DEFINE x == [w EXCEPT !.off = TRUE]
    <3>1. x \in Uis /\ x.btn = w.btn /\ x.center = w.center /\ SameSleep(x, w) /\ SameMusic(x, w)
      BY <2>3, Zenon DEF Uis, SameSleep, SameMusic
    <3>2. ShutDown(v, later) = x  BY <2>2, <2>6
    <3> HIDE DEF x
    <3>3. UiStep(x, w)  BY <2>4, <3>1, PutFlags DEF UiStep
    <3> QED  BY <2>4, <3>2, <3>3 DEF UiStep, SameDown
  <2> QED  BY <2>5, <2>6
<1> QED  BY <1>1, <1>2
-----------------------------------------------------------------------------
\* The events that are sent, and what they say last of a button.
Events == {e \in [type : {"button", "touch", "wheel"},
                  code : {Center, Menu, PlayPause, Prev, NextButton}, value : BOOLEAN] :
             e.type = "button" => e.code \in Buttons}
Says(s, i, b) == s[i].type = "button" /\ s[i].code = b
Silent(s, b) == \A i \in 1..Len(s) : ~Says(s, i, b)
IsLast(s, i, b) == /\ i \in 1..Len(s) /\ Says(s, i, b)
                   /\ \A j \in 1..Len(s) : Says(s, j, b) => j <= i

\* Of the events that speak of a button there is a last one.
LEMMA LastThere ==
  ASSUME NEW s \in Seq(Events), NEW b, ~Silent(s, b)
  PROVE \E i \in 1..Len(s) : IsLast(s, i, b)
<1> DEFINE T == {k \in Nat : \E i \in 1..Len(s) : k = Len(s) - i /\ Says(s, i, b)}
<1>0. Len(s) \in Nat  OBVIOUS
<1>1. PICK i \in 1..Len(s) : Says(s, i, b)  BY DEF Silent
<1>2. Len(s) - i \in T  BY <1>0, <1>1
<1>3. T \subseteq Nat /\ T # {}  BY <1>2
<1>4. PICK k \in T : \A l \in T : ~(<<l, k>> \in OpToRel(<, Nat))
  BY <1>3, NatLessThanWellFounded, WFMin
<1>5. \A l \in T : ~(l < k)  BY <1>4 DEF OpToRel
<1>6. PICK m \in 1..Len(s) : k = Len(s) - m /\ Says(s, m, b)  BY <1>4
<1>7. ASSUME NEW j \in 1..Len(s), Says(s, j, b) PROVE j <= m
  <2>1. Len(s) - j \in T  BY <1>0, <1>7
  <2>2. ~(Len(s) - j < Len(s) - m)  BY <1>5, <1>6, <2>1
  <2> QED  BY <1>0, <2>2
<1> QED  BY <1>6, <1>7 DEF IsLast

\* It is what LastSaid looks at ...
LEMMA LastIsSaid ==
  ASSUME NEW s \in Seq(Events), NEW b, NEW i, IsLast(s, i, b), NEW d
  PROVE LastSaid(s, b, d) = s[i].value
<1> DEFINE said == {j \in DOMAIN s : s[j].type = "button" /\ s[j].code = b}
           c == CHOOSE j \in said : \A l \in said : l <= j
<1>1. DOMAIN s = 1..Len(s) /\ Len(s) \in Nat  OBVIOUS
<1>2. i \in said /\ \A l \in said : l <= i  BY <1>1 DEF IsLast, Says
<1>3. c \in said /\ \A l \in said : l <= c  BY <1>2
<1>4. c = i  BY <1>1, <1>2, <1>3
<1>5. LastSaid(s, b, d) = IF said = {} THEN d ELSE s[c].value  BY DEF LastSaid
<1> HIDE DEF said, c
<1> QED  BY <1>2, <1>4, <1>5

\* ... and without one, nothing is.
LEMMA NothingSaid ==
  ASSUME NEW s \in Seq(Events), NEW b, Silent(s, b), NEW d
  PROVE LastSaid(s, b, d) = d
BY DEF LastSaid, Silent, Says

\* What a sequence says after another: the later one has the last word.
LEMMA SaidAfter ==
  ASSUME NEW s \in Seq(Events), NEW t \in Seq(Events), NEW b, NEW d
  PROVE LastSaid(s \o t, b, d) = LastSaid(t, b, LastSaid(s, b, d))
<1> DEFINE st == s \o t
           x == LastSaid(s, b, d)
<1>0. /\ Len(s) \in Nat /\ Len(t) \in Nat /\ st \in Seq(Events) /\ Len(st) = Len(s) + Len(t)
      /\ \A i \in 1..Len(s) : st[i] = s[i]
      /\ \A i \in 1..Len(t) : st[Len(s) + i] = t[i]
  BY ConcatProperties
<1> SUFFICES LastSaid(st, b, d) = LastSaid(t, b, x)  OBVIOUS
<1> HIDE DEF st, x
<1>1. \A i \in 1..Len(st) : i \in 1..Len(s) \/ (i - Len(s) \in 1..Len(t) /\ i = Len(s) + (i - Len(s)))
  BY <1>0
<1>2. CASE ~Silent(t, b)
  <2>1. PICK i \in 1..Len(t) : IsLast(t, i, b)  BY <1>2, LastThere
  <2>2. Len(s) + i \in 1..Len(st) /\ st[Len(s) + i] = t[i]  BY <1>0
  <2>3. Says(st, Len(s) + i, b)  BY <2>1, <2>2 DEF IsLast, Says
  <2>4. ASSUME NEW j \in 1..Len(st), Says(st, j, b) PROVE j <= Len(s) + i
    <3>1. CASE j \in 1..Len(s)  BY <1>0, <3>1
    <3>2. CASE j - Len(s) \in 1..Len(t) /\ j = Len(s) + (j - Len(s))
      <4>1. Says(t, j - Len(s), b)  BY <1>0, <2>4, <3>2 DEF Says
      <4>2. j - Len(s) <= i  BY <2>1, <3>2, <4>1 DEF IsLast
      <4> QED  BY <1>0, <4>2
    <3> QED  BY <1>1, <3>1, <3>2
  <2>5. IsLast(st, Len(s) + i, b)  BY <2>2, <2>3, <2>4 DEF IsLast
  <2>6. LastSaid(t, b, x) = t[i].value  BY <2>1, LastIsSaid
  <2>7. LastSaid(st, b, d) = st[Len(s) + i].value  BY <1>0, <2>5, LastIsSaid
  <2> QED  BY <2>2, <2>6, <2>7
<1>3. CASE Silent(t, b)
  <2>0. \A j \in 1..Len(st) : Says(st, j, b) => j \in 1..Len(s) /\ Says(s, j, b)
    <3> TAKE j \in 1..Len(st)
    <3>1. CASE j \in 1..Len(s)  BY <1>0, <3>1 DEF Says
    <3>2. CASE j - Len(s) \in 1..Len(t) /\ j = Len(s) + (j - Len(s))
      <4>1. ~Says(t, j - Len(s), b)  BY <1>3, <3>2 DEF Silent
      <4> QED  BY <1>0, <3>2, <4>1 DEF Says
    <3> QED  BY <1>1, <3>1, <3>2
  <2>1. LastSaid(t, b, x) = x  BY <1>3, NothingSaid
  <2>2. CASE Silent(s, b)
    <3>1. Silent(st, b)  BY <2>0, <2>2 DEF Silent
    <3>2. LastSaid(st, b, d) = d  BY <1>0, <3>1, NothingSaid
    <3>3. x = d  BY <2>2, NothingSaid DEF x
    <3> QED  BY <2>1, <3>2, <3>3
  <2>3. CASE ~Silent(s, b)
    <3>1. PICK i \in 1..Len(s) : IsLast(s, i, b)  BY <2>3, LastThere
    <3>2. i \in 1..Len(st) /\ Says(st, i, b) /\ st[i] = s[i]
      BY <1>0, <3>1 DEF IsLast, Says
    <3>3. IsLast(st, i, b)  BY <2>0, <3>1, <3>2 DEF IsLast
    <3>4. LastSaid(st, b, d) = st[i].value  BY <1>0, <3>3, LastIsSaid
    <3>5. x = s[i].value  BY <3>1, LastIsSaid DEF x
    <3> QED  BY <2>1, <3>2, <3>4, <3>5
  <2> QED  BY <2>2, <2>3
<1> QED  BY <1>2, <1>3

\* A single event.
LEMMA OneSaid ==
  ASSUME NEW e \in Events, NEW b, NEW d, NEW s, s = <<e>>
  PROVE s \in Seq(Events) /\ LastSaid(s, b, d) = IF e.type = "button" /\ e.code = b THEN e.value ELSE d
<1>1. s \in Seq(Events) /\ Len(s) = 1 /\ s[1] = e  OBVIOUS
<1>2. CASE e.type = "button" /\ e.code = b
  <2>1. IsLast(s, 1, b)  BY <1>1, <1>2 DEF IsLast, Says
  <2>2. LastSaid(s, b, d) = s[1].value  BY <1>1, <2>1, LastIsSaid
  <2> QED  BY <1>1, <1>2, <2>2
<1>3. CASE ~(e.type = "button" /\ e.code = b)
  <2>1. Silent(s, b)  BY <1>1, <1>3 DEF Silent, Says
  <2>2. LastSaid(s, b, d) = d  BY <1>1, <2>1, NothingSaid
  <2> QED  BY <1>1, <1>3, <2>2
<1> QED  BY <1>2, <1>3

\* The event at the head is heard before the rest.
LEMMA HeadSaid ==
  ASSUME NEW s \in Seq(Events), s # <<>>, NEW b, NEW d
  PROVE /\ Head(s) \in Events /\ Tail(s) \in Seq(Events) /\ Len(Tail(s)) = Len(s) - 1
        /\ LastSaid(s, b, d) =
             LastSaid(Tail(s), b,
                      IF Head(s).type = "button" /\ Head(s).code = b THEN Head(s).value ELSE d)
<1> DEFINE h == <<Head(s)>>
           t == Tail(s)
<1>1. Head(s) \in Events /\ t \in Seq(Events) /\ Len(t) = Len(s) - 1
  BY HeadTailProperties
<1>2. s = h \o t  OBVIOUS
<1>3. h \in Seq(Events) /\ LastSaid(h, b, d) =
        IF Head(s).type = "button" /\ Head(s).code = b THEN Head(s).value ELSE d
  BY <1>1, OneSaid
<1> HIDE DEF h, t
<1>4. LastSaid(h \o t, b, d) = LastSaid(t, b, LastSaid(h, b, d))
  BY <1>1, <1>3, SaidAfter
<1> QED  BY <1>1, <1>2, <1>3, <1>4 DEF t

\* What a packet sends: after it the UI, if it took all before it as it was, takes
\* to be down what the packet has down.
LEMMA EdgesSay ==
  ASSUME NEW next \in [buttons : SUBSET Buttons, touched : BOOLEAN], sent.buttons \in SUBSET Buttons,
         NEW rotated \in BOOLEAN, NEW b, NEW d
  PROVE /\ Edges(next, rotated) \in Seq(Events)
        /\ b \in Buttons => LastSaid(Edges(next, rotated), b, d) =
             IF (b \in sent.buttons) = (b \in next.buttons) THEN d ELSE b \in next.buttons
<1> DEFINE Five == {Center, Menu, PlayPause, Prev, NextButton}
           Changed(c) == ~((c \in sent.buttons) = (c \in next.buttons))
           Mine(c, x) == IF Changed(c) /\ c = b THEN (b \in next.buttons) ELSE x
<1>0. next.buttons \in SUBSET Buttons /\ next.touched \in BOOLEAN  OBVIOUS
<1>1. ASSUME NEW c \in Five, NEW x
      PROVE Edge(c, next) \in Seq(Events) /\ LastSaid(Edge(c, next), b, x) = Mine(c, x)
  <2>1. CASE ~Changed(c)
    <3>1. Edge(c, next) = <<>>  BY <2>1 DEF Edge
    <3>2. Silent(<<>>, b)  BY DEF Silent
    <3>3. <<>> \in Seq(Events)  OBVIOUS
    <3> QED  BY <2>1, <3>1, <3>2, <3>3, NothingSaid
  <2>2. CASE Changed(c)
    <3> DEFINE e == [type |-> "button", code |-> c, value |-> c \in next.buttons]
    <3>1. Edge(c, next) = <<e>>  BY <2>2 DEF Edge, Event
    <3>2. c \in Buttons  BY <1>0, <2>2
    <3>3. e \in [type : {"button", "touch", "wheel"}, code : Five, value : BOOLEAN]  BY <1>1
    <3>4. e.type = "button" /\ e.code = c /\ e.value = (c \in next.buttons)  OBVIOUS
    <3> HIDE DEF e
    <3>5. e \in Events  BY <3>2, <3>3, <3>4 DEF Events
    <3> QED  BY <2>2, <3>1, <3>4, <3>5, OneSaid
  <2> QED  BY <2>1, <2>2
<1>2. ASSUME NEW type \in {"touch", "wheel"}, NEW value \in BOOLEAN, NEW x
      PROVE Event(type, Center, value) \in Seq(Events) /\ LastSaid(Event(type, Center, value), b, x) = x
  <2> DEFINE e == [type |-> type, code |-> Center, value |-> value]
  <2>1. Event(type, Center, value) = <<e>>  BY DEF Event
  <2>2. e \in Events /\ e.type # "button"  BY DEF Events
  <2> HIDE DEF e
  <2> QED  BY <2>1, <2>2, OneSaid
<1>3. <<>> \in Seq(Events) /\ \A x : LastSaid(<<>>, b, x) = x
  <2>1. <<>> \in Seq(Events) /\ Silent(<<>>, b)  BY DEF Silent
  <2> QED  BY <2>1, NothingSaid
<1> DEFINE s6 == IF sent.touched = next.touched THEN <<>> ELSE Event("touch", Center, next.touched)
           s7 == IF rotated /\ sent.touched /\ next.touched THEN Event("wheel", Center, TRUE) ELSE <<>>
<1>4. s6 \in Seq(Events) /\ \A x : LastSaid(s6, b, x) = x  BY <1>0, <1>2, <1>3
<1>5. s7 \in Seq(Events) /\ \A x : LastSaid(s7, b, x) = x
  <2>1. TRUE \in BOOLEAN  OBVIOUS
  <2>2. \A x : /\ Event("wheel", Center, TRUE) \in Seq(Events)
               /\ LastSaid(Event("wheel", Center, TRUE), b, x) = x
    BY <1>2, <2>1, Zenon
  <2> QED  BY <1>3, <2>2
<1> DEFINE s1 == Edge(Center, next)
           s2 == Edge(Prev, next)
           s3 == Edge(NextButton, next)
           s4 == Edge(Menu, next)
           s5 == Edge(PlayPause, next)
           t2 == s1 \o s2
           t3 == t2 \o s3
           t4 == t3 \o s4
           t5 == t4 \o s5
           t6 == t5 \o s6
           t7 == t6 \o s7
<1>6. Edges(next, rotated) = t7  BY Zenon DEF Edges
<1> HIDE DEF s6, s7, Mine
<1>7. /\ s1 \in Seq(Events) /\ s2 \in Seq(Events) /\ s3 \in Seq(Events) /\ s4 \in Seq(Events)
      /\ s5 \in Seq(Events)
      /\ \A x : /\ LastSaid(s1, b, x) = Mine(Center, x) /\ LastSaid(s2, b, x) = Mine(Prev, x)
                /\ LastSaid(s3, b, x) = Mine(NextButton, x) /\ LastSaid(s4, b, x) = Mine(Menu, x)
                /\ LastSaid(s5, b, x) = Mine(PlayPause, x)
  BY <1>1
<1> HIDE DEF s1, s2, s3, s4, s5
<1>8. t2 \in Seq(Events) /\ LastSaid(t2, b, d) = Mine(Prev, Mine(Center, d))  BY <1>7, SaidAfter
<1> HIDE DEF t2
<1>9. t3 \in Seq(Events) /\ LastSaid(t3, b, d) = Mine(NextButton, Mine(Prev, Mine(Center, d)))
  BY <1>7, <1>8, SaidAfter
<1> HIDE DEF t3
<1>10. /\ t4 \in Seq(Events)
       /\ LastSaid(t4, b, d) = Mine(Menu, Mine(NextButton, Mine(Prev, Mine(Center, d))))
  BY <1>7, <1>9, SaidAfter
<1> HIDE DEF t4
<1>11. /\ t5 \in Seq(Events)
       /\ LastSaid(t5, b, d) = Mine(PlayPause, Mine(Menu, Mine(NextButton, Mine(Prev, Mine(Center, d)))))
  BY <1>7, <1>10, SaidAfter
<1> HIDE DEF t5
<1>12. t6 \in Seq(Events) /\ LastSaid(t6, b, d) = LastSaid(t5, b, d)  BY <1>4, <1>11, SaidAfter
<1> HIDE DEF t6
<1>13. t7 \in Seq(Events) /\ LastSaid(t7, b, d) = LastSaid(t5, b, d)  BY <1>5, <1>12, SaidAfter
<1> HIDE DEF t7
<1>14. b \in Buttons => b \in Five  BY ButtonsAssumption
<1>15. b \in Buttons => LastSaid(t5, b, d) = IF Changed(b) THEN b \in next.buttons ELSE d
  BY <1>11, <1>14 DEF Mine
<1> QED  BY <1>6, <1>13, <1>15
-----------------------------------------------------------------------------
\* The socket: what is in it, whose it is, and that after it the UI takes no button
\* to be down that the daemon does not.  Until the daemon has the UI among its
\* clients nothing is in it, and no button is down.
WheelCounts == [packets : Nat, restarts : Nat, conns : Nat, timers : Nat, pads : SUBSET Buttons]
SocketTypes ==
  /\ sent \in [buttons : SUBSET Buttons, touched : BOOLEAN]
  /\ wheelcount \in WheelCounts
  /\ accepted \in BOOLEAN /\ ended \in BOOLEAN
  /\ conn \in 0..wheelcount.conns /\ table \subseteq 1..wheelcount.conns
  /\ stream \in Seq(Events) /\ Len(stream) <= SocketBuffer
SocketRight ==
  /\ sent.buttons = wheelcount.pads
  /\ conn \in table => accepted
  /\ conn = 0 => stream = <<>> /\ ~ended /\ ~accepted
  /\ ~ended /\ conn \notin table => stream = <<>> /\ \A b \in Buttons : ~u.btn[b].down
  /\ ~ended /\ conn \in table => \A b \in Buttons : After(b) => b \in sent.buttons

WheelInv == UiRight(u) /\ SocketTypes /\ SocketRight

\* A step of the UI that takes no event leaves the socket as right as it was.
LEMMA UiStepKeeps ==
  ASSUME WheelInv, UiStep(u', u), UNCHANGED <<sent, table, conn, accepted, ended, stream>>,
         wheelcount' \in WheelCounts,
         wheelcount'.conns = wheelcount.conns, wheelcount'.pads = wheelcount.pads
  PROVE WheelInv'
<1>1. UiRight(u')  BY DEF UiStep
<1>2. SocketTypes'  BY DEF WheelInv, SocketTypes
<1>3. \A b \in Buttons : u'.btn[b].down = u.btn[b].down  BY DEF UiStep, SameDown
<1>4. \A b \in Buttons : After(b)' = After(b)  BY <1>3 DEF After
<1>5. SocketRight'  BY <1>3, <1>4 DEF WheelInv, SocketRight
<1> QED  BY <1>1, <1>2, <1>5 DEF WheelInv

\* A timer's step.
LEMMA TimerKeeps ==
  ASSUME WheelInv, NEW v, UiStep(v, u), Timer(v) PROVE WheelInv'
<1>1. u' = v /\ UNCHANGED <<sent, table, conn, accepted, ended, stream>>
      /\ wheelcount' = [wheelcount EXCEPT !["timers"] = wheelcount["timers"] + 1]
  BY DEF Timer, Counts
<1>2. wheelcount \in WheelCounts
  BY DEF WheelInv, SocketTypes
<1>3. wheelcount.timers + 1 \in Nat  BY <1>2 DEF WheelCounts
<1>4. /\ wheelcount' \in WheelCounts
      /\ wheelcount'.conns = wheelcount.conns /\ wheelcount'.pads = wheelcount.pads
  BY <1>1, <1>2, <1>3, Zenon DEF WheelCounts
<1> QED  BY <1>1, <1>4, UiStepKeeps

\* Each of the timers' steps is one of the UI.
LEMMA TimersKeep ==
  ASSUME WheelInv,
         \/ SetSleepTimer \/ SleepTimer \/ BacklightOff \/ Alarm \/ BatteryEmpty \/ PowerIn
         \/ ChooseShutDown \/ BatteryOff \/ IdleOff
         \/ \E done \in BOOLEAN : PowerOff(done)
  PROVE WheelInv'
<1>0. UiRight(u) /\ u \in Uis /\ u.mpd \in {"play", "pause"} /\ u.scan \in BOOLEAN
  BY FieldTypes DEF WheelInv, UiRight, Shape
<1>1. CASE SetSleepTimer
  <2> DEFINE v == [u EXCEPT !.timer = TRUE]
  <2>1. v \in Uis /\ v.btn = u.btn /\ v.center = u.center /\ SameSleep(v, u) /\ SameMusic(v, u)
    BY <1>0, Zenon DEF Uis, SameSleep, SameMusic
  <2>2. Timer(v)  BY <1>1 DEF SetSleepTimer
  <2> HIDE DEF v
  <2> QED  BY <1>0, <2>1, <2>2, PutFlags, TimerKeeps
<1>2. CASE SleepTimer
  BY <1>0, <1>2, NightRight, TimerKeeps DEF SleepTimer, UiStep
<1>3. CASE BacklightOff
  <2>1. UiStep(GoDark(u, TRUE), u)
    <3>1. TRUE \in BOOLEAN  OBVIOUS
    <3> QED  BY <1>0, <3>1, DarkRight, Zenon DEF UiStep
  <2>2. Timer(GoDark(u, TRUE))  BY <1>3 DEF BacklightOff
  <2> QED  BY <2>1, <2>2, TimerKeeps, Zenon
<1>4. CASE Alarm
  <2> DEFINE w == Wake(u)
             v == [w EXCEPT !.mpd = "play", !.quiet = FALSE]
  <2>1. UiRight(w) /\ w.btn = u.btn  BY <1>0, WakeRight
  <2> HIDE DEF w
  <2>2. /\ v \in Uis /\ v.btn = w.btn /\ v.center = w.center /\ SameSleep(v, w) /\ v.scan = w.scan
        /\ v.quiet = FALSE
    BY <2>1, Zenon DEF UiRight, Shape, Uis, SameSleep
  <2>3. Timer(v)  BY <1>4 DEF Alarm, w
  <2> HIDE DEF v
  <2>4. UiRight(v)
    <3>1. SleepRight(v) /\ QuietRight(v)
      BY <2>1, <2>2 DEF UiRight, SleepRight, QuietRight, SameSleep
    <3> QED  BY <2>1, <2>2, <3>1, Carried
  <2> QED  BY <2>1, <2>2, <2>3, <2>4, TimerKeeps DEF UiStep, SameDown
<1>5. CASE BatteryEmpty
  <2> DEFINE s == ScanStop(u)
             m == IF s.mpd = "play" THEN "pause" ELSE s.mpd
             q == [s EXCEPT !.mpd = m, !.quiet = TRUE]
             w == Wake(q)
             v == [w EXCEPT !.empty = TRUE]
  <2>1. Shape(s) /\ SameSleep(s, u) /\ s.btn = u.btn /\ s.center = u.center /\ ~s.scan
    BY <1>0, ScanStopped DEF UiRight
  <2>2. Timer(v)  BY <1>5, Zenon DEF BatteryEmpty
  <2> HIDE DEF s
  <2>3. m \in {"play", "pause"} /\ m # "play"  BY <2>1, FieldTypes DEF Shape
  <2> HIDE DEF m
  <2>4. /\ q \in Uis /\ SameSleep(q, s) /\ q.btn = s.btn /\ q.center = s.center
        /\ q.mpd = m /\ q.scan = s.scan
    BY <2>1, <2>3, Zenon DEF Shape, Uis, SameSleep
  <2> HIDE DEF q
  <2>5. SleepRight(q) /\ QuietRight(q) /\ (q.scan => u.scan)
    BY <1>0, <2>1, <2>3, <2>4 DEF UiRight, SleepRight, QuietRight, SameSleep
  <2>6. UiRight(q)  BY <1>0, <2>1, <2>4, <2>5, Carried
  <2>7. UiRight(w) /\ w.btn = q.btn  BY <2>6, WakeRight
  <2> HIDE DEF w
  <2>8. v \in Uis /\ v.btn = w.btn /\ v.center = w.center /\ SameSleep(v, w) /\ SameMusic(v, w)
    BY <2>7, Zenon DEF UiRight, Shape, Uis, SameSleep, SameMusic
  <2> HIDE DEF v
  <2>9. UiStep(v, w)  BY <2>7, <2>8, PutFlags
  <2>10. UiStep(v, u)  BY <2>1, <2>4, <2>7, <2>9 DEF UiStep, SameDown
  <2> QED  BY <2>2, <2>10, TimerKeeps
<1>6. CASE PowerIn
  <2> DEFINE v == [u EXCEPT !.empty = FALSE]
  <2>1. v \in Uis /\ v.btn = u.btn /\ v.center = u.center /\ SameSleep(v, u) /\ SameMusic(v, u)
    BY <1>0, Zenon DEF Uis, SameSleep, SameMusic
  <2>2. Timer(v)  BY <1>6 DEF PowerIn
  <2> HIDE DEF v
  <2> QED  BY <1>0, <2>1, <2>2, PutFlags, TimerKeeps
<1>7. CASE ChooseShutDown
  <2>1. TRUE \in BOOLEAN  OBVIOUS
  <2>2. UiStep(ShutDown(u, TRUE), u)  BY <1>0, <2>1, ShutDownRight, Zenon
  <2>3. Timer(ShutDown(u, TRUE))  BY <1>7 DEF ChooseShutDown
  <2> QED  BY <2>2, <2>3, TimerKeeps, Zenon
<1>8. CASE BatteryOff
  <2> DEFINE v == [u EXCEPT !.empty = FALSE]
  <2>1. v \in Uis /\ v.btn = u.btn /\ v.center = u.center /\ SameSleep(v, u) /\ SameMusic(v, u)
    BY <1>0, Zenon DEF Uis, SameSleep, SameMusic
  <2>2. Timer(ShutDown(v, FALSE))  BY <1>8 DEF BatteryOff
  <2> HIDE DEF v
  <2>3. UiStep(v, u)  BY <1>0, <2>1, PutFlags
  <2>4. FALSE \in BOOLEAN  OBVIOUS
  <2>5. UiStep(ShutDown(v, FALSE), v)  BY <2>3, <2>4, ShutDownRight, Zenon DEF UiStep
  <2> DEFINE w == ShutDown(v, FALSE)
  <2> HIDE DEF w
  <2>6. UiStep(w, v) /\ Timer(w)  BY <2>2, <2>5, Zenon DEF w
  <2>7. UiStep(w, u)  BY <2>3, <2>6 DEF UiStep, SameDown
  <2> QED  BY <2>6, <2>7, TimerKeeps
<1>9. CASE IdleOff
  <2>1. FALSE \in BOOLEAN  OBVIOUS
  <2>2. UiStep(ShutDown(u, FALSE), u)  BY <1>0, <2>1, ShutDownRight, Zenon
  <2>3. Timer(ShutDown(u, FALSE))  BY <1>9 DEF IdleOff
  <2> QED  BY <2>2, <2>3, TimerKeeps, Zenon
<1>10. ASSUME NEW done \in BOOLEAN, PowerOff(done) PROVE WheelInv'
  <2> DEFINE v == IF done THEN [u EXCEPT !.off = TRUE] ELSE [u EXCEPT !.going = FALSE]
  <2>1. v \in Uis /\ v.btn = u.btn /\ v.center = u.center /\ SameSleep(v, u) /\ SameMusic(v, u)
    <3>1. CASE done
      <4> DEFINE x == [u EXCEPT !.off = TRUE]
      <4>1. x \in Uis /\ x.btn = u.btn /\ x.center = u.center /\ SameSleep(x, u) /\ SameMusic(x, u)
        BY <1>0, Zenon DEF Uis, SameSleep, SameMusic
      <4>2. v = x  BY <3>1
      <4> HIDE DEF x, v
      <4> QED  BY <4>1, <4>2
    <3>2. CASE ~done
      <4> DEFINE x == [u EXCEPT !.going = FALSE]
      <4>1. x \in Uis /\ x.btn = u.btn /\ x.center = u.center /\ SameSleep(x, u) /\ SameMusic(x, u)
        BY <1>0, Zenon DEF Uis, SameSleep, SameMusic
      <4>2. v = x  BY <3>2
      <4> HIDE DEF x, v
      <4> QED  BY <4>1, <4>2
    <3> QED  BY <3>1, <3>2
  <2>2. Timer(v)  BY <1>10, Zenon DEF PowerOff
  <2> HIDE DEF v
  <2> QED  BY <1>0, <2>1, <2>2, PutFlags, TimerKeeps
<1> QED  BY <1>1, <1>2, <1>3, <1>4, <1>5, <1>6, <1>7, <1>8, <1>9, <1>10
-----------------------------------------------------------------------------
\* At first nothing is down or sent.
LEMMA WheelBegins == WheelInit => WheelInv
<1> SUFFICES ASSUME WheelInit PROVE WheelInv  OBVIOUS
<1>1. u = Fresh("play", FALSE, FALSE)  BY DEF WheelInit
<1>2. UiRight(u) /\ \A b \in Buttons : ~u.btn[b].down
  <2>1. "play" \in {"play", "pause"} /\ FALSE \in BOOLEAN  OBVIOUS
  <2>2. UiRight(Fresh("play", FALSE, FALSE)) /\ \A b \in Buttons : ~Fresh("play", FALSE, FALSE).btn[b].down
    BY <2>1, FreshRight, Zenon
  <2> QED  BY <1>1, <2>2
<1>3. SocketTypes
  <2>1. wheelcount \in WheelCounts
        /\ wheelcount.conns = 0
    BY DEF WheelInit, WheelCounts
  <2>2. stream \in Seq(Events) /\ Len(stream) = 0 /\ SocketBuffer \in Nat
    BY WheelAssumption DEF WheelInit
  <2>3. sent \in [buttons : SUBSET Buttons, touched : BOOLEAN]  BY DEF WheelInit, Idle
  <2>4. accepted \in BOOLEAN /\ ended \in BOOLEAN /\ conn = 0 /\ table = {}  BY DEF WheelInit
  <2> QED  BY <2>1, <2>2, <2>3, <2>4 DEF SocketTypes
<1>4. SocketRight  BY <1>2 DEF WheelInit, SocketRight, Idle
<1> QED  BY <1>2, <1>3, <1>4 DEF WheelInv

\* A packet: what is sent says what is down now, or the client is dropped.
LEMMA PacketKeeps ==
  ASSUME WheelInv, NEW p \in Packets, NEW held \in BOOLEAN,
         Packet([buttons |-> p.buttons, touched |-> p.touched], p.rotated, held)
  PROVE WheelInv'
<1> DEFINE next == [buttons |-> p.buttons, touched |-> p.touched]
           now == IF held THEN Idle ELSE next
           rot == p.rotated /\ ~held
           events == Edges(now, rot)
           fits == IF Len(events) <= SocketBuffer - Len(stream) THEN Len(events)
                   ELSE SocketBuffer - Len(stream)
           mine == conn # 0 /\ conn \in table
<1>0. SocketTypes /\ SocketRight /\ UiRight(u)  BY DEF WheelInv
<1>1. p \in [buttons : SUBSET Buttons, touched : BOOLEAN, rotated : BOOLEAN]  BY WheelAssumption
<1>2. now \in [buttons : SUBSET Buttons, touched : BOOLEAN] /\ rot \in BOOLEAN
  BY <1>1 DEF Idle
<1>3. /\ wheelcount' = [wheelcount EXCEPT !.packets = wheelcount.packets + 1,
                                        !.pads = IF held THEN {} ELSE next.buttons]
      /\ sent' = now /\ UNCHANGED <<conn, accepted, u>>
      /\ stream' = IF mine THEN stream \o SubSeq(events, 1, fits) ELSE stream
      /\ ended'  = (ended \/ (mine /\ fits < Len(events)))
      /\ table'  = IF events = <<>> THEN table
                   ELSE table \intersect (IF fits < Len(events) THEN {} ELSE {conn})
  BY DEF Packet, Sends, Broadcast
<1>4. now.buttons = IF held THEN {} ELSE next.buttons  BY DEF Idle
<1>5. /\ wheelcount' \in WheelCounts
      /\ wheelcount'.conns = wheelcount.conns /\ wheelcount'.pads = now.buttons
  <2> DEFINE n == wheelcount.packets + 1
             d == IF held THEN {} ELSE next.buttons
  <2>1. wheelcount \in WheelCounts
    BY <1>0 DEF SocketTypes
  <2>2. n \in Nat  BY <2>1 DEF WheelCounts
  <2>3. d \in SUBSET Buttons  BY <1>1
  <2>4. wheelcount' = [wheelcount EXCEPT !.packets = n, !.pads = d] /\ d = now.buttons  BY <1>3, <1>4
  <2> HIDE DEF n, d, now
  <2> QED  BY <2>1, <2>2, <2>3, <2>4, Zenon DEF WheelCounts
<1>6. sent.buttons \in SUBSET Buttons  BY <1>0 DEF SocketTypes
<1> HIDE DEF now, rot, next
<1>7. events \in Seq(Events)  BY <1>2, <1>6, EdgesSay
<1>8. \A b \in Buttons : \A d : LastSaid(events, b, d) =
         IF (b \in sent.buttons) = (b \in now.buttons) THEN d ELSE b \in now.buttons
  BY <1>2, <1>6, EdgesSay
<1> HIDE DEF events
<1>9. /\ Len(events) \in Nat /\ Len(stream) \in Nat /\ SocketBuffer \in Nat /\ Len(stream) <= SocketBuffer
      /\ stream \in Seq(Events)
  BY <1>0, <1>7, WheelAssumption DEF SocketTypes
<1>10. /\ fits \in 0..Len(events)
       /\ fits <= SocketBuffer - Len(stream) /\ (events = <<>> => ~(fits < Len(events)))
  BY <1>9
<1>11. /\ SubSeq(events, 1, fits) \in Seq(Events) /\ Len(SubSeq(events, 1, fits)) = fits
       /\ fits = Len(events) => SubSeq(events, 1, fits) = events
  BY <1>7, <1>9, <1>10
<1>12. mine <=> conn \in table  BY <1>0 DEF SocketTypes
<1> HIDE DEF fits, mine
<1>13. stream' \in Seq(Events) /\ Len(stream') <= SocketBuffer
  <2>1. CASE mine
    <3> DEFINE t == SubSeq(events, 1, fits)
    <3>1. t \in Seq(Events) /\ Len(t) = fits  BY <1>11
    <3>2. stream' = stream \o t  BY <1>3, <2>1
    <3> HIDE DEF t
    <3>3. stream \o t \in Seq(Events) /\ Len(stream \o t) = Len(stream) + Len(t)
      BY <1>9, <3>1, ConcatProperties
    <3> QED  BY <1>9, <1>10, <3>1, <3>2, <3>3
  <2>2. CASE ~mine  BY <1>3, <1>9, <2>2
  <2> QED  BY <2>1, <2>2
<1>14. table' \subseteq table  BY <1>3
<1>15. SocketTypes'
  BY <1>0, <1>2, <1>3, <1>5, <1>13, <1>14 DEF SocketTypes
<1>16. conn' \in table' => accepted'  BY <1>0, <1>3, <1>14 DEF SocketRight
<1>17. conn' = 0 => stream' = <<>> /\ ~ended' /\ ~accepted'
  <2>1. conn = 0 => ~mine  BY <1>0, <1>12 DEF SocketTypes
  <2> QED  BY <1>0, <1>3, <2>1 DEF SocketRight
<1>18. ~ended' /\ conn' \notin table' => stream' = <<>> /\ \A b \in Buttons : ~u'.btn[b].down
  <2> SUFFICES ASSUME ~ended', conn' \notin table'
               PROVE stream' = <<>> /\ \A b \in Buttons : ~u'.btn[b].down
    OBVIOUS
  <2>1. ~ended /\ ~(mine /\ fits < Len(events))  BY <1>3
  <2>2. ~mine
    <3> SUFFICES ASSUME mine PROVE FALSE  OBVIOUS
    <3>1. table' = IF events = <<>> THEN table ELSE table \intersect {conn}  BY <1>3, <2>1
    <3> QED  BY <1>3, <1>12, <3>1
  <2> QED  BY <1>0, <1>3, <1>12, <2>1, <2>2 DEF SocketRight
<1>19. ~ended' /\ conn' \in table' => \A b \in Buttons : After(b)' => b \in sent'.buttons
  <2> SUFFICES ASSUME ~ended', conn' \in table', NEW b \in Buttons, After(b)'
               PROVE b \in sent'.buttons
    OBVIOUS
  <2>1. mine /\ ~ended  BY <1>3, <1>12, <1>14
  <2>2. fits = Len(events)  BY <1>3, <1>9, <1>10, <2>1
  <2>3. stream' = stream \o events  BY <1>3, <1>11, <2>1, <2>2
  <2>4. LastSaid(stream \o events, b, u.btn[b].down) = LastSaid(events, b, After(b))
    BY <1>7, <1>9, SaidAfter DEF After
  <2>5. After(b)' = LastSaid(events, b, After(b))  BY <1>3, <2>3, <2>4 DEF After
  <2>6. LastSaid(events, b, After(b))  BY <2>5
  <2>7. After(b) => b \in sent.buttons  BY <1>0, <1>12, <2>1 DEF SocketRight
  <2>8. CASE (b \in sent.buttons) = (b \in now.buttons)
    <3>1. LastSaid(events, b, After(b)) = After(b)  BY <1>8, <2>8
    <3> QED  BY <1>3, <2>6, <2>7, <2>8, <3>1
  <2>9. CASE (b \in sent.buttons) # (b \in now.buttons)
    <3>1. LastSaid(events, b, After(b)) = (b \in now.buttons)  BY <1>8, <2>9
    <3> QED  BY <1>3, <2>6, <3>1
  <2> QED  BY <2>8, <2>9
<1>20. sent'.buttons = wheelcount'.pads  BY <1>3, <1>5
<1> QED  BY <1>0, <1>3, <1>15, <1>16, <1>17, <1>18, <1>19, <1>20 DEF WheelInv, SocketRight

\* The daemon takes the UI among its clients: there is room, for all others have hung up.
LEMMA AddKeeps ==
  ASSUME WheelInv, Add PROVE WheelInv' /\ ~ended'
<1>0. SocketTypes /\ SocketRight /\ UiRight(u)  BY DEF WheelInv
<1>1. /\ conn # 0 /\ ~accepted /\ ~ended /\ accepted' = TRUE
      /\ UNCHANGED <<sent, conn, stream, u, wheelcount>>
  BY DEF Add
<1>2. conn \notin table  BY <1>0, <1>1 DEF SocketRight
<1>3. table \intersect {conn} = {}  BY <1>2
<1>4. Cardinality(table \intersect {conn}) < WheelClients
  BY <1>3, FS_EmptySet, WheelAssumption
<1>5. table' = {conn} /\ UNCHANGED ended  BY <1>3, <1>4 DEF Add
<1>6. SocketTypes'  BY <1>0, <1>1, <1>5 DEF SocketTypes
<1>7. stream = <<>> /\ \A b \in Buttons : ~u.btn[b].down  BY <1>0, <1>1, <1>2 DEF SocketRight
<1>8. \A b \in Buttons : ~After(b)'
  <2> TAKE b \in Buttons
  <2>1. stream \in Seq(Events) /\ Silent(stream, b)  BY <1>0, <1>7 DEF SocketTypes, Silent
  <2>2. LastSaid(stream, b, u.btn[b].down) = u.btn[b].down  BY <2>1, NothingSaid
  <2> QED  BY <1>1, <1>7, <2>2 DEF After
<1>9. SocketRight'  BY <1>0, <1>1, <1>5, <1>7, <1>8 DEF SocketRight
<1> QED  BY <1>0, <1>1, <1>5, <1>6, <1>9 DEF WheelInv

\* The daemon starts again: it knows no client and no button.
LEMMA RestartKeeps ==
  ASSUME WheelInv, DaemonRestarts PROVE WheelInv'
<1>0. SocketTypes /\ SocketRight /\ UiRight(u)  BY DEF WheelInv
<1>1. /\ wheelcount' = [wheelcount EXCEPT !.restarts = wheelcount.restarts + 1, !.pads = {}]
      /\ sent' = Idle /\ table' = {} /\ ended' = (conn # 0) /\ UNCHANGED <<conn, accepted, stream, u>>
  BY DEF DaemonRestarts
<1>2. /\ wheelcount' \in WheelCounts
      /\ wheelcount'.conns = wheelcount.conns /\ wheelcount'.pads = {}
  <2> DEFINE n == wheelcount.restarts + 1
             e == {}
  <2>1. wheelcount \in WheelCounts
    BY <1>0 DEF SocketTypes
  <2>2. n \in Nat  BY <2>1 DEF WheelCounts
  <2>3. e \in SUBSET Buttons  OBVIOUS
  <2>4. wheelcount' = [wheelcount EXCEPT !.restarts = n, !.pads = e]  BY <1>1
  <2> HIDE DEF n, e
  <2>5. /\ wheelcount' \in WheelCounts
        /\ wheelcount'.conns = wheelcount.conns /\ wheelcount'.pads = e
    BY <2>1, <2>2, <2>3, <2>4, Zenon DEF WheelCounts
  <2> QED  BY <2>5 DEF e
<1>3. SocketTypes'  BY <1>0, <1>1, <1>2 DEF SocketTypes, Idle
<1>4. ~ended' => conn = 0 /\ ~ended /\ conn \notin table  BY <1>0, <1>1 DEF SocketTypes, SocketRight
<1>5. SocketRight'  BY <1>0, <1>1, <1>2, <1>4 DEF SocketRight, Idle
<1> QED  BY <1>0, <1>1, <1>3, <1>5 DEF WheelInv

\* The UI connects, under a number of its own.
LEMMA ConnectKeeps ==
  ASSUME WheelInv, Connect PROVE WheelInv'
<1>0. SocketTypes /\ SocketRight /\ UiRight(u)  BY DEF WheelInv
<1>1. /\ conn = 0 /\ wheelcount' = [wheelcount EXCEPT !.conns = wheelcount.conns + 1]
      /\ conn' = wheelcount.conns + 1 /\ UNCHANGED <<sent, table, accepted, ended, stream, u>>
  BY DEF Connect
<1>2. /\ wheelcount' \in WheelCounts
      /\ wheelcount'.conns = wheelcount.conns + 1 /\ wheelcount'.pads = wheelcount.pads
      /\ wheelcount.conns \in Nat
  <2> DEFINE n == wheelcount.conns + 1
  <2>1. wheelcount \in WheelCounts
    BY <1>0 DEF SocketTypes
  <2>2. n \in Nat /\ wheelcount.conns \in Nat  BY <2>1 DEF WheelCounts
  <2>3. wheelcount' = [wheelcount EXCEPT !.conns = n]  BY <1>1
  <2> HIDE DEF n
  <2>4. /\ wheelcount' \in WheelCounts
        /\ wheelcount'.conns = n /\ wheelcount'.pads = wheelcount.pads
    BY <2>1, <2>2, <2>3, Zenon DEF WheelCounts
  <2> QED  BY <2>2, <2>4 DEF n
<1>3. SocketTypes'  BY <1>0, <1>1, <1>2 DEF SocketTypes
<1>4. conn' \notin table' /\ conn' # 0 /\ conn \notin table  BY <1>0, <1>1, <1>2 DEF SocketTypes
<1>5. SocketRight'  BY <1>0, <1>1, <1>2, <1>4 DEF SocketRight
<1> QED  BY <1>0, <1>1, <1>3, <1>5 DEF WheelInv

\* The UI reads an event.
LEMMA ReadKeeps ==
  ASSUME WheelInv, ReadEvent PROVE WheelInv'
<1>0. SocketTypes /\ SocketRight /\ UiRight(u)  BY DEF WheelInv
<1>1. /\ stream # <<>> /\ u' = Handle(Head(stream)) /\ stream' = Tail(stream)
      /\ UNCHANGED <<sent, table, conn, accepted, ended, wheelcount>>
  BY DEF ReadEvent
<1>2. stream \in Seq(Events) /\ Len(stream) <= SocketBuffer /\ Len(stream) \in Nat /\ SocketBuffer \in Nat
  BY <1>0, WheelAssumption DEF SocketTypes
<1>3. Head(stream) \in Events /\ Tail(stream) \in Seq(Events) /\ Len(Tail(stream)) = Len(stream) - 1
  BY <1>1, <1>2, HeadTailProperties
<1> DEFINE e == Head(stream)
<1>4. /\ e.type \in {"button", "touch", "wheel"} /\ (e.type = "button" => e.code \in Buttons)
      /\ e.value \in BOOLEAN
  BY <1>3 DEF Events
<1> HIDE DEF e
<1>5. /\ UiRight(Handle(e))
      /\ \A b \in Buttons : Handle(e).btn[b].down =
           (IF e.type = "button" /\ e.code = b THEN e.value ELSE u.btn[b].down)
  BY <1>0, <1>4, HandleRight
<1>6. u' = Handle(e)  BY <1>1 DEF e
<1>7. SocketTypes'
  BY <1>0, <1>1, <1>2, <1>3 DEF SocketTypes
<1>8. \A b \in Buttons : After(b)' = After(b)
  <2> TAKE b \in Buttons
  <2>1. LastSaid(stream, b, u.btn[b].down) =
          LastSaid(Tail(stream), b, IF e.type = "button" /\ e.code = b THEN e.value ELSE u.btn[b].down)
    BY <1>1, <1>2, HeadSaid DEF e
  <2> QED  BY <1>1, <1>5, <1>6, <2>1 DEF After
<1>9. conn # 0 /\ (~ended => conn \in table)  BY <1>0, <1>1 DEF SocketRight
<1>10. SocketRight'  BY <1>0, <1>1, <1>8, <1>9 DEF SocketRight
<1> QED  BY <1>5, <1>6, <1>7, <1>10 DEF WheelInv

\* The UI lets go of its connection, or starts again.
LEMMA DropKeeps ==
  ASSUME WheelInv, NEW v, UiRight(v), \A b \in Buttons : ~v.btn[b].down, Drop(v),
         wheelcount' \in WheelCounts,
         wheelcount'.conns = wheelcount.conns, wheelcount'.pads = wheelcount.pads
  PROVE WheelInv'
<1>0. SocketTypes /\ SocketRight  BY DEF WheelInv
<1>1. /\ conn' = 0 /\ ended' = FALSE /\ accepted' = FALSE /\ stream' = <<>>
      /\ u' = v /\ UNCHANGED <<sent, table>>
  BY DEF Drop
<1>2. 0 \in 0..wheelcount.conns /\ 0 \notin table
  <2>1. wheelcount.conns \in Nat  BY <1>0 DEF SocketTypes, WheelCounts
  <2> QED  BY <1>0, <2>1 DEF SocketTypes
<1>3. SocketTypes'
  <2>1. stream' \in Seq(Events) /\ Len(stream') = 0 /\ SocketBuffer \in Nat
    BY <1>1, WheelAssumption
  <2>2. conn' \in 0..wheelcount'.conns /\ table' \subseteq 1..wheelcount'.conns
    BY <1>0, <1>1, <1>2 DEF SocketTypes
  <2>3. sent' \in [buttons : SUBSET Buttons, touched : BOOLEAN]  BY <1>0, <1>1 DEF SocketTypes
  <2>4. accepted' \in BOOLEAN /\ ended' \in BOOLEAN  BY <1>1
  <2> QED  BY <2>1, <2>2, <2>3, <2>4 DEF SocketTypes
<1>4. SocketRight'  BY <1>0, <1>1, <1>2 DEF SocketRight
<1> QED  BY <1>1, <1>3, <1>4 DEF WheelInv

\* Every step keeps it.
LEMMA WheelStep == WheelInv /\ [WheelNext]_wheelVars => WheelInv'
<1> SUFFICES ASSUME WheelInv, [WheelNext]_wheelVars PROVE WheelInv'  OBVIOUS
<1>0. SocketTypes /\ SocketRight /\ UiRight(u)  BY DEF WheelInv
<1>a. wheelcount \in WheelCounts
  BY <1>0 DEF SocketTypes
<1>1. CASE UNCHANGED wheelVars
  <2>1. UNCHANGED <<sent, table, conn, accepted, ended, stream>> /\ u' = u /\ wheelcount' = wheelcount
    BY <1>1 DEF wheelVars
  <2>2. UiStep(u', u)  BY <1>0, <2>1 DEF UiStep, SameDown
  <2> QED  BY <1>a, <2>1, <2>2, UiStepKeeps
<1>2. ASSUME NEW p \in Packets, NEW held \in BOOLEAN,
             Packet([buttons |-> p.buttons, touched |-> p.touched], p.rotated, held)
      PROVE WheelInv'
  BY <1>2, PacketKeeps
<1>3. CASE Add  BY <1>3, AddKeeps
<1>4. CASE DaemonRestarts  BY <1>4, RestartKeeps
<1>5. CASE Connect  BY <1>5, ConnectKeeps
<1>6. CASE ReadEvent  BY <1>6, ReadKeeps
<1>7. CASE HangUp
  <2>1. UiRight(Cancel(u)) /\ \A b \in Buttons : ~Cancel(u).btn[b].down  BY <1>0, CancelRight
  <2>2. Drop(Cancel(u)) /\ UNCHANGED wheelcount  BY <1>7 DEF HangUp
  <2> QED  BY <1>a, <2>1, <2>2, DropKeeps
<1>8. CASE UiRestarts
  <2> DEFINE v == Fresh(u.mpd, u.quiet, u.overlap)
  <2>1. u.mpd \in {"play", "pause"} /\ u.quiet \in BOOLEAN /\ u.overlap \in BOOLEAN
        /\ (~u.overlap /\ u.quiet => u.mpd # "play")
    BY <1>0, FieldTypes DEF UiRight, Shape, QuietRight
  <2>2. UiRight(v) /\ \A b \in Buttons : ~v.btn[b].down  BY <2>1, FreshRight
  <2> HIDE DEF v
  <2>3. Drop(v) /\ wheelcount' = [wheelcount EXCEPT !["restarts"] = wheelcount["restarts"] + 1]
    BY <1>8 DEF UiRestarts, Counts, v
  <2>4. wheelcount.restarts + 1 \in Nat  BY <1>a DEF WheelCounts
  <2>5. /\ wheelcount' \in WheelCounts
        /\ wheelcount'.conns = wheelcount.conns /\ wheelcount'.pads = wheelcount.pads
    BY <1>a, <2>3, <2>4, Zenon DEF WheelCounts
  <2> QED  BY <2>2, <2>3, <2>5, DropKeeps
<1>9. ASSUME NEW b \in Buttons, NEW list \in BOOLEAN, HoldTick(b, list) PROVE WheelInv'
  <2>1. u' = Hold(u, b, list) /\ UNCHANGED <<sent, table, conn, accepted, ended, stream, wheelcount>>
    BY <1>9 DEF HoldTick
  <2>2. UiStep(u', u)  BY <1>0, <2>1, HoldRight DEF UiStep
  <2> QED  BY <1>a, <2>1, <2>2, UiStepKeeps
<1>10. CASE \/ SetSleepTimer \/ SleepTimer \/ BacklightOff \/ Alarm \/ BatteryEmpty \/ PowerIn
            \/ ChooseShutDown \/ BatteryOff \/ IdleOff
            \/ \E done \in BOOLEAN : PowerOff(done)
  BY <1>10, TimersKeep
<1> QED
  BY <1>1, <1>2, <1>3, <1>4, <1>5, <1>6, <1>7, <1>8, <1>9, <1>10 DEF WheelNext

\* What the code promises follows.
LEMMA WheelPromises == WheelInv => PressesRight /\ StaysQuiet
<1> SUFFICES ASSUME WheelInv PROVE PressesRight /\ StaysQuiet  OBVIOUS
<1>0. SocketTypes /\ SocketRight /\ UiRight(u) /\ u \in Uis  BY DEF WheelInv, UiRight, Shape
<1>1. WheelTypes
  <2>1. DOMAIN u.btn = Buttons /\ u.mpd \in {"play", "pause"}
    <3>1. u.btn \in [Buttons -> Btns] /\ u.mpd \in {"play", "pause"}  BY <1>0, FieldTypes
    <3> QED  BY <3>1
  <2> QED  BY <1>0, <2>1 DEF WheelTypes, SocketTypes, SocketRight, UiRight, SleepRight
<1>2. NothingStuck
  <2> SUFFICES ASSUME ~ended, NEW b \in Buttons, After(b) PROVE b \in wheelcount.pads
    BY DEF NothingStuck
  <2>1. CASE conn \in table  BY <1>0, <2>1 DEF SocketRight
  <2>2. CASE conn \notin table
    <3>1. stream = <<>> /\ ~u.btn[b].down  BY <1>0, <2>2 DEF SocketRight
    <3>2. stream \in Seq(Events) /\ Silent(stream, b)  BY <1>0, <3>1 DEF SocketTypes, Silent
    <3>3. After(b) = u.btn[b].down  BY <3>2, NothingSaid DEF After
    <3> QED  BY <3>1, <3>3
  <2> QED  BY <2>1, <2>2
<1>3. LetGoEverywhere  BY <1>0 DEF UiRight, LetGoEverywhere, CenterRight, ScanRight
<1>4. ActsOnceAwake
  BY <1>0 DEF UiRight, Shape, ActsOnceAwake, PressRight, MayAct
<1>5. StaysQuiet  BY <1>0 DEF UiRight, Shape, QuietRight, StaysQuiet, QuietHolds
<1> QED  BY <1>1, <1>2, <1>3, <1>4, <1>5 DEF PressesRight

\* For any buttons in use and any packets: once what is in the socket has been
\* read, no button is down that the wheel does not have down, over restarts of
\* either process, a dropped client and the hold switch; a press acts at most
\* once and never one that only woke the device; the encoder and a scan let go
\* with the button.
THEOREM PressesInvariant == WheelSpec => []PressesRight
<1>1. WheelInit => WheelInv  BY WheelBegins
<1>2. WheelInv /\ [WheelNext]_wheelVars => WheelInv'  BY WheelStep
<1>3. WheelInv => PressesRight  BY WheelPromises
<1> QED  BY <1>1, <1>2, <1>3, PTL DEF WheelSpec

\* Music that was put to sleep, or paused to power off, stays off until somebody
\* asks for it, whatever scan, alarm or restart comes in between.
THEOREM QuietInvariant == WheelSpec => []StaysQuiet
<1>1. WheelInit => WheelInv  BY WheelBegins
<1>2. WheelInv /\ [WheelNext]_wheelVars => WheelInv'  BY WheelStep
<1>3. WheelInv => StaysQuiet  BY WheelPromises
<1> QED  BY <1>1, <1>2, <1>3, PTL DEF WheelSpec

\* However many clients have come and gone, the one the UI connects with gets a
\* place: the daemon never closes it as it accepts it.
THEOREM ClientKept == WheelSpec => LiveClientKept
<1>1. WheelInit => WheelInv  BY WheelBegins
<1>2. WheelInv /\ [WheelNext]_wheelVars => WheelInv'  BY WheelStep
<1>3. WheelInv /\ [WheelNext]_wheelVars => [accepted' /\ ~accepted => ~ended']_wheelVars
  <2> SUFFICES ASSUME WheelInv, WheelNext, accepted', ~accepted PROVE ~ended'  BY DEF wheelVars
  <2>1. accepted \in BOOLEAN  BY DEF WheelInv, SocketTypes
  <2>2. Add
    BY <2>1 DEF WheelNext, Packet, DaemonRestarts, Connect, ReadEvent, HangUp, UiRestarts, Drop,
       HoldTick, SetSleepTimer, SleepTimer, BacklightOff, Alarm, BatteryEmpty, PowerIn, ChooseShutDown,
       BatteryOff, IdleOff, PowerOff, Timer
  <2> QED  BY <2>2, AddKeeps
<1> QED  BY <1>1, <1>2, <1>3, PTL DEF WheelSpec, LiveClientKept
-----------------------------------------------------------------------------
(***************************************************************************)
(* The screens and who has playback, for any depth of the stack that has   *)
(* room for the Screen Lock, and any number of songs added, cards, alarms, *)
(* restarts of rPod and calls MPD does not answer.  First what each        *)
(* operation on playback does, then the stack and its overlay, then a      *)
(* lemma for each step.                                                    *)
(***************************************************************************)
\* What a state of the interface and of MPD is made of.
Kinds  == {"root", "menu", "player", "quiz", "lock"}
States == {"play", "pause", "stop"}
Spots  == [song : Int, state : States]
Borrowers == [on : BOOLEAN, borrowed : BOOLEAN, spot : Spots, extra : Int, taken : BOOLEAN,
              leaving : BOOLEAN, over : Int, far : {"start", "middle", "end"}, done : BOOLEAN]
Mpds == [song : Int, state : States, queue : SUBSET Int, next : Nat]
Scrs == [frames : Seq(Kinds), overlay : {"none", "card", "alarm"}, locked : BOOLEAN,
         input : Nat, default : Nat, shown : Nat, player : Borrowers, quiz : Borrowers,
         suspended : BOOLEAN, ringing : BOOLEAN, mpd : Mpds]
Pasts == [was : Spots, other : BOOLEAN, ran : BOOLEAN, litter : BOOLEAN, nested : BOOLEAN, late : BOOLEAN,
          back : States \union {"none"}, early : BOOLEAN]

\* The stack: menus, and on them the lock, the quiz or the player, or the player
\* on the quiz; what is on top is what the flags say.
TopKind(f) == f[Len(f)]
UnderTop(f) == \A i \in 1..(Len(f) - 1) :
                 \/ f[i] \in {"root", "menu"}
                 \/ f[i] = "quiz" /\ i = Len(f) - 1 /\ TopKind(f) = "player"
Stacked(f, locked, player, quiz) ==
  /\ f # <<>> /\ f[1] = "root" /\ UnderTop(f)
  /\ locked = (TopKind(f) = "lock")
  /\ player = (TopKind(f) = "player")
  /\ quiz = \E i \in 1..Len(f) : f[i] = "quiz"

\* What the operators on playback leave alone.
SameScreen(t, s) ==
  /\ t.frames = s.frames /\ t.overlay = s.overlay /\ t.locked = s.locked /\ t.input = s.input
  /\ t.default = s.default /\ t.shown = s.shown /\ t.ringing = s.ringing

\* The overlay and the wheel's group.
CardRight(s) ==
  /\ s.input = IF s.overlay # "none" THEN Card ELSE Len(s.frames)
  /\ s.default = s.input /\ s.shown = Len(s.frames)
  /\ s.ringing = (s.overlay = "alarm")

\* MPD: what it plays is in its queue.
MpdRight(m) ==
  /\ m.song = NoTrack => m.state = "stop"
  /\ m.song # NoTrack => m.song \in m.queue
  /\ NoTrack \notin m.queue
  /\ m.next >= 1 /\ \A id \in m.queue : id < m.next

\* A borrower's song is one of its own.
ExtraRight(b, m) == b.extra # NoTrack => b.borrowed /\ b.extra > 0 /\ b.extra < m.next
BorrowersRight(s) ==
  /\ ExtraRight(s.player, s.mpd) /\ ExtraRight(s.quiz, s.mpd)
  /\ s.player.extra = s.quiz.extra => s.player.extra = NoTrack
  /\ s.suspended => s.player.borrowed \/ s.quiz.borrowed
  /\ s.player.borrowed => s.suspended

\* Who is gone has nothing.
AbsentRight(s) ==
  /\ ~s.player.on => s.player = NoBorrower
  /\ ~s.quiz.on => s.quiz = NoBorrower
  /\ s.quiz.on /\ ~s.quiz.done => s.quiz.borrowed
  /\ s.player.taken => s.player.borrowed /\ s.player.leaving

\* The queue has no song of a borrower that is gone, or has gone on to another.
Clean(s) == \A id \in s.mpd.queue : id > 0 => id \in {s.player.extra, s.quiz.extra}

\* The music there was can be put back: it is back, or the one who is to put it
\* back remembers it, playing or not, and it is in the queue.  When the quiz's own
\* song ran out only what it remembers is sure.
OwedBack(s, was, ran) ==
  /\ ~s.player.borrowed /\ ~s.quiz.borrowed /\ ~ran =>
       IF was.song = NoTrack THEN s.mpd.state = "stop" ELSE s.mpd.song = was.song
  /\ s.player.borrowed \/ s.quiz.borrowed =>
       /\ was.song # NoTrack => /\ was.song \in s.mpd.queue
                                /\ was.song # s.player.extra /\ was.song # s.quiz.extra
       /\ was.song = NoTrack => was.state = "stop"
  /\ s.quiz.borrowed => s.quiz.spot = was
  /\ s.quiz.borrowed /\ ~ran => s.quiz.extra # NoTrack /\ s.quiz.extra \in s.mpd.queue
  /\ s.player.borrowed /\ ~s.quiz.borrowed => s.player.spot = was
  /\ s.player.borrowed /\ s.quiz.borrowed /\ ~ran => s.player.spot.song = s.quiz.extra
  /\ s.quiz.borrowed /\ ~s.player.borrowed /\ ~ran => s.mpd.song = s.quiz.extra
  /\ s.player.extra # NoTrack /\ s.player.far = "middle" => s.mpd.song = s.player.extra

\* Playback is lent in order: of the music there was, whether the quiz's song ran
\* out, whether someone else took playback since, and whether songs may have been
\* left in the queue.
Lent(s, was, ran, other, litter) ==
  /\ MpdRight(s.mpd) /\ BorrowersRight(s)
  /\ litter \/ Clean(s)
  /\ ~other => OwedBack(s, was, ran) /\ ~s.player.taken

\* From s to t, the last of them gives back: what MPD is left at, as PlaysAsBefore says.
HandedBack(s, t, was, ran, other) ==
  Lends(s) /\ ~Lends(t) /\ ~other /\ ~ran =>
    /\ was.state = "stop" => t.mpd.state = "stop"
    /\ t.mpd.state = "play" => s.mpd.state = "stop" \/ (was.state = "play" /\ s.quiz.borrowed)
    /\ was.state = "play" /\ s.mpd.state = "play" /\ s.quiz.borrowed => t.mpd.state = "play"

\* A player that is leaving goes for the video it has, unless it was given one late.
Going(s, late) == late \/ (s.player.leaving => s.player.over = s.player.extra)

\* A state of the interface that is in order; the inductive invariant.
InOrder(s) ==
  /\ s \in Scrs /\ Stacked(s.frames, s.locked, s.player.on, s.quiz.on)
  /\ CardRight(s) /\ AbsentRight(s)

ScreenInv ==
  /\ past \in Pasts /\ lockfile = ui.locked
  /\ InOrder(ui) /\ Lent(ui, past.was, past.ran, past.other, past.litter)
  /\ Going(ui, past.late) /\ (past.early => past.late)

\* What a step is to show: the invariant after it, and how MPD is handed back.
ScreenStep == ScreenInv' /\ PlaysAsBefore

\* The fields of each, typed.
LEMMA ScrTypes == ASSUME NEW s \in Scrs
  PROVE /\ s.frames \in Seq(Kinds) /\ s.overlay \in {"none", "card", "alarm"} /\ s.locked \in BOOLEAN
        /\ s.input \in Nat /\ s.default \in Nat /\ s.shown \in Nat
        /\ s.player \in Borrowers /\ s.quiz \in Borrowers
        /\ s.suspended \in BOOLEAN /\ s.ringing \in BOOLEAN /\ s.mpd \in Mpds
BY Zenon DEF Scrs

LEMMA BorrowerTypes == ASSUME NEW b \in Borrowers
  PROVE /\ b.on \in BOOLEAN /\ b.borrowed \in BOOLEAN /\ b.spot \in Spots /\ b.extra \in Int
        /\ b.taken \in BOOLEAN /\ b.leaving \in BOOLEAN /\ b.over \in Int
        /\ b.far \in {"start", "middle", "end"} /\ b.done \in BOOLEAN
BY Zenon DEF Borrowers

LEMMA MpdTypes == ASSUME NEW m \in Mpds
  PROVE m.song \in Int /\ m.state \in States /\ m.queue \in SUBSET Int /\ m.next \in Nat
BY Zenon DEF Mpds

LEMMA SpotTypes == ASSUME NEW p \in Spots PROVE p.song \in Int /\ p.state \in States
BY Zenon DEF Spots


\* No song is an id below every song's.
LEMMA NoTrackInt == NoTrack \in Int /\ NoTrack < 0
BY DEF NoTrack

\* A borrower there is not has nothing.
LEMMA NoBorrowerTyped ==
  /\ NoBorrower \in Borrowers /\ ~NoBorrower.on /\ ~NoBorrower.borrowed /\ NoBorrower.extra = NoTrack
  /\ ~NoBorrower.taken /\ ~NoBorrower.leaving /\ NoBorrower.over = NoTrack
BY NoTrackInt DEF NoBorrower, Borrowers, Spots, States

-----------------------------------------------------------------------------
\* Playing one song more.
LEMMA PlayExtraRight == ASSUME NEW m \in Mpds, MpdRight(m), NEW n, n = PlayExtra(m)
  PROVE /\ n \in Mpds /\ MpdRight(n)
        /\ n.song = m.next /\ n.queue = m.queue \union {m.next} /\ n.next = m.next + 1
<1>1. m.queue \in SUBSET Int /\ m.next \in Nat BY MpdTypes
<1>2. n.song = m.next /\ n.state = "play" /\ n.queue = m.queue \union {m.next} /\ n.next = m.next + 1
  BY DEF PlayExtra
<1>3. n \in Mpds BY <1>1 DEF PlayExtra, Mpds, States
<1> QED BY <1>1, <1>2, <1>3, NoTrackInt DEF MpdRight

\* Deleting a song; the one playing stops.
LEMMA DeleteRight == ASSUME NEW m \in Mpds, MpdRight(m), NEW id \in Int, NEW n, n = Delete(m, id)
  PROVE /\ n \in Mpds /\ MpdRight(n)
        /\ n.queue = m.queue \ {id} /\ n.next = m.next
        /\ m.song # id => n.song = m.song /\ n.state = m.state
        /\ m.song = id => n.song = NoTrack /\ n.state = "stop"
<1>1. m.queue \in SUBSET Int /\ m.next \in Nat /\ m.song \in Int /\ m.state \in States BY MpdTypes
<1>2. /\ n.song = IF m.song = id THEN NoTrack ELSE m.song
      /\ n.state = IF m.song = id THEN "stop" ELSE m.state
      /\ n.queue = m.queue \ {id} /\ n.next = m.next
  BY DEF Delete, Mpds
<1>3. n \in Mpds BY <1>1, NoTrackInt DEF Delete, Mpds, States
<1> QED BY <1>1, <1>2, <1>3, NoTrackInt DEF MpdRight

\* Going back to a spot: at its song, if the queue still has it.
LEMMA RestoreRight == ASSUME NEW m \in Mpds, MpdRight(m), NEW spot \in Spots, NEW n, n = Restore(m, spot)
  PROVE /\ n \in Mpds /\ MpdRight(n)
        /\ n.queue = m.queue /\ n.next = m.next
        /\ spot.song = NoTrack => n.song = m.song /\ n.state = "stop"
        /\ spot.song # NoTrack /\ spot.song \in m.queue => n.song = spot.song
        /\ spot.state = "stop" /\ spot.song \in m.queue => n.state = "stop"
        /\ spot.state # "play" /\ m.state # "stop" => n.state # "play"
        /\ spot.state = "play" /\ m.state = "play" /\ spot.song # NoTrack /\ spot.song \in m.queue => n.state = "play"
<1>1. m.queue \in SUBSET Int /\ m.next \in Nat /\ m.song \in Int /\ m.state \in States BY MpdTypes
<1>2. spot.song \in Int BY SpotTypes
<1> DEFINE held == IF spot.state # "play" /\ m.state = "play" THEN "pause" ELSE m.state
           after == IF spot.state = "stop" THEN "stop" ELSE IF held = "pause" THEN "pause" ELSE "play"
<1>3. /\ held \in States /\ after \in States /\ (m.state = "stop" => held = "stop")
      /\ spot.state = "stop" => after = "stop"
      /\ spot.state # "play" /\ m.state # "stop" => held # "play" /\ after # "play"
      /\ spot.state = "play" /\ m.state = "play" => after = "play"
  BY <1>1 DEF States
<1>4. n = IF spot.song = NoTrack THEN [m EXCEPT !.state = "stop"]
          ELSE IF spot.song \notin m.queue THEN [m EXCEPT !.state = held]
          ELSE [m EXCEPT !.song = spot.song, !.state = after]
  BY DEF Restore
<1> HIDE DEF held, after
<1>5. /\ n \in Mpds /\ n.queue = m.queue /\ n.next = m.next
      /\ n.song = IF spot.song # NoTrack /\ spot.song \in m.queue THEN spot.song ELSE m.song
      /\ spot.song = NoTrack => n.state = "stop"
      /\ spot.song \notin m.queue /\ spot.song # NoTrack => n.state = held
      /\ spot.song \in m.queue /\ spot.song # NoTrack => n.state = after
  <2>1. CASE spot.song = NoTrack BY <2>1, <1>1, <1>4 DEF Mpds, States
  <2>2. CASE spot.song # NoTrack /\ spot.song \notin m.queue BY <2>2, <1>1, <1>3, <1>4 DEF Mpds
  <2>3. CASE spot.song # NoTrack /\ spot.song \in m.queue BY <2>3, <1>1, <1>2, <1>3, <1>4 DEF Mpds
  <2> QED BY <2>1, <2>2, <2>3
<1> QED BY <1>1, <1>3, <1>5, NoTrackInt DEF MpdRight

\* MPD as a borrower goes on to its next song, ...
NextMpd(m, extra, ans) ==
  LET n == IF ans = "ok" THEN PlayExtra(m) ELSE m
  IN  IF ans # "down" /\ extra # NoTrack THEN Delete(n, extra) ELSE n

\* ... which takes the place of the one before, and leaves the rest of the queue,
LEMMA NextMpdRight == ASSUME NEW m \in Mpds, MpdRight(m), NEW extra \in Int, extra < m.next,
    NEW ans \in MpdAnswers, NEW n, n = NextMpd(m, extra, ans)
  PROVE /\ n \in Mpds /\ MpdRight(n)
        /\ n.next = IF ans = "ok" THEN m.next + 1 ELSE m.next
        /\ \A id \in n.queue : id \in m.queue \/ (ans = "ok" /\ id = m.next)
        /\ ans # "down" /\ extra # NoTrack => extra \notin n.queue
        /\ \A id \in m.queue : id # extra => id \in n.queue
        /\ ans = "ok" => n.song = m.next /\ m.next \in n.queue
        /\ ans # "ok" /\ m.song # extra => n.song = m.song /\ n.state = m.state
        /\ ans = "down" => n = m
<1> DEFINE o == IF ans = "ok" THEN PlayExtra(m) ELSE m
<1>1. /\ o \in Mpds /\ MpdRight(o)
      /\ ans = "ok" => o.song = m.next /\ o.queue = m.queue \union {m.next} /\ o.next = m.next + 1
      /\ ans # "ok" => o = m
  BY PlayExtraRight
<1>2. n = IF ans # "down" /\ extra # NoTrack THEN Delete(o, extra) ELSE o BY DEF NextMpd
<1>3. m.next \in Nat BY MpdTypes
<1> HIDE DEF o
<1>4. CASE ans # "down" /\ extra # NoTrack
  <2>1. n = Delete(o, extra) BY <1>2, <1>4
  <2>2. /\ n \in Mpds /\ MpdRight(n)
        /\ n.queue = o.queue \ {extra} /\ n.next = o.next
        /\ o.song # extra => n.song = o.song /\ n.state = o.state
    BY <2>1, <1>1, DeleteRight
  <2> QED BY <2>2, <1>1, <1>3, <1>4
<1>5. CASE ~(ans # "down" /\ extra # NoTrack) BY <1>1, <1>2, <1>3, <1>5
<1> QED BY <1>4, <1>5

\* ... and as a borrower gives back, when MPD answers,
GivenBack(m, spot, mine, extra) ==
  LET r == IF mine THEN Restore(m, spot) ELSE m
  IN  IF extra # NoTrack THEN Delete(r, extra) ELSE r

\* What is so of MPD's n when m was given back.
GivenRight(n, m, spot, mine, extra) ==
  /\ n \in Mpds /\ MpdRight(n) /\ n.next = m.next
  /\ n.queue \subseteq m.queue
  /\ extra # NoTrack => extra \notin n.queue
  /\ \A id \in m.queue : id # extra => id \in n.queue
  /\ mine /\ spot.song = NoTrack => n.state = "stop"
  /\ mine /\ spot.song # NoTrack /\ spot.song \in m.queue /\ spot.song # extra => n.song = spot.song
  /\ ~mine /\ m.song # extra => n.song = m.song
  /\ mine /\ spot.state = "stop" /\ spot.song \in m.queue => n.state = "stop"
  /\ mine /\ spot.state # "play" /\ m.state # "stop" => n.state # "play"
  /\ mine /\ spot.state = "play" /\ m.state = "play" /\ spot.song # NoTrack /\ spot.song \in m.queue
       /\ spot.song # extra => n.state = "play"

\* Giving back takes the borrower's song away, and nothing else, and returns to its spot.
LEMMA GivenBackRight == ASSUME NEW m \in Mpds, MpdRight(m), NEW spot \in Spots, NEW mine \in BOOLEAN,
    NEW extra \in Int, NEW n, n = GivenBack(m, spot, mine, extra)
  PROVE GivenRight(n, m, spot, mine, extra)
<1> DEFINE r == IF mine THEN Restore(m, spot) ELSE m
<1>1. /\ r \in Mpds /\ MpdRight(r) /\ r.queue = m.queue /\ r.next = m.next
      /\ mine /\ spot.song = NoTrack => r.state = "stop"
      /\ mine /\ spot.song # NoTrack /\ spot.song \in m.queue => r.song = spot.song
      /\ mine /\ spot.state = "stop" /\ spot.song \in m.queue => r.state = "stop"
      /\ mine /\ spot.state # "play" /\ m.state # "stop" => r.state # "play"
      /\ mine /\ spot.state = "play" /\ m.state = "play" /\ spot.song # NoTrack /\ spot.song \in m.queue
           => r.state = "play"
      /\ ~mine => r = m
  BY RestoreRight
<1>2. n = IF extra # NoTrack THEN Delete(r, extra) ELSE r BY DEF GivenBack
<1> HIDE DEF r
<1>3. CASE extra # NoTrack
  <2>1. n = Delete(r, extra) BY <1>2, <1>3
  <2>2. /\ n \in Mpds /\ MpdRight(n)
        /\ n.queue = r.queue \ {extra} /\ n.next = r.next
        /\ r.song # extra => n.song = r.song /\ n.state = r.state
        /\ r.song = extra => n.song = NoTrack /\ n.state = "stop"
    BY <2>1, <1>1, DeleteRight
  <2> QED BY <2>2, <1>1, <1>3 DEF GivenRight
<1>4. CASE extra = NoTrack
  <2>1. n = r BY <1>2, <1>4
  <2>2. \A id \in m.queue : id \in n.queue BY <2>1, <1>1
  <2> QED BY <2>1, <2>2, <1>1, <1>4 DEF GivenRight
<1> QED BY <1>3, <1>4
-----------------------------------------------------------------------------
\* What a borrower does to its own record.
SamePlace(c, b) ==
  c.on = b.on /\ c.taken = b.taken /\ c.leaving = b.leaving /\ c.over = b.over /\ c.done = b.done
Borrowing(c, b, spot) ==
  /\ c \in Borrowers /\ SamePlace(c, b)
  /\ c.borrowed /\ c.extra = NoTrack /\ c.spot = spot /\ c.far = b.far
GoingOn(c, b, id) ==
  /\ c \in Borrowers /\ SamePlace(c, b)
  /\ c.borrowed = b.borrowed /\ c.extra = id /\ c.spot = b.spot /\ c.far = "start"
Returning(c, b) ==
  /\ c \in Borrowers /\ SamePlace(c, b)
  /\ ~c.borrowed /\ c.extra = NoTrack /\ c.spot = b.spot /\ c.far = b.far

\* The records that Borrow, NextExtra and HandBack make.
LEMMA BorrowedSo == ASSUME NEW b \in Borrowers, NEW spot \in Spots
  PROVE Borrowing([b EXCEPT !.borrowed = TRUE, !.extra = NoTrack, !.spot = spot], b, spot)
BY NoTrackInt DEF Borrowers, Borrowing, SamePlace

LEMMA GoneOnSo == ASSUME NEW b \in Borrowers, NEW id \in Int
  PROVE GoingOn([b EXCEPT !.extra = id, !.far = "start"], b, id)
BY DEF Borrowers, GoingOn, SamePlace

LEMMA ReturnedSo == ASSUME NEW b \in Borrowers
  PROVE Returning([b EXCEPT !.extra = NoTrack, !.borrowed = FALSE], b)
BY NoTrackInt DEF Borrowers, Returning, SamePlace

\* Where MPD is, and that the spot borrowed is there.
Now(m) == SpotOf(m, TRUE)
LEMMA SpotOfTyped == ASSUME NEW m \in Mpds, NEW up \in BOOLEAN
  PROVE /\ SpotOf(m, up) \in Spots /\ Now(m) \in Spots
        /\ Now(m).song = m.song /\ Now(m).state = m.state
        /\ up => SpotOf(m, up) = Now(m)
BY MpdTypes, NoTrackInt DEF Now, SpotOf, Spots, States

\* What playback is in a state, whatever the screen.
LEMMA PlayerBorrows == ASSUME NEW s \in Scrs, NEW up \in BOOLEAN, NEW t, t = Borrow(s, "player", up)
  PROVE /\ t \in Scrs /\ SameScreen(t, s) /\ t.mpd = s.mpd /\ t.quiz = s.quiz
        /\ IF s.player.borrowed THEN t = s
           ELSE t.suspended /\ Borrowing(t.player, s.player, SpotOf(s.mpd, up))
<1>1. CASE s.player.borrowed BY <1>1 DEF Borrow, SameScreen
<1>2. CASE ~s.player.borrowed
  <2> DEFINE p == [s.player EXCEPT !.borrowed = TRUE, !.extra = NoTrack, !.spot = SpotOf(s.mpd, up)]
  <2>0. SpotOf(s.mpd, up) \in Spots /\ s.player \in Borrowers BY ScrTypes, SpotOfTyped
  <2>1. p \in Borrowers /\ Borrowing(p, s.player, SpotOf(s.mpd, up)) BY <2>0, BorrowedSo DEF Borrowing
  <2>2. t = [s EXCEPT !.player = p, !.suspended = TRUE] BY <1>2 DEF Borrow
  <2> HIDE DEF p
  <2>3. t \in Scrs /\ SameScreen(t, s) /\ t.mpd = s.mpd /\ t.quiz = s.quiz /\ t.suspended /\ t.player = p
    BY <2>1, <2>2 DEF Scrs, SameScreen
  <2> QED BY <2>1, <2>3, <1>2
<1> QED BY <1>1, <1>2

\* The player's next video in a state, ...
LEMMA PlayerGoesOn == ASSUME NEW s \in Scrs, NEW ans \in MpdAnswers, NEW t, t = NextExtra(s, "player", ans),
    NextMpd(s.mpd, s.player.extra, ans) \in Mpds
  PROVE /\ t \in Scrs /\ SameScreen(t, s) /\ t.quiz = s.quiz /\ t.suspended = s.suspended
        /\ t.mpd = NextMpd(s.mpd, s.player.extra, ans)
        /\ GoingOn(t.player, s.player, IF ans = "ok" THEN s.mpd.next ELSE NoTrack)
<1> DEFINE id == IF ans = "ok" THEN s.mpd.next ELSE NoTrack
           p == [s.player EXCEPT !.extra = id, !.far = "start"]
           n == NextMpd(s.mpd, s.player.extra, ans)
<1>1. id \in Int BY ScrTypes, MpdTypes, NoTrackInt
<1>3. t = [s EXCEPT !.mpd = n, !.player = p] BY DEF NextExtra, NextMpd
<1> HIDE DEF id
<1>2. p \in Borrowers /\ GoingOn(p, s.player, id) BY <1>1, ScrTypes, GoneOnSo DEF GoingOn
<1> HIDE DEF p, n
<1>4. t \in Scrs /\ SameScreen(t, s) /\ t.mpd = n /\ t.quiz = s.quiz /\ t.suspended = s.suspended /\ t.player = p
  BY <1>2, <1>3 DEF Scrs, SameScreen, n
<1> QED BY <1>2, <1>4 DEF n, id

\* ... the quiz borrowing, ...
LEMMA QuizBorrows == ASSUME NEW s \in Scrs, NEW up \in BOOLEAN, NEW t, t = Borrow(s, "quiz", up)
  PROVE /\ t \in Scrs /\ SameScreen(t, s) /\ t.mpd = s.mpd /\ t.player = s.player
        /\ IF s.quiz.borrowed THEN t = s
           ELSE t.suspended /\ Borrowing(t.quiz, s.quiz, SpotOf(s.mpd, up))
<1>1. CASE s.quiz.borrowed BY <1>1 DEF Borrow, SameScreen
<1>2. CASE ~s.quiz.borrowed
  <2> DEFINE p == [s.quiz EXCEPT !.borrowed = TRUE, !.extra = NoTrack, !.spot = SpotOf(s.mpd, up)]
  <2>0. SpotOf(s.mpd, up) \in Spots /\ s.quiz \in Borrowers BY ScrTypes, SpotOfTyped
  <2>1. p \in Borrowers /\ Borrowing(p, s.quiz, SpotOf(s.mpd, up)) BY <2>0, BorrowedSo DEF Borrowing
  <2>2. t = [s EXCEPT !.quiz = p, !.suspended = TRUE] BY <1>2 DEF Borrow
  <2> HIDE DEF p
  <2>3. t \in Scrs /\ SameScreen(t, s) /\ t.mpd = s.mpd /\ t.player = s.player /\ t.suspended /\ t.quiz = p
    BY <2>1, <2>2 DEF Scrs, SameScreen
  <2> QED BY <2>1, <2>3, <1>2
<1> QED BY <1>1, <1>2

\* ... its next song, ...
LEMMA QuizGoesOn == ASSUME NEW s \in Scrs, NEW ans \in MpdAnswers, NEW t, t = NextExtra(s, "quiz", ans),
    NextMpd(s.mpd, s.quiz.extra, ans) \in Mpds
  PROVE /\ t \in Scrs /\ SameScreen(t, s) /\ t.player = s.player /\ t.suspended = s.suspended
        /\ t.mpd = NextMpd(s.mpd, s.quiz.extra, ans)
        /\ GoingOn(t.quiz, s.quiz, IF ans = "ok" THEN s.mpd.next ELSE NoTrack)
<1> DEFINE id == IF ans = "ok" THEN s.mpd.next ELSE NoTrack
           p == [s.quiz EXCEPT !.extra = id, !.far = "start"]
           n == NextMpd(s.mpd, s.quiz.extra, ans)
<1>1. id \in Int BY ScrTypes, MpdTypes, NoTrackInt
<1>3. t = [s EXCEPT !.mpd = n, !.quiz = p] BY DEF NextExtra, NextMpd
<1> HIDE DEF id
<1>2. p \in Borrowers /\ GoingOn(p, s.quiz, id) BY <1>1, ScrTypes, GoneOnSo DEF GoingOn
<1> HIDE DEF p, n
<1>4. t \in Scrs /\ SameScreen(t, s) /\ t.mpd = n /\ t.player = s.player /\ t.suspended = s.suspended /\ t.quiz = p
  BY <1>2, <1>3 DEF Scrs, SameScreen, n
<1> QED BY <1>2, <1>4 DEF n, id

\* ... the player giving back, paused, ...
LEMMA PlayerGivesBack == ASSUME NEW s \in Scrs, NEW up \in BOOLEAN, s.player.borrowed, MpdRight(s.mpd),
    NEW t, t = GiveBack(s, up)
  PROVE /\ t \in Scrs /\ SameScreen(t, s) /\ t.quiz = s.quiz /\ ~t.suspended
        /\ Returning(t.player, s.player)
        /\ ~up => t.mpd = s.mpd
        /\ \E spot \in Spots : /\ spot.song = s.player.spot.song /\ spot.state # "play"
                               /\ s.player.spot.state = "stop" => spot.state = "stop"
                               /\ up => t.mpd = GivenBack(s.mpd, spot, ~s.player.taken, s.player.extra)
<1> DEFINE spot == [s.player.spot EXCEPT !.state = IF @ = "play" THEN "pause" ELSE @]
           p == [s.player EXCEPT !.extra = NoTrack, !.borrowed = FALSE]
           mine == ~s.player.taken
           n == GivenBack(s.mpd, spot, mine, s.player.extra)
<1>1. s.player \in Borrowers /\ s.mpd \in Mpds BY ScrTypes
<1>2. s.player.spot \in Spots /\ s.player.extra \in Int /\ mine \in BOOLEAN BY <1>1, BorrowerTypes
<1>3. /\ spot \in Spots /\ spot.song = s.player.spot.song /\ spot.state # "play"
      /\ s.player.spot.state = "stop" => spot.state = "stop"
  BY <1>2 DEF Spots, States
<1>4. p \in Borrowers /\ Returning(p, s.player) BY <1>1, ReturnedSo DEF Returning
<1>5. n \in Mpds
  <2> HIDE DEF spot, mine
  <2> QED BY <1>1, <1>2, <1>3, GivenBackRight DEF GivenRight
<1>6. CASE up
  <2>1. t = [s EXCEPT !.mpd = n, !.player = p, !.suspended = FALSE]
    BY <1>6 DEF GiveBack, HandBack, GivenBack
  <2> HIDE DEF p, n
  <2>2. t \in Scrs /\ SameScreen(t, s) /\ t.mpd = n /\ t.quiz = s.quiz /\ ~t.suspended /\ t.player = p
    BY <2>1, <1>4, <1>5 DEF Scrs, SameScreen
  <2> QED BY <2>2, <1>3, <1>4, <1>6 DEF n
<1>7. CASE ~up
  <2>1. t.mpd = s.mpd /\ t = [s EXCEPT !.mpd = s.mpd, !.player = p, !.suspended = FALSE]
    BY <1>7, <1>1 DEF GiveBack, HandBack, Scrs
  <2> HIDE DEF p
  <2>2. t \in Scrs /\ SameScreen(t, s) /\ t.quiz = s.quiz /\ ~t.suspended /\ t.player = p
    BY <2>1, <1>1, <1>4 DEF Scrs, SameScreen
  <2> QED BY <2>1, <2>2, <1>3, <1>4, <1>7
<1> QED BY <1>6, <1>7

\* ... and the quiz, at its song only.
LEMMA QuizHandsBack == ASSUME NEW s \in Scrs, NEW up \in BOOLEAN, s.quiz.borrowed, MpdRight(s.mpd),
    NEW t, t = QuizGivesBack(s, up)
  PROVE /\ t \in Scrs /\ SameScreen(t, s) /\ t.player = s.player /\ ~t.suspended
        /\ Returning(t.quiz, s.quiz)
        /\ ~up => t.mpd = s.mpd
        /\ up => t.mpd = GivenBack(s.mpd, s.quiz.spot,
                                  s.quiz.extra # NoTrack /\ s.mpd.song = s.quiz.extra, s.quiz.extra)
<1> DEFINE p == [s.quiz EXCEPT !.extra = NoTrack, !.borrowed = FALSE]
           mine == s.quiz.extra # NoTrack /\ s.mpd.song = s.quiz.extra
           n == GivenBack(s.mpd, s.quiz.spot, mine, s.quiz.extra)
<1>1. s.quiz \in Borrowers /\ s.mpd \in Mpds BY ScrTypes
<1>2. s.quiz.spot \in Spots /\ s.quiz.extra \in Int /\ mine \in BOOLEAN BY <1>1, BorrowerTypes
<1>4. p \in Borrowers /\ Returning(p, s.quiz) BY <1>1, ReturnedSo DEF Returning
<1>5. n \in Mpds
  <2> HIDE DEF mine
  <2> QED BY <1>1, <1>2, GivenBackRight DEF GivenRight
<1>6. CASE up
  <2>1. t = [s EXCEPT !.mpd = n, !.quiz = p, !.suspended = FALSE]
    BY <1>6 DEF QuizGivesBack, HandBack, GivenBack
  <2> HIDE DEF p, n
  <2>2. t \in Scrs /\ SameScreen(t, s) /\ t.mpd = n /\ t.player = s.player /\ ~t.suspended /\ t.quiz = p
    BY <2>1, <1>4, <1>5 DEF Scrs, SameScreen
  <2> QED BY <2>2, <1>4, <1>6 DEF n
<1>7. CASE ~up
  <2>1. t = [s EXCEPT !.mpd = s.mpd, !.quiz = p, !.suspended = FALSE]
    BY <1>7, <1>1 DEF QuizGivesBack, HandBack, Scrs
  <2> HIDE DEF p
  <2>2. t \in Scrs /\ SameScreen(t, s) /\ t.player = s.player /\ ~t.suspended /\ t.quiz = p /\ t.mpd = s.mpd
    BY <2>1, <1>1, <1>4 DEF Scrs, SameScreen
  <2> QED BY <2>2, <1>4, <1>7
<1> QED BY <1>6, <1>7
-----------------------------------------------------------------------------
\* Playback is lent alike in two states that agree on it.
SameBorrower(c, b) ==
  /\ c.borrowed = b.borrowed /\ c.extra = b.extra /\ (c.taken => b.taken)
  /\ c.borrowed => c.spot = b.spot
  /\ c.extra # NoTrack => c.far = b.far
LEMMA LentSame == ASSUME NEW s, NEW t, NEW w, NEW r, NEW o, NEW l, Lent(s, w, r, o, l),
    t.mpd = s.mpd, t.suspended = s.suspended, SameBorrower(t.player, s.player), SameBorrower(t.quiz, s.quiz)
  PROVE Lent(t, w, r, o, l)
<1>1. BorrowersRight(t) BY DEF Lent, BorrowersRight, ExtraRight, SameBorrower
<1>2. l \/ Clean(t) BY DEF Lent, Clean, SameBorrower
<1>3. ~o => OwedBack(t, w, r) /\ ~t.player.taken
  <2> SUFFICES ASSUME ~o PROVE OwedBack(t, w, r) /\ ~t.player.taken OBVIOUS
  <2>1. OwedBack(s, w, r) /\ ~s.player.taken BY DEF Lent
  <2> QED BY <2>1 DEF OwedBack, SameBorrower
<1> QED BY <1>1, <1>2, <1>3 DEF Lent

\* With nobody borrowing, what MPD plays is what was there.
Nobody(s) == ~s.player.borrowed /\ ~s.quiz.borrowed
LEMMA LentAfresh == ASSUME NEW s, NEW w, NEW r, NEW o, NEW l, Lent(s, w, r, o, l), Nobody(s), ~s.player.taken,
    NEW now, now = Now(s.mpd)
  PROVE Lent(s, now, FALSE, FALSE, l)
<1>1. s.player.extra = NoTrack BY DEF Lent, BorrowersRight, ExtraRight, Nobody
<1>2. now.song = s.mpd.song BY DEF Now, SpotOf
<1>3. OwedBack(s, now, FALSE) BY <1>1, <1>2 DEF Lent, OwedBack, MpdRight, Nobody
<1> QED BY <1>3 DEF Lent

\* A video.
LEMMA StartVideoLent == ASSUME NEW s \in Scrs, NEW w \in Spots, NEW r \in BOOLEAN, NEW o \in BOOLEAN, NEW l \in BOOLEAN,
    Lent(s, w, r, o, l), Nobody(s) => w = Now(s.mpd) /\ ~r, NEW ans \in MpdAnswers, NEW t, t = StartVideo(s, ans)
  PROVE /\ t \in Scrs /\ SameScreen(t, s) /\ t.quiz = s.quiz /\ t.player.borrowed
        /\ t.player.on = s.player.on /\ t.player.leaving = s.player.leaving
        /\ t.player.taken = s.player.taken
        /\ Lent(t, w, r, o \/ ans = "down", l \/ ans = "down")
<1> DEFINE v == Borrow(s, "player", ans # "down")
<1>1. /\ v \in Scrs /\ SameScreen(v, s) /\ v.mpd = s.mpd /\ v.quiz = s.quiz
      /\ s.player.borrowed => v = s
      /\ ~s.player.borrowed => v.suspended /\ Borrowing(v.player, s.player, SpotOf(s.mpd, ans # "down"))
  BY PlayerBorrows
<1>2. t = NextExtra(v, "player", ans) BY DEF StartVideo
<1> HIDE DEF v
<1>3. s.player \in Borrowers /\ s.quiz \in Borrowers /\ s.mpd \in Mpds /\ v.player \in Borrowers
  BY <1>1, ScrTypes
<1>4. /\ SpotOf(s.mpd, ans # "down") \in Spots
      /\ ans # "down" => SpotOf(s.mpd, ans # "down") = Now(s.mpd)
      /\ Now(s.mpd).song = s.mpd.song /\ Now(s.mpd).state = s.mpd.state
  BY <1>3, SpotOfTyped
<1>5. /\ v.player.borrowed /\ v.suspended
      /\ v.player.on = s.player.on /\ v.player.leaving = s.player.leaving /\ v.player.taken = s.player.taken
      /\ v.player.extra = s.player.extra
      /\ s.player.borrowed => v.player.spot = s.player.spot
      /\ ~s.player.borrowed /\ ans # "down" => v.player.spot = Now(s.mpd)
  <2>1. s.player.borrowed => s.suspended BY DEF Lent, BorrowersRight
  <2>2. ~s.player.borrowed => s.player.extra = NoTrack BY DEF Lent, BorrowersRight, ExtraRight
  <2>3. CASE s.player.borrowed BY <1>1, <2>1, <2>3
  <2>4. CASE ~s.player.borrowed BY <1>1, <1>4, <2>2, <2>4 DEF Borrowing, SamePlace
  <2> QED BY <2>3, <2>4
<1>6. /\ MpdRight(s.mpd) /\ s.player.extra \in Int /\ s.quiz.extra \in Int /\ s.mpd.next \in Nat
      /\ s.player.extra < s.mpd.next /\ s.mpd.next >= 1
      /\ s.player.extra # NoTrack => s.player.extra > 0
  BY <1>3, BorrowerTypes, MpdTypes, NoTrackInt DEF Lent, BorrowersRight, ExtraRight, MpdRight
<1> DEFINE n == NextMpd(s.mpd, s.player.extra, ans)
<1>7. /\ n \in Mpds /\ MpdRight(n)
      /\ n.next = IF ans = "ok" THEN s.mpd.next + 1 ELSE s.mpd.next
      /\ \A id \in n.queue : id \in s.mpd.queue \/ (ans = "ok" /\ id = s.mpd.next)
      /\ ans # "down" /\ s.player.extra # NoTrack => s.player.extra \notin n.queue
      /\ \A id \in s.mpd.queue : id # s.player.extra => id \in n.queue
      /\ ans = "ok" => n.song = s.mpd.next /\ s.mpd.next \in n.queue
      /\ ans = "down" => n = s.mpd
  BY <1>3, <1>6, NextMpdRight
<1> HIDE DEF n
<1>8. /\ t \in Scrs /\ SameScreen(t, v) /\ t.quiz = v.quiz /\ t.suspended = v.suspended /\ t.mpd = n
      /\ GoingOn(t.player, v.player, IF ans = "ok" THEN s.mpd.next ELSE NoTrack)
  <2>1. n = NextMpd(v.mpd, v.player.extra, ans) BY <1>1, <1>5 DEF n
  <2>2. NextMpd(v.mpd, v.player.extra, ans) \in Mpds BY <1>7, <2>1
  <2>3. /\ t \in Scrs /\ SameScreen(t, v) /\ t.quiz = v.quiz /\ t.suspended = v.suspended
        /\ t.mpd = NextMpd(v.mpd, v.player.extra, ans)
        /\ GoingOn(t.player, v.player, IF ans = "ok" THEN v.mpd.next ELSE NoTrack)
    BY <1>1, <1>2, <2>2, PlayerGoesOn
  <2> QED BY <1>1, <2>1, <2>3
<1>9. /\ t.player.borrowed /\ t.player.extra = (IF ans = "ok" THEN s.mpd.next ELSE NoTrack)
      /\ t.player.spot = v.player.spot /\ t.player.on = v.player.on /\ t.player.leaving = v.player.leaving
      /\ t.player.taken = v.player.taken /\ t.player.far = "start"
  BY <1>5, <1>8 DEF GoingOn, SamePlace
<1>10. SameScreen(t, s) BY <1>1, <1>8 DEF SameScreen
<1>11. BorrowersRight(t)
  BY <1>1, <1>5, <1>6, <1>7, <1>8, <1>9, NoTrackInt DEF Lent, BorrowersRight, ExtraRight
<1>12. l \/ ans = "down" \/ Clean(t)
  BY <1>1, <1>6, <1>7, <1>8, <1>9, NoTrackInt DEF Lent, Clean
<1>13. ASSUME ~o, ans # "down" PROVE OwedBack(t, w, r) /\ ~t.player.taken
  <2>1. OwedBack(s, w, r) /\ ~s.player.taken BY <1>13 DEF Lent
  <2>2. /\ w.song # NoTrack => w.song \in s.mpd.queue /\ w.song # s.player.extra /\ w.song # s.quiz.extra
        /\ w.song = NoTrack => w.state = "stop"
    <3>1. CASE s.player.borrowed \/ s.quiz.borrowed BY <3>1, <2>1 DEF OwedBack
    <3>2. CASE Nobody(s)
      <4>1. w.song = s.mpd.song /\ w.state = s.mpd.state BY <3>2, <1>4
      <4>2. s.player.extra = NoTrack /\ s.quiz.extra = NoTrack BY <3>2 DEF Lent, BorrowersRight, ExtraRight, Nobody
      <4> QED BY <4>1, <4>2, <1>6 DEF MpdRight
    <3> QED BY <3>1, <3>2 DEF Nobody
  <2>3. ~s.quiz.borrowed => v.player.spot = w BY <2>1, <1>5, <1>13 DEF OwedBack, Nobody
  <2>4. s.quiz.borrowed /\ ~r => /\ v.player.spot.song = s.quiz.extra
                                 /\ s.quiz.extra # NoTrack /\ s.quiz.extra \in s.mpd.queue
    BY <2>1, <1>4, <1>5, <1>13 DEF OwedBack
  <2>5. w.song # NoTrack => w.song \in t.mpd.queue /\ w.song # t.player.extra /\ w.song # t.quiz.extra
    BY <2>2, <1>1, <1>6, <1>7, <1>8, <1>9, NoTrackInt DEF MpdRight
  <2>6. s.quiz.borrowed /\ ~r => s.quiz.extra \in t.mpd.queue
    <3>1. s.quiz.extra # NoTrack => s.quiz.extra # s.player.extra BY DEF Lent, BorrowersRight
    <3> QED BY <2>4, <3>1, <1>7, <1>8
  <2>7. t.quiz = s.quiz BY <1>1, <1>8
  <2> QED BY <2>1, <2>2, <2>3, <2>4, <2>5, <2>6, <2>7, <1>5, <1>9 DEF OwedBack
<1> QED BY <1>1, <1>5, <1>7, <1>8, <1>9, <1>10, <1>11, <1>12, <1>13 DEF Lent

\* A quiz's song, with no video over it; when MPD does not play it the quiz only
\* remembers the music there was, until it plays another.
LEMMA QuizSongLent == ASSUME NEW s \in Scrs, NEW w \in Spots, NEW r \in BOOLEAN, NEW o \in BOOLEAN, NEW l \in BOOLEAN,
    Lent(s, w, r, o, l), Nobody(s) => w = Now(s.mpd) /\ ~r, ~s.player.borrowed, NEW ans \in MpdAnswers,
    NEW t, t = NextExtra(Borrow(s, "quiz", ans # "down"), "quiz", ans)
  PROVE /\ t \in Scrs /\ SameScreen(t, s) /\ t.player = s.player /\ t.quiz.borrowed
        /\ t.quiz.on = s.quiz.on /\ t.quiz.done = s.quiz.done
        /\ ans # "ok" => t.quiz.extra = NoTrack
        /\ ans # "ok" /\ ~s.quiz.borrowed => t.mpd = s.mpd
        /\ Lent(t, w, ans # "ok", o \/ ans = "down", l \/ ans = "down")
<1> DEFINE v == Borrow(s, "quiz", ans # "down")
<1>1. /\ v \in Scrs /\ SameScreen(v, s) /\ v.mpd = s.mpd /\ v.player = s.player
      /\ s.quiz.borrowed => v = s
      /\ ~s.quiz.borrowed => v.suspended /\ Borrowing(v.quiz, s.quiz, SpotOf(s.mpd, ans # "down"))
  BY QuizBorrows
<1>2. t = NextExtra(v, "quiz", ans) OBVIOUS
<1> HIDE DEF v
<1>3. s.player \in Borrowers /\ s.quiz \in Borrowers /\ s.mpd \in Mpds /\ v.quiz \in Borrowers
  BY <1>1, ScrTypes
<1>4. /\ SpotOf(s.mpd, ans # "down") \in Spots
      /\ ans # "down" => SpotOf(s.mpd, ans # "down") = Now(s.mpd)
      /\ Now(s.mpd).song = s.mpd.song /\ Now(s.mpd).state = s.mpd.state
  BY <1>3, SpotOfTyped
<1>5. /\ v.quiz.borrowed /\ (v.suspended \/ v.suspended = s.suspended)
      /\ v.quiz.on = s.quiz.on /\ v.quiz.done = s.quiz.done
      /\ v.quiz.extra = s.quiz.extra
      /\ s.quiz.borrowed => v.quiz.spot = s.quiz.spot
      /\ ~s.quiz.borrowed /\ ans # "down" => v.quiz.spot = Now(s.mpd)
  <2>2. ~s.quiz.borrowed => s.quiz.extra = NoTrack BY DEF Lent, BorrowersRight, ExtraRight
  <2>3. CASE s.quiz.borrowed BY <1>1, <2>3
  <2>4. CASE ~s.quiz.borrowed BY <1>1, <1>4, <2>2, <2>4 DEF Borrowing, SamePlace
  <2> QED BY <2>3, <2>4
<1>6. /\ MpdRight(s.mpd) /\ s.player.extra = NoTrack /\ s.quiz.extra \in Int /\ s.mpd.next \in Nat
      /\ s.quiz.extra < s.mpd.next /\ s.mpd.next >= 1
      /\ s.quiz.extra # NoTrack => s.quiz.extra > 0
  BY <1>3, BorrowerTypes, MpdTypes, NoTrackInt DEF Lent, BorrowersRight, ExtraRight, MpdRight
<1> DEFINE n == NextMpd(s.mpd, s.quiz.extra, ans)
<1>7. /\ n \in Mpds /\ MpdRight(n)
      /\ n.next = IF ans = "ok" THEN s.mpd.next + 1 ELSE s.mpd.next
      /\ \A id \in n.queue : id \in s.mpd.queue \/ (ans = "ok" /\ id = s.mpd.next)
      /\ ans # "down" /\ s.quiz.extra # NoTrack => s.quiz.extra \notin n.queue
      /\ \A id \in s.mpd.queue : id # s.quiz.extra => id \in n.queue
      /\ ans = "ok" => n.song = s.mpd.next /\ s.mpd.next \in n.queue
      /\ ans = "down" => n = s.mpd
  BY <1>3, <1>6, NextMpdRight
<1>16. ans # "ok" /\ s.quiz.extra = NoTrack => n = s.mpd BY DEF NextMpd
<1> HIDE DEF n
<1>8. /\ t \in Scrs /\ SameScreen(t, v) /\ t.player = v.player /\ t.suspended = v.suspended /\ t.mpd = n
      /\ GoingOn(t.quiz, v.quiz, IF ans = "ok" THEN s.mpd.next ELSE NoTrack)
  <2>1. n = NextMpd(v.mpd, v.quiz.extra, ans) BY <1>1, <1>5 DEF n
  <2>2. NextMpd(v.mpd, v.quiz.extra, ans) \in Mpds BY <1>7, <2>1
  <2>3. /\ t \in Scrs /\ SameScreen(t, v) /\ t.player = v.player /\ t.suspended = v.suspended
        /\ t.mpd = NextMpd(v.mpd, v.quiz.extra, ans)
        /\ GoingOn(t.quiz, v.quiz, IF ans = "ok" THEN v.mpd.next ELSE NoTrack)
    BY <1>1, <1>2, <2>2, QuizGoesOn
  <2> QED BY <1>1, <2>1, <2>3
<1>9. /\ t.quiz.borrowed /\ t.quiz.extra = (IF ans = "ok" THEN s.mpd.next ELSE NoTrack)
      /\ t.quiz.spot = v.quiz.spot /\ t.quiz.on = v.quiz.on /\ t.quiz.done = v.quiz.done
  BY <1>5, <1>8 DEF GoingOn, SamePlace
<1>10. SameScreen(t, s) BY <1>1, <1>8 DEF SameScreen
<1>11. BorrowersRight(t)
  BY <1>1, <1>5, <1>6, <1>7, <1>8, <1>9, NoTrackInt DEF Lent, BorrowersRight, ExtraRight
<1>12. l \/ ans = "down" \/ Clean(t)
  BY <1>1, <1>6, <1>7, <1>8, <1>9, NoTrackInt DEF Lent, Clean
<1>13. ASSUME ~o, ans # "down" PROVE OwedBack(t, w, ans # "ok") /\ ~t.player.taken
  <2>1. OwedBack(s, w, r) /\ ~s.player.taken BY <1>13 DEF Lent
  <2>2. /\ v.quiz.spot = w
        /\ w.song # NoTrack => w.song \in s.mpd.queue /\ w.song # s.quiz.extra
        /\ w.song = NoTrack => w.state = "stop"
    <3>1. CASE s.quiz.borrowed BY <3>1, <2>1, <1>5 DEF OwedBack
    <3>2. CASE ~s.quiz.borrowed
      <4>1. s.quiz.extra = NoTrack BY <3>2 DEF Lent, BorrowersRight, ExtraRight
      <4>2. w = Now(s.mpd) BY <3>2 DEF Nobody
      <4> QED BY <4>1, <4>2, <3>2, <1>4, <1>5, <1>6, <1>13 DEF MpdRight
    <3> QED BY <3>1, <3>2
  <2>3. w.song # NoTrack => w.song \in t.mpd.queue /\ w.song # t.quiz.extra
    BY <2>2, <1>6, <1>7, <1>8, <1>9, <1>13, NoTrackInt DEF MpdRight
  <2>4. ans = "ok" => t.mpd.song = t.quiz.extra /\ t.quiz.extra # NoTrack /\ t.quiz.extra \in t.mpd.queue
    BY <1>6, <1>7, <1>8, <1>9, <1>13, NoTrackInt
  <2>5. t.quiz.spot = w /\ t.player = s.player BY <2>2, <1>1, <1>8, <1>9
  <2> QED BY <2>1, <2>2, <2>3, <2>4, <2>5, <1>6, <1>9 DEF OwedBack
<1>14. (ans # "ok" => t.quiz.extra = NoTrack) /\ (ans # "ok" /\ ~s.quiz.borrowed => t.mpd = s.mpd)
  BY <1>8, <1>9, <1>16 DEF Lent, BorrowersRight, ExtraRight
<1> QED BY <1>1, <1>5, <1>7, <1>8, <1>9, <1>10, <1>11, <1>12, <1>13, <1>14 DEF Lent

\* The player gives back.
LEMMA GiveBackLent == ASSUME NEW s \in Scrs, NEW w \in Spots, NEW r \in BOOLEAN, NEW o \in BOOLEAN, NEW l \in BOOLEAN,
    Lent(s, w, r, o, l), NEW up \in BOOLEAN, NEW t, t = GiveBack(s, up)
  PROVE /\ t \in Scrs /\ SameScreen(t, s) /\ t.quiz = s.quiz
        /\ ~t.player.borrowed /\ t.player.extra = NoTrack
        /\ SamePlace(t.player, s.player)
        /\ Lent(t, w, r, o \/ ~up, l \/ ~up) /\ HandedBack(s, t, w, r, o \/ ~up)
<1>1. CASE ~s.player.borrowed
  <2>1. t = s BY <1>1 DEF GiveBack
  <2>2. s.player.extra = NoTrack BY <1>1 DEF Lent, BorrowersRight, ExtraRight
  <2>3. Lent(s, w, r, o \/ ~up, l \/ ~up) /\ HandedBack(s, s, w, r, o \/ ~up) BY DEF Lent, HandedBack
  <2> QED BY <1>1, <2>1, <2>2, <2>3 DEF SameScreen, SamePlace
<1>2. CASE s.player.borrowed
  <2>1. s.player \in Borrowers /\ s.quiz \in Borrowers /\ s.mpd \in Mpds BY ScrTypes
  <2>2. /\ MpdRight(s.mpd) /\ s.player.extra \in Int /\ s.player.taken \in BOOLEAN
    BY <2>1, BorrowerTypes DEF Lent
  <2>3. /\ t \in Scrs /\ SameScreen(t, s) /\ t.quiz = s.quiz /\ ~t.suspended
        /\ Returning(t.player, s.player)
        /\ ~up => t.mpd = s.mpd
        /\ \E spot \in Spots : /\ spot.song = s.player.spot.song /\ spot.state # "play"
                               /\ s.player.spot.state = "stop" => spot.state = "stop"
                               /\ up => t.mpd = GivenBack(s.mpd, spot, ~s.player.taken, s.player.extra)
    BY <1>2, <2>2, PlayerGivesBack
  <2>4. PICK spot \in Spots : /\ spot.song = s.player.spot.song /\ spot.state # "play"
                              /\ s.player.spot.state = "stop" => spot.state = "stop"
                              /\ up => t.mpd = GivenBack(s.mpd, spot, ~s.player.taken, s.player.extra)
    BY <2>3
  <2>5. ~t.player.borrowed /\ t.player.extra = NoTrack /\ SamePlace(t.player, s.player) /\ t.player.taken = s.player.taken
    BY <2>3 DEF Returning, SamePlace
  <2>6. up => /\ t.mpd \in Mpds /\ MpdRight(t.mpd) /\ t.mpd.next = s.mpd.next
              /\ \A id \in t.mpd.queue : id \in s.mpd.queue
              /\ s.player.extra # NoTrack => s.player.extra \notin t.mpd.queue
              /\ \A id \in s.mpd.queue : id # s.player.extra => id \in t.mpd.queue
              /\ ~s.player.taken /\ spot.song = NoTrack => t.mpd.state = "stop"
              /\ ~s.player.taken /\ spot.song # NoTrack /\ spot.song \in s.mpd.queue /\ spot.song # s.player.extra
                   => t.mpd.song = spot.song
              /\ ~s.player.taken /\ spot.state = "stop" /\ spot.song \in s.mpd.queue => t.mpd.state = "stop"
              /\ ~s.player.taken /\ s.mpd.state # "stop" => t.mpd.state # "play"
    <3> SUFFICES ASSUME up
                 PROVE  /\ t.mpd \in Mpds /\ MpdRight(t.mpd) /\ t.mpd.next = s.mpd.next
                        /\ \A id \in t.mpd.queue : id \in s.mpd.queue
                        /\ s.player.extra # NoTrack => s.player.extra \notin t.mpd.queue
                        /\ \A id \in s.mpd.queue : id # s.player.extra => id \in t.mpd.queue
                        /\ ~s.player.taken /\ spot.song = NoTrack => t.mpd.state = "stop"
                        /\ ~s.player.taken /\ spot.song # NoTrack /\ spot.song \in s.mpd.queue
                             /\ spot.song # s.player.extra => t.mpd.song = spot.song
                        /\ ~s.player.taken /\ spot.state = "stop" /\ spot.song \in s.mpd.queue => t.mpd.state = "stop"
                        /\ ~s.player.taken /\ s.mpd.state # "stop" => t.mpd.state # "play"
      OBVIOUS
    <3> DEFINE mine == ~s.player.taken
               n == t.mpd
               m == s.mpd
               extra == s.player.extra
    <3>1. n = GivenBack(m, spot, mine, extra) BY <2>4
    <3>2. mine \in BOOLEAN /\ (mine <=> ~s.player.taken) /\ m \in Mpds /\ MpdRight(m) /\ extra \in Int BY <2>1, <2>2
    <3> HIDE DEF mine, n, m, extra
    <3>5. GivenRight(n, m, spot, mine, extra) BY ONLY <2>4, <3>1, <3>2, GivenBackRight
    <3>3. /\ n \in Mpds /\ MpdRight(n) /\ n.next = m.next
          /\ n.queue \subseteq m.queue
          /\ extra # NoTrack => extra \notin n.queue
          /\ \A id \in m.queue : id # extra => id \in n.queue
          /\ mine /\ spot.song = NoTrack => n.state = "stop"
          /\ mine /\ spot.song # NoTrack /\ spot.song \in m.queue /\ spot.song # extra => n.song = spot.song
      BY <3>5 DEF GivenRight
    <3>4. /\ mine /\ spot.state = "stop" /\ spot.song \in m.queue => n.state = "stop"
          /\ mine /\ spot.state # "play" /\ m.state # "stop" => n.state # "play"
      BY <3>5 DEF GivenRight
    <3> QED BY <2>4, <3>2, <3>3, <3>4 DEF n, m, extra
  <2>7. MpdRight(t.mpd) /\ t.mpd.next = s.mpd.next BY <2>2, <2>3, <2>6
  <2>8. BorrowersRight(t) BY <2>3, <2>5, <2>7 DEF Lent, BorrowersRight, ExtraRight
  <2>9. l \/ ~up \/ Clean(t) BY <2>3, <2>5, <2>6, NoTrackInt DEF Lent, Clean
  <2>10. ASSUME ~o, up PROVE OwedBack(t, w, r) /\ ~t.player.taken /\ HandedBack(s, t, w, r, FALSE)
    <3>1. OwedBack(s, w, r) /\ ~s.player.taken BY <2>10 DEF Lent
    <3>2. /\ w.song # NoTrack => w.song \in s.mpd.queue /\ w.song # s.player.extra /\ w.song # s.quiz.extra
          /\ w.song = NoTrack => w.state = "stop"
      BY <3>1, <1>2 DEF OwedBack
    <3>3. CASE s.quiz.borrowed
      <4>1. ~r => spot.song = s.quiz.extra /\ s.quiz.extra # NoTrack /\ s.quiz.extra \in s.mpd.queue
        BY <3>1, <3>3, <1>2, <2>4 DEF OwedBack
      <4>2. s.quiz.extra # NoTrack => s.quiz.extra # s.player.extra BY DEF Lent, BorrowersRight
      <4>3. ~r => t.mpd.song = s.quiz.extra /\ s.quiz.extra \in t.mpd.queue
        BY <4>1, <4>2, <3>1, <2>6, <2>10
      <4>4. s.quiz.spot = w BY <3>1, <3>3 DEF OwedBack
      <4> QED BY <4>1, <4>3, <4>4, <3>1, <3>2, <3>3, <2>3, <2>5, <2>6, <2>10, NoTrackInt
            DEF OwedBack, HandedBack, Lends
    <3>4. CASE ~s.quiz.borrowed
      <4>1. s.player.spot = w BY <3>1, <3>4, <1>2 DEF OwedBack
      <4>2. spot.song = w.song /\ (w.state = "stop" => spot.state = "stop") BY <4>1, <2>4
      <4>3. IF w.song = NoTrack THEN t.mpd.state = "stop" ELSE t.mpd.song = w.song
        BY <4>2, <3>1, <3>2, <2>6, <2>10
      <4>4. w.state = "stop" => t.mpd.state = "stop" BY <4>2, <3>1, <3>2, <2>6, <2>10
      <4>5. t.mpd.state = "play" => s.mpd.state = "stop" BY <3>1, <2>6, <2>10
      <4>6. OwedBack(t, w, r) BY <4>3, <3>4, <2>3, <2>5 DEF OwedBack
      <4> QED BY <4>4, <4>5, <4>6, <3>1, <3>4, <2>5 DEF HandedBack
    <3> QED BY <3>3, <3>4
  <2>11. HandedBack(s, t, w, r, o \/ ~up) BY <2>10 DEF HandedBack
  <2> QED BY <2>3, <2>5, <2>7, <2>8, <2>9, <2>10, <2>11 DEF Lent
<1> QED BY <1>1, <1>2

\* The quiz gives back, with no video over it.
LEMMA QuizGivesBackLent == ASSUME NEW s \in Scrs, NEW w \in Spots, NEW r \in BOOLEAN, NEW o \in BOOLEAN, NEW l \in BOOLEAN,
    Lent(s, w, r, o, l), ~s.player.borrowed, NEW up \in BOOLEAN, NEW t, t = QuizGivesBack(s, up)
  PROVE /\ t \in Scrs /\ SameScreen(t, s) /\ t.player = s.player
        /\ ~t.quiz.borrowed /\ t.quiz.extra = NoTrack
        /\ SamePlace(t.quiz, s.quiz)
        /\ Lent(t, w, r, o \/ ~up, l \/ ~up) /\ HandedBack(s, t, w, r, o \/ ~up)
<1>0. s.player.extra = NoTrack BY DEF Lent, BorrowersRight, ExtraRight
<1>1. CASE ~s.quiz.borrowed
  <2>1. t = s BY <1>1 DEF QuizGivesBack
  <2>2. s.quiz.extra = NoTrack BY <1>1 DEF Lent, BorrowersRight, ExtraRight
  <2>3. Lent(s, w, r, o \/ ~up, l \/ ~up) /\ HandedBack(s, s, w, r, o \/ ~up) BY DEF Lent, HandedBack
  <2> QED BY <1>1, <2>1, <2>2, <2>3 DEF SameScreen, SamePlace
<1>2. CASE s.quiz.borrowed
  <2> DEFINE mine == s.quiz.extra # NoTrack /\ s.mpd.song = s.quiz.extra
  <2>1. s.player \in Borrowers /\ s.quiz \in Borrowers /\ s.mpd \in Mpds BY ScrTypes
  <2>2. MpdRight(s.mpd) /\ s.quiz.extra \in Int /\ mine \in BOOLEAN /\ s.quiz.spot \in Spots
    BY <2>1, BorrowerTypes DEF Lent
  <2>3. /\ t \in Scrs /\ SameScreen(t, s) /\ t.player = s.player /\ ~t.suspended
        /\ Returning(t.quiz, s.quiz)
        /\ ~up => t.mpd = s.mpd
        /\ up => t.mpd = GivenBack(s.mpd, s.quiz.spot, mine, s.quiz.extra)
    BY <1>2, <2>2, QuizHandsBack
  <2>5. ~t.quiz.borrowed /\ t.quiz.extra = NoTrack /\ SamePlace(t.quiz, s.quiz)
    BY <2>3 DEF Returning
  <2>4. mine <=> s.quiz.extra # NoTrack /\ s.mpd.song = s.quiz.extra OBVIOUS
  <2> HIDE DEF mine
  <2>6. up => /\ t.mpd \in Mpds /\ MpdRight(t.mpd) /\ t.mpd.next = s.mpd.next
              /\ \A id \in t.mpd.queue : id \in s.mpd.queue
              /\ s.quiz.extra # NoTrack => s.quiz.extra \notin t.mpd.queue
              /\ mine /\ s.quiz.spot.song = NoTrack => t.mpd.state = "stop"
              /\ mine /\ s.quiz.spot.song # NoTrack /\ s.quiz.spot.song \in s.mpd.queue
                   /\ s.quiz.spot.song # s.quiz.extra => t.mpd.song = s.quiz.spot.song
              /\ mine /\ s.quiz.spot.state = "stop" /\ s.quiz.spot.song \in s.mpd.queue => t.mpd.state = "stop"
              /\ mine /\ s.quiz.spot.state # "play" /\ s.mpd.state # "stop" => t.mpd.state # "play"
              /\ mine /\ s.quiz.spot.state = "play" /\ s.mpd.state = "play" /\ s.quiz.spot.song # NoTrack
                   /\ s.quiz.spot.song \in s.mpd.queue /\ s.quiz.spot.song # s.quiz.extra => t.mpd.state = "play"
    <3> DEFINE n == t.mpd
    <3>1. up => n = GivenBack(s.mpd, s.quiz.spot, mine, s.quiz.extra) BY <2>3
    <3> HIDE DEF n
    <3>2. up => GivenRight(n, s.mpd, s.quiz.spot, mine, s.quiz.extra)
      <4> DEFINE m == s.mpd
                 spot == s.quiz.spot
                 extra == s.quiz.extra
      <4>1. m \in Mpds /\ MpdRight(m) /\ spot \in Spots /\ mine \in BOOLEAN /\ extra \in Int
        BY <2>1, <2>2
      <4>2. up => n = GivenBack(m, spot, mine, extra) BY <3>1
      <4> HIDE DEF m, spot, extra
      <4>3. up => GivenRight(n, m, spot, mine, extra) BY ONLY <4>1, <4>2, GivenBackRight
      <4> QED BY <4>3 DEF m, spot, extra
    <3>3. up => /\ n \in Mpds /\ MpdRight(n) /\ n.next = s.mpd.next
                /\ n.queue \subseteq s.mpd.queue
                /\ s.quiz.extra # NoTrack => s.quiz.extra \notin n.queue
                /\ mine /\ s.quiz.spot.song = NoTrack => n.state = "stop"
                /\ mine /\ s.quiz.spot.song # NoTrack /\ s.quiz.spot.song \in s.mpd.queue
                     /\ s.quiz.spot.song # s.quiz.extra => n.song = s.quiz.spot.song
      BY <3>2 DEF GivenRight
    <3>4. up => /\ mine /\ s.quiz.spot.state = "stop" /\ s.quiz.spot.song \in s.mpd.queue => n.state = "stop"
                /\ mine /\ s.quiz.spot.state # "play" /\ s.mpd.state # "stop" => n.state # "play"
                /\ mine /\ s.quiz.spot.state = "play" /\ s.mpd.state = "play" /\ s.quiz.spot.song # NoTrack
                     /\ s.quiz.spot.song \in s.mpd.queue /\ s.quiz.spot.song # s.quiz.extra => n.state = "play"
      BY <3>2 DEF GivenRight
    <3> QED BY <3>3, <3>4 DEF n
  <2>7. MpdRight(t.mpd) /\ t.mpd.next = s.mpd.next BY <2>2, <2>3, <2>6
  <2>8. BorrowersRight(t) BY <2>3, <2>5, <2>7, <1>0 DEF Lent, BorrowersRight, ExtraRight
  <2>9. l \/ ~up \/ Clean(t) BY <2>3, <2>5, <2>6, NoTrackInt DEF Lent, Clean
  <2>10. ASSUME ~o, up PROVE OwedBack(t, w, r) /\ ~t.player.taken /\ HandedBack(s, t, w, r, FALSE)
    <3>1. OwedBack(s, w, r) /\ ~s.player.taken BY <2>10 DEF Lent
    <3>2. /\ s.quiz.spot = w /\ (~r => mine)
          /\ w.song # NoTrack => w.song \in s.mpd.queue /\ w.song # s.quiz.extra
          /\ w.song = NoTrack => w.state = "stop"
      BY <3>1, <1>2, <2>4 DEF OwedBack
    <3>3. ~r => IF w.song = NoTrack THEN t.mpd.state = "stop" ELSE t.mpd.song = w.song
      BY <3>2, <2>6, <2>10
    <3>4. ~r /\ w.state = "stop" => t.mpd.state = "stop" BY <3>2, <2>6, <2>10
    <3>5. ~r /\ w.state # "play" /\ s.mpd.state # "stop" => t.mpd.state # "play" BY <3>2, <2>6, <2>10
    <3>6. ~r /\ w.state = "play" /\ s.mpd.state = "play" => t.mpd.state = "play" BY <3>2, <2>6, <2>10
    <3>7. OwedBack(t, w, r) BY <3>3, <2>3, <2>5, <1>0 DEF OwedBack
    <3>8. HandedBack(s, t, w, r, FALSE) BY <3>4, <3>5, <3>6, <1>2 DEF HandedBack
    <3> QED BY <3>1, <3>7, <3>8, <2>3
  <2>11. HandedBack(s, t, w, r, o \/ ~up) BY <2>10 DEF HandedBack
  <2> QED BY <2>3, <2>5, <2>7, <2>8, <2>9, <2>10, <2>11 DEF Lent
<1> QED BY <1>1, <1>2
-----------------------------------------------------------------------------
\* The stack.
LEMMA Fronted == ASSUME NEW f \in Seq(Kinds), NEW locked \in BOOLEAN, NEW player \in BOOLEAN,
    NEW q \in BOOLEAN, Stacked(f, locked, player, q), Len(f) > 1
  PROVE /\ Front(f) \in Seq(Kinds) /\ Len(Front(f)) = Len(f) - 1
        /\ Stacked(Front(f), FALSE, FALSE, q /\ TopKind(f) # "quiz")
<1> DEFINE h == Front(f)
<1>1. Len(f) \in Nat BY LenProperties
<1>2. \A i \in 1..(Len(f) - 1) : f[i] \in Kinds BY <1>1, ElementOfSeq
<1>3. /\ h \in Seq(Kinds) /\ Len(h) = Len(f) - 1 /\ \A i \in 1..(Len(f) - 1) : h[i] = f[i]
  <2>1. /\ SubSeq(f, 1, Len(f) - 1) \in Seq(Kinds)
        /\ Len(SubSeq(f, 1, Len(f) - 1)) = (IF 1 <= Len(f) - 1 THEN Len(f) - 1 - 1 + 1 ELSE 0)
        /\ \A i \in 1..(Len(f) - 1 - 1 + 1) : SubSeq(f, 1, Len(f) - 1)[i] = f[1 + i - 1]
    BY <1>1, <1>2, SubSeqProperties
  <2> QED BY <2>1, <1>1 DEF Front
<1> HIDE DEF h
<1>4. h # <<>> /\ h[1] = "root" BY <1>1, <1>3, EmptySeq DEF Stacked
<1>5. \A i \in 1..(Len(f) - 1) : h[i] \in {"root", "menu"} \/ (h[i] = "quiz" /\ i = Len(f) - 1 /\ TopKind(f) = "player")
  BY <1>3 DEF Stacked, UnderTop
<1>6. UnderTop(h) BY <1>1, <1>3, <1>5 DEF UnderTop
<1>7. TopKind(h) # "lock" /\ TopKind(h) # "player" BY <1>1, <1>3, <1>5 DEF TopKind
<1>8. (q /\ TopKind(f) # "quiz") = \E i \in 1..Len(h) : h[i] = "quiz"
  <2>1. q = \E i \in 1..Len(f) : f[i] = "quiz" BY DEF Stacked
  <2>2. \A i \in 1..Len(f) : i \in 1..Len(h) \/ i = Len(f) BY <1>1, <1>3
  <2>3. 1..Len(h) \subseteq 1..Len(f) /\ Len(f) \in 1..Len(f) BY <1>1, <1>3
  <2>4. TopKind(f) = "quiz" => ~\E i \in 1..Len(h) : h[i] = "quiz" BY <1>3, <1>5
  <2>5. (\E i \in 1..Len(h) : h[i] = "quiz") <=> q /\ TopKind(f) # "quiz"
    BY <2>1, <2>2, <2>3, <2>4, <1>3 DEF TopKind
  <2> QED BY <2>5
<1> QED BY <1>3, <1>4, <1>6, <1>7, <1>8 DEF Stacked, h
-----------------------------------------------------------------------------
\* A frame's borrower goes with it.
LEMMA FreedLent == ASSUME NEW s \in Scrs, NEW w \in Spots, NEW r \in BOOLEAN, NEW o \in BOOLEAN, NEW l \in BOOLEAN,
    Lent(s, w, r, o, l), NEW up \in BOOLEAN, NEW kind, kind = "quiz" => ~s.player.borrowed,
    NEW t, t = Freed(s, kind, up)
  PROVE /\ t \in Scrs /\ SameScreen(t, s)
        /\ t.player = IF kind = "player" THEN NoBorrower ELSE s.player
        /\ t.quiz = IF kind = "quiz" THEN NoBorrower ELSE s.quiz
        /\ Lent(t, w, r, o \/ ~up, l \/ ~up) /\ HandedBack(s, t, w, r, o \/ ~up)
<1>1. CASE kind = "player"
  <2> DEFINE v == GiveBack(s, up)
  <2>1. /\ v \in Scrs /\ SameScreen(v, s) /\ v.quiz = s.quiz
        /\ ~v.player.borrowed /\ v.player.extra = NoTrack
        /\ Lent(v, w, r, o \/ ~up, l \/ ~up) /\ HandedBack(s, v, w, r, o \/ ~up)
    BY GiveBackLent
  <2>2. t = [v EXCEPT !.player = NoBorrower] BY <1>1 DEF Freed
  <2> HIDE DEF v
  <2>3. /\ t \in Scrs /\ SameScreen(t, v) /\ t.player = NoBorrower /\ t.quiz = v.quiz
        /\ t.mpd = v.mpd /\ t.suspended = v.suspended
    BY <2>1, <2>2, NoBorrowerTyped DEF Scrs, SameScreen
  <2>4. SameBorrower(t.player, v.player) /\ SameBorrower(t.quiz, v.quiz)
    <3>1. v.player.borrowed \in BOOLEAN /\ NoBorrower.borrowed \in BOOLEAN
      BY <2>1, NoBorrowerTyped, ScrTypes, BorrowerTypes
    <3>2. v.player.borrowed = NoBorrower.borrowed BY <3>1, <2>1, NoBorrowerTyped
    <3> QED BY <2>1, <2>3, <3>2, NoBorrowerTyped DEF SameBorrower
  <2>5. Lent(t, w, r, o \/ ~up, l \/ ~up) BY <2>1, <2>3, <2>4, LentSame
  <2>6. HandedBack(s, t, w, r, o \/ ~up) BY <2>1, <2>3, <2>4 DEF HandedBack, Lends, SameBorrower
  <2> QED BY <1>1, <2>1, <2>3, <2>5, <2>6 DEF SameScreen
<1>2. CASE kind = "quiz"
  <2> DEFINE v == QuizGivesBack(s, up)
  <2>1. /\ v \in Scrs /\ SameScreen(v, s) /\ v.player = s.player
        /\ ~v.quiz.borrowed /\ v.quiz.extra = NoTrack
        /\ Lent(v, w, r, o \/ ~up, l \/ ~up) /\ HandedBack(s, v, w, r, o \/ ~up)
    BY <1>2, QuizGivesBackLent
  <2>2. t = [v EXCEPT !.quiz = NoBorrower] BY <1>2 DEF Freed
  <2> HIDE DEF v
  <2>3. /\ t \in Scrs /\ SameScreen(t, v) /\ t.quiz = NoBorrower /\ t.player = v.player
        /\ t.mpd = v.mpd /\ t.suspended = v.suspended
    BY <2>1, <2>2, NoBorrowerTyped DEF Scrs, SameScreen
  <2>4. SameBorrower(t.player, v.player) /\ SameBorrower(t.quiz, v.quiz)
    <3>1. v.quiz.borrowed \in BOOLEAN /\ NoBorrower.borrowed \in BOOLEAN
      BY <2>1, NoBorrowerTyped, ScrTypes, BorrowerTypes
    <3>2. v.quiz.borrowed = NoBorrower.borrowed BY <3>1, <2>1, NoBorrowerTyped
    <3> QED BY <2>1, <2>3, <3>2, NoBorrowerTyped DEF SameBorrower
  <2>5. Lent(t, w, r, o \/ ~up, l \/ ~up) BY <2>1, <2>3, <2>4, LentSame
  <2>6. HandedBack(s, t, w, r, o \/ ~up) BY <2>1, <2>3, <2>4 DEF HandedBack, Lends, SameBorrower
  <2> QED BY <1>2, <2>1, <2>3, <2>5, <2>6 DEF SameScreen
<1>3. CASE kind # "player" /\ kind # "quiz"
  <2>1. t = s BY <1>3 DEF Freed
  <2>2. Lent(s, w, r, o \/ ~up, l \/ ~up) /\ HandedBack(s, s, w, r, o \/ ~up) BY DEF Lent, HandedBack
  <2> QED BY <1>3, <2>1, <2>2 DEF SameScreen
<1> QED BY <1>1, <1>2, <1>3
-----------------------------------------------------------------------------
\* The steps.  What playback is, alone, ...
SamePlayback(t, s) ==
  t.player = s.player /\ t.quiz = s.quiz /\ t.suspended = s.suspended /\ t.mpd = s.mpd
LEMMA LentOn == ASSUME NEW s, NEW t, NEW w, NEW r, NEW o, NEW l, Lent(s, w, r, o, l), SamePlayback(t, s)
  PROVE Lent(t, w, r, o, l)
BY LentSame DEF SamePlayback, SameBorrower
LEMMA AbsentOn == ASSUME NEW s, NEW t, AbsentRight(s), t.player = s.player, t.quiz = s.quiz PROVE AbsentRight(t)
BY DEF AbsentRight

\* ... the screen, alone, ...
LEMMA OrderOn == ASSUME NEW s, NEW t \in Scrs, InOrder(s), SameScreen(t, s), AbsentRight(t),
    t.player.on = s.player.on, t.quiz.on = s.quiz.on
  PROVE InOrder(t)
BY DEF InOrder, SameScreen, CardRight

\* One frame more, loaded and driven by the wheel.
PushedOn(t, f, kind) ==
  /\ t.frames = Append(f, kind)
  /\ t.input = Len(f) + 1 /\ t.default = Len(f) + 1 /\ t.shown = Len(f) + 1

\* A push on the menus, or of the player on a quiz.
LEMMA InOrderPushed == ASSUME NEW f \in Seq(Kinds), NEW kind \in Kinds, NEW q \in BOOLEAN,
    Stacked(f, FALSE, FALSE, q), kind # "root", kind # "player" => TopKind(f) \in {"root", "menu"},
    NEW t \in Scrs, PushedOn(t, f, kind), t.overlay = "none", ~t.ringing, t.locked = (kind = "lock"),
    t.player.on = (kind = "player"), t.quiz.on = (q \/ kind = "quiz"), AbsentRight(t)
  PROVE InOrder(t)
<1> DEFINE h == t.frames
<1>1. h = Append(f, kind) BY DEF PushedOn
<1> HIDE DEF h
<1>2. /\ h # <<>> /\ Len(h) = Len(f) + 1 /\ h[1] = "root" /\ UnderTop(h) /\ TopKind(h) = kind
      /\ (\E i \in 1..Len(h) : h[i] = "quiz") <=> q \/ kind = "quiz"
  <2>1. /\ h \in Seq(Kinds) /\ h # <<>> /\ Len(h) = Len(f) + 1 /\ \A i \in 1..Len(f) : h[i] = f[i]
        /\ h[Len(f) + 1] = kind
    BY <1>1, AppendProperties
  <2>2. Len(f) \in Nat /\ Len(f) >= 1 BY EmptySeq DEF Stacked
  <2>3. f[Len(f)] \in Kinds BY <2>2, ElementOfSeq
  <2>4. h[1] = "root" BY <2>1, <2>2 DEF Stacked
  <2>5. UnderTop(h)
    <3> SUFFICES ASSUME NEW i \in 1..Len(f)
                 PROVE f[i] \in {"root", "menu"} \/ (f[i] = "quiz" /\ i = Len(f) /\ kind = "player")
      BY <2>1, <2>2 DEF UnderTop, TopKind
    <3>1. CASE i = Len(f) BY <3>1, <2>3 DEF Stacked, TopKind, Kinds
    <3>2. CASE i # Len(f) BY <3>2, <2>2 DEF Stacked, UnderTop, TopKind
    <3> QED BY <3>1, <3>2
  <2>6. (\E i \in 1..Len(h) : h[i] = "quiz") <=> q \/ kind = "quiz"
    <3>1. q = \E i \in 1..Len(f) : f[i] = "quiz" BY DEF Stacked
    <3>2. \A i \in 1..Len(h) : i \in 1..Len(f) \/ i = Len(f) + 1 BY <2>1, <2>2
    <3>3. 1..Len(f) \subseteq 1..Len(h) /\ Len(f) + 1 \in 1..Len(h) BY <2>1, <2>2
    <3>4. (\E i \in 1..Len(h) : h[i] = "quiz") <=> q \/ kind = "quiz" BY <3>1, <3>2, <3>3, <2>1
    <3> QED BY <3>4
  <2>7. TopKind(h) = kind BY <2>1 DEF TopKind
  <2> QED BY <2>1, <2>4, <2>5, <2>6, <2>7
<1> USE DEF h
<1>5. Stacked(t.frames, t.locked, t.player.on, t.quiz.on) BY <1>2 DEF Stacked
<1>3. t.ringing = FALSE BY ScrTypes
<1>4. CardRight(t) BY <1>2, <1>3 DEF CardRight, PushedOn
<1> QED BY <1>4, <1>5 DEF InOrder

\* ... a push, and a pop.
LEMMA Pushed == ASSUME NEW s \in Scrs, Top(s) < StackMax, NEW kind \in Kinds, NEW up, NEW t, t = Push(s, kind, up)
  PROVE /\ t \in Scrs /\ PushedOn(t, s.frames, kind)
        /\ t.overlay = s.overlay /\ t.ringing = s.ringing /\ t.locked = s.locked /\ SamePlayback(t, s)
<1> DEFINE n == Len(s.frames) + 1
           h == Append(s.frames, kind)
<1>1. s.frames \in Seq(Kinds) /\ n \in Nat BY ScrTypes, LenProperties
<1>2. h \in Seq(Kinds) BY <1>1, AppendProperties
<1>3. ~(Top(s) >= StackMax) BY <1>1, ScreensAssumption DEF Top
<1>4. t = [s EXCEPT !.frames = h, !.input = n, !.default = n, !.shown = n] BY <1>3 DEF Push, Top
<1> HIDE DEF n, h
<1>5. /\ t \in Scrs /\ t.frames = h /\ t.input = n /\ t.default = n /\ t.shown = n
      /\ t.overlay = s.overlay /\ t.ringing = s.ringing /\ t.locked = s.locked /\ SamePlayback(t, s)
  BY <1>1, <1>2, <1>4 DEF Scrs, SamePlayback
<1> QED BY <1>5 DEF n, h, PushedOn

\* A push on a full stack frees what was pushed.
LEMMA PushedFull == ASSUME NEW s \in Scrs, ~(Top(s) < StackMax), NEW kind, NEW up
  PROVE Push(s, kind, up) = Freed(s, kind, up)
<1>1. Top(s) >= StackMax BY ScrTypes, LenProperties, ScreensAssumption DEF Top
<1> QED BY <1>1 DEF Push

\* A pop frees the frame on top; the Screen Lock may just have gone.
LEMMA Popped == ASSUME NEW s \in Scrs, NEW locked \in BOOLEAN,
    Stacked(s.frames, locked, s.player.on, s.quiz.on), AbsentRight(s), s.overlay = "none", ~s.ringing, ~s.locked,
    Len(s.frames) > 1, NEW w \in Spots, NEW r \in BOOLEAN, NEW o \in BOOLEAN, NEW l \in BOOLEAN, Lent(s, w, r, o, l),
    NEW up \in BOOLEAN, NEW t, t = Pop(s, up)
  PROVE /\ InOrder(t) /\ ~t.locked /\ Lent(t, w, r, o \/ ~up, l \/ ~up)
        /\ HandedBack(s, t, w, r, o \/ ~up)
        /\ t.quiz = s.quiz \/ t.quiz = NoBorrower
        /\ t.player = IF TopKind(s.frames) = "player" THEN NoBorrower ELSE s.player
<1> DEFINE n == Len(s.frames) - 1
           h == Front(s.frames)
           v == [s EXCEPT !.frames = h, !.input = n, !.default = n, !.shown = n]
           kind == TopKind(s.frames)
<1>1. /\ s.frames \in Seq(Kinds) /\ n \in Nat /\ s.player \in Borrowers /\ s.quiz \in Borrowers
      /\ s.player.on \in BOOLEAN /\ s.quiz.on \in BOOLEAN
  BY ScrTypes, BorrowerTypes, LenProperties
<1>2. /\ h \in Seq(Kinds) /\ Len(h) = n
      /\ Stacked(h, FALSE, FALSE, s.quiz.on /\ kind # "quiz")
  BY <1>1, Fronted
<1>3. t = Freed(v, kind, up) BY <1>1 DEF Pop, Top, TopKind
<1> HIDE DEF n, h
<1>4. /\ v \in Scrs /\ v.frames = h /\ v.input = n /\ v.default = n /\ v.shown = n
      /\ v.overlay = s.overlay /\ v.ringing = s.ringing /\ v.locked = s.locked /\ SamePlayback(v, s)
  BY <1>1, <1>2 DEF Scrs, SamePlayback
<1>5. s.player.on = (kind = "player") BY DEF Stacked
<1>6. kind = "quiz" => ~v.player.borrowed BY <1>4, <1>5, NoBorrowerTyped DEF AbsentRight, SamePlayback
<1> HIDE DEF v, kind
<1>7. Lent(v, w, r, o, l) BY <1>4, LentOn
<1>8. /\ t \in Scrs /\ SameScreen(t, v)
      /\ t.player = IF kind = "player" THEN NoBorrower ELSE v.player
      /\ t.quiz = IF kind = "quiz" THEN NoBorrower ELSE v.quiz
      /\ Lent(t, w, r, o \/ ~up, l \/ ~up) /\ HandedBack(v, t, w, r, o \/ ~up)
  BY <1>3, <1>4, <1>6, <1>7, FreedLent
<1>14. HandedBack(s, t, w, r, o \/ ~up) BY <1>4, <1>8 DEF HandedBack, Lends, SamePlayback
<1>9. t.player = (IF kind = "player" THEN NoBorrower ELSE s.player) /\ t.quiz = (IF kind = "quiz" THEN NoBorrower ELSE s.quiz)
  BY <1>4, <1>8 DEF SamePlayback
<1>10. ~t.player.on /\ (t.quiz.on <=> s.quiz.on /\ kind # "quiz") /\ t.player \in Borrowers /\ t.quiz \in Borrowers
  BY <1>1, <1>5, <1>9, NoBorrowerTyped
<1>11. AbsentRight(t) BY <1>9, <1>10, NoBorrowerTyped DEF AbsentRight
<1>12. Stacked(t.frames, t.locked, t.player.on, t.quiz.on)
  <2>1. t.locked = FALSE /\ t.player.on = FALSE /\ t.frames = h
    BY <1>1, <1>4, <1>8, <1>10, ScrTypes, BorrowerTypes DEF SameScreen
  <2>2. t.quiz.on = (s.quiz.on /\ kind # "quiz") BY <1>10, BorrowerTypes
  <2> QED BY <1>2, <2>1, <2>2
<1>13. CardRight(t)
  <2>1. t.ringing = FALSE BY <1>4, <1>8, ScrTypes DEF SameScreen
  <2> QED BY <1>2, <1>4, <1>8, <2>1 DEF SameScreen, CardRight
<1> QED BY <1>4, <1>8, <1>9, <1>11, <1>12, <1>13, <1>14 DEF InOrder, SameScreen, kind
-----------------------------------------------------------------------------
\* The overlay.
LEMMA Closed == ASSUME NEW s, InOrder(s), NEW t, t = CloseOverlay(s)
  PROVE InOrder(t) /\ t.overlay = "none" /\ ~t.ringing /\ t.frames = s.frames /\ t.locked = s.locked /\ SamePlayback(t, s)
<1>0. s \in Scrs BY DEF InOrder
<1>1. CASE s.overlay = "none" BY <1>0, <1>1 DEF CloseOverlay, SamePlayback, InOrder, CardRight
<1>2. CASE s.overlay # "none"
  <2> DEFINE n == Len(s.frames)
             b == s.ringing /\ s.overlay # "alarm"
  <2>1. n \in Nat BY <1>0, ScrTypes, LenProperties
  <2>2. b = FALSE BY DEF InOrder, CardRight
  <2>3. t = [s EXCEPT !.overlay = "none", !.input = n, !.default = n, !.ringing = FALSE]
    BY <1>2, <2>2 DEF CloseOverlay, Top
  <2> HIDE DEF n
  <2>4. /\ t \in Scrs /\ t.overlay = "none" /\ t.input = n /\ t.default = n /\ ~t.ringing
        /\ t.frames = s.frames /\ t.locked = s.locked /\ t.shown = s.shown /\ SamePlayback(t, s)
    BY <1>0, <2>1, <2>3 DEF Scrs, SamePlayback
  <2>5. AbsentRight(t) BY <2>4, AbsentOn DEF InOrder, SamePlayback
  <2>6. t.ringing = FALSE BY <2>4, ScrTypes
  <2>7. CardRight(t) BY <2>4, <2>6 DEF InOrder, CardRight, n
  <2> QED BY <2>4, <2>5, <2>7 DEF InOrder, SamePlayback
<1> QED BY <1>1, <1>2

\* The wheel reaches the top screen when there is no overlay.
LEMMA AloneUncovered == ASSUME NEW s, InOrder(s), Alone(s) PROVE s.overlay = "none" /\ ~s.ringing
<1>1. Len(s.frames) \in Nat /\ Len(s.frames) # 0 BY ScrTypes, EmptySeq, LenProperties DEF InOrder, Stacked
<1> QED BY <1>1 DEF InOrder, CardRight, Alone, Top, Card

\* Who is on the screen.
LEMMA OnTop == ASSUME NEW s, InOrder(s)
  PROVE /\ s.player.on = (TopKind(s.frames) = "player")
        /\ s.locked = (TopKind(s.frames) = "lock")
        /\ TopKind(s.frames) \notin {"player", "quiz"} => ~s.quiz.on
        /\ TopKind(s.frames) = "quiz" => s.quiz.on
        /\ TopKind(s.frames) # "player" => ~s.player.on /\ s.player = NoBorrower /\ ~s.player.borrowed
        /\ TopKind(s.frames) # "root" => Len(s.frames) > 1
        /\ s.shown = Len(s.frames) /\ s.frames[s.shown] = TopKind(s.frames) /\ TopKind(s.frames) \in Kinds
<1>1. Len(s.frames) \in Nat /\ Len(s.frames) >= 1 /\ s.player.on \in BOOLEAN /\ s.quiz.on \in BOOLEAN
      /\ s.frames \in Seq(Kinds)
  BY ScrTypes, BorrowerTypes, EmptySeq, LenProperties DEF InOrder, Stacked
<1>2. s.player.on = (TopKind(s.frames) = "player") /\ s.locked = (TopKind(s.frames) = "lock")
  BY DEF InOrder, Stacked
<1>3. TopKind(s.frames) \notin {"player", "quiz"} => ~s.quiz.on
  BY <1>1 DEF InOrder, Stacked, UnderTop, TopKind
<1>4. TopKind(s.frames) = "quiz" => s.quiz.on BY <1>1 DEF InOrder, Stacked, TopKind
<1>5. TopKind(s.frames) # "player" => ~s.player.on /\ s.player = NoBorrower /\ ~s.player.borrowed
  BY <1>2, NoBorrowerTyped DEF InOrder, AbsentRight
<1>6. TopKind(s.frames) # "root" => Len(s.frames) > 1 BY <1>1 DEF InOrder, Stacked, TopKind
<1>7. s.shown = Len(s.frames) /\ s.frames[s.shown] = TopKind(s.frames) BY DEF InOrder, CardRight, TopKind
<1>8. TopKind(s.frames) \in Kinds BY <1>1, ElementOfSeq DEF TopKind
<1> QED BY <1>2, <1>3, <1>4, <1>5, <1>6, <1>7, <1>8
-----------------------------------------------------------------------------
\* What was there, before a step that calls MPD.
Was == IF Nobody(ui) THEN Now(ui.mpd) ELSE past.was
Ran == past.ran /\ ~Nobody(ui)
Other == past.other /\ ~Nobody(ui)

\* Before such a step, playback is lent as the history will say.
LEMMA Before == ASSUME ScreenInv
  PROVE /\ ui \in Scrs /\ past \in Pasts /\ InOrder(ui) /\ AbsentRight(ui)
        /\ Was \in Spots /\ Ran \in BOOLEAN /\ Other \in BOOLEAN /\ past.litter \in BOOLEAN
        /\ Nobody(ui) => Was = Now(ui.mpd) /\ ~Ran
        /\ Lent(ui, Was, Ran, Other, past.litter)
<1>1. ui \in Scrs /\ past \in Pasts /\ InOrder(ui) /\ AbsentRight(ui) /\ Lent(ui, past.was, past.ran, past.other, past.litter)
  BY DEF ScreenInv, InOrder
<1>2. past.was \in Spots /\ past.ran \in BOOLEAN /\ past.other \in BOOLEAN /\ past.litter \in BOOLEAN
  BY <1>1 DEF Pasts
<1>3. Now(ui.mpd) \in Spots BY <1>1, ScrTypes, SpotOfTyped
<1>4. CASE Nobody(ui)
  <2>1. ~ui.player.taken BY <1>1, <1>4 DEF AbsentRight, Nobody
  <2> DEFINE now == Now(ui.mpd)
  <2> HIDE DEF now
  <2>2. Lent(ui, now, FALSE, FALSE, past.litter) BY <1>1, <1>4, <2>1, LentAfresh DEF now
  <2>3. Other = FALSE /\ Ran = FALSE /\ Was = now /\ now = Now(ui.mpd)
    BY <1>2, <1>4 DEF Other, Ran, Was, now
  <2> QED BY <1>1, <1>2, <1>3, <2>2, <2>3
<1>5. CASE ~Nobody(ui)
  <2>1. Other = past.other /\ Ran = past.ran /\ Was = past.was BY <1>2, <1>5 DEF Other, Ran, Was
  <2> QED BY <1>1, <1>2, <1>5, <2>1
<1> QED BY <1>4, <1>5

\* Whether the quiz's song has run out, or did not play, after such a step to t.
RanNow(t) == (Ran /\ t.quiz.extra \in {ui.quiz.extra, NoTrack}) \/ (t.quiz.borrowed /\ t.quiz.extra = NoTrack)

\* What such a step adds to the history.
LEMMA NotedSo == ASSUME ui \in Scrs, past \in Pasts, NEW t \in Scrs, NEW ans \in MpdAnswers, NEW n, n = Noted(ui, t, ans)
  PROVE /\ n \in Pasts /\ n.was = Was
        /\ n.other <=> Other \/ ans = "down"
        /\ n.ran <=> RanNow(t)
        /\ n.litter <=> past.litter \/ ans = "down"
        /\ n.late = past.late /\ n.early = past.early
<1> DEFINE was == IF Nobody(ui) THEN Now(ui.mpd) ELSE past.was
           ran == \/ past.ran /\ ~Nobody(ui) /\ t.quiz.extra \in {ui.quiz.extra, NoTrack}
                  \/ t.quiz.borrowed /\ t.quiz.extra = NoTrack
           other == (past.other /\ ~Nobody(ui)) \/ ans = "down"
           litter == past.litter \/ ans = "down"
           nested == t.player.on /\ t.quiz.on
           back == IF ui.player.far = "end" /\ ui.player.borrowed /\ ~t.player.on /\ ~t.player.taken /\ ans # "down"
                   THEN t.mpd.state ELSE "none"
<1>1. /\ Now(ui.mpd) \in Spots /\ past.was \in Spots /\ past.litter \in BOOLEAN /\ t.player.on \in BOOLEAN
      /\ t.quiz.on \in BOOLEAN /\ t.mpd.state \in States
  BY ScrTypes, MpdTypes, BorrowerTypes, SpotOfTyped DEF Pasts
<1>2. /\ was \in Spots /\ ran \in BOOLEAN /\ other \in BOOLEAN /\ litter \in BOOLEAN /\ nested \in BOOLEAN
      /\ back \in States \union {"none"}
  BY <1>1
<1>3. n = [past EXCEPT !.was = was, !.other = other, !.ran = ran, !.litter = litter, !.nested = nested, !.back = back]
  BY DEF Noted, Nobody, Now
<1>4. was = Was /\ (other <=> Other \/ ans = "down") /\ (ran <=> RanNow(t))
      /\ (litter <=> past.litter \/ ans = "down")
  BY DEF Was, Other, Ran, RanNow
<1> HIDE DEF was, ran, other, litter, nested, back
<1>5. n \in Pasts BY <1>2, <1>3 DEF Pasts
<1>6. n.was = was /\ n.other = other /\ n.ran = ran BY <1>3 DEF Pasts
<1>7. n.litter = litter /\ n.late = past.late /\ n.early = past.early BY <1>3 DEF Pasts
<1> QED BY <1>4, <1>5, <1>6, <1>7

\* A step that calls MPD, ...
LEMMA Called == ASSUME ScreenInv, NEW t, NEW ans \in MpdAnswers, ui' = t, lockfile' = lockfile,
    past' \in Pasts, past'.was = Was,
    past'.other <=> Other \/ ans = "down", past'.ran <=> RanNow(t),
    past'.litter <=> past.litter \/ ans = "down",
    InOrder(t), t.locked = ui.locked,
    NEW r, NEW o, Lent(t, Was, r, o, past.litter \/ ans = "down"), HandedBack(ui, t, Was, r, o),
    r => RanNow(t), o => Other \/ ans = "down",
    Going(t, past'.late), past'.early => past'.late
  PROVE ScreenStep
<1>1. Lent(t, past'.was, past'.ran, past'.other, past'.litter)
  <2>1. (o => past'.other) /\ (r => past'.ran) OBVIOUS
  <2>2. past.litter \/ ans = "down" => past'.litter OBVIOUS
  <2> QED BY <2>1, <2>2 DEF Lent, OwedBack
<1>2. lockfile' = t.locked BY DEF ScreenInv
<1>3. PlaysAsBefore
  <2>1. (o => past'.other) /\ (r => past'.ran) OBVIOUS
  <2>2. CASE Nobody(ui) BY <2>2 DEF PlaysAsBefore, Lends, Nobody
  <2>3. CASE ~Nobody(ui)
    <3>1. Was = past.was BY <2>3 DEF Was
    <3> QED BY <2>1, <3>1 DEF PlaysAsBefore, HandedBack, Lends
  <2> QED BY <2>2, <2>3
<1> QED BY <1>1, <1>2, <1>3 DEF ScreenStep, ScreenInv

\* ... also by CallMpd, ...
LEMMA CalledMpd == ASSUME ScreenInv, NEW t \in Scrs, NEW ans \in MpdAnswers, CallMpd(t, ans),
    InOrder(t), t.locked = ui.locked,
    NEW r, NEW o, Lent(t, Was, r, o, past.litter \/ ans = "down"), HandedBack(ui, t, Was, r, o),
    r => RanNow(t), o => Other \/ ans = "down",
    Going(t, past.late)
  PROVE ScreenStep
<1>1. ui \in Scrs /\ past \in Pasts BY Before
<1>2. ui' = t /\ past' = Noted(ui, t, ans) /\ lockfile' = lockfile BY DEF CallMpd
<1>3. /\ past' \in Pasts /\ past'.was = Was
      /\ past'.other <=> Other \/ ans = "down"
      /\ past'.ran <=> RanNow(t)
      /\ past'.litter <=> past.litter \/ ans = "down"
      /\ past'.late = past.late /\ past'.early = past.early
  BY <1>1, <1>2, NotedSo
<1>4. past.early => past.late BY DEF ScreenInv
<1> QED BY <1>2, <1>3, <1>4, Called

\* ... and one that does not.
LEMMA QuietInv == ASSUME ScreenInv, NEW t, Quietly(t), InOrder(t), t.locked = ui.locked,
    Lent(t, past.was, past.ran, past.other, past.litter), Going(t, past.late),
    t.player.borrowed = ui.player.borrowed, t.quiz.borrowed = ui.quiz.borrowed
  PROVE ScreenStep
<1>1. ScreenInv' BY DEF ScreenInv, Quietly
<1>2. PlaysAsBefore BY DEF Quietly, PlaysAsBefore, Lends
<1> QED BY <1>1, <1>2 DEF ScreenStep
-----------------------------------------------------------------------------
\* A video is started, also over another one, ...
LEMMA PlayerPushed == ASSUME NEW s, InOrder(s), s.overlay = "none", ~s.locked,
    NEW w \in Spots, NEW r \in BOOLEAN, NEW o \in BOOLEAN, NEW l \in BOOLEAN,
    Lent(s, w, r, o, l), Nobody(s) => w = Now(s.mpd) /\ ~r, NEW ans \in MpdAnswers, NEW t, t = PushPlayer(s, ans)
  PROVE /\ InOrder(t) /\ ~t.locked /\ Lent(t, w, r, o \/ ans = "down", l \/ ans = "down")
        /\ t.quiz = s.quiz /\ (Lends(s) => Lends(t))
        /\ ~s.player.leaving => ~t.player.leaving
<1> DEFINE v == StartVideo(s, ans)
           f == s.frames
<1>1. /\ s \in Scrs /\ AbsentRight(s) /\ s.player \in Borrowers /\ s.quiz \in Borrowers /\ f \in Seq(Kinds)
      /\ ~s.ringing
  BY ScrTypes DEF InOrder, CardRight
<1>2. /\ v \in Scrs /\ SameScreen(v, s) /\ v.quiz = s.quiz /\ v.player.borrowed
      /\ v.player.on = s.player.on /\ v.player.leaving = s.player.leaving
      /\ v.player.taken = s.player.taken
      /\ Lent(v, w, r, o \/ ans = "down", l \/ ans = "down")
  BY <1>1, StartVideoLent
<1> HIDE DEF v
<1>3. CASE s.player.on
  <2>1. t = v BY <1>3 DEF PushPlayer, v
  <2>2. AbsentRight(v) BY <1>1, <1>2, <1>3 DEF AbsentRight
  <2>3. InOrder(v) BY <1>2, <2>2, OrderOn
  <2> QED BY <1>2, <2>1, <2>3 DEF SameScreen, Lends
<1>4. CASE ~s.player.on
  <2> DEFINE p == [v.player EXCEPT !.on = TRUE]
             x == [v EXCEPT !.player = p]
             up == ans # "down"
  <2>1. /\ s.player = NoBorrower /\ ~s.player.taken /\ ~s.player.leaving /\ ~s.player.borrowed
    BY <1>1, <1>4, NoBorrowerTyped DEF AbsentRight
  <2>2. v.player \in Borrowers BY <1>2, ScrTypes
  <2>3. /\ p \in Borrowers /\ p.on /\ p.borrowed = v.player.borrowed /\ p.extra = v.player.extra
        /\ p.taken = v.player.taken /\ p.spot = v.player.spot /\ p.far = v.player.far
        /\ p.leaving = v.player.leaving
    BY <2>2 DEF Borrowers
  <2>4. t = Push(x, "player", up) BY <1>4 DEF PushPlayer, v
  <2> HIDE DEF p
  <2>5. /\ x \in Scrs /\ SameScreen(x, s) /\ x.player = p /\ x.quiz = s.quiz /\ x.mpd = v.mpd
        /\ x.suspended = v.suspended
    BY <1>2, <2>3 DEF Scrs, SameScreen
  <2> HIDE DEF x
  <2>6. SameBorrower(x.player, v.player) /\ SameBorrower(x.quiz, v.quiz) BY <1>2, <2>3, <2>5 DEF SameBorrower
  <2>7. Lent(x, w, r, o \/ ans = "down", l \/ ans = "down") BY <1>2, <2>5, <2>6, LentSame
  <2>8. CASE Top(x) < StackMax
    <3>1. /\ t \in Scrs /\ PushedOn(t, x.frames, "player")
          /\ t.overlay = x.overlay /\ t.ringing = x.ringing /\ t.locked = x.locked /\ SamePlayback(t, x)
      BY <2>4, <2>5, <2>8, Pushed DEF Kinds
    <3>2. Lent(t, w, r, o \/ ans = "down", l \/ ans = "down") BY <2>7, <3>1, LentOn
    <3>3. PushedOn(t, f, "player") /\ t.overlay = "none" /\ ~t.ringing /\ t.locked = FALSE /\ t.player = p /\ t.quiz = s.quiz
      BY <1>1, <2>5, <3>1, ScrTypes DEF SameScreen, SamePlayback
    <3>4. Stacked(f, FALSE, FALSE, s.quiz.on)
      <4>1. s.locked = FALSE /\ s.player.on = FALSE BY <1>1, <1>4, ScrTypes, BorrowerTypes
      <4> QED BY <4>1 DEF InOrder
    <3>5. AbsentRight(t) BY <1>1, <1>2, <2>1, <2>3, <3>3 DEF AbsentRight
    <3>6. s.quiz.on \in BOOLEAN /\ t.player.on = TRUE BY <1>1, <2>3, <3>3, BorrowerTypes
    <3>7. InOrder(t) BY <1>1, <3>1, <3>3, <3>4, <3>5, <3>6, InOrderPushed DEF Kinds
    <3> QED BY <1>2, <2>1, <2>3, <3>2, <3>3, <3>7 DEF Lends
  <2>9. CASE ~(Top(x) < StackMax)
    <3>1. t = Freed(x, "player", up) BY <2>4, <2>5, <2>9, PushedFull
    <3>2. up \in BOOLEAN /\ (~up <=> ans = "down") OBVIOUS
    <3> HIDE DEF up
    <3> DEFINE o2 == o \/ ans = "down"
               l2 == l \/ ans = "down"
    <3>3. o2 \in BOOLEAN /\ l2 \in BOOLEAN /\ Lent(x, w, r, o2, l2) BY <2>7
    <3>4. (o2 \/ ~up => o2) /\ (l2 \/ ~up => l2) /\ (o2 <=> o \/ ans = "down") /\ (l2 <=> l \/ ans = "down") BY <3>2
    <3> HIDE DEF o2, l2
    <3>5. /\ t \in Scrs /\ SameScreen(t, x) /\ t.player = NoBorrower /\ t.quiz = x.quiz
          /\ Lent(t, w, r, o2 \/ ~up, l2 \/ ~up)
      BY <2>5, <3>1, <3>2, <3>3, FreedLent
    <3>6. Lent(t, w, r, o \/ ans = "down", l \/ ans = "down") BY <3>4, <3>5 DEF Lent
    <3>7. AbsentRight(t) /\ t.player.on = s.player.on /\ t.quiz.on = s.quiz.on
      BY <1>1, <1>4, <2>1, <2>5, <3>5, NoBorrowerTyped DEF AbsentRight
    <3>8. SameScreen(t, s) BY <2>5, <3>5 DEF SameScreen
    <3>9. InOrder(t) BY <3>5, <3>7, <3>8, OrderOn
    <3> QED BY <2>1, <2>5, <3>5, <3>6, <3>8, <3>9, NoBorrowerTyped DEF SameScreen, Lends
  <2> QED BY <2>8, <2>9
<1> QED BY <1>3, <1>4

\* ... from a menu, ...
LEMMA OnVideoInv == ASSUME ScreenInv, NEW ans \in MpdAnswers, OnVideo(ans) PROVE ScreenStep
<1> DEFINE t == PushPlayer(ui, ans)
<1>1. Row("menu") /\ CallMpd(t, ans) BY DEF OnVideo
<1>2. /\ ui \in Scrs /\ InOrder(ui) /\ Was \in Spots /\ Ran \in BOOLEAN /\ Other \in BOOLEAN /\ past.litter \in BOOLEAN
      /\ Nobody(ui) => Was = Now(ui.mpd) /\ ~Ran
      /\ Lent(ui, Was, Ran, Other, past.litter)
  BY Before
<1>3. Alone(ui) /\ TopKind(ui.frames) = "menu" BY <1>1 DEF Row, TopKind, Top
<1>4. ui.overlay = "none" /\ ~ui.locked /\ ~ui.player.leaving
  BY <1>2, <1>3, AloneUncovered, OnTop, NoBorrowerTyped
<1> HIDE DEF t
<1>5. /\ InOrder(t) /\ ~t.locked /\ Lent(t, Was, Ran, Other \/ ans = "down", past.litter \/ ans = "down")
      /\ t.quiz = ui.quiz /\ (Lends(ui) => Lends(t))
      /\ ~t.player.leaving
  BY <1>2, <1>4, PlayerPushed DEF t
<1>6. Going(t, past.late) BY <1>5 DEF Going
<1>7. t.locked = ui.locked /\ t \in Scrs BY <1>2, <1>4, <1>5, ScrTypes DEF InOrder
<1> DEFINE o == Other \/ ans = "down"
<1> DEFINE r == Ran
<1>8. Lent(t, Was, r, o, past.litter \/ ans = "down") BY <1>5
<1>9. (o => Other \/ ans = "down") /\ (r => RanNow(t)) BY <1>5 DEF RanNow
<1>10. HandedBack(ui, t, Was, r, o) BY <1>5 DEF HandedBack
<1> HIDE DEF o, r
<1> QED BY <1>1, <1>5, <1>6, <1>7, <1>8, <1>9, <1>10, CalledMpd

\* ... from the web UI also as one is leaving, ...
LEMMA OnPlayVideoInv == ASSUME ScreenInv, NEW ans \in MpdAnswers, OnPlayVideo(ans) PROVE ScreenStep
<1> DEFINE s == CloseOverlay(ui)
           t == PushPlayer(s, ans)
           n == Noted(ui, t, ans)
<1>1. /\ ~ui.locked /\ ui' = t /\ lockfile' = lockfile
      /\ past' = [n EXCEPT !.late = @ \/ ui.player.leaving]
  BY DEF OnPlayVideo
<1>2. /\ ui \in Scrs /\ past \in Pasts /\ InOrder(ui) /\ Was \in Spots /\ Ran \in BOOLEAN /\ Other \in BOOLEAN /\ past.litter \in BOOLEAN
      /\ Nobody(ui) => Was = Now(ui.mpd) /\ ~Ran
      /\ Lent(ui, Was, Ran, Other, past.litter)
  BY Before
<1> HIDE DEF s
<1>3. InOrder(s) /\ s.overlay = "none" /\ s.locked = ui.locked /\ SamePlayback(s, ui) BY <1>2, Closed DEF s
<1>4. Lent(s, Was, Ran, Other, past.litter) /\ (Nobody(s) => Was = Now(s.mpd) /\ ~Ran)
  BY <1>2, <1>3, LentOn DEF SamePlayback, Nobody
<1> HIDE DEF t
<1>5. /\ InOrder(t) /\ ~t.locked /\ Lent(t, Was, Ran, Other \/ ans = "down", past.litter \/ ans = "down")
      /\ t.quiz = s.quiz /\ (Lends(s) => Lends(t))
      /\ ~s.player.leaving => ~t.player.leaving
  BY <1>1, <1>2, <1>3, <1>4, PlayerPushed DEF t
<1>6. t \in Scrs /\ t.locked = ui.locked BY <1>1, <1>2, <1>5, ScrTypes DEF InOrder
<1> HIDE DEF n
<1>7. /\ n \in Pasts /\ n.was = Was
      /\ n.other <=> Other \/ ans = "down"
      /\ n.ran <=> RanNow(t)
      /\ n.litter <=> past.litter \/ ans = "down"
      /\ n.late = past.late /\ n.early = past.early
  BY <1>2, <1>6, NotedSo DEF n
<1> DEFINE late == past.late \/ ui.player.leaving
<1>8. late \in BOOLEAN BY <1>2, ScrTypes, BorrowerTypes DEF Pasts
<1>9. past' = [n EXCEPT !.late = late] BY <1>1, <1>7
<1>10. Going(t, late) /\ (past.early => late)
  BY <1>3, <1>5 DEF Going, SamePlayback, ScreenInv
<1> HIDE DEF late
<1>11. /\ past' \in Pasts /\ past'.was = n.was /\ past'.other = n.other /\ past'.ran = n.ran /\ past'.litter = n.litter
       /\ past'.late = late /\ past'.early = n.early
  BY <1>7, <1>8, <1>9 DEF Pasts
<1> DEFINE o == Other \/ ans = "down"
<1> DEFINE r == Ran
<1>12. Lent(t, Was, r, o, past.litter \/ ans = "down") BY <1>5
<1>13. (o => Other \/ ans = "down") /\ (r => RanNow(t)) BY <1>3, <1>5 DEF RanNow, SamePlayback
<1>16. HandedBack(ui, t, Was, r, o) BY <1>3, <1>5 DEF HandedBack, Lends, SamePlayback
<1> HIDE DEF o, r
<1>14. /\ past' \in Pasts /\ past'.was = Was
       /\ past'.other <=> Other \/ ans = "down"
       /\ past'.ran <=> RanNow(t)
       /\ past'.litter <=> past.litter \/ ans = "down"
  BY <1>7, <1>11
<1>15. Going(t, past'.late) /\ (past'.early => past'.late) BY <1>7, <1>10, <1>11
<1> QED BY <1>1, <1>5, <1>6, <1>12, <1>13, <1>14, <1>15, <1>16, Called

\* ... or the next of a list.
LEMMA SkipVideoInv == ASSUME ScreenInv, NEW ans \in MpdAnswers, SkipVideo(ans) PROVE ScreenStep
<1> DEFINE t == StartVideo(ui, ans)
<1>1. ui.player.on /\ ~ui.player.leaving /\ CallMpd(t, ans) BY DEF SkipVideo
<1>2. /\ ui \in Scrs /\ InOrder(ui) /\ AbsentRight(ui)
      /\ Was \in Spots /\ Ran \in BOOLEAN /\ Other \in BOOLEAN /\ past.litter \in BOOLEAN
      /\ Nobody(ui) => Was = Now(ui.mpd) /\ ~Ran
      /\ Lent(ui, Was, Ran, Other, past.litter)
  BY Before
<1> HIDE DEF t
<1>3. /\ t \in Scrs /\ SameScreen(t, ui) /\ t.quiz = ui.quiz /\ t.player.borrowed
      /\ t.player.on = ui.player.on /\ t.player.leaving = ui.player.leaving
      /\ t.player.taken = ui.player.taken
      /\ Lent(t, Was, Ran, Other \/ ans = "down", past.litter \/ ans = "down")
  BY <1>2, StartVideoLent DEF t
<1>4. AbsentRight(t) BY <1>1, <1>2, <1>3 DEF AbsentRight
<1>5. InOrder(t) /\ t.locked = ui.locked BY <1>2, <1>3, <1>4, OrderOn DEF SameScreen
<1>6. Going(t, past.late) BY <1>1, <1>3 DEF Going
<1> DEFINE o == Other \/ ans = "down"
<1> DEFINE r == Ran
<1>8. Lent(t, Was, r, o, past.litter \/ ans = "down") BY <1>3
<1>9. (o => Other \/ ans = "down") /\ (r => RanNow(t)) BY <1>3 DEF RanNow
<1>10. HandedBack(ui, t, Was, r, o) BY <1>3 DEF HandedBack, Lends
<1> HIDE DEF o, r
<1> QED BY <1>1, <1>3, <1>5, <1>6, <1>8, <1>9, <1>10, CalledMpd

\* The next round of a quiz, ...
LEMMA QuizRoundInv == ASSUME ScreenInv, NEW ans \in MpdAnswers, QuizRound(ans) PROVE ScreenStep
<1> DEFINE t == NextExtra(ui, "quiz", ans)
<1>1. ui.quiz.on /\ ~ui.quiz.done /\ ui.frames[ui.shown] = "quiz" /\ CallMpd(t, ans) BY DEF QuizRound
<1>2. /\ ui \in Scrs /\ InOrder(ui) /\ AbsentRight(ui)
      /\ Was \in Spots /\ Ran \in BOOLEAN /\ Other \in BOOLEAN /\ past.litter \in BOOLEAN
      /\ Nobody(ui) => Was = Now(ui.mpd) /\ ~Ran
      /\ Lent(ui, Was, Ran, Other, past.litter)
  BY Before
<1>3. ui.quiz.borrowed BY <1>1, <1>2 DEF AbsentRight
<1>4. ~ui.player.borrowed /\ ~ui.player.on /\ ui.player = NoBorrower BY <1>1, <1>2, OnTop
<1>5. t = NextExtra(Borrow(ui, "quiz", ans # "down"), "quiz", ans) BY <1>3 DEF Borrow
<1> HIDE DEF t
<1>6. /\ t \in Scrs /\ SameScreen(t, ui) /\ t.player = ui.player /\ t.quiz.borrowed
      /\ t.quiz.on = ui.quiz.on /\ t.quiz.done = ui.quiz.done
      /\ ans # "ok" => t.quiz.extra = NoTrack
      /\ Lent(t, Was, ans # "ok", Other \/ ans = "down", past.litter \/ ans = "down")
  BY <1>2, <1>4, <1>5, QuizSongLent
<1>7. AbsentRight(t) BY <1>1, <1>2, <1>6 DEF AbsentRight
<1>8. InOrder(t) /\ t.locked = ui.locked BY <1>2, <1>6, <1>7, OrderOn DEF SameScreen
<1>9. Going(t, past.late) BY <1>4, <1>6, NoBorrowerTyped DEF Going
<1> DEFINE o == Other \/ ans = "down"
           r == ans # "ok"
<1>10. Lent(t, Was, r, o, past.litter \/ ans = "down") BY <1>6
<1>11. (o => Other \/ ans = "down") /\ (r => RanNow(t)) BY <1>6 DEF RanNow
<1>12. HandedBack(ui, t, Was, r, o) BY <1>6 DEF HandedBack, Lends
<1> HIDE DEF o, r
<1> QED BY <1>1, <1>6, <1>8, <1>9, <1>10, <1>11, <1>12, CalledMpd

\* ... another game, ...
GameOn(s, ans, on) == [NewGame(s, ans) EXCEPT !.quiz.on = on]

\* A new game, on a quiz that is on already or is about to be.
LEMMA NewGameLent == ASSUME NEW s \in Scrs, NEW w \in Spots, NEW r \in BOOLEAN, NEW o \in BOOLEAN, NEW l \in BOOLEAN,
    Lent(s, w, r, o, l), Nobody(s) => w = Now(s.mpd) /\ ~r, ~s.player.borrowed, NEW ans \in MpdAnswers,
    NEW on \in BOOLEAN, NEW t, t = GameOn(s, ans, on)
  PROVE /\ t \in Scrs /\ SameScreen(t, s) /\ t.player = s.player
        /\ t.quiz.borrowed /\ t.quiz.on = on /\ ~t.quiz.done
        /\ ans # "ok" => t.quiz.extra = NoTrack
        /\ ans # "ok" /\ ~s.quiz.borrowed => t.mpd = s.mpd
        /\ Lent(t, w, ans # "ok", o \/ ans = "down", l \/ ans = "down")
<1> DEFINE v == NextExtra(Borrow(s, "quiz", ans # "down"), "quiz", ans)
           q == [v.quiz EXCEPT !.done = FALSE, !.on = on]
<1>1. /\ v \in Scrs /\ SameScreen(v, s) /\ v.player = s.player /\ v.quiz.borrowed
      /\ ans # "ok" => v.quiz.extra = NoTrack
      /\ ans # "ok" /\ ~s.quiz.borrowed => v.mpd = s.mpd
      /\ Lent(v, w, ans # "ok", o \/ ans = "down", l \/ ans = "down")
  BY QuizSongLent
<1>2. NewGame(s, ans) = [v EXCEPT !.quiz.done = FALSE] BY DEF NewGame
<1> HIDE DEF v
<1>3. v.quiz \in Borrowers BY <1>1, ScrTypes
<1>4. /\ q \in Borrowers /\ q.on = on /\ ~q.done /\ q.borrowed = v.quiz.borrowed /\ q.extra = v.quiz.extra
      /\ q.taken = v.quiz.taken /\ q.spot = v.quiz.spot /\ q.far = v.quiz.far
  BY <1>3 DEF Borrowers
<1>5. t = [v EXCEPT !.quiz = q] BY <1>1, <1>2, <1>3 DEF GameOn, Scrs, Borrowers
<1> HIDE DEF q
<1>6. /\ t \in Scrs /\ SameScreen(t, v) /\ t.quiz = q /\ t.player = v.player /\ t.mpd = v.mpd /\ t.suspended = v.suspended
  BY <1>1, <1>4, <1>5 DEF Scrs, SameScreen
<1>7. SameBorrower(t.player, v.player) /\ SameBorrower(t.quiz, v.quiz) BY <1>4, <1>6 DEF SameBorrower
<1>8. Lent(t, w, ans # "ok", o \/ ans = "down", l \/ ans = "down") BY <1>1, <1>6, <1>7, LentSame
<1> QED BY <1>1, <1>4, <1>6, <1>8 DEF SameScreen

LEMMA OnPlayAgainInv == ASSUME ScreenInv, NEW ans \in MpdAnswers, OnPlayAgain(ans) PROVE ScreenStep
<1> DEFINE t == NewGame(ui, ans)
<1>1. Row("quiz") /\ ui.quiz.done /\ CallMpd(t, ans) BY DEF OnPlayAgain
<1>2. /\ ui \in Scrs /\ InOrder(ui) /\ AbsentRight(ui)
      /\ Was \in Spots /\ Ran \in BOOLEAN /\ Other \in BOOLEAN /\ past.litter \in BOOLEAN
      /\ Nobody(ui) => Was = Now(ui.mpd) /\ ~Ran
      /\ Lent(ui, Was, Ran, Other, past.litter)
  BY Before
<1>3. Alone(ui) /\ TopKind(ui.frames) = "quiz" BY <1>1 DEF Row, TopKind, Top
<1>4. ~ui.player.borrowed /\ ui.player = NoBorrower /\ ui.quiz.on BY <1>2, <1>3, OnTop
<1>5. t = GameOn(ui, ans, ui.quiz.on) /\ ui.quiz.on \in BOOLEAN
  <2> DEFINE v == NextExtra(Borrow(ui, "quiz", ans # "down"), "quiz", ans)
             q == [v.quiz EXCEPT !.done = FALSE]
  <2>1. v \in Scrs /\ v.quiz.on = ui.quiz.on
    <3>1. v = NextExtra(Borrow(ui, "quiz", ans # "down"), "quiz", ans) OBVIOUS
    <3>2. /\ ui \in Scrs /\ Was \in Spots /\ Ran \in BOOLEAN /\ Other \in BOOLEAN /\ past.litter \in BOOLEAN
          /\ Nobody(ui) => Was = Now(ui.mpd) /\ ~Ran
          /\ Lent(ui, Was, Ran, Other, past.litter) /\ ~ui.player.borrowed
      BY <1>2, <1>4
    <3> HIDE DEF v, t, q
    <3>3. v \in Scrs /\ v.quiz.on = ui.quiz.on BY <3>1, <3>2, QuizSongLent
    <3> QED BY <3>3
  <2>2. t = [v EXCEPT !.quiz.done = FALSE] BY DEF NewGame
  <2> HIDE DEF v
  <2>3. v.quiz \in Borrowers BY <2>1, ScrTypes
  <2>4. t = [v EXCEPT !.quiz = q] BY <2>1, <2>2 DEF Scrs
  <2>5. q \in Borrowers /\ q.on = ui.quiz.on BY <2>1, <2>3 DEF Borrowers
  <2> HIDE DEF q, t
  <2>6. t \in Scrs /\ t.quiz = q BY <2>1, <2>4, <2>5 DEF Scrs
  <2>7. t = [t EXCEPT !.quiz.on = ui.quiz.on] BY <2>5, <2>6 DEF Scrs, Borrowers
  <2> USE DEF t
  <2>8. ui.quiz.on \in BOOLEAN BY <1>2, ScrTypes, BorrowerTypes
  <2> QED BY <2>7, <2>8 DEF GameOn
<1> HIDE DEF t
<1>6. /\ t \in Scrs /\ SameScreen(t, ui) /\ t.player = ui.player
      /\ t.quiz.borrowed /\ t.quiz.on = ui.quiz.on /\ ~t.quiz.done
      /\ ans # "ok" => t.quiz.extra = NoTrack
      /\ Lent(t, Was, ans # "ok", Other \/ ans = "down", past.litter \/ ans = "down")
  <2>1. /\ ui \in Scrs /\ Was \in Spots /\ Ran \in BOOLEAN /\ Other \in BOOLEAN /\ past.litter \in BOOLEAN
        /\ Nobody(ui) => Was = Now(ui.mpd) /\ ~Ran
        /\ Lent(ui, Was, Ran, Other, past.litter) /\ ~ui.player.borrowed
    BY <1>2, <1>4
  <2> DEFINE on == ui.quiz.on
  <2>2. t = GameOn(ui, ans, on) /\ on \in BOOLEAN BY <1>5
  <2> HIDE DEF on
  <2>3. /\ t \in Scrs /\ SameScreen(t, ui) /\ t.player = ui.player
        /\ t.quiz.borrowed /\ t.quiz.on = on /\ ~t.quiz.done
        /\ ans # "ok" => t.quiz.extra = NoTrack
        /\ Lent(t, Was, ans # "ok", Other \/ ans = "down", past.litter \/ ans = "down")
    BY <2>1, <2>2, NewGameLent
  <2> QED BY <2>3 DEF on
<1>7. AbsentRight(t) BY <1>2, <1>4, <1>6 DEF AbsentRight
<1>8. InOrder(t) /\ t.locked = ui.locked BY <1>2, <1>6, <1>7, OrderOn DEF SameScreen
<1>9. Going(t, past.late) BY <1>4, <1>6, NoBorrowerTyped DEF Going
<1> DEFINE o == Other \/ ans = "down"
           r == ans # "ok"
<1>10. Lent(t, Was, r, o, past.litter \/ ans = "down") BY <1>6
<1>11. (o => Other \/ ans = "down") /\ (r => RanNow(t)) BY <1>6 DEF RanNow
<1>12. HandedBack(ui, t, Was, r, o) BY <1>6 DEF HandedBack, Lends
<1> HIDE DEF o, r
<1> QED BY <1>1, <1>6, <1>8, <1>9, <1>10, <1>11, <1>12, CalledMpd

\* ... or a quiz at all: on a full stack it gives back at once, also when MPD
\* has not played its song and what was there never stopped.
LEMMA PushQuizInv == ASSUME ScreenInv, NEW ans \in MpdAnswers, PushQuiz(ans) PROVE ScreenStep
<1> DEFINE v == GameOn(ui, ans, TRUE)
           up == ans # "down"
           t == Push(v, "quiz", up)
<1>1. Row("menu") /\ CallMpd(t, ans) BY DEF PushQuiz, GameOn
<1>2. /\ ui \in Scrs /\ past \in Pasts /\ InOrder(ui) /\ AbsentRight(ui)
      /\ Was \in Spots /\ Ran \in BOOLEAN /\ Other \in BOOLEAN /\ past.litter \in BOOLEAN
      /\ Nobody(ui) => Was = Now(ui.mpd) /\ ~Ran
      /\ Lent(ui, Was, Ran, Other, past.litter)
  BY Before
<1>3. Alone(ui) /\ TopKind(ui.frames) = "menu" BY <1>1 DEF Row, TopKind, Top
<1>4. /\ ~ui.player.borrowed /\ ~ui.player.on /\ ui.player = NoBorrower /\ ~ui.quiz.on /\ ~ui.locked
      /\ ui.overlay = "none" /\ ~ui.ringing
  BY <1>2, <1>3, OnTop, AloneUncovered
<1>5. ui.quiz = NoBorrower /\ ~ui.quiz.borrowed BY <1>2, <1>4, NoBorrowerTyped DEF AbsentRight
<1>6. /\ v \in Scrs /\ SameScreen(v, ui) /\ v.player = ui.player
      /\ v.quiz.borrowed /\ v.quiz.on = TRUE /\ ~v.quiz.done
      /\ ans # "ok" => v.mpd = ui.mpd /\ v.quiz.extra = NoTrack
      /\ Lent(v, Was, ans # "ok", Other \/ ans = "down", past.litter \/ ans = "down")
  <2>1. /\ ui \in Scrs /\ Was \in Spots /\ Ran \in BOOLEAN /\ Other \in BOOLEAN /\ past.litter \in BOOLEAN
        /\ Nobody(ui) => Was = Now(ui.mpd) /\ ~Ran
        /\ Lent(ui, Was, Ran, Other, past.litter) /\ ~ui.player.borrowed /\ ~ui.quiz.borrowed
    BY <1>2, <1>4, <1>5
  <2> DEFINE on == TRUE
  <2>2. v = GameOn(ui, ans, on) /\ on \in BOOLEAN OBVIOUS
  <2> HIDE DEF v, t, up, on
  <2>3. /\ v \in Scrs /\ SameScreen(v, ui) /\ v.player = ui.player
        /\ v.quiz.borrowed /\ v.quiz.on = on /\ ~v.quiz.done
        /\ ans # "ok" => v.quiz.extra = NoTrack
        /\ ans # "ok" /\ ~ui.quiz.borrowed => v.mpd = ui.mpd
        /\ Lent(v, Was, ans # "ok", Other \/ ans = "down", past.litter \/ ans = "down")
    BY <2>1, <2>2, NewGameLent
  <2> QED BY <2>1, <2>3 DEF on
<1> HIDE DEF v, t
<1>7. CASE Top(v) < StackMax
  <2>1. /\ t \in Scrs /\ PushedOn(t, v.frames, "quiz")
        /\ t.overlay = v.overlay /\ t.ringing = v.ringing /\ t.locked = v.locked /\ SamePlayback(t, v)
    BY <1>6, <1>7, Pushed DEF Kinds, t
  <2>2. Lent(t, Was, ans # "ok", Other \/ ans = "down", past.litter \/ ans = "down") BY <1>6, <2>1, LentOn
  <2>3. /\ PushedOn(t, ui.frames, "quiz") /\ t.overlay = "none" /\ ~t.ringing /\ t.locked = FALSE
        /\ t.player = ui.player /\ t.quiz = v.quiz
    BY <1>2, <1>4, <1>6, <2>1, ScrTypes DEF SameScreen, SamePlayback
  <2>4. Stacked(ui.frames, FALSE, FALSE, FALSE) /\ ui.frames \in Seq(Kinds)
    <3>1. ui.locked = FALSE /\ ui.player.on = FALSE /\ ui.quiz.on = FALSE BY <1>2, <1>4, ScrTypes, BorrowerTypes
    <3> QED BY <1>2, <3>1, ScrTypes DEF InOrder
  <2>5. AbsentRight(t) BY <1>2, <1>4, <1>6, <2>3, NoBorrowerTyped DEF AbsentRight
  <2>6. t.player.on = FALSE /\ t.quiz.on = TRUE BY <1>2, <1>4, <1>6, <2>3, ScrTypes, BorrowerTypes
  <2>7. InOrder(t) BY <1>3, <2>1, <2>3, <2>4, <2>5, <2>6, InOrderPushed DEF Kinds
  <2>8. Going(t, past.late) BY <1>4, <2>3, NoBorrowerTyped DEF Going
  <2>9. t.locked = ui.locked BY <1>2, <1>4, <2>3, ScrTypes
  <2> DEFINE o == Other \/ ans = "down"
             r == ans # "ok"
  <2>10. Lent(t, Was, r, o, past.litter \/ ans = "down") BY <2>2
  <2>11. (o => Other \/ ans = "down") /\ (r => RanNow(t)) BY <1>6, <2>3 DEF RanNow
  <2>12. HandedBack(ui, t, Was, r, o) BY <1>4, <1>5 DEF HandedBack, Lends
  <2> HIDE DEF o, r
  <2> QED BY <1>1, <2>1, <2>7, <2>8, <2>9, <2>10, <2>11, <2>12, CalledMpd
<1>8. CASE ~(Top(v) < StackMax)
  <2>1. t = Freed(v, "quiz", up) BY <1>6, <1>8, PushedFull DEF t
  <2>2. up \in BOOLEAN /\ (~up <=> ans = "down") OBVIOUS
  <2> HIDE DEF up
  <2> DEFINE o2 == Other \/ ans = "down"
             l2 == past.litter \/ ans = "down"
             r2 == ans # "ok"
  <2>3. o2 \in BOOLEAN /\ l2 \in BOOLEAN /\ r2 \in BOOLEAN /\ Lent(v, Was, r2, o2, l2) BY <1>2, <1>6
  <2>4. (l2 \/ ~up => l2) /\ (o2 <=> Other \/ ans = "down") /\ (r2 <=> ans # "ok") BY <2>2
  <2> HIDE DEF o2, r2
  <2>5. /\ t \in Scrs /\ SameScreen(t, v) /\ t.player = v.player /\ t.quiz = NoBorrower
        /\ Lent(t, Was, r2, o2 \/ ~up, l2 \/ ~up)
    <3> HIDE DEF l2
    <3> QED BY <1>2, <1>4, <1>6, <2>1, <2>2, <2>3, FreedLent
  <2>6. AbsentRight(t) BY <1>2, <1>4, <1>6, <2>5, NoBorrowerTyped DEF AbsentRight
  <2>7. SameScreen(t, ui) /\ t.player = ui.player /\ t.quiz = ui.quiz BY <1>5, <1>6, <2>5 DEF SameScreen
  <2>8. InOrder(t) /\ t.locked = ui.locked BY <1>2, <2>5, <2>6, <2>7, OrderOn DEF SameScreen
  <2>9. Going(t, past.late) BY <1>4, <2>7, NoBorrowerTyped DEF Going
  <2> DEFINE o == Other \/ ans = "down"
             r == Ran
  <2>10. Lent(t, Was, r, o, l2)
    <3>1. CASE ans # "refused"
      <4>1. (o2 \/ ~up => o) /\ (o \/ ~r2) BY <2>2, <2>4, <3>1 DEF MpdAnswers
      <4> QED BY <2>4, <2>5, <4>1 DEF Lent, OwedBack
    <3>2. CASE ans = "refused"
      <4> DEFINE w == QuizGivesBack(v, TRUE)
                 mine == v.quiz.extra # NoTrack /\ v.mpd.song = v.quiz.extra
      <4>1. up = TRUE /\ t = [w EXCEPT !.quiz = NoBorrower] BY <2>1, <2>2, <3>2 DEF Freed
      <4>2. MpdRight(v.mpd) /\ mine = FALSE /\ v.quiz.extra = NoTrack BY <1>6, <3>2 DEF Lent
      <4>3. w \in Scrs /\ ~w.suspended /\ w.mpd = GivenBack(v.mpd, v.quiz.spot, mine, v.quiz.extra) /\ w.player = v.player
        BY <1>6, <4>2, QuizHandsBack
      <4>4. w.mpd = v.mpd
        <5> HIDE DEF mine, w
        <5> QED BY <4>2, <4>3 DEF GivenBack
      <4> HIDE DEF w
      <4>5. t.mpd = v.mpd /\ t.suspended = w.suspended BY <4>1, <4>3, <4>4 DEF Scrs
      <4>6. t.mpd = ui.mpd BY <1>6, <3>2, <4>5
      <4>7. t.suspended = ui.suspended
        <5>1. ~ui.suspended BY <1>2, <1>4, <1>5 DEF Lent, BorrowersRight
        <5>2. ui.suspended \in BOOLEAN /\ w.suspended \in BOOLEAN BY <1>2, <4>3, ScrTypes
        <5> QED BY <4>3, <4>5, <5>1, <5>2
      <4>8. Lent(t, Was, Ran, Other, past.litter) BY <1>2, <2>7, <4>6, <4>7, LentOn DEF SamePlayback
      <4> QED BY <4>8 DEF Lent
    <3> QED BY <3>1, <3>2
  <2>11. (o => Other \/ ans = "down") /\ (r => RanNow(t)) BY <1>4, <1>5 DEF Ran, Nobody
  <2>12. HandedBack(ui, t, Was, r, o) BY <1>4, <1>5 DEF HandedBack, Lends
  <2> HIDE DEF o, r
  <2> QED BY <1>1, <2>5, <2>8, <2>9, <2>10, <2>11, <2>12, CalledMpd
<1> QED BY <1>7, <1>8

\* The end of a quiz.
LEMMA QuizEndsInv == ASSUME ScreenInv, NEW up \in BOOLEAN, QuizEnds(up) PROVE ScreenStep
<1> DEFINE v == QuizGivesBack(ui, up)
           ans == IF up THEN "ok" ELSE "down"
           t == [v EXCEPT !.quiz.done = TRUE]
           q == [v.quiz EXCEPT !.done = TRUE]
<1>1. ui.quiz.on /\ ~ui.quiz.done /\ ui.frames[ui.shown] = "quiz" /\ CallMpd(t, ans) BY DEF QuizEnds
<1>2. /\ ui \in Scrs /\ InOrder(ui) /\ AbsentRight(ui)
      /\ Was \in Spots /\ Ran \in BOOLEAN /\ Other \in BOOLEAN /\ past.litter \in BOOLEAN
      /\ Lent(ui, Was, Ran, Other, past.litter)
  BY Before
<1>3. ans \in MpdAnswers /\ (ans = "down" <=> ~up) BY DEF MpdAnswers
<1>4. ~ui.player.borrowed /\ ~ui.player.on /\ ui.player = NoBorrower BY <1>1, <1>2, OnTop
<1> HIDE DEF v
<1>5. /\ v \in Scrs /\ SameScreen(v, ui) /\ v.player = ui.player
      /\ ~v.quiz.borrowed /\ v.quiz.extra = NoTrack
      /\ SamePlace(v.quiz, ui.quiz)
      /\ Lent(v, Was, Ran, Other \/ ~up, past.litter \/ ~up) /\ HandedBack(ui, v, Was, Ran, Other \/ ~up)
  BY <1>2, <1>4, QuizGivesBackLent DEF v
<1>6. v.quiz \in Borrowers BY <1>5, ScrTypes
<1>7. /\ q \in Borrowers /\ q.on = v.quiz.on /\ q.done /\ q.borrowed = v.quiz.borrowed /\ q.extra = v.quiz.extra
      /\ q.taken = v.quiz.taken /\ q.spot = v.quiz.spot /\ q.far = v.quiz.far
  BY <1>6 DEF Borrowers
<1>8. t = [v EXCEPT !.quiz = q] BY <1>5 DEF Scrs
<1> HIDE DEF q, t, ans
<1>9. /\ t \in Scrs /\ SameScreen(t, v) /\ t.quiz = q /\ t.player = v.player /\ t.mpd = v.mpd /\ t.suspended = v.suspended
  BY <1>5, <1>7, <1>8 DEF Scrs, SameScreen
<1>10. SameBorrower(t.player, v.player) /\ SameBorrower(t.quiz, v.quiz) BY <1>7, <1>9 DEF SameBorrower
<1>11. Lent(t, Was, Ran, Other \/ ~up, past.litter \/ ~up) BY <1>5, <1>9, <1>10, LentSame
<1>12. SameScreen(t, ui) /\ t.player = ui.player /\ t.quiz.on = ui.quiz.on BY <1>5, <1>7, <1>9 DEF SameScreen, SamePlace
<1>13. AbsentRight(t) BY <1>1, <1>2, <1>7, <1>9, <1>12 DEF AbsentRight
<1>14. InOrder(t) /\ t.locked = ui.locked BY <1>2, <1>9, <1>12, <1>13, OrderOn DEF SameScreen
<1>15. Going(t, past.late) BY <1>4, <1>12, NoBorrowerTyped DEF Going
<1> DEFINE o == Other \/ ~up
<1> DEFINE r == Ran
<1>16. Lent(t, Was, r, o, past.litter \/ ans = "down") BY <1>3, <1>11 DEF Lent
<1>17. (o => Other \/ ans = "down") /\ (r => RanNow(t)) BY <1>3, <1>5, <1>7, <1>9 DEF RanNow
<1>18. HandedBack(ui, t, Was, r, o) BY <1>5, <1>9, <1>10 DEF HandedBack, Lends, SameBorrower
<1> HIDE DEF o, r
<1> QED BY <1>1, <1>3, <1>9, <1>14, <1>15, <1>16, <1>17, <1>18, CalledMpd
-----------------------------------------------------------------------------
\* A menu, or the Screen Lock.
LEMMA MenuPushed == ASSUME NEW s, InOrder(s), s.overlay = "none", ~s.ringing, ~s.locked,
    TopKind(s.frames) \in {"root", "menu"}, NEW kind \in {"menu", "lock"},
    NEW t \in Scrs, PushedOn(t, s.frames, kind), t.overlay = "none", ~t.ringing, t.locked = (kind = "lock"),
    SamePlayback(t, s)
  PROVE InOrder(t)
<1>1. s \in Scrs /\ AbsentRight(s) /\ t.player = s.player /\ t.quiz = s.quiz BY DEF InOrder, SamePlayback
<1>2. s.frames \in Seq(Kinds) /\ s.quiz.on \in BOOLEAN /\ s.player.on \in BOOLEAN /\ s.locked \in BOOLEAN
  BY <1>1, ScrTypes, BorrowerTypes
<1>3. s.locked = FALSE /\ s.player.on = FALSE BY <1>2, OnTop
<1>4. Stacked(s.frames, FALSE, FALSE, s.quiz.on) BY <1>3 DEF InOrder
<1>5. AbsentRight(t) BY <1>1, AbsentOn
<1>6. t.player.on = (kind = "player") /\ t.quiz.on = (s.quiz.on \/ kind = "quiz") BY <1>1, <1>2, <1>3
<1>7. kind \in Kinds /\ kind # "root" BY DEF Kinds
<1> QED BY <1>2, <1>4, <1>5, <1>6, <1>7, InOrderPushed

\* Another menu.
LEMMA PushMenuInv == ASSUME ScreenInv, PushMenu PROVE ScreenStep
<1> DEFINE t == Push(ui, "menu", TRUE)
<1>1. Alone(ui) /\ TopKind(ui.frames) \in {"root", "menu"} /\ Quietly(t) BY DEF PushMenu, Row, TopKind, Top
<1>2. /\ ui \in Scrs /\ InOrder(ui) /\ Lent(ui, past.was, past.ran, past.other, past.litter) /\ Going(ui, past.late)
  BY DEF ScreenInv, InOrder
<1>3. ui.overlay = "none" /\ ~ui.ringing /\ ~ui.locked BY <1>1, <1>2, AloneUncovered, OnTop
<1> HIDE DEF t
<1>4. CASE Top(ui) < StackMax
  <2>1. /\ t \in Scrs /\ PushedOn(t, ui.frames, "menu")
        /\ t.overlay = ui.overlay /\ t.ringing = ui.ringing /\ t.locked = ui.locked /\ SamePlayback(t, ui)
    BY <1>2, <1>4, Pushed DEF t, Kinds
  <2>2. t.locked = FALSE BY <1>3, <2>1, ScrTypes
  <2>3. InOrder(t) BY <1>1, <1>2, <1>3, <2>1, <2>2, MenuPushed
  <2>4. Lent(t, past.was, past.ran, past.other, past.litter) BY <1>2, <2>1, LentOn
  <2>5. Going(t, past.late) BY <1>2, <2>1 DEF Going, SamePlayback
  <2> QED BY <1>1, <2>1, <2>3, <2>4, <2>5, QuietInv DEF SamePlayback
<1>5. CASE ~(Top(ui) < StackMax)
  <2>1. t = ui BY <1>2, <1>5, PushedFull DEF t, Freed
  <2> QED BY <1>1, <1>2, <2>1, QuietInv
<1> QED BY <1>4, <1>5

\* Locked.
LockedUp(s) == [Push(s, "lock", TRUE) EXCEPT !.locked = TRUE]

\* The Screen Lock goes on a menu, where there is room.
LEMMA LockPushed == ASSUME NEW s, InOrder(s), s.overlay = "none", ~s.ringing, ~s.locked,
    TopKind(s.frames) \in {"root", "menu"}, Top(s) < StackMax, NEW t, t = LockedUp(s)
  PROVE InOrder(t) /\ t.locked /\ SamePlayback(t, s)
<1> DEFINE v == Push(s, "lock", TRUE)
<1>1. s \in Scrs BY DEF InOrder
<1>2. /\ v \in Scrs /\ PushedOn(v, s.frames, "lock")
      /\ v.overlay = s.overlay /\ v.ringing = s.ringing /\ SamePlayback(v, s)
  <2> DEFINE up == TRUE
             kind == "lock"
  <2>1. v = Push(s, kind, up) /\ kind \in Kinds BY DEF Kinds
  <2> HIDE DEF v, up, kind
  <2>2. /\ v \in Scrs /\ PushedOn(v, s.frames, kind)
        /\ v.overlay = s.overlay /\ v.ringing = s.ringing /\ SamePlayback(v, s)
    BY <1>1, <2>1, Pushed
  <2> QED BY <2>2 DEF kind
<1>3. t = [v EXCEPT !.locked = TRUE] BY DEF LockedUp
<1> HIDE DEF v
<1>4. /\ t \in Scrs /\ PushedOn(t, s.frames, "lock") /\ t.overlay = "none" /\ ~t.ringing /\ t.locked = TRUE
      /\ SamePlayback(t, s)
  BY <1>2, <1>3 DEF Scrs, PushedOn, SamePlayback
<1>5. InOrder(t) BY <1>4, MenuPushed
<1> QED BY <1>4, <1>5

\* Lock, ...
LEMMA OnLockInv == ASSUME ScreenInv, OnLock PROVE ScreenStep
<1>1. /\ Alone(ui) /\ TopKind(ui.frames) = "menu" /\ Top(ui) < StackMax
      /\ lockfile' = TRUE /\ ui' = LockedUp(ui) /\ past' = past
  BY DEF OnLock, Row, TopKind, Top, LockedUp
<1>2. /\ ui \in Scrs /\ InOrder(ui) /\ Lent(ui, past.was, past.ran, past.other, past.litter) /\ Going(ui, past.late)
      /\ past \in Pasts /\ (past.early => past.late)
  BY DEF ScreenInv, InOrder
<1>3. ui.overlay = "none" /\ ~ui.ringing /\ ~ui.locked BY <1>1, <1>2, AloneUncovered, OnTop
<1>4. InOrder(ui') /\ ui'.locked /\ SamePlayback(ui', ui)
  <2> DEFINE t == ui'
  <2>1. t = LockedUp(ui) BY <1>1
  <2> HIDE DEF t
  <2>2. InOrder(t) /\ t.locked /\ SamePlayback(t, ui) BY <1>1, <1>2, <1>3, <2>1, LockPushed
  <2> QED BY <2>2 DEF t
<1>5. Lent(ui', past.was, past.ran, past.other, past.litter) BY <1>2, <1>4, LentOn
<1>6. Going(ui', past.late) BY <1>2, <1>4 DEF Going, SamePlayback
<1>7. lockfile' = ui'.locked BY <1>1, <1>4, ScrTypes DEF InOrder
<1>8. PlaysAsBefore BY <1>4 DEF PlaysAsBefore, Lends, SamePlayback
<1> QED BY <1>1, <1>2, <1>4, <1>5, <1>6, <1>7, <1>8 DEF ScreenInv, ScreenStep

\* ... and the right combination.
LEMMA UnlockInv == ASSUME ScreenInv, Unlock PROVE ScreenStep
<1> DEFINE v == [ui EXCEPT !.locked = FALSE]
           t == Pop(v, TRUE)
           w == past.was
           r == past.ran
           o == past.other
           l == past.litter
<1>1. Alone(ui) /\ TopKind(ui.frames) = "lock" /\ lockfile' = FALSE /\ ui' = t /\ past' = past
  BY DEF Unlock, Row, TopKind, Top
<1>2. /\ ui \in Scrs /\ InOrder(ui) /\ AbsentRight(ui) /\ Lent(ui, w, r, o, l) /\ Going(ui, past.late)
      /\ past \in Pasts /\ (past.early => past.late)
  BY DEF ScreenInv, InOrder
<1>3. w \in Spots /\ r \in BOOLEAN /\ o \in BOOLEAN /\ l \in BOOLEAN BY <1>2 DEF Pasts
<1>4. ui.overlay = "none" /\ ~ui.ringing /\ Len(ui.frames) > 1 BY <1>1, <1>2, AloneUncovered, OnTop
<1>5. ui.locked = TRUE BY <1>1, <1>2, OnTop, ScrTypes
<1>6. Stacked(ui.frames, TRUE, ui.player.on, ui.quiz.on) BY <1>2, <1>5 DEF InOrder
<1> HIDE DEF v, w, r, o, l
<1>7. /\ v \in Scrs /\ v.frames = ui.frames /\ v.overlay = ui.overlay /\ v.ringing = ui.ringing /\ ~v.locked
      /\ SamePlayback(v, ui)
  BY <1>2 DEF Scrs, SamePlayback, v
<1>8. /\ Stacked(v.frames, TRUE, v.player.on, v.quiz.on) /\ AbsentRight(v) /\ Lent(v, w, r, o, l)
      /\ v.overlay = "none" /\ ~v.ringing /\ Len(v.frames) > 1 /\ TopKind(v.frames) = "lock" /\ v.player = ui.player
  BY <1>1, <1>2, <1>4, <1>6, <1>7, AbsentOn, LentOn DEF SamePlayback
<1>9. /\ InOrder(t) /\ ~t.locked /\ Lent(t, w, r, o \/ ~TRUE, l \/ ~TRUE) /\ t.player = ui.player
      /\ HandedBack(v, t, w, r, o \/ ~TRUE)
  <2> DEFINE up == TRUE
             locked == TRUE
  <2>1. t = Pop(v, up) /\ up \in BOOLEAN /\ locked \in BOOLEAN /\ Stacked(v.frames, locked, v.player.on, v.quiz.on)
    BY <1>8
  <2> HIDE DEF t, up, locked
  <2>2. /\ InOrder(t) /\ ~t.locked /\ Lent(t, w, r, o \/ ~up, l \/ ~up)
        /\ HandedBack(v, t, w, r, o \/ ~up)
        /\ t.player = IF TopKind(v.frames) = "player" THEN NoBorrower ELSE v.player
    BY <1>3, <1>7, <1>8, <2>1, Popped
  <2> QED BY <1>8, <2>2 DEF up
<1> HIDE DEF t
<1>10. t \in Scrs /\ t.locked = FALSE BY <1>9, ScrTypes DEF InOrder
<1>11. Lent(t, w, r, o, l) BY <1>9 DEF Lent
<1>12. Going(t, past.late) BY <1>2, <1>9 DEF Going
<1>13. PlaysAsBefore
  <2>1. HandedBack(ui, t, w, r, o) BY <1>7, <1>9 DEF HandedBack, Lends, SamePlayback
  <2> QED BY <2>1, <1>1 DEF PlaysAsBefore, HandedBack, w, r, o
<1> QED BY <1>1, <1>2, <1>9, <1>10, <1>11, <1>12, <1>13 DEF ScreenInv, ScreenStep, w, r, o, l

\* Menu: the card goes, or the screen on top.
LEMMA OnMenuInv == ASSUME ScreenInv, NEW ans \in MpdAnswers, OnMenu(ans) PROVE ScreenStep
<1> DEFINE up == ans # "down"
           t == IF ui.overlay # "none" THEN CloseOverlay(ui) ELSE Pop(ui, up)
<1>1. CallMpd(t, ans) /\ ans # "refused" BY DEF OnMenu
<1>2. /\ ui \in Scrs /\ past \in Pasts /\ InOrder(ui) /\ AbsentRight(ui)
      /\ Was \in Spots /\ Ran \in BOOLEAN /\ Other \in BOOLEAN /\ past.litter \in BOOLEAN
      /\ Lent(ui, Was, Ran, Other, past.litter)
  BY Before
<1>3. Going(ui, past.late) BY DEF ScreenInv
<1>4. up \in BOOLEAN /\ (~up <=> ans = "down") OBVIOUS
<1> HIDE DEF up
<1>5. /\ t \in Scrs /\ InOrder(t) /\ t.locked = ui.locked /\ Lent(t, Was, Ran, Other \/ ~up, past.litter \/ ~up)
      /\ HandedBack(ui, t, Was, Ran, Other \/ ~up)
      /\ t.player = ui.player \/ t.player = NoBorrower
      /\ t.quiz = ui.quiz \/ t.quiz = NoBorrower
  <2>1. CASE ui.overlay # "none"
    <3>1. t = CloseOverlay(ui) BY <2>1
    <3> HIDE DEF t
    <3>2. InOrder(t) /\ t.locked = ui.locked /\ SamePlayback(t, ui) BY <1>2, <3>1, Closed
    <3>3. Lent(t, Was, Ran, Other, past.litter) BY <1>2, <3>2, LentOn
    <3> QED BY <3>2, <3>3 DEF InOrder, SamePlayback, Lent, HandedBack, Lends
  <2>2. CASE ui.overlay = "none" /\ (Top(ui) <= 1 \/ ui.locked)
    <3>1. t = ui BY <2>2 DEF Pop
    <3> QED BY <1>2, <3>1 DEF Lent, HandedBack
  <2>3. CASE ui.overlay = "none" /\ ~(Top(ui) <= 1) /\ ~ui.locked
    <3>1. t = Pop(ui, up) BY <2>3
    <3> HIDE DEF t
    <3>2. /\ ~ui.ringing /\ Stacked(ui.frames, ui.locked, ui.player.on, ui.quiz.on) /\ ui.locked \in BOOLEAN
      BY <1>2, <2>3, ScrTypes DEF InOrder, CardRight
    <3>3. Len(ui.frames) > 1 BY <1>2, <2>3, ScrTypes, LenProperties DEF Top
    <3>4. /\ InOrder(t) /\ ~t.locked /\ Lent(t, Was, Ran, Other \/ ~up, past.litter \/ ~up)
          /\ HandedBack(ui, t, Was, Ran, Other \/ ~up)
          /\ t.quiz = ui.quiz \/ t.quiz = NoBorrower
          /\ t.player = IF TopKind(ui.frames) = "player" THEN NoBorrower ELSE ui.player
      <4> DEFINE locked == ui.locked
      <4>1. Stacked(ui.frames, locked, ui.player.on, ui.quiz.on) /\ locked \in BOOLEAN BY <3>2
      <4> HIDE DEF locked
      <4> QED BY <1>2, <1>4, <2>3, <3>1, <3>2, <3>3, <4>1, Popped
    <3>5. t \in Scrs /\ t.locked = ui.locked BY <1>2, <2>3, <3>4, ScrTypes DEF InOrder
    <3> QED BY <3>4, <3>5
  <2> QED BY <2>1, <2>2, <2>3
<1> HIDE DEF t
<1>6. Going(t, past.late) BY <1>3, <1>5, NoBorrowerTyped DEF Going
<1> DEFINE o == Other \/ ~up
<1> DEFINE r == Ran
<1>7. Lent(t, Was, r, o, past.litter \/ ans = "down") BY <1>4, <1>5 DEF Lent
<1>8. (o => Other \/ ans = "down") /\ (r => RanNow(t)) BY <1>4, <1>5, NoBorrowerTyped DEF RanNow
<1>9. HandedBack(ui, t, Was, r, o) BY <1>5
<1> HIDE DEF o, r
<1> QED BY <1>1, <1>5, <1>6, <1>7, <1>8, <1>9, CalledMpd
-----------------------------------------------------------------------------
\* rPod just started.
NoneAdded(m) == \A id \in m.queue : ~(id > 0)

\* The main menu alone, and nothing borrowed.
LEMMA HomeRight == ASSUME NEW m \in Mpds, MpdRight(m), NEW s, s = Home(m), NEW l, l \/ NoneAdded(m)
  PROVE /\ InOrder(s) /\ s.overlay = "none" /\ ~s.ringing /\ s.locked = FALSE /\ s.mpd = m
        /\ Top(s) = 1 /\ TopKind(s.frames) = "root" /\ ~s.player.leaving
        /\ \A w : w = Now(m) => Lent(s, w, FALSE, FALSE, l)
<1>1. <<"root">> \in Seq(Kinds) /\ Len(<<"root">>) = 1 /\ <<"root">>[1] = "root" BY DEF Kinds
<1>2. /\ s \in Scrs /\ s.frames = <<"root">> /\ s.overlay = "none" /\ s.ringing = FALSE /\ s.locked = FALSE
      /\ s.mpd = m /\ s.input = 1 /\ s.default = 1 /\ s.shown = 1 /\ s.player = NoBorrower /\ s.quiz = NoBorrower
      /\ ~s.suspended
  BY <1>1, NoBorrowerTyped DEF Home, Scrs
<1>3. s.player.on = FALSE /\ s.quiz.on = FALSE BY <1>2, NoBorrowerTyped DEF NoBorrower
<1>4. Len(s.frames) = 1 /\ s.frames[1] = "root" /\ s.frames # <<>> BY <1>1, <1>2
<1>5. Stacked(s.frames, s.locked, s.player.on, s.quiz.on)
  <2>1. TopKind(s.frames) = "root" /\ UnderTop(s.frames) BY <1>4 DEF TopKind, UnderTop
  <2>2. (\E i \in 1..Len(s.frames) : s.frames[i] = "quiz") = FALSE BY <1>4
  <2> QED BY <1>2, <1>3, <1>4, <2>1, <2>2 DEF Stacked
<1>6. CardRight(s) /\ AbsentRight(s) BY <1>2, <1>4, NoBorrowerTyped DEF CardRight, AbsentRight
<1>7. ASSUME NEW w, w = Now(m) PROVE Lent(s, w, FALSE, FALSE, l)
  <2>1. BorrowersRight(s) BY <1>2, NoBorrowerTyped DEF BorrowersRight, ExtraRight
  <2>2. l \/ Clean(s) BY <1>2 DEF Clean, NoneAdded
  <2>3. OwedBack(s, w, FALSE) /\ ~s.player.taken BY <1>2, <1>7, NoBorrowerTyped DEF OwedBack, MpdRight, Now, SpotOf
  <2> QED BY <1>2, <2>1, <2>2, <2>3 DEF Lent
<1> QED BY <1>2, <1>4, <1>5, <1>6, <1>7, NoBorrowerTyped DEF InOrder, Top, TopKind

\* It starts again as MPD plays on; locked, it comes up locked.
LEMMA RpodRestartsInv == ASSUME ScreenInv, RpodRestarts PROVE ScreenStep
<1> DEFINE h == Home(ui.mpd)
           t == IF lockfile THEN LockedUp(h) ELSE h
           l == TRUE
<1>1. /\ lockfile' = lockfile /\ ui' = t
      /\ past' = [past EXCEPT !.other = TRUE, !.litter = TRUE, !.nested = FALSE]
  BY DEF RpodRestarts, LockedUp
<1>2. /\ ui \in Scrs /\ past \in Pasts /\ MpdRight(ui.mpd) /\ lockfile \in BOOLEAN /\ (past.early => past.late)
  BY ScrTypes DEF ScreenInv, InOrder, Lent
<1>3. ui.mpd \in Mpds BY <1>2, ScrTypes
<1>4. /\ InOrder(h) /\ h.overlay = "none" /\ ~h.ringing /\ h.locked = FALSE /\ h.mpd = ui.mpd
      /\ Top(h) = 1 /\ TopKind(h.frames) = "root" /\ ~h.player.leaving
      /\ \A w : w = Now(ui.mpd) => Lent(h, w, FALSE, FALSE, TRUE)
  <2> DEFINE m == ui.mpd
  <2>1. m \in Mpds /\ MpdRight(m) /\ h = Home(m) /\ (l \/ NoneAdded(m)) BY <1>2, <1>3
  <2> HIDE DEF m, h, l
  <2>2. /\ InOrder(h) /\ h.overlay = "none" /\ ~h.ringing /\ h.locked = FALSE /\ h.mpd = m
        /\ Top(h) = 1 /\ TopKind(h.frames) = "root" /\ ~h.player.leaving
        /\ \A w : w = Now(m) => Lent(h, w, FALSE, FALSE, l)
    BY <2>1, HomeRight
  <2> QED BY <2>2 DEF m, l
<1> HIDE DEF h
<1>5. InOrder(t) /\ SamePlayback(t, h) /\ t.locked = lockfile
  <2>1. CASE lockfile
    <3>1. t = LockedUp(h) BY <2>1
    <3>2. Top(h) < StackMax BY <1>4, ScreensAssumption
    <3> HIDE DEF t
    <3>3. InOrder(t) /\ t.locked /\ SamePlayback(t, h) BY <1>4, <3>1, <3>2, LockPushed
    <3> QED BY <1>2, <2>1, <3>3, ScrTypes DEF InOrder
  <2>2. CASE ~lockfile BY <1>2, <1>4, <2>2 DEF SamePlayback
  <2> QED BY <2>1, <2>2
<1> HIDE DEF t
<1>6. /\ past' \in Pasts /\ past'.other /\ past'.litter /\ past'.late = past.late /\ past'.early = past.early
  BY <1>1, <1>2 DEF Pasts
<1>7. Lent(t, past'.was, past'.ran, past'.other, past'.litter)
  <2> DEFINE w == Now(ui.mpd)
  <2>0. Lent(h, w, FALSE, FALSE, TRUE) BY <1>4
  <2> HIDE DEF w
  <2>1. Lent(t, w, FALSE, FALSE, TRUE) BY <2>0, <1>5, LentOn
  <2> QED BY <1>6, <2>1 DEF Lent
<1>8. Going(t, past'.late) BY <1>4, <1>5 DEF Going, SamePlayback
<1>9. PlaysAsBefore BY <1>6 DEF PlaysAsBefore
<1> QED BY <1>1, <1>2, <1>5, <1>6, <1>7, <1>8, <1>9 DEF ScreenInv, ScreenStep
-----------------------------------------------------------------------------
\* Cards.
LEMMA ShowCardInv == ASSUME ScreenInv, ShowCard PROVE ScreenStep
<1> DEFINE t == OpenOverlay(ui, "card")
<1>1. ui.overlay = "none" /\ Quietly(t) BY DEF ShowCard
<1>2. /\ ui \in Scrs /\ InOrder(ui) /\ Lent(ui, past.was, past.ran, past.other, past.litter) /\ Going(ui, past.late)
  BY DEF ScreenInv, InOrder
<1>3. t = [ui EXCEPT !.overlay = "card", !.input = Card, !.default = Card] BY <1>1 DEF OpenOverlay
<1>4. ui.ringing = FALSE BY <1>1, <1>2, ScrTypes DEF InOrder, CardRight
<1> HIDE DEF t
<1>5. /\ t \in Scrs /\ t.frames = ui.frames /\ t.locked = ui.locked /\ t.shown = ui.shown
      /\ t.overlay = "card" /\ t.input = Card /\ t.default = Card /\ t.ringing = FALSE /\ SamePlayback(t, ui)
  BY <1>2, <1>3, <1>4 DEF Scrs, SamePlayback, Card
<1>6. InOrder(t)
  <2>1. AbsentRight(t) BY <1>2, <1>5, AbsentOn DEF InOrder, SamePlayback
  <2> QED BY <1>2, <1>5, <2>1 DEF InOrder, CardRight, SamePlayback
<1>7. Lent(t, past.was, past.ran, past.other, past.litter) BY <1>2, <1>5, LentOn
<1>8. Going(t, past.late) BY <1>2, <1>5 DEF Going, SamePlayback
<1> QED BY <1>1, <1>5, <1>6, <1>7, <1>8, QuietInv DEF SamePlayback

\* A card closes: what it was for goes on elsewhere, ...
LEMMA QuietlyClosed == ASSUME ScreenInv, NEW t, Quietly(t), t = CloseOverlay(ui) PROVE ScreenStep
<1>1. /\ ui \in Scrs /\ InOrder(ui) /\ Lent(ui, past.was, past.ran, past.other, past.litter) /\ Going(ui, past.late)
  BY DEF ScreenInv, InOrder
<1>2. InOrder(t) /\ t.locked = ui.locked /\ SamePlayback(t, ui) BY <1>1, Closed
<1>3. Lent(t, past.was, past.ran, past.other, past.litter) BY <1>1, <1>2, LentOn
<1>4. Going(t, past.late) BY <1>1, <1>2 DEF Going, SamePlayback
<1> QED BY <1>2, <1>3, <1>4, QuietInv DEF SamePlayback

\* ... by itself, ...
LEMMA CloseCardInv == ASSUME ScreenInv, CloseCard PROVE ScreenStep
BY QuietlyClosed DEF CloseCard

\* ... or as the screens are built anew.
LEMMA OnThemeChangeInv == ASSUME ScreenInv, OnThemeChange PROVE ScreenStep
<1> DEFINE c == CloseOverlay(ui)
           t == Rebuild(ui)
<1>1. Quietly(t) /\ InOrder(ui) BY DEF OnThemeChange, ScreenInv
<1>2. t = [c EXCEPT !.input = Top(c), !.default = Top(c), !.shown = Top(c)] BY DEF Rebuild
<1> HIDE DEF t, c
<1>3. InOrder(c) /\ c.overlay = "none" BY <1>1, Closed DEF c
<1>4. c \in Scrs /\ c.input = Top(c) /\ c.default = Top(c) /\ c.shown = Top(c) BY <1>3 DEF InOrder, CardRight, Top
<1>5. t = c BY <1>2, <1>4 DEF Scrs
<1> QED BY <1>1, <1>5, QuietlyClosed DEF c
-----------------------------------------------------------------------------
\* Someone else takes playback.
LEMMA LentToOthers == ASSUME NEW s, NEW t, NEW w, NEW r, NEW o, NEW l, Lent(s, w, r, o, l),
    t.player = s.player, t.quiz = s.quiz, t.suspended = s.suspended,
    MpdRight(t.mpd), t.mpd.next = s.mpd.next, NoneAdded(t.mpd) \/ t.mpd.queue = s.mpd.queue
  PROVE Lent(t, w, r, TRUE, l)
<1>1. BorrowersRight(t) BY DEF Lent, BorrowersRight, ExtraRight
<1>2. l \/ Clean(t) BY DEF Lent, Clean, NoneAdded
<1> QED BY <1>1, <1>2 DEF Lent

\* A step with which someone else took playback.
LEMMA OthersInv == ASSUME ScreenInv, NEW t, ui' = t, lockfile' = lockfile, past' = [past EXCEPT !.other = TRUE],
    InOrder(t), t.locked = ui.locked, Lent(t, past.was, past.ran, TRUE, past.litter), t.player = ui.player
  PROVE ScreenStep
<1>1. past \in Pasts /\ Going(ui, past.late) /\ (past.early => past.late) /\ lockfile = ui.locked BY DEF ScreenInv
<1>2. /\ past' \in Pasts /\ past'.was = past.was /\ past'.other = TRUE /\ past'.ran = past.ran /\ past'.litter = past.litter
      /\ past'.late = past.late /\ past'.early = past.early
  BY <1>1 DEF Pasts
<1>3. Going(t, past'.late) BY <1>1, <1>2 DEF Going
<1>4. PlaysAsBefore BY <1>2 DEF PlaysAsBefore
<1> QED BY <1>1, <1>2, <1>3, <1>4 DEF ScreenInv, ScreenStep

\* The alarm goes off, ...
LEMMA GoOffInv == ASSUME ScreenInv, NEW up, NEW again, GoOff(up, again) PROVE ScreenStep
<1> DEFINE m == IF ~up THEN ui.mpd
                ELSE IF again /\ ui.mpd.state # "stop" THEN [ui.mpd EXCEPT !.state = "play"]
                ELSE [ui.mpd EXCEPT !.song = Alarms, !.state = "play", !.queue = {Alarms}]
           c == CloseOverlay(ui)
           t == [OpenOverlay(c, "alarm") EXCEPT !.ringing = TRUE, !.mpd = m]
<1>1. lockfile' = lockfile /\ ui' = t /\ past' = [past EXCEPT !.other = TRUE] BY DEF GoOff
<1>2. ui \in Scrs /\ InOrder(ui) /\ Lent(ui, past.was, past.ran, past.other, past.litter) BY DEF ScreenInv, InOrder
<1>3. ui.mpd \in Mpds /\ MpdRight(ui.mpd) BY <1>2, ScrTypes DEF Lent
<1>4. /\ m \in Mpds /\ MpdRight(m) /\ m.next = ui.mpd.next /\ (NoneAdded(m) \/ m.queue = ui.mpd.queue)
  <2>1. CASE ~up BY <2>1, <1>3
  <2>2. CASE up /\ again /\ ui.mpd.state # "stop" BY <2>2, <1>3 DEF Mpds, MpdRight, States
  <2>3. CASE up /\ ~(again /\ ui.mpd.state # "stop")
    <3>1. m = [ui.mpd EXCEPT !.song = Alarms, !.state = "play", !.queue = {Alarms}] BY <2>3
    <3>2. Alarms \in Int /\ Alarms < 0 /\ Alarms # NoTrack BY DEF Alarms, NoTrack
    <3> HIDE DEF m
    <3>3. /\ m \in Mpds /\ m.song = Alarms /\ m.state = "play" /\ m.queue = {Alarms} /\ m.next = ui.mpd.next
          /\ ui.mpd.next \in Nat
      BY <1>3, <3>1, <3>2 DEF Mpds, States
    <3>4. MpdRight(m) BY <1>3, <3>2, <3>3 DEF MpdRight
    <3>5. NoneAdded(m) BY <3>2, <3>3 DEF NoneAdded
    <3> QED BY <3>3, <3>4, <3>5
  <2> QED BY <2>1, <2>2, <2>3
<1> HIDE DEF m, c
<1>5. InOrder(c) /\ c.overlay = "none" /\ c.locked = ui.locked /\ SamePlayback(c, ui) /\ c \in Scrs
  BY <1>2, Closed DEF c, InOrder
<1>6. t = [c EXCEPT !.overlay = "alarm", !.input = Card, !.default = Card, !.ringing = TRUE, !.mpd = m]
  BY <1>5 DEF OpenOverlay, Scrs
<1> HIDE DEF t
<1>7. /\ t \in Scrs /\ t.frames = c.frames /\ t.locked = c.locked /\ t.shown = c.shown
      /\ t.player = c.player /\ t.quiz = c.quiz /\ t.suspended = c.suspended /\ t.mpd = m
      /\ t.overlay = "alarm" /\ t.input = Card /\ t.default = Card /\ t.ringing = TRUE
  BY <1>4, <1>5, <1>6 DEF Scrs, Card
<1>8. InOrder(t)
  <2>1. AbsentRight(t) BY <1>5, <1>7, AbsentOn DEF InOrder
  <2> QED BY <1>5, <1>7, <2>1 DEF InOrder, CardRight
<1>9. Lent(t, past.was, past.ran, TRUE, past.litter)
  <2>1. t.player = ui.player /\ t.quiz = ui.quiz /\ t.suspended = ui.suspended BY <1>5, <1>7 DEF SamePlayback
  <2>2. MpdRight(t.mpd) /\ t.mpd.next = ui.mpd.next /\ (NoneAdded(t.mpd) \/ t.mpd.queue = ui.mpd.queue) BY <1>4, <1>7
  <2> QED BY <1>2, <2>1, <2>2, LentToOthers
<1> QED BY <1>1, <1>5, <1>7, <1>8, <1>9, OthersInv DEF SamePlayback

\* A step of MPD's alone, that is not a borrower's.
LEMMA MpdAlone == ASSUME NEW s, InOrder(s), NEW m \in Mpds, NEW t, t = [s EXCEPT !.mpd = m]
  PROVE /\ InOrder(t) /\ t.locked = s.locked /\ t.mpd = m
        /\ t.player = s.player /\ t.quiz = s.quiz /\ t.suspended = s.suspended
<1>1. s \in Scrs BY DEF InOrder
<1>2. /\ t \in Scrs /\ SameScreen(t, s) /\ t.mpd = m
      /\ t.player = s.player /\ t.quiz = s.quiz /\ t.suspended = s.suspended
  BY <1>1 DEF Scrs, SameScreen
<1>3. AbsentRight(t) BY <1>2, AbsentOn DEF InOrder
<1>4. InOrder(t) BY <1>2, <1>3, OrderOn
<1> QED BY <1>2, <1>4 DEF SameScreen

\* ... and is snoozed or stopped.
LEMMA EndAlarmInv == ASSUME ScreenInv, EndAlarm PROVE ScreenStep
<1> DEFINE m == [ui.mpd EXCEPT !.state = IF @ = "play" THEN "pause" ELSE @]
           c == CloseOverlay(ui)
           t == CloseOverlay([ui EXCEPT !.ringing = FALSE, !.mpd.state = IF @ = "play" THEN "pause" ELSE @])
<1>1. ui.overlay = "alarm" /\ lockfile' = lockfile /\ ui' = t /\ past' = [past EXCEPT !.other = TRUE] BY DEF EndAlarm
<1>2. ui \in Scrs /\ InOrder(ui) /\ Lent(ui, past.was, past.ran, past.other, past.litter) BY DEF ScreenInv, InOrder
<1>3. ui.mpd \in Mpds /\ MpdRight(ui.mpd) /\ ui.ringing = TRUE
  BY <1>1, <1>2, ScrTypes DEF Lent, InOrder, CardRight
<1>4. m \in Mpds /\ MpdRight(m) /\ m.next = ui.mpd.next /\ m.queue = ui.mpd.queue
  BY <1>3 DEF Mpds, MpdRight, States
<1>5. t = [c EXCEPT !.mpd = m]
  BY <1>1, <1>2, <1>3 DEF CloseOverlay, Scrs, Top
<1> HIDE DEF m, c, t
<1>6. InOrder(c) /\ c.locked = ui.locked /\ SamePlayback(c, ui) BY <1>2, Closed DEF c
<1>7. /\ InOrder(t) /\ t.locked = c.locked /\ t.mpd = m
      /\ t.player = c.player /\ t.quiz = c.quiz /\ t.suspended = c.suspended
  BY <1>4, <1>5, <1>6, MpdAlone
<1>8. Lent(t, past.was, past.ran, TRUE, past.litter)
  <2>1. t.player = ui.player /\ t.quiz = ui.quiz /\ t.suspended = ui.suspended BY <1>6, <1>7 DEF SamePlayback
  <2>2. MpdRight(t.mpd) /\ t.mpd.next = ui.mpd.next /\ (NoneAdded(t.mpd) \/ t.mpd.queue = ui.mpd.queue) BY <1>4, <1>7
  <2> QED BY <1>2, <2>1, <2>2, LentToOthers
<1> QED BY <1>1, <1>6, <1>7, <1>8, OthersInv DEF SamePlayback

\* Another song, played from elsewhere.
LEMMA TakeOverInv == ASSUME ScreenInv, TakeOver PROVE ScreenStep
<1>1. PICK song \in {0, Alarms} \intersect ui.mpd.queue : ui' = [ui EXCEPT !.mpd.song = song, !.mpd.state = "play"]
  BY DEF TakeOver
<1>2. lockfile' = lockfile /\ past' = [past EXCEPT !.other = TRUE] BY DEF TakeOver
<1>3. ui \in Scrs /\ InOrder(ui) /\ Lent(ui, past.was, past.ran, past.other, past.litter) BY DEF ScreenInv, InOrder
<1>4. ui.mpd \in Mpds /\ MpdRight(ui.mpd) BY <1>3, ScrTypes DEF Lent
<1> DEFINE m == [ui.mpd EXCEPT !.song = song, !.state = "play"]
           t == [ui EXCEPT !.mpd = m]
<1>5. ui' = t BY <1>1, <1>3, <1>4 DEF Scrs, Mpds
<1>6. m \in Mpds /\ MpdRight(m) /\ m.next = ui.mpd.next /\ m.queue = ui.mpd.queue
  BY <1>1, <1>4 DEF Mpds, MpdRight, States
<1> HIDE DEF m
<1>7. /\ InOrder(t) /\ t.locked = ui.locked /\ t.mpd = m
      /\ t.player = ui.player /\ t.quiz = ui.quiz /\ t.suspended = ui.suspended
  BY <1>3, <1>6, MpdAlone
<1> HIDE DEF t
<1>8. Lent(t, past.was, past.ran, TRUE, past.litter) BY <1>3, <1>6, <1>7, LentToOthers
<1> QED BY <1>2, <1>5, <1>7, <1>8, OthersInv

\* Play/Pause.
LEMMA PauseOrPlayInv == ASSUME ScreenInv, PauseOrPlay PROVE ScreenStep
<1> DEFINE m == [ui.mpd EXCEPT !.state = IF @ = "play" THEN "pause" ELSE "play"]
           t == [ui EXCEPT !.mpd = m]
<1>1. /\ ui \in Scrs /\ InOrder(ui) /\ Lent(ui, past.was, past.ran, past.other, past.litter) /\ Going(ui, past.late)
  BY DEF ScreenInv, InOrder
<1>2. ui.mpd \in Mpds /\ MpdRight(ui.mpd) BY <1>1, ScrTypes DEF Lent
<1>3. ui.mpd.state # "stop" /\ Quietly(t) BY <1>1, <1>2 DEF PauseOrPlay, Scrs, Mpds
<1>4. m \in Mpds /\ MpdRight(m) /\ m.next = ui.mpd.next /\ m.queue = ui.mpd.queue /\ m.song = ui.mpd.song
  BY <1>2, <1>3 DEF Mpds, MpdRight, States
<1> HIDE DEF m
<1>5. /\ InOrder(t) /\ t.locked = ui.locked /\ t.mpd = m
      /\ t.player = ui.player /\ t.quiz = ui.quiz /\ t.suspended = ui.suspended
  BY <1>1, <1>4, MpdAlone
<1> HIDE DEF t
<1>6. Lent(t, past.was, past.ran, past.other, past.litter)
  <2>1. Lent(t, past.was, past.ran, TRUE, past.litter) BY <1>1, <1>4, <1>5, LentToOthers
  <2>2. ~past.other => OwedBack(t, past.was, past.ran) /\ ~t.player.taken
    BY <1>1, <1>2, <1>3, <1>4, <1>5 DEF Lent, OwedBack, MpdRight
  <2> QED BY <2>1, <2>2 DEF Lent
<1>7. Going(t, past.late) BY <1>1, <1>5 DEF Going
<1> QED BY <1>3, <1>5, <1>6, <1>7, QuietInv

\* The end of a borrower's song.
LEMMA ExtraEndsInv == ASSUME ScreenInv, NEW repeats \in BOOLEAN, ExtraEnds(repeats) PROVE ScreenStep
<1> DEFINE m == [ui.mpd EXCEPT !.song = IF repeats THEN 0 ELSE NoTrack, !.state = IF repeats THEN "play" ELSE "stop"]
           t == [ui EXCEPT !.mpd = m]
           ran == past.ran \/ ui.mpd.song = ui.quiz.extra
           other == past.other \/ ui.mpd.song \notin {ui.player.extra, ui.quiz.extra}
<1>1. /\ ui \in Scrs /\ InOrder(ui) /\ Lent(ui, past.was, past.ran, past.other, past.litter) /\ Going(ui, past.late)
      /\ past \in Pasts /\ lockfile = ui.locked /\ (past.early => past.late)
  BY DEF ScreenInv, InOrder
<1>2. ui.mpd \in Mpds /\ MpdRight(ui.mpd) BY <1>1, ScrTypes DEF Lent
<1>3. /\ ui.mpd.song > 0 /\ (ui.mpd.song = ui.player.extra => ui.player.far # "middle")
      /\ repeats => 0 \in ui.mpd.queue
      /\ ui' = t /\ lockfile' = lockfile /\ past' = [past EXCEPT !.ran = ran, !.other = other]
  BY <1>1, <1>2 DEF ExtraEnds, Scrs, Mpds
<1>4. m \in Mpds /\ MpdRight(m) /\ m.next = ui.mpd.next /\ m.queue = ui.mpd.queue
  BY <1>2, <1>3, NoTrackInt DEF Mpds, MpdRight, States
<1> HIDE DEF m
<1>5. /\ InOrder(t) /\ t.locked = ui.locked /\ t.mpd = m
      /\ t.player = ui.player /\ t.quiz = ui.quiz /\ t.suspended = ui.suspended
  BY <1>1, <1>4, MpdAlone
<1>6. /\ other \in BOOLEAN /\ ran \in BOOLEAN /\ (past.other => other) /\ (past.ran => ran)
      /\ ~other => ui.mpd.song = ui.player.extra \/ ui.mpd.song = ui.quiz.extra
      /\ ui.mpd.song = ui.quiz.extra => ran
  BY <1>1 DEF Pasts
<1> HIDE DEF t, other, ran
<1>7. Lent(t, past.was, ran, other, past.litter)
  <2>1. Lent(t, past.was, past.ran, TRUE, past.litter) BY <1>1, <1>4, <1>5, LentToOthers
  <2>2. ASSUME ~other PROVE OwedBack(t, past.was, ran) /\ ~t.player.taken
    <3>1. ~past.other /\ OwedBack(ui, past.was, past.ran) /\ ~ui.player.taken BY <2>2, <1>1, <1>6 DEF Lent
    <3>2. ui.mpd.song \in Int /\ ui.mpd.song # NoTrack BY <1>2, <1>3, NoTrackInt, MpdTypes
    <3>3. CASE ui.mpd.song = ui.player.extra
      <4>1. ui.player.borrowed /\ ui.player.far # "middle"
        BY <3>2, <3>3, <1>1, <1>3 DEF Lent, BorrowersRight, ExtraRight
      <4> QED BY <3>1, <4>1, <1>4, <1>5, <1>6 DEF OwedBack
    <3>4. CASE ui.mpd.song = ui.quiz.extra
      <4>1. ui.quiz.borrowed /\ ui.player.extra # ui.mpd.song
        BY <3>2, <3>4, <1>1 DEF Lent, BorrowersRight, ExtraRight
      <4> QED BY <3>1, <3>4, <4>1, <1>4, <1>5, <1>6 DEF OwedBack
    <3> QED BY <3>3, <3>4, <2>2, <1>6
  <2>3. Lent(t, past.was, past.ran, TRUE, past.litter) => MpdRight(t.mpd) /\ BorrowersRight(t) /\ (past.litter \/ Clean(t))
    BY DEF Lent
  <2> QED BY <2>1, <2>2, <2>3 DEF Lent
<1>8. /\ past' \in Pasts /\ past'.was = past.was /\ past'.other = other /\ past'.ran = ran /\ past'.litter = past.litter
      /\ past'.late = past.late /\ past'.early = past.early
  BY <1>1, <1>3, <1>6 DEF Pasts
<1>9. Going(t, past'.late) BY <1>1, <1>5, <1>8 DEF Going
<1>10. PlaysAsBefore BY <1>3, <1>5 DEF PlaysAsBefore, Lends
<1> QED BY <1>1, <1>3, <1>5, <1>7, <1>8, <1>9, <1>10 DEF ScreenInv, ScreenStep
-----------------------------------------------------------------------------
\* A step of the player's record alone.
StaysOn(p, b) == p \in Borrowers /\ b.on /\ p.on = b.on /\ (p.taken => p.borrowed /\ p.leaving)

\* A step that changes the player's record leaves the screen in order, ...
LEMMA PlayerAlone == ASSUME NEW s, InOrder(s), NEW p, StaysOn(p, s.player), NEW t, t = [s EXCEPT !.player = p]
  PROVE /\ t \in Scrs /\ InOrder(t) /\ t.locked = s.locked /\ t.frames = s.frames /\ t.overlay = s.overlay
        /\ t.player = p /\ t.quiz = s.quiz
        /\ t.suspended = s.suspended /\ t.mpd = s.mpd
<1>1. s \in Scrs BY DEF InOrder
<1>2. /\ t \in Scrs /\ SameScreen(t, s) /\ t.mpd = s.mpd
      /\ t.player = p /\ t.quiz = s.quiz /\ t.suspended = s.suspended
  BY <1>1 DEF Scrs, SameScreen, StaysOn
<1>3. AbsentRight(t) BY <1>2 DEF InOrder, AbsentRight, StaysOn
<1>4. InOrder(t) BY <1>2, <1>3, OrderOn DEF StaysOn
<1> QED BY <1>2, <1>4 DEF SameScreen

\* ... and playback lent, when it keeps what was borrowed.
LEMMA LentPlayer == ASSUME NEW s, NEW t, NEW w, NEW r, NEW o, NEW l, Lent(s, w, r, o, l),
    t.mpd = s.mpd, t.suspended = s.suspended, t.quiz = s.quiz,
    t.player.borrowed = s.player.borrowed, t.player.extra = s.player.extra, t.player.spot = s.player.spot,
    ~o => ~t.player.taken, t.player.far = "middle" => s.player.far = "middle" \/ s.mpd.song = s.player.extra
  PROVE Lent(t, w, r, o, l)
<1>1. BorrowersRight(t) BY DEF Lent, BorrowersRight, ExtraRight
<1>2. l \/ Clean(t) BY DEF Lent, Clean
<1>3. ~o => OwedBack(t, w, r) BY DEF Lent, OwedBack
<1> QED BY <1>1, <1>2, <1>3 DEF Lent

\* The video plays on.
LEMMA VideoPlaysOnInv == ASSUME ScreenInv, VideoPlaysOn PROVE ScreenStep
<1> DEFINE p == [ui.player EXCEPT !.far = IF @ = "start" THEN "middle" ELSE "end"]
           t == [ui EXCEPT !.player = p]
           o == past.other
<1>1. /\ ui \in Scrs /\ InOrder(ui) /\ AbsentRight(ui) /\ Lent(ui, past.was, past.ran, o, past.litter) /\ Going(ui, past.late)
  BY DEF ScreenInv, InOrder
<1>2. ui.player \in Borrowers BY <1>1, ScrTypes
<1>3. ui.player.on /\ ui.mpd.song = ui.player.extra /\ Quietly(t) BY <1>1, <1>2 DEF VideoPlaysOn, Scrs, Borrowers
<1>4. /\ p \in Borrowers /\ p.on = ui.player.on /\ p.taken = ui.player.taken /\ p.borrowed = ui.player.borrowed
      /\ p.leaving = ui.player.leaving /\ p.extra = ui.player.extra /\ p.over = ui.player.over
      /\ p.spot = ui.player.spot
  BY <1>2 DEF Borrowers
<1> HIDE DEF p
<1>5. p.taken => p.borrowed /\ p.leaving BY <1>1, <1>4 DEF AbsentRight
<1>6. /\ InOrder(t) /\ t.locked = ui.locked /\ t.player = p /\ t.quiz = ui.quiz
      /\ t.suspended = ui.suspended /\ t.mpd = ui.mpd
  <2>1. InOrder(ui) /\ StaysOn(p, ui.player) /\ t = [ui EXCEPT !.player = p] BY <1>1, <1>3, <1>4, <1>5 DEF StaysOn
  <2> HIDE DEF t
  <2> QED BY <2>1, PlayerAlone
<1> HIDE DEF t, o
<1>7. Lent(t, past.was, past.ran, o, past.litter)
  <2>1. ~o => ~t.player.taken BY <1>1, <1>4, <1>6 DEF Lent
  <2> QED BY <1>1, <1>3, <1>4, <1>6, <2>1, LentPlayer
<1>8. Going(t, past.late) BY <1>1, <1>4, <1>6 DEF Going
<1> QED BY <1>3, <1>4, <1>6, <1>7, <1>8, QuietInv DEF o

\* Past the last video.
LEMMA SkipLastInv == ASSUME ScreenInv, SkipLast PROVE ScreenStep
<1> DEFINE p == [ui.player EXCEPT !.leaving = TRUE, !.over = ui.player.extra]
           t == [ui EXCEPT !.player = p]
           o == past.other
<1>1. /\ ui \in Scrs /\ InOrder(ui) /\ AbsentRight(ui) /\ Lent(ui, past.was, past.ran, o, past.litter)
  BY DEF ScreenInv, InOrder
<1>2. ui.player \in Borrowers /\ ui.player.extra \in Int BY <1>1, ScrTypes, BorrowerTypes
<1>3. ui.player.on /\ Quietly(t) BY <1>1, <1>2 DEF SkipLast, Scrs, Borrowers
<1>4. /\ p \in Borrowers /\ p.on = ui.player.on /\ p.taken = ui.player.taken /\ p.borrowed = ui.player.borrowed
      /\ p.leaving /\ p.extra = ui.player.extra /\ p.over = p.extra
      /\ p.spot = ui.player.spot /\ p.far = ui.player.far
  BY <1>2 DEF Borrowers
<1> HIDE DEF p
<1>5. p.taken => p.borrowed /\ p.leaving BY <1>1, <1>4 DEF AbsentRight
<1>6. /\ InOrder(t) /\ t.locked = ui.locked /\ t.player = p /\ t.quiz = ui.quiz
      /\ t.suspended = ui.suspended /\ t.mpd = ui.mpd
  <2>1. InOrder(ui) /\ StaysOn(p, ui.player) /\ t = [ui EXCEPT !.player = p] BY <1>1, <1>3, <1>4, <1>5 DEF StaysOn
  <2> HIDE DEF t
  <2> QED BY <2>1, PlayerAlone
<1> HIDE DEF t, o
<1>7. Lent(t, past.was, past.ran, o, past.litter)
  <2>1. ~o => ~t.player.taken BY <1>1, <1>4, <1>6 DEF Lent
  <2> QED BY <1>1, <1>4, <1>6, <2>1, LentPlayer
<1>8. Going(t, past.late) BY <1>4, <1>6 DEF Going
<1> QED BY <1>3, <1>4, <1>6, <1>7, <1>8, QuietInv DEF o

\* A video that never got going gives back, and the player stays.
LEMMA PollNeverPlayedInv == ASSUME ScreenInv, PollNeverPlayed PROVE ScreenStep
<1> DEFINE t == GiveBack(ui, TRUE)
           ans == "ok"
           up == TRUE
<1>1. ui.player.on /\ ~ui.player.leaving /\ CallMpd(t, ans) BY DEF PollNeverPlayed, Lost
<1>2. /\ ui \in Scrs /\ InOrder(ui) /\ AbsentRight(ui)
      /\ Was \in Spots /\ Ran \in BOOLEAN /\ Other \in BOOLEAN /\ past.litter \in BOOLEAN
      /\ Lent(ui, Was, Ran, Other, past.litter)
  BY Before
<1>3. ans \in MpdAnswers /\ up \in BOOLEAN /\ t = GiveBack(ui, up) BY DEF MpdAnswers
<1> HIDE DEF t, ans, up
<1>4. /\ t \in Scrs /\ SameScreen(t, ui) /\ t.quiz = ui.quiz
      /\ ~t.player.borrowed /\ t.player.extra = NoTrack
      /\ SamePlace(t.player, ui.player)
      /\ Lent(t, Was, Ran, Other \/ ~up, past.litter \/ ~up) /\ HandedBack(ui, t, Was, Ran, Other \/ ~up)
  BY <1>2, <1>3, GiveBackLent
<1>5. t.player.on = ui.player.on /\ ~t.player.leaving /\ ~t.player.taken
  BY <1>1, <1>2, <1>4 DEF SamePlace, AbsentRight
<1>6. AbsentRight(t) BY <1>1, <1>2, <1>4, <1>5 DEF AbsentRight
<1>7. InOrder(t) /\ t.locked = ui.locked BY <1>2, <1>4, <1>5, <1>6, OrderOn DEF SameScreen
<1>8. Going(t, past.late) BY <1>5 DEF Going
<1> DEFINE o == Other \/ ~up
<1> DEFINE r == Ran
<1>9. Lent(t, Was, r, o, past.litter \/ ans = "down") BY <1>4 DEF up, ans, Lent
<1>10. (o => Other \/ ans = "down") /\ (r => RanNow(t)) BY <1>4 DEF up, RanNow
<1>11. HandedBack(ui, t, Was, r, o) BY <1>4
<1> HIDE DEF o, r
<1> QED BY <1>1, <1>3, <1>4, <1>7, <1>8, <1>9, <1>10, <1>11, CalledMpd

\* It goes, when it can.
LEMMA LeaveInv == ASSUME ScreenInv, NEW x, InOrder(x), x.locked = ui.locked, x.player.leaving,
    Lent(x, Was, Ran, Other, past.litter), Going(x, past.late), x.mpd = ui.mpd, x.quiz = ui.quiz,
    x.player.borrowed = ui.player.borrowed, NEW ans \in {"ok", "down"}, Leave(x, ans)
  PROVE ScreenStep
<1> DEFINE up == ans # "down"
           t == LeaveIfCan(x, up)
           n == Noted(ui, t, ans)
           lost == ~t.player.on /\ x.player.over # x.player.extra
           early == n.early \/ lost
<1>1. /\ ui' = t /\ lockfile' = lockfile /\ past' = [n EXCEPT !.early = @ \/ lost] BY DEF Leave
<1>2. /\ ui \in Scrs /\ past \in Pasts /\ Was \in Spots /\ Ran \in BOOLEAN /\ Other \in BOOLEAN /\ past.litter \in BOOLEAN
      /\ (past.early => past.late)
  BY Before DEF ScreenInv
<1>3. up \in BOOLEAN /\ (~up <=> ans = "down") /\ ans \in MpdAnswers BY DEF MpdAnswers
<1>4. x \in Scrs /\ AbsentRight(x) BY DEF InOrder
<1> HIDE DEF up
<1>5. /\ InOrder(t) /\ t.locked = x.locked /\ Lent(t, Was, Ran, Other \/ ~up, past.litter \/ ~up)
      /\ HandedBack(x, t, Was, Ran, Other \/ ~up)
      /\ t.player = x.player \/ t.player = NoBorrower
      /\ t.quiz = x.quiz \/ t.quiz = NoBorrower
  <2>1. CASE x.frames[x.shown] # "player" \/ x.overlay # "none"
    <3>1. t = x BY <2>1 DEF LeaveIfCan
    <3> QED BY <3>1 DEF Lent, HandedBack
  <2>2. CASE ~(x.frames[x.shown] # "player" \/ x.overlay # "none")
    <3>1. t = Pop(x, up) BY <2>2 DEF LeaveIfCan
    <3>2. TopKind(x.frames) = "player" /\ x.overlay = "none" /\ ~x.locked /\ Len(x.frames) > 1
      BY <2>2, OnTop
    <3> DEFINE locked == x.locked
    <3>3. ~x.ringing /\ Stacked(x.frames, locked, x.player.on, x.quiz.on) /\ locked \in BOOLEAN
      BY <1>4, <3>2, ScrTypes DEF InOrder, CardRight
    <3> HIDE DEF t, locked
    <3>4. /\ InOrder(t) /\ ~t.locked /\ Lent(t, Was, Ran, Other \/ ~up, past.litter \/ ~up)
          /\ HandedBack(x, t, Was, Ran, Other \/ ~up)
          /\ t.quiz = x.quiz \/ t.quiz = NoBorrower
          /\ t.player = IF TopKind(x.frames) = "player" THEN NoBorrower ELSE x.player
      <4>1. /\ Was \in Spots /\ Ran \in BOOLEAN /\ Other \in BOOLEAN /\ past.litter \in BOOLEAN /\ up \in BOOLEAN
            /\ Lent(x, Was, Ran, Other, past.litter)
        BY <1>2, <1>3
      <4> QED BY <1>4, <3>1, <3>2, <3>3, <4>1, Popped
    <3>5. t.locked = x.locked BY <1>4, <3>2, <3>4, ScrTypes DEF InOrder
    <3> QED BY <3>2, <3>4, <3>5
  <2> QED BY <2>1, <2>2
<1> HIDE DEF t
<1>6. t \in Scrs BY <1>5 DEF InOrder
<1> HIDE DEF n
<1>7. /\ n \in Pasts /\ n.was = Was
      /\ n.other <=> Other \/ ans = "down"
      /\ n.ran <=> RanNow(t)
      /\ n.litter <=> past.litter \/ ans = "down"
      /\ n.late = past.late /\ n.early = past.early
  BY <1>2, <1>3, <1>6, NotedSo DEF n
<1>8. n.early \in BOOLEAN BY <1>7 DEF Pasts
<1>9. lost => past.late BY DEF Going
<1> HIDE DEF lost
<1>10. early \in BOOLEAN /\ (early => past.late) BY <1>2, <1>7, <1>8, <1>9
<1>11. past' = [n EXCEPT !.early = early] BY <1>1, <1>7
<1> HIDE DEF early
<1>12. /\ past' \in Pasts /\ past'.was = n.was /\ past'.other = n.other /\ past'.ran = n.ran /\ past'.litter = n.litter
       /\ past'.late = n.late /\ past'.early = early
  BY <1>7, <1>10, <1>11 DEF Pasts
<1>13. /\ past' \in Pasts /\ past'.was = Was
       /\ past'.other <=> Other \/ ans = "down"
       /\ past'.ran <=> RanNow(t)
       /\ past'.litter <=> past.litter \/ ans = "down"
       /\ past'.late = past.late /\ (past'.early => past'.late)
  BY <1>7, <1>10, <1>12
<1>14. Going(t, past'.late) BY <1>5, <1>13, NoBorrowerTyped DEF Going
<1> DEFINE o == Other \/ ~up
<1> DEFINE r == Ran
<1>15. Lent(t, Was, r, o, past.litter \/ ans = "down") BY <1>3, <1>5 DEF Lent
<1>16. (o => Other \/ ans = "down") /\ (r => RanNow(t)) BY <1>3, <1>5, NoBorrowerTyped DEF RanNow
<1>17. HandedBack(ui, t, Was, r, o) BY <1>5 DEF HandedBack, Lends
<1> HIDE DEF o, r
<1> QED BY <1>1, <1>3, <1>5, <1>13, <1>14, <1>15, <1>16, <1>17, Called

\* A player that is leaving goes once nothing covers it.
LEMMA PollLeavingInv == ASSUME ScreenInv, NEW ans \in {"ok", "down"}, PollLeaving(ans) PROVE ScreenStep
<1>1. ui.player.leaving /\ Leave(ui, ans) BY DEF PollLeaving
<1>2. InOrder(ui) /\ Lent(ui, Was, Ran, Other, past.litter) BY Before
<1>3. Going(ui, past.late) BY DEF ScreenInv
<1> QED BY <1>1, <1>2, <1>3, LeaveInv

\* The video is over, or another song plays: by then it had got going, so that
\* MPD plays another song only when someone took playback.
LEMMA PollOverInv == ASSUME ScreenInv, PollOver PROVE ScreenStep
<1> DEFINE taken == ui.player.far # "end" /\ ui.mpd.song # ui.player.extra
           p == [ui.player EXCEPT !.leaving = TRUE, !.over = ui.player.extra, !.taken = taken]
           x == [ui EXCEPT !.player = p]
           ans == "ok"
<1>1. /\ ui \in Scrs /\ InOrder(ui) /\ AbsentRight(ui) /\ Other \in BOOLEAN /\ Lent(ui, Was, Ran, Other, past.litter)
  BY Before
<1>2. ui.player \in Borrowers /\ ui.player.extra \in Int /\ ui.player.far \in {"start", "middle", "end"}
  BY <1>1, ScrTypes, BorrowerTypes
<1>3. /\ ui.player.on /\ ui.player.extra # NoTrack /\ ui.player.far # "start" /\ Leave(x, ans)
  BY <1>1, <1>2 DEF PollOver, Lost, Scrs, Borrowers
<1>4. taken \in BOOLEAN /\ ans \in {"ok", "down"} OBVIOUS
<1>5. ui.player.borrowed BY <1>1, <1>3 DEF Lent, BorrowersRight, ExtraRight
<1>6. taken => Other BY <1>1, <1>2, <1>3 DEF Lent, OwedBack
<1> HIDE DEF taken
<1>7. /\ p \in Borrowers /\ p.on = ui.player.on /\ p.taken = taken /\ p.borrowed = ui.player.borrowed
      /\ p.leaving /\ p.extra = ui.player.extra /\ p.over = p.extra
      /\ p.spot = ui.player.spot /\ p.far = ui.player.far
  BY <1>2, <1>4 DEF Borrowers
<1> HIDE DEF p
<1>8. StaysOn(p, ui.player) BY <1>3, <1>5, <1>7 DEF StaysOn
<1>9. x = [ui EXCEPT !.player = p] OBVIOUS
<1> HIDE DEF x, ans
<1>10. /\ InOrder(x) /\ x.locked = ui.locked /\ x.player = p /\ x.quiz = ui.quiz
       /\ x.suspended = ui.suspended /\ x.mpd = ui.mpd
  BY <1>1, <1>8, <1>9, PlayerAlone
<1>11. Lent(x, Was, Ran, Other, past.litter)
  <2>1. ~Other => ~x.player.taken BY <1>6, <1>7, <1>10
  <2> DEFINE o == Other
  <2>2. Lent(ui, Was, Ran, o, past.litter) /\ (~o => ~x.player.taken) BY <1>1, <2>1
  <2> HIDE DEF o
  <2>3. Lent(x, Was, Ran, o, past.litter) BY <1>7, <1>10, <2>2, LentPlayer
  <2> QED BY <2>3 DEF o
<1>12. Going(x, past.late) /\ x.player.leaving BY <1>7, <1>10 DEF Going
<1> QED BY <1>3, <1>4, <1>7, <1>10, <1>11, <1>12, LeaveInv
-----------------------------------------------------------------------------
\* The invariant holds at the start, ...
LEMMA ScreenInvInit == ASSUME ScreensInit PROVE ScreenInv
<1>1. PICK state \in {"play", "pause", "stop"} : \E song \in {0, NoTrack} :
        /\ song = NoTrack => state = "stop"
        /\ ui = Home([song |-> song, state |-> state, queue |-> {0}, next |-> 1])
        /\ past = [was |-> [song |-> song, state |-> state], other |-> FALSE, ran |-> FALSE, litter |-> FALSE, nested |-> FALSE, late |-> FALSE,
                   back |-> "none", early |-> FALSE]
  BY DEF ScreensInit
<1>2. PICK song \in {0, NoTrack} :
        /\ song = NoTrack => state = "stop"
        /\ ui = Home([song |-> song, state |-> state, queue |-> {0}, next |-> 1])
        /\ past = [was |-> [song |-> song, state |-> state], other |-> FALSE, ran |-> FALSE, litter |-> FALSE, nested |-> FALSE, late |-> FALSE,
                   back |-> "none", early |-> FALSE]
  BY <1>1
<1>3. lockfile = FALSE BY DEF ScreensInit
<1> DEFINE m == [song |-> song, state |-> state, queue |-> {0}, next |-> 1]
           l == FALSE
<1>4. m \in Mpds /\ MpdRight(m) /\ m.song = song BY <1>2, NoTrackInt DEF Mpds, States, MpdRight
<1>5. l \/ NoneAdded(m) BY DEF NoneAdded
<1>6. ui = Home(m) BY <1>2
<1>7. past \in Pasts /\ past.was = Now(m) /\ past.other = FALSE /\ past.ran = FALSE /\ past.litter = FALSE /\ ~past.early
  BY <1>2, NoTrackInt DEF Pasts, Spots, States, Now, SpotOf
<1> HIDE DEF m, l
<1>8. /\ InOrder(ui) /\ ui.overlay = "none" /\ ~ui.ringing /\ ui.locked = FALSE /\ ui.mpd = m
      /\ Top(ui) = 1 /\ TopKind(ui.frames) = "root" /\ ~ui.player.leaving
      /\ \A w : w = Now(m) => Lent(ui, w, FALSE, FALSE, l)
  BY <1>4, <1>5, <1>6, HomeRight
<1>9. Going(ui, past.late) BY <1>8 DEF Going
<1> QED BY <1>3, <1>4, <1>7, <1>8, <1>9 DEF ScreenInv, l

\* ... every step keeps it, one lemma per handler, ...
LEMMA ScreenInvNext == ASSUME ScreenInv, [ScreensNext]_screenVars PROVE ScreenStep
<1>1. CASE PushMenu BY <1>1, PushMenuInv
<1>2. CASE OnLock BY <1>2, OnLockInv
<1>3. CASE Unlock BY <1>3, UnlockInv
<1>4. CASE ShowCard BY <1>4, ShowCardInv
<1>5. CASE CloseCard BY <1>5, CloseCardInv
<1>6. CASE OnThemeChange BY <1>6, OnThemeChangeInv
<1>7. CASE EndAlarm BY <1>7, EndAlarmInv
<1>8. CASE PollNeverPlayed BY <1>8, PollNeverPlayedInv
<1>9. CASE PollOver BY <1>9, PollOverInv
<1>10. CASE SkipLast BY <1>10, SkipLastInv
<1>11. CASE VideoPlaysOn BY <1>11, VideoPlaysOnInv
<1>12. CASE PauseOrPlay BY <1>12, PauseOrPlayInv
<1>13. CASE TakeOver BY <1>13, TakeOverInv
<1>14. CASE RpodRestarts BY <1>14, RpodRestartsInv
<1>15. ASSUME NEW ans \in MpdAnswers, OnVideo(ans) PROVE ScreenStep BY <1>15, OnVideoInv
<1>16. ASSUME NEW ans \in MpdAnswers, PushQuiz(ans) PROVE ScreenStep BY <1>16, PushQuizInv
<1>17. ASSUME NEW ans \in MpdAnswers, OnMenu(ans) PROVE ScreenStep BY <1>17, OnMenuInv
<1>18. ASSUME NEW ans \in MpdAnswers, OnPlayVideo(ans) PROVE ScreenStep BY <1>18, OnPlayVideoInv
<1>19. ASSUME NEW ans \in MpdAnswers, QuizRound(ans) PROVE ScreenStep BY <1>19, QuizRoundInv
<1>20. ASSUME NEW ans \in MpdAnswers, OnPlayAgain(ans) PROVE ScreenStep BY <1>20, OnPlayAgainInv
<1>21. ASSUME NEW ans \in MpdAnswers, SkipVideo(ans) PROVE ScreenStep BY <1>21, SkipVideoInv
<1>22. ASSUME NEW ans \in {"ok", "down"}, PollLeaving(ans) PROVE ScreenStep BY <1>22, PollLeavingInv
<1>23. ASSUME NEW up \in BOOLEAN, NEW again \in BOOLEAN, GoOff(up, again) PROVE ScreenStep BY <1>23, GoOffInv
<1>24. ASSUME NEW up \in BOOLEAN, QuizEnds(up) PROVE ScreenStep BY <1>24, QuizEndsInv
<1>25. ASSUME NEW repeats \in BOOLEAN, ExtraEnds(repeats) PROVE ScreenStep BY <1>25, ExtraEndsInv
<1>26. CASE UNCHANGED screenVars BY <1>26 DEF screenVars, ScreenInv, ScreenStep, PlaysAsBefore
<1> QED BY <1>1, <1>2, <1>3, <1>4, <1>5, <1>6, <1>7, <1>8, <1>9, <1>10, <1>11, <1>12, <1>13, <1>14, <1>15,
           <1>16, <1>17, <1>18, <1>19, <1>20, <1>21, <1>22, <1>23, <1>24, <1>25, <1>26 DEF ScreensNext

\* ... so it always holds.
LEMMA ScreenInvAlways == ScreensSpec => []ScreenInv
<1>1. ScreensInit => ScreenInv BY ScreenInvInit
<1>2. ScreenInv /\ [ScreensNext]_screenVars => ScreenInv' BY ScreenInvNext DEF ScreenStep
<1> QED BY <1>1, <1>2, PTL DEF ScreensSpec

\* What is on the screen is what the flags say, after any history.
THEOREM ScreensInvariant == ScreensSpec => []ScreensRight
<1>1. ScreenInv => ScreensRight
  <2> SUFFICES ASSUME ScreenInv PROVE ScreensRight OBVIOUS
  <2> DEFINE f == ui.frames
  <2>1. lockfile = ui.locked /\ InOrder(ui) BY DEF ScreenInv
  <2>2. ui \in Scrs /\ Stacked(f, ui.locked, ui.player.on, ui.quiz.on) /\ CardRight(ui) BY <2>1 DEF InOrder
  <2>3. Len(f) \in Nat BY <2>2, ScrTypes, LenProperties
  <2>4. WheelWhereShown /\ RingShows BY <2>2 DEF WheelWhereShown, RingShows, CardRight, Top
  <2>5. LockHolds BY <2>1, <2>2, <2>3 DEF LockHolds, Stacked, UnderTop, TopKind, Top
  <2>6. OnePlayer BY <2>2, <2>3 DEF OnePlayer, Stacked, UnderTop, TopKind, Top
  <2> QED BY <2>4, <2>5, <2>6 DEF ScreensRight
<1> QED BY <1>1, ScreenInvAlways, PTL

\* Playback comes back to where it was, playing or not, after any history in which
\* nobody else took it, MPD answered and the quiz's own song did not run out.
THEOREM PlaybackInvariant == ScreensSpec => PlaybackLent
<1>1. ScreenInv => QueueLeftClean /\ MusicBack /\ SuspendedWhileBorrowed /\ GoesWhenOver
  <2> SUFFICES ASSUME ScreenInv PROVE QueueLeftClean /\ MusicBack /\ SuspendedWhileBorrowed /\ GoesWhenOver
    OBVIOUS
  <2>1. Lent(ui, past.was, past.ran, past.other, past.litter) /\ (past.early => past.late) BY DEF ScreenInv
  <2>2. QueueLeftClean BY <2>1 DEF Lent, Clean, QueueLeftClean
  <2>3. MusicBack BY <2>1 DEF Lent, OwedBack, MusicBack, Lends, BackAt
  <2>4. SuspendedWhileBorrowed BY <2>1 DEF Lent, BorrowersRight, SuspendedWhileBorrowed
  <2>5. GoesWhenOver BY <2>1 DEF GoesWhenOver
  <2> QED BY <2>2, <2>3, <2>4, <2>5
<1>2. ScreenInv /\ [ScreensNext]_screenVars => [PlaysAsBefore]_screenVars BY ScreenInvNext DEF ScreenStep
<1> QED BY <1>1, <1>2, ScreenInvAlways, PTL DEF PlaybackLent, ScreensSpec
=============================================================================
