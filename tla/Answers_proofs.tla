---------------------------- MODULE Answers_proofs ----------------------------
(***************************************************************************)
(* What holds of the two parts that owe an answer for any number of sinks, *)
(* slots, frames and seeks: where the sound goes and at what level         *)
(* (Sinks), and which pictures wait (VideoDecoder).                        *)
(***************************************************************************)
EXTENDS Sinks, VideoDecoder, FiniteSetTheorems, WellFoundedInduction, TLAPS

\* The counters never go back.
Counts == sinkcount \in [asks : Nat, calls : Nat, outside : Nat, toggles : Nat]

\* While the worker switches from one output to the other: the level it read is
\* the one that was chosen last, and one output at most is on.
Switching == At("off") \/ At("on") \/ At("carry")
Settled == sinkcount.calls = 0 /\ ~sinkhist.raced
LevelHeld ==
  Settled =>
    /\ ~At("on") => outs # {}
    /\ At("on") => outs \subseteq {Wanted(w.feed)}
    /\ At("carry") => outs = {Wanted(w.feed)}
    /\ Switching => w.before = sinkhist.chosen
    /\ ~Switching => \A o \in outs : mixer[o] = sinkhist.chosen

\* Nothing but the switch has more than one output on, without a fault.
OneOutput ==
  sinkcount.calls = 0 /\ sinkcount.outside = 0 =>
    /\ outs # {Headset, Feed}
    /\ At("on") => outs \subseteq {Wanted(w.feed)}

\* A speaker is chosen, and OwnTone left without one, when that was selected.
Choosing == /\ At("choose") => w.select /\ w.sel \in Speakers
            /\ At("clear") => w.select /\ w.sel = Headset

\* What a pass has done of its work so far, if nothing failed in it.
Fits(s) == outs = {Wanted(s \in Speakers)}
Passing ==
  sinkhist.clean =>
    /\ At("gone") \/ At("take") => Fits(current) /\ (current \in Speakers => owntone = current)
    /\ At("publish") => Fits(w.speaker) /\ (w.speaker \in Speakers => owntone = w.speaker)
    /\ ~(At("gone") \/ At("take") \/ At("connect")) => w.mpd
    /\ At("read") \/ Switching =>
         IF w.select THEN w.feed = (w.sel \in Speakers) /\ (w.feed => owntone = w.sel)
         ELSE w.feed = (w.speaker \in Speakers) /\ (w.feed => owntone = w.speaker)
    /\ At("on") => outs \subseteq {Wanted(w.feed)}
    /\ At("carry") => outs = {Wanted(w.feed)}
    /\ At("clear") => Fits(Headset)
    /\ At("list") /\ w.select => Fits(w.sel) /\ owntone = IF w.sel \in Speakers THEN w.sel ELSE Nowhere

SinksInv == SinksTypes /\ Counts /\ LevelHeld /\ OneOutput /\ Choosing /\ Passing
-----------------------------------------------------------------------------
\* Records stay of their type when a field is set.
LEMMA HistSet ==
  ASSUME NEW h \in Hist
  PROVE  /\ \A b \in BOOLEAN : [h EXCEPT !.clean = b] \in Hist
         /\ \A b \in BOOLEAN : [h EXCEPT !.raced = b] \in Hist
         /\ \A b \in BOOLEAN : [h EXCEPT !.hasty = b] \in Hist
         /\ \A l \in Levels : [h EXCEPT !.chosen = l] \in Hist
  <1>1. \A b \in BOOLEAN : [h EXCEPT !.clean = b] \in Hist
    BY Zenon DEF Hist
  <1>2. \A b \in BOOLEAN : [h EXCEPT !.raced = b] \in Hist
    BY Zenon DEF Hist
  <1>3. \A b \in BOOLEAN : [h EXCEPT !.hasty = b] \in Hist
    BY Zenon DEF Hist
  <1>4. \A l \in Levels : [h EXCEPT !.chosen = l] \in Hist
    BY Zenon DEF Hist
  <1> QED
    BY <1>1, <1>2, <1>3, <1>4

LEMMA HistSet2 ==
  ASSUME NEW h \in Hist, NEW b \in BOOLEAN, NEW c \in BOOLEAN, NEW l \in Levels
  PROVE  /\ [h EXCEPT !.clean = b, !.raced = c] \in Hist
         /\ [h EXCEPT !.chosen = l, !.raced = c] \in Hist
  BY HistSet

LEMMA AnswerHist ==
  ASSUME sinkhist \in Hist, NEW ok \in BOOLEAN, Answer(ok)
  PROVE  sinkhist' \in Hist
  <1>1. [sinkhist EXCEPT !.clean = FALSE] \in Hist
    BY HistSet
  <1> QED
    BY <1>1 DEF Answer

Workers == [at : Steps, select : BOOLEAN, sel : Places, mpd : BOOLEAN, feed : BOOLEAN,
            before : Levels \union {Unknown}, speaker : Speakers \union {Nowhere}]

LEMMA WorkerSet ==
  ASSUME NEW u \in Workers
  PROVE  /\ \A x \in Steps : [u EXCEPT !.at = x] \in Workers
         /\ \A x \in BOOLEAN : [u EXCEPT !.mpd = x] \in Workers
         /\ \A x \in BOOLEAN : [u EXCEPT !.feed = x] \in Workers
         /\ \A x \in Levels \union {Unknown} : [u EXCEPT !.before = x] \in Workers
         /\ \A x \in BOOLEAN : [u EXCEPT !.select = x] \in Workers
         /\ \A x \in Places : [u EXCEPT !.sel = x] \in Workers
         /\ \A x \in Speakers \union {Nowhere} : [u EXCEPT !.speaker = x] \in Workers
  <1>1. \A x \in Steps : [u EXCEPT !.at = x] \in Workers
    BY Zenon DEF Workers
  <1>2. \A x \in BOOLEAN : [u EXCEPT !.mpd = x] \in Workers
    BY Zenon DEF Workers
  <1>3. \A x \in BOOLEAN : [u EXCEPT !.feed = x] \in Workers
    BY Zenon DEF Workers
  <1>4. \A x \in Levels \union {Unknown} : [u EXCEPT !.before = x] \in Workers
    BY Zenon DEF Workers
  <1>5. \A x \in BOOLEAN : [u EXCEPT !.select = x] \in Workers
    BY Zenon DEF Workers
  <1>6. \A x \in Places : [u EXCEPT !.sel = x] \in Workers
    BY Zenon DEF Workers
  <1>7. \A x \in Speakers \union {Nowhere} : [u EXCEPT !.speaker = x] \in Workers
    BY Zenon DEF Workers
  <1> QED
    BY <1>1, <1>2, <1>3, <1>4, <1>5, <1>6, <1>7

LEMMA FedType ==
  ASSUME NEW u \in Workers
  PROVE  Fed(u) \in Workers
  <1>1. Unknown \in Levels \union {Unknown} /\ "publish" \in Steps /\ "clear" \in Steps /\ "list" \in Steps /\ FALSE \in BOOLEAN
    BY DEF Steps
  <1> DEFINE a == IF ~u.select THEN "publish" ELSE IF u.sel = Headset THEN "clear" ELSE "list"
             v == [u EXCEPT !.feed = FALSE]
             x == [v EXCEPT !.before = Unknown]
  <1>2. a \in Steps
    BY <1>1
  <1>3. v \in Workers
    BY <1>1, WorkerSet
  <1>4. x \in Workers
    BY <1>1, <1>3, WorkerSet
  <1>5. [x EXCEPT !.at = a] \in Workers
    BY <1>2, <1>4, WorkerSet
  <1>6. Fed(u) = [x EXCEPT !.at = a]
    BY Zenon DEF Fed
  <1> QED
    BY <1>5, <1>6

LEMMA ToFeedType ==
  ASSUME NEW u \in Workers, NEW b \in BOOLEAN
  PROVE  ToFeed(u, b) \in Workers
  <1>1. "read" \in Steps
    BY DEF Steps
  <1>2. [u EXCEPT !.at = "read", !.feed = b] \in Workers
    BY <1>1, WorkerSet
  <1> QED
    BY <1>2, FedType, Zenon DEF ToFeed

LEMMA UsesCounts ==
  ASSUME Counts, NEW bound \in {"asks", "calls", "outside", "toggles"}, Uses(bound)
  PROVE  /\ Counts' /\ sinkcount'[bound] = sinkcount[bound] + 1
         /\ \A b \in {"asks", "calls", "outside", "toggles"} \ {bound} : sinkcount'[b] = sinkcount[b]
  BY SMT DEF Uses, Counts

\* What an answer does to the history and the bounds.
LEMMA AnswerFacts ==
  ASSUME Counts, sinkhist \in Hist, NEW ok \in BOOLEAN, Answer(ok)
  PROVE  /\ sinkhist' \in Hist /\ Counts'
         /\ sinkhist'.raced = sinkhist.raced /\ sinkhist'.chosen = sinkhist.chosen
         /\ ok => sinkhist' = sinkhist /\ sinkcount' = sinkcount
         /\ ~ok => sinkhist'.clean = FALSE /\ sinkcount'.calls # 0
  <1>1. CASE ok
    BY <1>1 DEF Answer, Counts
  <1>2. CASE ~ok
    <2>1. Uses("calls") /\ sinkhist' = [sinkhist EXCEPT !.clean = FALSE]
      BY <1>2 DEF Answer
    <2>2. sinkhist' \in Hist
      BY <2>1, HistSet
    <2>3. Counts' /\ sinkcount'["calls"] = sinkcount["calls"] + 1
      BY <2>1, UsesCounts
    <2>4. sinkhist'.clean = FALSE /\ sinkhist'.raced = sinkhist.raced /\ sinkhist'.chosen = sinkhist.chosen
      BY <2>1, Zenon DEF Hist
    <2>5. sinkcount'.calls # 0
      BY <2>3, SMT DEF Counts
    <2> QED
      BY <1>2, <2>2, <2>3, <2>4, <2>5
  <1> QED
    BY <1>1, <1>2

LEMMA OutsideFacts ==
  ASSUME Counts, sinkhist \in Hist, Outside
  PROVE  /\ sinkhist' \in Hist /\ Counts'
         /\ sinkhist'.raced = sinkhist.raced /\ sinkhist'.chosen = sinkhist.chosen
         /\ sinkhist'.clean = FALSE /\ sinkcount'.outside # 0 /\ sinkcount'.calls = sinkcount.calls
  <1>1. Uses("outside") /\ sinkhist' = [sinkhist EXCEPT !.clean = FALSE]
    BY DEF Outside
  <1>2. sinkhist' \in Hist
    BY <1>1, HistSet
  <1>3. /\ Counts' /\ sinkcount'["outside"] = sinkcount["outside"] + 1
        /\ sinkcount'["calls"] = sinkcount["calls"]
    BY <1>1, UsesCounts
  <1>4. sinkhist'.clean = FALSE /\ sinkhist'.raced = sinkhist.raced /\ sinkhist'.chosen = sinkhist.chosen
    BY <1>1, Zenon DEF Hist
  <1>5. sinkcount'.outside # 0
    BY <1>3, SMT DEF Counts
  <1> QED
    BY <1>2, <1>3, <1>4, <1>5

LEMMA TwoOutputs == Cardinality({Headset, Feed}) = 2
  <1>1. IsFiniteSet({Headset}) /\ Cardinality({Headset}) = 1
    BY FS_Singleton
  <1>2. Feed \notin {Headset} /\ {Headset} \union {Feed} = {Headset, Feed}
    BY SinksAssumption
  <1>3. Cardinality({Headset} \union {Feed}) = Cardinality({Headset}) + 1
    BY <1>1, <1>2, FS_AddElement
  <1> QED
    BY <1>1, <1>2, <1>3

\* What MPD says is the level that all outputs that are on have.
LEMMA VolumeIs ==
  ASSUME NEW l \in Levels, outs \subseteq {Headset, Feed}, outs # {},
         \A o \in outs : mixer[o] = l
  PROVE  Volume = l
  <1>1. l \in Nat
    BY SinksAssumption
  <1>2. CASE outs = {Headset, Feed}
    <2>1. Cardinality(outs) = 2
      BY <1>2, TwoOutputs
    <2>2. (l + l) \div 2 = l
      BY <1>1, SMT
    <2> QED
      BY <1>2, <2>1, <2>2, <1>1, Zenon DEF Volume
  <1>3. CASE outs # {Headset, Feed}
    <2>1. PICK o \in {Headset, Feed} : outs = {o}
      BY <1>3
    <2>2. Cardinality(outs) = 1
      BY <2>1, FS_Singleton
    <2>3. (CHOOSE p \in outs : TRUE) = o
      BY <2>1
    <2> QED
      BY <1>1, <2>1, <2>2, <2>3 DEF Volume
  <1> QED
    BY <1>2, <1>3

\* It is one of the levels, also when two that differ are on.
LEMMA VolumeType ==
  ASSUME outs \subseteq {Headset, Feed}, mixer \in [{Headset, Feed} -> Levels]
  PROVE  Volume \in Levels \union {Unknown}
  <1>1. mixer[Headset] \in Levels /\ mixer[Feed] \in Levels
    OBVIOUS
  <1>2. CASE outs = {}
    BY <1>2 DEF Volume
  <1>3. CASE outs = {Headset, Feed}
    <2> DEFINE m == (mixer[Headset] + mixer[Feed]) \div 2
    <2>1. mixer[Headset] \in Nat /\ mixer[Feed] \in Nat
      BY <1>1, SinksAssumption
    <2>2. m \in mixer[Headset]..mixer[Feed] \/ m \in mixer[Feed]..mixer[Headset]
      BY <2>1, SMT
    <2>3. m \in Levels
      BY <1>1, <2>2, SinksAssumption
    <2>4. outs # {} /\ Cardinality(outs) = 2
      BY <1>3, TwoOutputs
    <2> QED
      BY <2>3, <2>4, Zenon DEF Volume
  <1>4. CASE outs # {} /\ outs # {Headset, Feed}
    <2>1. PICK o \in {Headset, Feed} : outs = {o}
      BY <1>4
    <2>2. Cardinality(outs) = 1
      BY <2>1, FS_Singleton
    <2>3. (CHOOSE p \in outs : TRUE) = o
      BY <2>1
    <2> QED
      BY <1>1, <2>1, <2>2, <2>3 DEF Volume
  <1> QED
    BY <1>2, <1>3, <1>4

LEMMA SinksInvGoals == SinksInv => SinksRight
  <1> SUFFICES ASSUME SinksInv PROVE SinksRight
    OBVIOUS
  <1> USE DEF SinksInv
  <1>1. PlaysWhereShown
    BY SMT, SinksAssumption DEF PlaysWhereShown, OneOutput, Passing, At, Fits, Wanted, SinksTypes
  <1>2. LevelCarried
    <2> SUFFICES ASSUME sinkcount.calls = 0, ~sinkhist.raced,
                        w.at \in {"gone", "take", "connect", "choose", "clear", "list", "publish"}
                 PROVE  Volume = sinkhist.chosen
      BY DEF LevelCarried
    <2>1. /\ outs # {} /\ \A o \in outs : mixer[o] = sinkhist.chosen
          /\ outs \subseteq {Headset, Feed} /\ sinkhist.chosen \in Levels
      BY SMT DEF LevelHeld, Settled, Switching, At, SinksTypes, Hist
    <2> QED
      BY <2>1, VolumeIs
  <1> QED
    BY <1>1, <1>2 DEF SinksRight

LEMMA SinksInvInit == SinksInit => SinksInv
  <1> SUFFICES ASSUME SinksInit PROVE SinksInv
    OBVIOUS
  <1>1. Counts
    BY DEF SinksInit, Counts
  <1>4. SinksTypes
    <2>1. sinkhist \in Hist /\ mixer \in [{Headset, Feed} -> Levels]
      BY SMT DEF SinksInit, Hist
    <2>2. want \in [refresh : BOOLEAN, select : BOOLEAN, sel : Places]
      BY Zenon DEF SinksInit, Nothing, Places
    <2>3. w \in [at : Steps, select : BOOLEAN, sel : Places, mpd : BOOLEAN, feed : BOOLEAN,
                  before : Levels \union {Unknown}, speaker : Speakers \union {Nowhere}]
      BY Zenon DEF SinksInit, Steps, Places
    <2> QED
      BY <2>1, <2>2, <2>3 DEF SinksInit, SinksTypes, Places
  <1>2. LevelHeld
    BY SMT, SinksAssumption DEF SinksInit, LevelHeld, Settled, Switching, At
  <1>3. OneOutput /\ Choosing /\ Passing
    BY SMT, SinksAssumption DEF SinksInit, OneOutput, Choosing, Passing, Switching, At, Fits, Wanted
  <1> QED
    BY <1>1, <1>2, <1>3, <1>4 DEF SinksInv

LEMMA TakeSinks ==
  ASSUME SinksInv, Take
  PROVE  SinksInv'
  <1> USE SinksAssumption DEF SinksInv, worker, mpd, At
  <1>1. w \in Workers /\ sinkhist \in Hist /\ Counts
    BY DEF SinksTypes, Workers
  <1>2. CASE ~want.refresh /\ ~want.select
    <2>1. /\ running' = FALSE /\ w' = [w EXCEPT !.at = "gone"]
          /\ UNCHANGED <<want, sinkhist, current, owntone, ownplays, sinkcount, outs, mixer>>
      BY <1>2, Zenon DEF Take
    <2>2. w' \in Workers
      BY <1>1, <2>1, WorkerSet DEF Steps
    <2> QED
      <3>1. w'.at = "gone" /\ w.at = "take"
        BY <1>1, <2>1 DEF Take, Workers
      <3>2. SinksTypes' /\ Counts'
        BY <1>1, <2>1, <2>2, <3>1 DEF Take, SinksTypes, Workers, Counts
      <3> QED
        BY <2>1, <3>1, <3>2, SMT DEF LevelHeld, Settled, Switching, OneOutput, Choosing, Passing, Fits
  <1>3. CASE want.refresh \/ want.select
    <2>1. /\ w' = [w EXCEPT !.at = "connect", !.select = want.select, !.sel = want.sel]
          /\ want' = Nothing /\ sinkhist' = [sinkhist EXCEPT !.clean = TRUE]
          /\ UNCHANGED <<running, current, owntone, ownplays, sinkcount, outs, mixer>>
      BY <1>3, Zenon DEF Take
    <2>2. w' \in Workers
      <3>1. want.select \in BOOLEAN /\ want.sel \in Places
        BY DEF SinksTypes
      <3>2. [w EXCEPT !.at = "connect"] \in Workers
        BY <1>1, WorkerSet DEF Steps
      <3>3. [[w EXCEPT !.at = "connect"] EXCEPT !.select = want.select] \in Workers
        BY <3>1, <3>2, WorkerSet
      <3> QED
        BY <2>1, <3>1, <3>3, WorkerSet
    <2>3. sinkhist' \in Hist /\ sinkhist'.raced = sinkhist.raced /\ sinkhist'.chosen = sinkhist.chosen
      <3>1. sinkhist' \in Hist
        BY <1>1, <2>1, HistSet
      <3> QED
        BY <1>1, <2>1, <3>1, Zenon DEF Hist
    <2>4. w'.at = "connect" /\ running' = TRUE
      BY <1>1, <2>1 DEF Take, SinksTypes, Workers
    <2>5. SinksTypes' /\ Counts'
      BY <1>1, <2>1, <2>2, <2>3, <2>4 DEF SinksTypes, Workers, Counts, Nothing, Places
    <2>6. LevelHeld' /\ OneOutput' /\ Choosing' /\ Passing'
      BY <1>1, <2>1, <2>3, <2>4, SMT DEF Take, LevelHeld, Settled, Switching, OneOutput, Choosing, Passing
    <2> QED
      BY <2>5, <2>6
  <1> QED
    BY <1>2, <1>3

LEMMA ConnectSinks ==
  ASSUME SinksInv, NEW ok \in BOOLEAN, Connect(ok)
  PROVE  SinksInv'
  <1> USE SinksAssumption DEF SinksInv, worker, mpd, At
  <1>1. w \in Workers /\ sinkhist \in Hist /\ Counts
    BY DEF SinksTypes, Workers
  <1>2. w' \in Workers
    <2> DEFINE u == [w EXCEPT !.mpd = ok]
    <2>1. u \in Workers
      BY <1>1, WorkerSet
    <2>2. "list" \in Steps /\ "choose" \in Steps
      BY DEF Steps
    <2>3. [u EXCEPT !.at = "list"] \in Workers /\ [u EXCEPT !.at = "choose"] \in Workers
      BY <2>1, <2>2, WorkerSet
    <2>4. ToFeed(u, FALSE) \in Workers
      BY <2>1, ToFeedType
    <2> QED
      BY <2>3, <2>4, Zenon DEF Connect
  <1>3. /\ sinkhist' \in Hist /\ Counts'
        /\ sinkhist'.raced = sinkhist.raced /\ sinkhist'.chosen = sinkhist.chosen
        /\ ok => sinkhist' = sinkhist /\ sinkcount' = sinkcount
        /\ ~ok => sinkhist'.clean = FALSE /\ sinkcount'.calls # 0
    BY <1>1, AnswerFacts DEF Connect
  <1>5. /\ want' \in [refresh : BOOLEAN, select : BOOLEAN, sel : Places] /\ running' \in BOOLEAN
        /\ (w'.at = "gone") = ~running'
    BY <1>1, SMT DEF Connect, ToFeed, Fed, SinksTypes, Places, Workers, Steps
  <1>6. /\ current' \in Places /\ owntone' \in Speakers \union {Nowhere}
        /\ outs' \subseteq {Headset, Feed} /\ mixer' \in [{Headset, Feed} -> Levels]
    BY <1>1, SMT DEF Connect, ToFeed, Fed, SinksTypes, Places, Choosing, Workers
  <1>7. ownplays' \in BOOLEAN
    BY SMT DEF Connect, ToFeed, Fed, SinksTypes
  <1>8. SinksTypes'
    BY <1>2, <1>3, <1>5, <1>6, <1>7 DEF SinksTypes, Workers
  <1>9. LevelHeld'
    BY <1>3, SMT DEF Connect, ToFeed, Fed, LevelHeld, Settled, Switching, Wanted, Other, SinksTypes, Counts, Hist, Places
  <1>10. OneOutput'
    BY <1>3, SMT DEF Connect, ToFeed, Fed, OneOutput, Wanted, Other, SinksTypes, Counts, Places
  <1>11. Choosing'
    BY SMT DEF Connect, ToFeed, Fed, Choosing, SinksTypes, Places
  <1>12. Passing'
    <2> SUFFICES ASSUME sinkhist'.clean PROVE Passing'
      BY DEF Passing
    <2>1. w'.mpd /\ w'.at \in {"list", "choose", "read"}
      BY <1>1, <1>3, SMT DEF Connect, ToFeed, Fed, Workers
    <2>2. w'.at = "list" => ~w'.select
      BY <1>1, <1>3, SMT DEF Connect, ToFeed, Fed, Workers
    <2>3. w'.at = "read" => w'.select /\ w'.sel \notin Speakers /\ w'.feed = FALSE
      BY <1>1, <1>3, SMT DEF Connect, ToFeed, Fed, Workers
    <2> QED
      <3>1. CASE w'.at = "read"
        <4>1. w'.select /\ ~w'.feed /\ w'.mpd
          BY <2>1, <2>3, <3>1
        <4>2. w'.feed = FALSE /\ (w'.sel \in Speakers) = FALSE
          BY <2>3, <3>1, SMT
        <4>3. w'.feed = (w'.sel \in Speakers)
          BY <4>2, Zenon
        <4> QED
          BY <3>1, <4>1, <4>3, SMT DEF Passing, Switching
      <3>2. CASE w'.at # "read"
        BY <2>1, <2>2, <3>2 DEF Passing, Switching
      <3> QED
        BY <3>1, <3>2
  <1> QED
    BY <1>3, <1>8, <1>9, <1>10, <1>11, <1>12

LEMMA ChooseSinks ==
  ASSUME SinksInv, NEW ok \in BOOLEAN, Choose(ok)
  PROVE  SinksInv'
  <1> USE SinksAssumption DEF SinksInv, worker, mpd, At
  <1>1. w \in Workers /\ sinkhist \in Hist /\ Counts
    BY DEF SinksTypes, Workers
  <1>2. w' \in Workers
    BY <1>1, ToFeedType DEF Choose
  <1>3. /\ sinkhist' \in Hist /\ Counts'
        /\ sinkhist'.raced = sinkhist.raced /\ sinkhist'.chosen = sinkhist.chosen
        /\ sinkcount'.calls = sinkcount.calls
        /\ ok => sinkhist' = sinkhist /\ sinkcount' = sinkcount
        /\ ~ok => sinkhist'.clean = FALSE /\ sinkcount'.outside # 0
    <2>1. CASE ok
      BY <1>1, <2>1 DEF Choose, Counts
    <2>2. CASE ~ok
      BY <1>1, <2>2, OutsideFacts DEF Choose
    <2> QED
      BY <2>1, <2>2
  <1>5. /\ want' \in [refresh : BOOLEAN, select : BOOLEAN, sel : Places] /\ running' \in BOOLEAN
        /\ (w'.at = "gone") = ~running'
    BY <1>1, SMT DEF Choose, ToFeed, Fed, SinksTypes, Places, Workers, Steps
  <1>6. /\ current' \in Places /\ owntone' \in Speakers \union {Nowhere}
        /\ outs' \subseteq {Headset, Feed} /\ mixer' \in [{Headset, Feed} -> Levels]
    BY <1>1, SMT DEF Choose, ToFeed, Fed, SinksTypes, Places, Choosing, Workers
  <1>7. ownplays' \in BOOLEAN
    BY SMT DEF Choose, ToFeed, Fed, SinksTypes
  <1>8. SinksTypes'
    BY <1>2, <1>3, <1>5, <1>6, <1>7 DEF SinksTypes, Workers
  <1>9. LevelHeld'
    BY <1>3, SMT DEF Choose, ToFeed, Fed, LevelHeld, Settled, Switching, Wanted, Other, SinksTypes, Counts, Hist, Places
  <1>10. OneOutput'
    BY <1>3, SMT DEF Choose, ToFeed, Fed, OneOutput, Wanted, Other, SinksTypes, Counts, Places
  <1>11. Choosing'
    BY SMT DEF Choose, ToFeed, Fed, Choosing, SinksTypes, Places
  <1>12. Passing'
    <2> SUFFICES ASSUME sinkhist'.clean PROVE Passing'
      BY DEF Passing
    <2>1. ok /\ sinkhist' = sinkhist
      BY <1>3
    <2>2. w.mpd /\ w.select /\ w.sel \in Speakers
      BY <2>1, SMT DEF Choose, Passing, Choosing
    <2>3. w' = [w EXCEPT !.at = "read", !.feed = TRUE] /\ owntone' = w.sel
      BY <2>1, <2>2, Zenon DEF Choose, ToFeed
    <2>4. w'.at = "read" /\ w'.mpd /\ w'.select /\ w'.sel = w.sel /\ w'.feed = TRUE
      BY <1>1, <2>2, <2>3, SMT DEF Workers
    <2> QED
      BY <2>2, <2>3, <2>4 DEF Passing, Switching
  <1> QED
    BY <1>3, <1>8, <1>9, <1>10, <1>11, <1>12

LEMMA ReadLevelSinks ==
  ASSUME SinksInv, NEW ok \in BOOLEAN, ReadLevel(ok)
  PROVE  SinksInv'
  <1> USE SinksAssumption DEF SinksInv, worker, mpd, At
  <1>1. w \in Workers /\ sinkhist \in Hist /\ Counts
    BY DEF SinksTypes, Workers
  <1>2. w' \in Workers
    <2>1. (IF ok THEN Volume ELSE Unknown) \in Levels \union {Unknown}
      BY <1>1, VolumeType DEF SinksTypes
    <2>2. "off" \in Steps
      BY DEF Steps
    <2> QED
      BY <1>1, <2>1, <2>2, WorkerSet DEF ReadLevel
  <1>3. /\ sinkhist' \in Hist /\ Counts'
        /\ sinkhist'.raced = sinkhist.raced /\ sinkhist'.chosen = sinkhist.chosen
        /\ ok => sinkhist' = sinkhist /\ sinkcount' = sinkcount
        /\ ~ok => sinkhist'.clean = FALSE /\ sinkcount'.calls # 0
    BY <1>1, AnswerFacts DEF ReadLevel
  <1>5. /\ want' \in [refresh : BOOLEAN, select : BOOLEAN, sel : Places] /\ running' \in BOOLEAN
        /\ (w'.at = "gone") = ~running'
    BY <1>1, SMT DEF ReadLevel, SinksTypes, Places, Workers, Steps
  <1>6. /\ current' \in Places /\ owntone' \in Speakers \union {Nowhere}
        /\ outs' \subseteq {Headset, Feed} /\ mixer' \in [{Headset, Feed} -> Levels]
    BY <1>1, SMT DEF ReadLevel, SinksTypes, Places, Choosing, Workers
  <1>7. ownplays' \in BOOLEAN
    BY SMT DEF ReadLevel, SinksTypes
  <1>8. SinksTypes'
    BY <1>2, <1>3, <1>5, <1>6, <1>7 DEF SinksTypes, Workers
  <1>9. LevelHeld'
    <2> SUFFICES ASSUME Settled' PROVE LevelHeld'
      BY DEF LevelHeld
    <2>1. ok /\ Settled /\ sinkhist' = sinkhist /\ outs' = outs /\ mixer' = mixer
      BY <1>3, SMT DEF ReadLevel, Settled, Counts
    <2>2. outs # {} /\ \A o \in outs : mixer[o] = sinkhist.chosen
      BY <2>1, SMT DEF ReadLevel, LevelHeld, Switching
    <2>3. Volume = sinkhist.chosen
      BY <1>1, <2>2, VolumeIs DEF SinksTypes, Hist
    <2>4. w'.at = "off" /\ w'.before = sinkhist.chosen
      BY <1>1, <2>1, <2>3, SMT DEF ReadLevel, Workers
    <2> QED
      BY <2>1, <2>2, <2>4, SMT DEF LevelHeld, Switching
  <1>10. OneOutput'
    BY <1>3, SMT DEF ReadLevel, OneOutput, Wanted, Other, SinksTypes, Counts, Places
  <1>11. Choosing'
    BY SMT DEF ReadLevel, Choosing, SinksTypes, Places
  <1>12. Passing'
    BY <1>3, SMT DEF ReadLevel, Passing, Choosing, Switching, Fits, Wanted, Other, SinksTypes, Counts, Hist, Places
  <1> QED
    BY <1>3, <1>8, <1>9, <1>10, <1>11, <1>12

LEMMA OffOtherSinks ==
  ASSUME SinksInv, NEW ok \in BOOLEAN, OffOther(ok)
  PROVE  SinksInv'
  <1> USE SinksAssumption DEF SinksInv, worker, mpd, At
  <1>1. w \in Workers /\ sinkhist \in Hist /\ Counts
    BY DEF SinksTypes, Workers
  <1>2. w' \in Workers
    <2>1. "on" \in Steps
      BY DEF Steps
    <2> QED
      BY <1>1, <2>1, WorkerSet DEF OffOther
  <1>3. /\ sinkhist' \in Hist /\ Counts'
        /\ sinkhist'.raced = sinkhist.raced /\ sinkhist'.chosen = sinkhist.chosen
        /\ ok => sinkhist' = sinkhist /\ sinkcount' = sinkcount
        /\ ~ok => sinkhist'.clean = FALSE /\ sinkcount'.calls # 0
    BY <1>1, AnswerFacts DEF OffOther
  <1>5. /\ want' \in [refresh : BOOLEAN, select : BOOLEAN, sel : Places] /\ running' \in BOOLEAN
        /\ (w'.at = "gone") = ~running'
    BY <1>1, SMT DEF OffOther, SinksTypes, Places, Workers, Steps
  <1>6. /\ current' \in Places /\ owntone' \in Speakers \union {Nowhere}
        /\ outs' \subseteq {Headset, Feed} /\ mixer' \in [{Headset, Feed} -> Levels]
    BY <1>1, SMT DEF OffOther, SinksTypes, Places, Choosing, Workers
  <1>7. ownplays' \in BOOLEAN
    BY SMT DEF OffOther, SinksTypes
  <1>8. SinksTypes'
    BY <1>2, <1>3, <1>5, <1>6, <1>7 DEF SinksTypes, Workers
  <1>9. LevelHeld'
    BY <1>3, SMT DEF OffOther, LevelHeld, Settled, Switching, Wanted, Other, SinksTypes, Counts, Hist, Places
  <1>10. OneOutput'
    BY <1>3, SMT DEF OffOther, OneOutput, Wanted, Other, SinksTypes, Counts, Places
  <1>11. Choosing'
    BY SMT DEF OffOther, Choosing, SinksTypes, Places
  <1>12. Passing'
    BY <1>3, SMT DEF OffOther, Passing, Choosing, Switching, Fits, Wanted, Other, SinksTypes, Counts, Hist, Places
  <1> QED
    BY <1>3, <1>8, <1>9, <1>10, <1>11, <1>12

LEMMA OnWantedSinks ==
  ASSUME SinksInv, NEW ok \in BOOLEAN, OnWanted(ok)
  PROVE  SinksInv'
  <1> USE SinksAssumption DEF SinksInv, worker, mpd, At
  <1>1. w \in Workers /\ sinkhist \in Hist /\ Counts
    BY DEF SinksTypes, Workers
  <1>2. w' \in Workers
    <2>1. "carry" \in Steps
      BY DEF Steps
    <2> QED
      BY <1>1, <2>1, WorkerSet DEF OnWanted
  <1>3. /\ sinkhist' \in Hist /\ Counts'
        /\ sinkhist'.raced = sinkhist.raced /\ sinkhist'.chosen = sinkhist.chosen
        /\ ok => sinkhist' = sinkhist /\ sinkcount' = sinkcount
        /\ ~ok => sinkhist'.clean = FALSE /\ sinkcount'.calls # 0
    BY <1>1, AnswerFacts DEF OnWanted
  <1>5. /\ want' \in [refresh : BOOLEAN, select : BOOLEAN, sel : Places] /\ running' \in BOOLEAN
        /\ (w'.at = "gone") = ~running'
    BY <1>1, SMT DEF OnWanted, SinksTypes, Places, Workers, Steps
  <1>6. /\ current' \in Places /\ owntone' \in Speakers \union {Nowhere}
        /\ outs' \subseteq {Headset, Feed} /\ mixer' \in [{Headset, Feed} -> Levels]
    <2>1. Wanted(w.feed) \in {Headset, Feed}
      BY DEF Wanted
    <2> QED
      BY <2>1 DEF OnWanted, SinksTypes
  <1>7. ownplays' \in BOOLEAN
    BY SMT DEF OnWanted, SinksTypes
  <1>8. SinksTypes'
    BY <1>2, <1>3, <1>5, <1>6, <1>7 DEF SinksTypes, Workers
  <1>9. LevelHeld'
    BY <1>3, SMT DEF OnWanted, LevelHeld, Settled, Switching, Wanted, Other, SinksTypes, Counts, Hist, Places
  <1>10. OneOutput'
    BY <1>3, SMT DEF OnWanted, OneOutput, Wanted, Other, SinksTypes, Counts, Places
  <1>11. Choosing'
    BY SMT DEF OnWanted, Choosing, SinksTypes, Places
  <1>12. Passing'
    BY <1>3, SMT DEF OnWanted, Passing, Choosing, Switching, Fits, Wanted, Other, SinksTypes, Counts, Hist, Places
  <1> QED
    BY <1>3, <1>8, <1>9, <1>10, <1>11, <1>12

LEMMA CarrySinks ==
  ASSUME SinksInv, NEW ok \in BOOLEAN, Carry(ok)
  PROVE  SinksInv'
  <1> USE SinksAssumption DEF SinksInv, worker, mpd, At
  <1>1. w \in Workers /\ sinkhist \in Hist /\ Counts
    BY DEF SinksTypes, Workers
  <1>2. w' \in Workers
    BY <1>1, FedType DEF Carry
  <1>3. /\ sinkhist' \in Hist /\ Counts'
        /\ sinkhist'.raced = sinkhist.raced /\ sinkhist'.chosen = sinkhist.chosen
        /\ ok => sinkhist' = sinkhist /\ sinkcount' = sinkcount
        /\ ~ok => sinkhist'.clean = FALSE /\ sinkcount'.calls # 0
    BY <1>1, AnswerFacts DEF Carry
  <1>5. /\ want' \in [refresh : BOOLEAN, select : BOOLEAN, sel : Places] /\ running' \in BOOLEAN
        /\ (w'.at = "gone") = ~running'
    BY <1>1, SMT DEF Carry, Fed, SetMixers, SinksTypes, Places, Workers, Steps
  <1>6. /\ current' \in Places /\ owntone' \in Speakers \union {Nowhere}
        /\ outs' \subseteq {Headset, Feed} /\ mixer' \in [{Headset, Feed} -> Levels]
    BY <1>1, SMT DEF Carry, Fed, SetMixers, SinksTypes, Places, Choosing, Workers
  <1>7. ownplays' \in BOOLEAN
    BY SMT DEF Carry, Fed, SetMixers, SinksTypes
  <1>8. SinksTypes'
    BY <1>2, <1>3, <1>5, <1>6, <1>7 DEF SinksTypes, Workers
  <1>9. LevelHeld'
    <2> SUFFICES ASSUME Settled' PROVE LevelHeld'
      BY DEF LevelHeld
    <2>1. ok /\ Settled /\ sinkhist' = sinkhist /\ outs' = outs
      BY <1>3, SMT DEF Carry, Settled, Counts
    <2>2. outs = {Wanted(w.feed)} /\ w.before = sinkhist.chosen /\ sinkhist.chosen \in Levels
      BY <1>1, <2>1, SMT DEF Carry, LevelHeld, Switching, Hist
    <2>3. Wanted(w.feed) \in {Headset, Feed}
      BY DEF Wanted
    <2>4. mixer'[Wanted(w.feed)] = sinkhist.chosen
      <3>1. CASE Volume # w.before
        <4>1. SetMixers(w.before)
          BY <2>1, <2>2, <3>1 DEF Carry, Unknown
        <4> QED
          BY <2>2, <2>3, <4>1 DEF SetMixers
      <3>2. CASE Volume = w.before
        <4>1. mixer' = mixer /\ mixer[Wanted(w.feed)] \in Levels
          BY <2>3, <3>2 DEF Carry, SinksTypes
        <4>2. Volume = mixer[Wanted(w.feed)]
          BY <2>2, <2>3, <4>1, VolumeIs
        <4> QED
          BY <2>2, <3>2, <4>1, <4>2
      <3> QED
        BY <3>1, <3>2
    <2>5. w'.at \in {"publish", "clear", "list"}
      BY <1>1, SMT DEF Carry, Fed, Workers
    <2> QED
      BY <2>1, <2>2, <2>4, <2>5, SMT DEF LevelHeld, Switching
  <1>10. OneOutput'
    BY <1>3, SMT DEF Carry, Fed, SetMixers, OneOutput, Wanted, Other, SinksTypes, Counts, Places
  <1>11. Choosing'
    BY SMT DEF Carry, Fed, SetMixers, Choosing, SinksTypes, Places
  <1>12. Passing'
    BY <1>3, SMT DEF Carry, Fed, SetMixers, Passing, Choosing, Switching, Fits, Wanted, Other, SinksTypes, Counts, Hist, Places
  <1> QED
    BY <1>3, <1>8, <1>9, <1>10, <1>11, <1>12

LEMMA ClearSinks ==
  ASSUME SinksInv, NEW ok \in BOOLEAN, Clear(ok)
  PROVE  SinksInv'
  <1> USE SinksAssumption DEF SinksInv, worker, mpd, At
  <1>1. w \in Workers /\ sinkhist \in Hist /\ Counts
    BY DEF SinksTypes, Workers
  <1>2. w' \in Workers
    <2>1. "list" \in Steps
      BY DEF Steps
    <2> QED
      BY <1>1, <2>1, WorkerSet DEF Clear
  <1>3. /\ sinkhist' \in Hist /\ Counts'
        /\ sinkhist'.raced = sinkhist.raced /\ sinkhist'.chosen = sinkhist.chosen
        /\ ok => sinkhist' = sinkhist /\ sinkcount' = sinkcount
        /\ ~ok => sinkhist'.clean = FALSE /\ sinkcount'.calls # 0
    BY <1>1, AnswerFacts DEF Clear
  <1>5. /\ want' \in [refresh : BOOLEAN, select : BOOLEAN, sel : Places] /\ running' \in BOOLEAN
        /\ (w'.at = "gone") = ~running'
    BY <1>1, SMT DEF Clear, SinksTypes, Places, Workers, Steps
  <1>6. /\ current' \in Places /\ owntone' \in Speakers \union {Nowhere}
        /\ outs' \subseteq {Headset, Feed} /\ mixer' \in [{Headset, Feed} -> Levels]
    BY <1>1, SMT DEF Clear, SinksTypes, Places, Choosing, Workers
  <1>7. ownplays' \in BOOLEAN
    BY SMT DEF Clear, SinksTypes
  <1>8. SinksTypes'
    BY <1>2, <1>3, <1>5, <1>6, <1>7 DEF SinksTypes, Workers
  <1>9. LevelHeld'
    BY <1>3, SMT DEF Clear, LevelHeld, Settled, Switching, Wanted, Other, SinksTypes, Counts, Hist, Places
  <1>10. OneOutput'
    BY <1>3, SMT DEF Clear, OneOutput, Wanted, Other, SinksTypes, Counts, Places
  <1>11. Choosing'
    BY SMT DEF Clear, Choosing, SinksTypes, Places
  <1>12. Passing'
    BY <1>3, SMT DEF Clear, Passing, Choosing, Switching, Fits, Wanted, Other, SinksTypes, Counts, Hist, Places
  <1> QED
    BY <1>3, <1>8, <1>9, <1>10, <1>11, <1>12

LEMMA ListSinks ==
  ASSUME SinksInv, NEW ok \in BOOLEAN, List(ok)
  PROVE  SinksInv'
  <1> USE SinksAssumption DEF SinksInv, worker, mpd, At
  <1>1. w \in Workers /\ sinkhist \in Hist /\ Counts
    BY DEF SinksTypes, Workers
  <1>2. w' \in Workers
    <2> DEFINE p == IF ok THEN owntone ELSE Nowhere
               u == [w EXCEPT !.speaker = p]
    <2>1. p \in Speakers \union {Nowhere}
      BY DEF SinksTypes
    <2>2. u \in Workers
      BY <1>1, <2>1, WorkerSet
    <2>3. "publish" \in Steps
      BY DEF Steps
    <2>4. [u EXCEPT !.at = "publish"] \in Workers
      BY <2>2, <2>3, WorkerSet
    <2>5. ToFeed(u, u.speaker \in Speakers) \in Workers
      <3>1. (u.speaker \in Speakers) \in BOOLEAN
        OBVIOUS
      <3> HIDE DEF u
      <3> QED
        BY <2>2, <3>1, ToFeedType
    <2> QED
      BY <2>4, <2>5, Zenon DEF List
  <1>3. /\ sinkhist' \in Hist /\ Counts'
        /\ sinkhist'.raced = sinkhist.raced /\ sinkhist'.chosen = sinkhist.chosen
        /\ ok => sinkhist' = sinkhist /\ sinkcount' = sinkcount
        /\ ~ok => sinkhist'.clean = FALSE /\ sinkcount'.calls # 0
    BY <1>1, AnswerFacts DEF List
  <1>5. /\ want' \in [refresh : BOOLEAN, select : BOOLEAN, sel : Places] /\ running' \in BOOLEAN
        /\ (w'.at = "gone") = ~running'
    BY <1>1, SMT DEF List, ToFeed, Fed, SinksTypes, Places, Workers, Steps
  <1>6. /\ current' \in Places /\ owntone' \in Speakers \union {Nowhere}
        /\ outs' \subseteq {Headset, Feed} /\ mixer' \in [{Headset, Feed} -> Levels]
    BY <1>1, SMT DEF List, ToFeed, Fed, SinksTypes, Places, Choosing, Workers
  <1>7. ownplays' \in BOOLEAN
    BY SMT DEF List, ToFeed, Fed, SinksTypes
  <1>8. SinksTypes'
    BY <1>2, <1>3, <1>5, <1>6, <1>7 DEF SinksTypes, Workers
  <1>9. LevelHeld'
    BY <1>3, SMT DEF List, ToFeed, Fed, LevelHeld, Settled, Switching, Wanted, Other, SinksTypes, Counts, Hist, Places
  <1>10. OneOutput'
    BY <1>3, SMT DEF List, ToFeed, Fed, OneOutput, Wanted, Other, SinksTypes, Counts, Places
  <1>11. Choosing'
    BY SMT DEF List, ToFeed, Fed, Choosing, SinksTypes, Places
  <1>12. Passing'
    BY <1>3, SMT DEF List, ToFeed, Fed, Passing, Choosing, Switching, Fits, Wanted, Other, SinksTypes, Counts, Hist, Places
  <1> QED
    BY <1>3, <1>8, <1>9, <1>10, <1>11, <1>12

LEMMA PublishSinks ==
  ASSUME SinksInv, Publish
  PROVE  SinksInv'
  <1> USE SinksAssumption DEF SinksInv, worker, mpd, At
  <1>1. w \in Workers /\ sinkhist \in Hist /\ Counts
    BY DEF SinksTypes, Workers
  <1>2. w' \in Workers
    <2>1. "take" \in Steps /\ Nowhere \in Speakers \union {Nowhere}
      BY DEF Steps
    <2> QED
      BY <1>1, <2>1, WorkerSet DEF Publish
  <1>3. sinkhist' \in Hist /\ sinkhist'.clean = sinkhist.clean
        /\ sinkhist'.raced = sinkhist.raced /\ sinkhist'.chosen = sinkhist.chosen
    <2> DEFINE d == sinkhist.hasty \/ (current' # current /\ Following)
    <2>1. d \in BOOLEAN
      BY DEF SinksTypes, Hist
    <2>2. sinkhist' = [sinkhist EXCEPT !.hasty = d]
      BY Zenon DEF Publish
    <2> HIDE DEF d
    <2>3. sinkhist' \in Hist
      BY <1>1, <2>1, <2>2, HistSet
    <2> QED
      BY <2>2, <2>3, <1>1, Zenon DEF Hist
  <1>4. Counts'
    BY DEF Publish, Counts
  <1>5. /\ want' \in [refresh : BOOLEAN, select : BOOLEAN, sel : Places] /\ running' \in BOOLEAN
        /\ (w'.at = "gone") = ~running'
    BY <1>1, SMT DEF Publish, SinksTypes, Places, Workers, Steps
  <1>6. /\ current' \in Places /\ owntone' \in Speakers \union {Nowhere}
        /\ outs' \subseteq {Headset, Feed} /\ mixer' \in [{Headset, Feed} -> Levels]
    BY <1>1, SMT DEF Publish, SinksTypes, Places, Choosing, Workers
  <1>7. ownplays' \in BOOLEAN
    BY SMT DEF Publish, SinksTypes
  <1>8. SinksTypes'
    BY <1>2, <1>3, <1>5, <1>6, <1>7 DEF SinksTypes, Workers
  <1>9. LevelHeld'
    BY <1>3, SMT DEF Publish, LevelHeld, Settled, Switching, Wanted, Other, SinksTypes, Counts, Hist, Places
  <1>10. OneOutput'
    BY <1>3, SMT DEF Publish, OneOutput, Wanted, Other, SinksTypes, Counts, Places
  <1>11. Choosing'
    BY SMT DEF Publish, Choosing, SinksTypes, Places
  <1>12. Passing'
    BY <1>3, SMT DEF Publish, Passing, Choosing, Switching, Fits, Wanted, Other, SinksTypes, Counts, Hist, Places
  <1> QED
    BY <1>3, <1>4, <1>8, <1>9, <1>10, <1>11, <1>12

LEMMA SelectSinks ==
  ASSUME SinksInv, NEW s \in Places, Select(s)
  PROVE  SinksInv'
  <1> USE SinksAssumption DEF SinksInv, worker, mpd, At
  <1>1. w \in Workers /\ sinkhist \in Hist /\ Counts
    BY DEF SinksTypes, Workers
  <1>2. w' \in Workers
    <2>1. "take" \in Steps /\ FALSE \in BOOLEAN
      BY DEF Steps
    <2> QED
      BY <1>1, <2>1, WorkerSet DEF Select, Kick
  <1>3. sinkhist' \in Hist /\ Counts' /\ sinkcount'.calls = sinkcount.calls /\ sinkcount'.outside = sinkcount.outside
    <2>1. Uses("asks")
      BY DEF Select
    <2> QED
      BY <1>1, <2>1, UsesCounts, Zenon DEF Select
  <1>5. /\ want' \in [refresh : BOOLEAN, select : BOOLEAN, sel : Places] /\ running' \in BOOLEAN
        /\ (w'.at = "gone") = ~running'
    BY <1>1, SMT DEF Select, Kick, SinksTypes, Places, Workers, Steps
  <1>6. /\ current' \in Places /\ owntone' \in Speakers \union {Nowhere}
        /\ outs' \subseteq {Headset, Feed} /\ mixer' \in [{Headset, Feed} -> Levels]
    BY <1>1, SMT DEF Select, Kick, SinksTypes, Places, Choosing, Workers
  <1>7. ownplays' \in BOOLEAN
    BY SMT DEF Select, Kick, SinksTypes
  <1>8. SinksTypes'
    BY <1>2, <1>3, <1>5, <1>6, <1>7 DEF SinksTypes, Workers
  <1>9. LevelHeld'
    BY <1>3, SMT DEF Select, Kick, LevelHeld, Settled, Switching, Wanted, Other, SinksTypes, Counts, Hist, Places
  <1>10. OneOutput'
    BY <1>3, SMT DEF Select, Kick, OneOutput, Wanted, Other, SinksTypes, Counts, Places
  <1>11. Choosing'
    BY SMT DEF Select, Kick, Choosing, SinksTypes, Places
  <1>12. Passing'
    BY <1>3, SMT DEF Select, Kick, Passing, Choosing, Switching, Fits, Wanted, Other, SinksTypes, Counts, Hist, Places
  <1> QED
    BY <1>3, <1>8, <1>9, <1>10, <1>11, <1>12

LEMMA RefreshSinks ==
  ASSUME SinksInv, Refresh
  PROVE  SinksInv'
  <1> USE SinksAssumption DEF SinksInv, worker, mpd, At
  <1>1. w \in Workers /\ sinkhist \in Hist /\ Counts
    BY DEF SinksTypes, Workers
  <1>2. w' \in Workers
    <2>1. "take" \in Steps /\ FALSE \in BOOLEAN
      BY DEF Steps
    <2> QED
      BY <1>1, <2>1, WorkerSet DEF Refresh, Kick
  <1>3. sinkhist' \in Hist /\ Counts' /\ sinkcount'.calls = sinkcount.calls /\ sinkcount'.outside = sinkcount.outside
    <2>1. Uses("asks")
      BY DEF Refresh
    <2> QED
      BY <1>1, <2>1, UsesCounts, Zenon DEF Refresh
  <1>5. /\ want' \in [refresh : BOOLEAN, select : BOOLEAN, sel : Places] /\ running' \in BOOLEAN
        /\ (w'.at = "gone") = ~running'
    BY <1>1, SMT DEF Refresh, Kick, SinksTypes, Places, Workers, Steps
  <1>6. /\ current' \in Places /\ owntone' \in Speakers \union {Nowhere}
        /\ outs' \subseteq {Headset, Feed} /\ mixer' \in [{Headset, Feed} -> Levels]
    BY <1>1, SMT DEF Refresh, Kick, SinksTypes, Places, Choosing, Workers
  <1>7. ownplays' \in BOOLEAN
    BY SMT DEF Refresh, Kick, SinksTypes
  <1>8. SinksTypes'
    BY <1>2, <1>3, <1>5, <1>6, <1>7 DEF SinksTypes, Workers
  <1>9. LevelHeld'
    BY <1>3, SMT DEF Refresh, Kick, LevelHeld, Settled, Switching, Wanted, Other, SinksTypes, Counts, Hist, Places
  <1>10. OneOutput'
    BY <1>3, SMT DEF Refresh, Kick, OneOutput, Wanted, Other, SinksTypes, Counts, Places
  <1>11. Choosing'
    BY SMT DEF Refresh, Kick, Choosing, SinksTypes, Places
  <1>12. Passing'
    BY <1>3, SMT DEF Refresh, Kick, Passing, Choosing, Switching, Fits, Wanted, Other, SinksTypes, Counts, Hist, Places
  <1> QED
    BY <1>3, <1>8, <1>9, <1>10, <1>11, <1>12

LEMMA CheckSinks ==
  ASSUME SinksInv, Check
  PROVE  SinksInv'
  <1> USE SinksAssumption DEF SinksInv, worker, mpd, At
  <1>1. w \in Workers /\ sinkhist \in Hist /\ Counts
    BY DEF SinksTypes, Workers
  <1>2. w' \in Workers
    <2>1. "take" \in Steps /\ FALSE \in BOOLEAN
      BY DEF Steps
    <2> QED
      BY <1>1, <2>1, WorkerSet DEF Check, Kick
  <1>3. sinkhist' \in Hist /\ Counts'
    BY <1>1 DEF Check, Counts
  <1>5. /\ want' \in [refresh : BOOLEAN, select : BOOLEAN, sel : Places] /\ running' \in BOOLEAN
        /\ (w'.at = "gone") = ~running'
    BY <1>1, SMT DEF Check, Kick, SinksTypes, Places, Workers, Steps
  <1>6. /\ current' \in Places /\ owntone' \in Speakers \union {Nowhere}
        /\ outs' \subseteq {Headset, Feed} /\ mixer' \in [{Headset, Feed} -> Levels]
    BY <1>1, SMT DEF Check, Kick, SinksTypes, Places, Choosing, Workers
  <1>7. ownplays' \in BOOLEAN
    BY SMT DEF Check, Kick, SinksTypes
  <1>8. SinksTypes'
    BY <1>2, <1>3, <1>5, <1>6, <1>7 DEF SinksTypes, Workers
  <1>9. LevelHeld'
    BY <1>3, SMT DEF Check, Kick, LevelHeld, Settled, Switching, Wanted, Other, SinksTypes, Counts, Hist, Places
  <1>10. OneOutput'
    BY <1>3, SMT DEF Check, Kick, OneOutput, Wanted, Other, SinksTypes, Counts, Places
  <1>11. Choosing'
    BY SMT DEF Check, Kick, Choosing, SinksTypes, Places
  <1>12. Passing'
    BY <1>3, SMT DEF Check, Kick, Passing, Choosing, Switching, Fits, Wanted, Other, SinksTypes, Counts, Hist, Places
  <1> QED
    BY <1>3, <1>8, <1>9, <1>10, <1>11, <1>12

LEMMA FollowStepSinks ==
  ASSUME SinksInv, FollowStep
  PROVE  SinksInv'
  <1> USE SinksAssumption DEF SinksInv, worker, mpd, At
  <1>1. w \in Workers /\ sinkhist \in Hist /\ Counts
    BY DEF SinksTypes, Workers
  <1>2. w' \in Workers
    BY <1>1 DEF FollowStep, FollowRead, FollowStop, FollowSeek, FollowWait
  <1>3. sinkhist' \in Hist /\ Counts'
    BY <1>1 DEF FollowStep, FollowRead, FollowStop, FollowSeek, FollowWait, Counts
  <1>5. /\ want' \in [refresh : BOOLEAN, select : BOOLEAN, sel : Places] /\ running' \in BOOLEAN
        /\ (w'.at = "gone") = ~running'
    BY <1>1, SMT DEF FollowStep, FollowRead, FollowStop, FollowSeek, FollowWait, SinksTypes, Places, Workers, Steps
  <1>6. /\ current' \in Places /\ owntone' \in Speakers \union {Nowhere}
        /\ outs' \subseteq {Headset, Feed} /\ mixer' \in [{Headset, Feed} -> Levels]
    BY DEF FollowStep, FollowRead, FollowStop, FollowSeek, FollowWait, SinksTypes
  <1>7. ownplays' \in BOOLEAN
    BY DEF FollowStep, FollowRead, FollowStop, FollowSeek, FollowWait, SinksTypes
  <1>8. SinksTypes'
    BY <1>2, <1>3, <1>5, <1>6, <1>7 DEF SinksTypes, Workers
  <1>9. LevelHeld'
    BY <1>3, SMT DEF FollowStep, FollowRead, FollowStop, FollowSeek, FollowWait, LevelHeld, Settled, Switching, Wanted, Other, SinksTypes, Counts, Hist, Places
  <1>10. OneOutput'
    BY <1>3, SMT DEF FollowStep, FollowRead, FollowStop, FollowSeek, FollowWait, OneOutput, Wanted, Other, SinksTypes, Counts, Places
  <1>11. Choosing'
    BY SMT DEF FollowStep, FollowRead, FollowStop, FollowSeek, FollowWait, Choosing, SinksTypes, Places
  <1>12. Passing'
    BY <1>3, SMT DEF FollowStep, FollowRead, FollowStop, FollowSeek, FollowWait, Passing, Choosing, Switching, Fits, Wanted, Other, SinksTypes, Counts, Hist, Places
  <1> QED
    BY <1>3, <1>8, <1>9, <1>10, <1>11, <1>12

LEMMA TurnSinks ==
  ASSUME SinksInv, NEW v \in Levels, Turn(v)
  PROVE  SinksInv'
  <1> USE SinksAssumption DEF SinksInv, worker, mpd, At
  <1>1. w \in Workers /\ sinkhist \in Hist /\ Counts
    BY DEF SinksTypes, Workers
  <1>2. w' \in Workers
    BY <1>1 DEF Turn, SetMixers
  <1>3. sinkhist' \in Hist /\ Counts' /\ sinkcount'.calls = sinkcount.calls
        /\ sinkhist'.chosen = v /\ sinkhist'.raced = Switching /\ sinkhist'.clean = sinkhist.clean
        /\ sinkcount'.outside # 0
    <2>1. Uses("outside")
      BY DEF Turn
    <2>2. /\ Counts' /\ sinkcount'["calls"] = sinkcount["calls"]
          /\ sinkcount'["outside"] = sinkcount["outside"] + 1
      BY <2>1, UsesCounts
    <2>3. sinkcount'.outside # 0
      BY <2>2, SMT DEF Counts
    <2>4. sinkhist' = [sinkhist EXCEPT !.chosen = v, !.raced = Switching]
      BY Zenon DEF Turn, Switching
    <2>5. Switching \in BOOLEAN
      BY DEF Switching
    <2> DEFINE h == [sinkhist EXCEPT !.chosen = v]
    <2>6. h \in Hist
      BY <1>1, HistSet
    <2>7. [h EXCEPT !.raced = Switching] \in Hist
      BY <2>5, <2>6, HistSet
    <2>8. sinkhist' \in Hist
      BY <2>4, <2>7
    <2>9. sinkhist'.chosen = v /\ sinkhist'.raced = Switching /\ sinkhist'.clean = sinkhist.clean
      BY <1>1, <2>4, Zenon DEF Hist
    <2> QED
      BY <2>2, <2>3, <2>8, <2>9
  <1>5. /\ want' \in [refresh : BOOLEAN, select : BOOLEAN, sel : Places] /\ running' \in BOOLEAN
        /\ (w'.at = "gone") = ~running'
    BY <1>1, SMT DEF Turn, SetMixers, SinksTypes, Places, Workers, Steps
  <1>6. /\ current' \in Places /\ owntone' \in Speakers \union {Nowhere}
        /\ outs' \subseteq {Headset, Feed} /\ mixer' \in [{Headset, Feed} -> Levels]
    BY <1>1, SMT DEF Turn, SetMixers, SinksTypes, Places, Choosing, Workers
  <1>7. ownplays' \in BOOLEAN
    BY SMT DEF Turn, SetMixers, SinksTypes
  <1>8. SinksTypes'
    BY <1>2, <1>3, <1>5, <1>6, <1>7 DEF SinksTypes, Workers
  <1>9. LevelHeld'
    BY <1>3, SMT DEF Turn, SetMixers, LevelHeld, Settled, Switching, Wanted, Other, SinksTypes, Counts, Hist, Places
  <1>10. OneOutput'
    BY <1>3, SMT DEF Turn, SetMixers, OneOutput, Wanted, Other, SinksTypes, Counts, Places
  <1>11. Choosing'
    BY SMT DEF Turn, SetMixers, Choosing, SinksTypes, Places
  <1>12. Passing'
    BY <1>3, SMT DEF Turn, SetMixers, Passing, Choosing, Switching, Fits, Wanted, Other, SinksTypes, Counts, Hist, Places
  <1> QED
    BY <1>3, <1>8, <1>9, <1>10, <1>11, <1>12

LEMMA ToggleSinks ==
  ASSUME SinksInv, NEW state \in {"play", "pause", "stop"}, Toggle(state)
  PROVE  SinksInv'
  <1> USE SinksAssumption DEF SinksInv, worker, mpd, At
  <1>1. w \in Workers /\ sinkhist \in Hist /\ Counts
    BY DEF SinksTypes, Workers
  <1>2. w' \in Workers
    BY <1>1 DEF Toggle
  <1>3. sinkhist' \in Hist /\ Counts' /\ sinkcount'.calls = sinkcount.calls
        /\ sinkcount'.outside = sinkcount.outside /\ sinkhist'.clean = sinkhist.clean
        /\ sinkhist'.raced = sinkhist.raced /\ sinkhist'.chosen = sinkhist.chosen
    <2> DEFINE d == (sinkhist.hasty /\ play # "play") \/ Following \/ current \notin Speakers
    <2>1. Uses("toggles") /\ sinkhist' = [sinkhist EXCEPT !.hasty = d]
      BY Zenon DEF Toggle
    <2>2. /\ Counts' /\ sinkcount'["calls"] = sinkcount["calls"]
          /\ sinkcount'["outside"] = sinkcount["outside"]
      BY <2>1, UsesCounts
    <2>3. d \in BOOLEAN
      OBVIOUS
    <2> HIDE DEF d
    <2>4. sinkhist' \in Hist
      BY <1>1, <2>1, <2>3, HistSet
    <2>5. /\ sinkhist'.clean = sinkhist.clean
          /\ sinkhist'.raced = sinkhist.raced /\ sinkhist'.chosen = sinkhist.chosen
      BY <1>1, <2>1, Zenon DEF Hist
    <2> QED
      BY <2>2, <2>4, <2>5
  <1>5. /\ want' \in [refresh : BOOLEAN, select : BOOLEAN, sel : Places] /\ running' \in BOOLEAN
        /\ (w'.at = "gone") = ~running'
    BY <1>1, SMT DEF Toggle, SinksTypes, Places, Workers, Steps
  <1>6. /\ current' \in Places /\ owntone' \in Speakers \union {Nowhere}
        /\ outs' \subseteq {Headset, Feed} /\ mixer' \in [{Headset, Feed} -> Levels]
    BY <1>1, SMT DEF Toggle, SinksTypes, Places, Choosing, Workers
  <1>7. ownplays' \in BOOLEAN
    BY SMT DEF Toggle, SinksTypes
  <1>8. SinksTypes'
    BY <1>2, <1>3, <1>5, <1>6, <1>7 DEF SinksTypes, Workers
  <1>9. LevelHeld'
    BY <1>3, SMT DEF Toggle, LevelHeld, Settled, Switching, Wanted, Other, SinksTypes, Counts, Hist, Places
  <1>10. OneOutput'
    BY <1>3, SMT DEF Toggle, OneOutput, Wanted, Other, SinksTypes, Counts, Places
  <1>11. Choosing'
    BY SMT DEF Toggle, Choosing, SinksTypes, Places
  <1>12. Passing'
    BY <1>3, SMT DEF Toggle, Passing, Choosing, Switching, Fits, Wanted, Other, SinksTypes, Counts, Hist, Places
  <1> QED
    BY <1>3, <1>8, <1>9, <1>10, <1>11, <1>12

LEMMA MpdRestartsSinks ==
  ASSUME SinksInv, MpdRestarts
  PROVE  SinksInv'
  <1> USE SinksAssumption DEF SinksInv, worker, mpd, At
  <1>1. w \in Workers /\ sinkhist \in Hist /\ Counts
    BY DEF SinksTypes, Workers
  <1>2. w' \in Workers
    BY <1>1 DEF MpdRestarts
  <1>3. sinkhist' \in Hist /\ Counts' /\ sinkcount'.outside # 0
        /\ sinkhist'.clean = FALSE /\ sinkhist'.raced = TRUE
    <2>1. Uses("outside")
      BY DEF MpdRestarts
    <2>2. Counts' /\ sinkcount'["outside"] = sinkcount["outside"] + 1
      BY <2>1, UsesCounts
    <2>3. sinkcount'.outside # 0
      BY <2>2, SMT DEF Counts
    <2>4. sinkhist' = [sinkhist EXCEPT !.clean = FALSE, !.raced = TRUE]
      BY Zenon DEF MpdRestarts
    <2> DEFINE h == [sinkhist EXCEPT !.clean = FALSE]
    <2>5. h \in Hist
      BY <1>1, HistSet
    <2>6. [h EXCEPT !.raced = TRUE] \in Hist
      BY <2>5, HistSet
    <2>7. sinkhist' \in Hist
      BY <2>4, <2>6
    <2>8. sinkhist'.clean = FALSE /\ sinkhist'.raced = TRUE
      BY <1>1, <2>4, Zenon DEF Hist
    <2> QED
      BY <2>2, <2>3, <2>7, <2>8
  <1>5. /\ want' \in [refresh : BOOLEAN, select : BOOLEAN, sel : Places] /\ running' \in BOOLEAN
        /\ (w'.at = "gone") = ~running'
    BY <1>1, SMT DEF MpdRestarts, SinksTypes, Places, Workers, Steps
  <1>6. /\ current' \in Places /\ owntone' \in Speakers \union {Nowhere}
        /\ outs' \subseteq {Headset, Feed} /\ mixer' \in [{Headset, Feed} -> Levels]
    BY <1>1, SMT DEF MpdRestarts, SinksTypes, Places, Choosing, Workers
  <1>7. ownplays' \in BOOLEAN
    BY SMT DEF MpdRestarts, SinksTypes
  <1>8. SinksTypes'
    BY <1>2, <1>3, <1>5, <1>6, <1>7 DEF SinksTypes, Workers
  <1>9. LevelHeld'
    BY <1>3, SMT DEF MpdRestarts, LevelHeld, Settled, Switching, Wanted, Other, SinksTypes, Counts, Hist, Places
  <1>10. OneOutput'
    BY <1>3, SMT DEF MpdRestarts, OneOutput, Wanted, Other, SinksTypes, Counts, Places
  <1>11. Choosing'
    BY SMT DEF MpdRestarts, Choosing, SinksTypes, Places
  <1>12. Passing'
    BY <1>3, SMT DEF MpdRestarts, Passing, Choosing, Switching, Fits, Wanted, Other, SinksTypes, Counts, Hist, Places
  <1> QED
    BY <1>3, <1>8, <1>9, <1>10, <1>11, <1>12

LEMMA DropSinks ==
  ASSUME SinksInv, Drop
  PROVE  SinksInv'
  <1> USE SinksAssumption DEF SinksInv, worker, mpd, At
  <1>1. w \in Workers /\ sinkhist \in Hist /\ Counts
    BY DEF SinksTypes, Workers
  <1>2. w' \in Workers
    BY <1>1 DEF Drop
  <1>3. /\ sinkhist' \in Hist /\ Counts'
        /\ sinkhist'.raced = sinkhist.raced /\ sinkhist'.chosen = sinkhist.chosen
        /\ sinkhist'.clean = FALSE /\ sinkcount'.outside # 0 /\ sinkcount'.calls = sinkcount.calls
    BY <1>1, OutsideFacts DEF Drop
  <1>5. /\ want' \in [refresh : BOOLEAN, select : BOOLEAN, sel : Places] /\ running' \in BOOLEAN
        /\ (w'.at = "gone") = ~running'
    BY <1>1, SMT DEF Drop, SinksTypes, Places, Workers, Steps
  <1>6. /\ current' \in Places /\ owntone' \in Speakers \union {Nowhere}
        /\ outs' \subseteq {Headset, Feed} /\ mixer' \in [{Headset, Feed} -> Levels]
    BY DEF Drop, SinksTypes
  <1>7. ownplays' \in BOOLEAN
    BY DEF Drop, SinksTypes
  <1>8. SinksTypes'
    BY <1>2, <1>3, <1>5, <1>6, <1>7 DEF SinksTypes, Workers
  <1>9. LevelHeld'
    BY <1>3, SMT DEF Drop, LevelHeld, Settled, Switching, Wanted, Other, SinksTypes, Counts, Hist, Places
  <1>10. OneOutput'
    BY <1>3, SMT DEF Drop, OneOutput, Wanted, Other, SinksTypes, Counts, Places
  <1>11. Choosing'
    BY SMT DEF Drop, Choosing, SinksTypes, Places
  <1>12. Passing'
    BY <1>3, SMT DEF Drop, Passing, Choosing, Switching, Fits, Wanted, Other, SinksTypes, Counts, Hist, Places
  <1> QED
    BY <1>3, <1>8, <1>9, <1>10, <1>11, <1>12

LEMMA AutostartSinks ==
  ASSUME SinksInv, Autostart
  PROVE  SinksInv'
  <1> USE SinksAssumption DEF SinksInv, worker, mpd, At
  <1>1. w \in Workers /\ sinkhist \in Hist /\ Counts
    BY DEF SinksTypes, Workers
  <1>2. w' \in Workers
    BY <1>1 DEF Autostart
  <1>3. sinkhist' \in Hist /\ Counts'
    BY <1>1 DEF Autostart, Counts
  <1>5. /\ want' \in [refresh : BOOLEAN, select : BOOLEAN, sel : Places] /\ running' \in BOOLEAN
        /\ (w'.at = "gone") = ~running'
    BY <1>1, SMT DEF Autostart, SinksTypes, Places, Workers, Steps
  <1>6. /\ current' \in Places /\ owntone' \in Speakers \union {Nowhere}
        /\ outs' \subseteq {Headset, Feed} /\ mixer' \in [{Headset, Feed} -> Levels]
    BY <1>1, SMT DEF Autostart, SinksTypes, Places, Choosing, Workers
  <1>7. ownplays' \in BOOLEAN
    BY SMT DEF Autostart, SinksTypes
  <1>8. SinksTypes'
    BY <1>2, <1>3, <1>5, <1>6, <1>7 DEF SinksTypes, Workers
  <1>9. LevelHeld'
    BY <1>3, SMT DEF Autostart, LevelHeld, Settled, Switching, Wanted, Other, SinksTypes, Counts, Hist, Places
  <1>10. OneOutput'
    BY <1>3, SMT DEF Autostart, OneOutput, Wanted, Other, SinksTypes, Counts, Places
  <1>11. Choosing'
    BY SMT DEF Autostart, Choosing, SinksTypes, Places
  <1>12. Passing'
    BY <1>3, SMT DEF Autostart, Passing, Choosing, Switching, Fits, Wanted, Other, SinksTypes, Counts, Hist, Places
  <1> QED
    BY <1>3, <1>8, <1>9, <1>10, <1>11, <1>12


LEMMA SinksInvStep == SinksInv /\ [SinksNext]_sinkVars => SinksInv'
  <1> SUFFICES ASSUME SinksInv, [SinksNext]_sinkVars PROVE SinksInv'
    OBVIOUS
  <1>1. CASE SinksNext
    BY <1>1, TakeSinks, ConnectSinks, ChooseSinks, ReadLevelSinks, OffOtherSinks, OnWantedSinks, CarrySinks,
       ClearSinks, ListSinks, PublishSinks, FollowStepSinks, SelectSinks, RefreshSinks, CheckSinks, TurnSinks,
       ToggleSinks, MpdRestartsSinks, DropSinks, AutostartSinks, Zenon DEF SinksNext, WorkerStep
  <1>2. CASE UNCHANGED sinkVars
    <2> USE <1>2 DEF sinkVars, SinksInv, At
    <2>1. SinksTypes' /\ Counts'
      BY DEF SinksTypes, Counts
    <2>2. LevelHeld'
      BY SMT DEF LevelHeld, Settled, Switching, Wanted
    <2>3. OneOutput' /\ Choosing'
      BY SMT DEF OneOutput, Choosing, Wanted
    <2>4. Passing'
      BY SMT DEF Passing, Switching, Fits, Wanted
    <2> QED
      BY <2>1, <2>2, <2>3, <2>4
  <1> QED
    BY <1>1, <1>2

\* Where the sound goes, for any speakers, levels, and number of requests,
\* failed calls and changes from outside (sinks.c): one output at most is on,
\* and it is the one of the sink that is shown, at the level that was chosen.
THEOREM SinksInvariant == SinksSpec => []SinksRight
  <1>1. SinksSpec => []SinksInv
    BY SinksInvInit, SinksInvStep, PTL DEF SinksSpec
  <1> QED
    BY <1>1, SinksInvGoals, PTL
-----------------------------------------------------------------------------
Ats  == {"open", "seek", "idle", "read", "place", "convert", "end", "gone"}
Some == 0..Frames - 1 \union {None}
Decs == [at : Ats, gen : 0..MaxSeeks, skip : Nat \union {None}, preview : BOOLEAN, next : 0..Frames,
         held : Some, frame : Some, slot : Slots \union {0}, last : BOOLEAN, asleep : BOOLEAN]
Vids == [state : {"opening", "ready", "failed"}, quit : BOOLEAN, gen : 0..MaxSeeks,
         eof : BOOLEAN, target : SeekTimes \union {0}, preview : BOOLEAN,
         clock : Nat \union {None}, shown : Slots \union {0}]
SlotStates == [state : {"free", "ready", "shown"}, pts : Times \union {None}, gen : 0..MaxSeeks]
Typed == /\ vid \in Vids /\ dec \in Decs /\ slots \in [Slots -> SlotStates]
         /\ pos \in Nat /\ forgot \in BOOLEAN

\* Where the thread is in the file: the end is behind the last frame, with
\* nothing left in the codec, and there it stays until a seek.
AtEnd == dec.next = Frames /\ dec.held = None
Reading ==
  /\ dec.gen <= vid.gen
  /\ dec.at \in {"place", "convert"} => dec.frame # None
  /\ dec.at \in {"place", "convert"} /\ dec.last => AtEnd
  /\ dec.at = "end" => AtEnd
  /\ vid.eof => Current /\ AtEnd /\ dec.at \in {"seek", "idle", "gone"}
  /\ dec.asleep => dec.at \in {"idle", "place"}

\* What the thread works on of the last seek is what that asked for; a seek
\* made before the file was open is the exception, see forgot.
FromStart(t) == IF t < 0 THEN 0 ELSE t
Skipping ==
  /\ dec.at = "open" <=> vid.state = "opening"
  /\ vid.state = "opening" /\ ~forgot => vid.gen = 0
  /\ ~forgot /\ Current /\ vid.gen > 0 /\ ~vid.preview
     => ~dec.preview /\ dec.skip = FromStart(vid.target)
  /\ dec.at = "convert" /\ ~dec.preview => dec.skip <= Due(dec.frame)

SlotTaken == dec.slot # 0 <=> dec.at = "convert"

\* No frame is of a seek to come.
NoneToCome == \A i \in Slots : slots[i].gen <= vid.gen

VideoInv == /\ Typed /\ SlotTaken /\ NoneToCome /\ Reading /\ Skipping
            /\ OnlyNewFramesWait /\ HandedOutKept /\ FramesFollowSeekOnceOpen

\* Records stay of their type when a field is set.
LEMMA DecSet ==
  ASSUME NEW d \in Decs
  PROVE  /\ \A x \in Ats : [d EXCEPT !.at = x] \in Decs
         /\ \A x \in 0..MaxSeeks : [d EXCEPT !.gen = x] \in Decs
         /\ \A x \in Nat \union {None} : [d EXCEPT !.skip = x] \in Decs
         /\ \A x \in BOOLEAN : [d EXCEPT !.preview = x] \in Decs
         /\ \A x \in 0..Frames : [d EXCEPT !.next = x] \in Decs
         /\ \A x \in Some : [d EXCEPT !.held = x] \in Decs
         /\ \A x \in Some : [d EXCEPT !.frame = x] \in Decs
         /\ \A x \in Slots \union {0} : [d EXCEPT !.slot = x] \in Decs
         /\ \A x \in BOOLEAN : [d EXCEPT !.last = x] \in Decs
         /\ \A x \in BOOLEAN : [d EXCEPT !.asleep = x] \in Decs
  <1>1. \A x \in Ats : [d EXCEPT !.at = x] \in Decs
    BY Zenon DEF Decs
  <1>2. \A x \in 0..MaxSeeks : [d EXCEPT !.gen = x] \in Decs
    BY Zenon DEF Decs
  <1>3. \A x \in Nat \union {None} : [d EXCEPT !.skip = x] \in Decs
    BY Zenon DEF Decs
  <1>4. \A x \in BOOLEAN : [d EXCEPT !.preview = x] \in Decs
    BY Zenon DEF Decs
  <1>5. \A x \in 0..Frames : [d EXCEPT !.next = x] \in Decs
    BY Zenon DEF Decs
  <1>6. \A x \in Some : [d EXCEPT !.held = x] \in Decs
    BY Zenon DEF Decs
  <1>7. \A x \in Some : [d EXCEPT !.frame = x] \in Decs
    BY Zenon DEF Decs
  <1>8. \A x \in Slots \union {0} : [d EXCEPT !.slot = x] \in Decs
    BY Zenon DEF Decs
  <1>9. \A x \in BOOLEAN : [d EXCEPT !.last = x] \in Decs
    BY Zenon DEF Decs
  <1>10. \A x \in BOOLEAN : [d EXCEPT !.asleep = x] \in Decs
    BY Zenon DEF Decs
  <1> QED
    BY <1>1, <1>2, <1>3, <1>4, <1>5, <1>6, <1>7, <1>8, <1>9, <1>10

LEMMA VidSet ==
  ASSUME NEW v \in Vids
  PROVE  /\ \A x \in {"opening", "ready", "failed"} : [v EXCEPT !.state = x] \in Vids
         /\ \A x \in BOOLEAN : [v EXCEPT !.quit = x] \in Vids
         /\ \A x \in 0..MaxSeeks : [v EXCEPT !.gen = x] \in Vids
         /\ \A x \in BOOLEAN : [v EXCEPT !.eof = x] \in Vids
         /\ \A x \in SeekTimes \union {0} : [v EXCEPT !.target = x] \in Vids
         /\ \A x \in BOOLEAN : [v EXCEPT !.preview = x] \in Vids
         /\ \A x \in Nat \union {None} : [v EXCEPT !.clock = x] \in Vids
         /\ \A x \in Slots \union {0} : [v EXCEPT !.shown = x] \in Vids
  <1>1. \A x \in {"opening", "ready", "failed"} : [v EXCEPT !.state = x] \in Vids
    BY Zenon DEF Vids
  <1>2. \A x \in BOOLEAN : [v EXCEPT !.quit = x] \in Vids
    BY Zenon DEF Vids
  <1>3. \A x \in 0..MaxSeeks : [v EXCEPT !.gen = x] \in Vids
    BY Zenon DEF Vids
  <1>4. \A x \in BOOLEAN : [v EXCEPT !.eof = x] \in Vids
    BY Zenon DEF Vids
  <1>5. \A x \in SeekTimes \union {0} : [v EXCEPT !.target = x] \in Vids
    BY Zenon DEF Vids
  <1>6. \A x \in BOOLEAN : [v EXCEPT !.preview = x] \in Vids
    BY Zenon DEF Vids
  <1>7. \A x \in Nat \union {None} : [v EXCEPT !.clock = x] \in Vids
    BY Zenon DEF Vids
  <1>8. \A x \in Slots \union {0} : [v EXCEPT !.shown = x] \in Vids
    BY Zenon DEF Vids
  <1> QED
    BY <1>1, <1>2, <1>3, <1>4, <1>5, <1>6, <1>7, <1>8

LEMMA FreeType == Free \in SlotStates
  <1>1. 0 \in 0..MaxSeeks
    BY PictureAssumption
  <1> QED
    BY <1>1, Zenon DEF Free, SlotStates

\* A set of numbers has a least one.
LEMMA LeastNumber ==
  ASSUME NEW T, T \subseteq Nat, T # {}
  PROVE  \E k \in T : \A l \in T : k <= l
  <1>1. PICK k \in T : \A l \in T : ~(<<l, k>> \in OpToRel(<, Nat))
    BY NatLessThanWellFounded, WFMin
  <1>2. \A l \in T : ~(l < k)
    BY <1>1 DEF OpToRel
  <1> QED
    BY <1>2, SMT

\* The keyframe a seek starts at.
LEMMA KeyframeThere ==
  ASSUME NEW t \in Nat
  PROVE  KeyframeAt(t) \in 0..Frames - 1
  <1> DEFINE D == {Frames - k : k \in {l \in Keyframes : Due(l) <= t}}
  <1>1. 0 \in Keyframes /\ Keyframes \subseteq 0..Frames - 1 /\ Frames \in Nat
    BY PictureAssumption
  <1>2. D \subseteq Nat
    BY <1>1, SMT DEF Due
  <1>3. Frames - 0 \in D
    BY <1>1, SMT DEF Due
  <1>4. PICK m \in D : \A n \in D : m <= n
    BY <1>2, <1>3, LeastNumber
  <1>5. PICK k \in Keyframes : Due(k) <= t /\ m = Frames - k
    BY <1>4
  <1>6. ASSUME NEW l \in Keyframes, Due(l) <= t
        PROVE  l <= k
    <2>1. Frames - l \in D
      BY <1>6
    <2>2. m <= Frames - l
      BY <1>4, <2>1
    <2> QED
      BY <1>1, <1>5, <2>2, SMT
  <1> QED
    BY <1>1, <1>5, <1>6, Zenon DEF KeyframeAt

\* Of the frames that wait and are due the newest is picked.
LEMMA NewestThere ==
  ASSUME Typed, NEW due, due \subseteq Slots, due # {}
  PROVE  \E i \in due : \A j \in due : slots[j].pts < slots[i].pts \/ (slots[j].pts = slots[i].pts /\ i <= j)
  <1> DEFINE D == {2 * Frames - slots[i].pts : i \in due}
  <1>1. Slots \subseteq Nat /\ Frames \in Nat
    BY PictureAssumption
  <1>2. \A i \in Slots : slots[i].pts \in Int /\ slots[i].pts <= 2 * Frames
    BY <1>1, SMT DEF Typed, SlotStates, Times, None
  <1>3. D \subseteq Nat /\ D # {}
    <2>1. ASSUME NEW i \in due
          PROVE  2 * Frames - slots[i].pts \in Nat
      BY <1>1, <1>2, SMT
    <2> QED
      BY <2>1
  <1>4. PICK m \in D : \A n \in D : m <= n
    BY <1>3, LeastNumber
  <1> DEFINE E == {i \in due : 2 * Frames - slots[i].pts = m}
  <1>5. E \subseteq Nat /\ E # {}
    BY <1>1, <1>4
  <1>6. PICK i \in E : \A j \in E : i <= j
    BY <1>5, LeastNumber
  <1>7. ASSUME NEW j \in due
        PROVE  slots[j].pts < slots[i].pts \/ (slots[j].pts = slots[i].pts /\ i <= j)
    <2>1. m <= 2 * Frames - slots[j].pts /\ 2 * Frames - slots[i].pts = m
      BY <1>4, <1>6
    <2>2. slots[j].pts \in Int /\ slots[i].pts \in Int
      BY <1>2, <1>6
    <2>3. CASE slots[j].pts = slots[i].pts
      <3>1. j \in E
        BY <2>1, <2>3
      <3> QED
        BY <1>6, <2>3, <3>1
    <2> QED
      BY <1>1, <2>1, <2>2, <2>3, SMT
  <1> QED
    BY <1>6, <1>7

LEMMA VideoInvGoals == VideoInv => FramesRight
  <1> SUFFICES ASSUME VideoInv PROVE FramesRight
    OBVIOUS
  <1>1. VideoTypes
    BY DEF VideoInv, Typed, VideoTypes, Vids, Decs, Ats, SlotStates, SlotTaken
  <1>2. EndIsReal
    BY DEF VideoInv, EndIsReal, Ended, Reading, AtEnd, Typed, Vids
  <1> QED
    BY <1>1, <1>2 DEF VideoInv, FramesRight

LEMMA VideoInvInit == VideoInit => VideoInv
  <1> SUFFICES ASSUME VideoInit PROVE VideoInv
    OBVIOUS
  <1> USE PictureAssumption DEF VideoInit
  <1>1. 0 \in 0..MaxSeeks /\ 0 \in 0..Frames
    OBVIOUS
  <1>2. dec \in Decs
    BY <1>1, Zenon DEF Decs, Ats, Some
  <1>3. vid \in Vids
    BY <1>1, Zenon DEF Vids
  <1>4. Typed
    BY <1>2, <1>3, FreeType DEF Typed
  <1>5. SlotTaken /\ NoneToCome /\ Reading /\ Skipping
    BY DEF SlotTaken, NoneToCome, Free, Reading, Skipping, Current
  <1>6. OnlyNewFramesWait /\ HandedOutKept /\ FramesFollowSeekOnceOpen
    BY DEF OnlyNewFramesWait, HandedOutKept, FramesFollowSeekOnceOpen, FramesFollowSeek, Free
  <1> QED
    BY <1>4, <1>5, <1>6 DEF VideoInv

LEMMA TargetIsNumber ==
  ASSUME vid \in Vids
  PROVE  vid.target \in Int
  <1>1. vid.target \in SeekTimes \union {0}
    BY DEF Vids
  <1>2. 0 \in Int
    BY SMT
  <1> QED
    BY <1>1, <1>2, PictureAssumption, Zenon

LEMMA OpenVideo ==
  ASSUME VideoInv, NEW ok \in BOOLEAN, Open(ok)
  PROVE  VideoInv'
  <1> USE PictureAssumption DEF VideoInv, Awake
  <1>1. vid \in Vids /\ dec \in Decs /\ slots \in [Slots -> SlotStates] /\ pos \in Nat /\ forgot \in BOOLEAN
    BY DEF Typed
  <1>2. /\ vid' \in Vids /\ dec' \in Decs
        /\ dec.at = "open" /\ vid'.state = (IF ok THEN "ready" ELSE "failed") /\ vid'.gen = vid.gen
        /\ vid'.eof = vid.eof /\ vid'.target = vid.target /\ vid'.preview = vid.preview /\ vid'.shown = vid.shown
        /\ dec'.at = (IF ok THEN "seek" ELSE "gone") /\ dec'.gen = vid.gen /\ dec'.skip = dec.skip
        /\ dec'.asleep = dec.asleep /\ dec'.slot = dec.slot /\ ~dec.asleep
    <2> DEFINE a == IF ok THEN "seek" ELSE "gone"
               b == IF ok THEN "ready" ELSE "failed"
    <2>1. vid' = [vid EXCEPT !.state = b] /\ dec' = [dec EXCEPT !.at = a, !.gen = vid.gen]
      BY Zenon DEF Open, Goes
    <2>2. b \in {"opening", "ready", "failed"} /\ a \in Ats /\ vid.gen \in 0..MaxSeeks
      BY <1>1 DEF Ats, Vids
    <2>3. vid' \in Vids
      BY <1>1, <2>1, <2>2, VidSet
    <2>4. [dec EXCEPT !.at = a] \in Decs
      BY <1>1, <2>2, DecSet
    <2>5. dec' \in Decs
      BY <2>1, <2>2, <2>4, DecSet
    <2> QED
      BY <1>1, <2>1, <2>3, <2>5, Zenon DEF Open, Decs, Vids
  <1>3. Typed'
    BY <1>2, <1>1, <1>2, Zenon DEF Open, Typed
  <1>4. SlotTaken'
    BY <1>1, <1>2, SMT DEF Open, SlotTaken, Decs
  <1>5. Reading'
    BY <1>1, <1>2, SMT DEF Open, Reading, AtEnd, Current, Decs, Vids, Some, None
  <1>6. Skipping'
    BY <1>1, <1>2, SMT DEF Open, Skipping, FromStart, Current, Decs, Vids, Some, None, Due
  <1>7. OnlyNewFramesWait' /\ HandedOutKept' /\ FramesFollowSeekOnceOpen'
    BY <1>1, <1>2, SMT DEF Open, OnlyNewFramesWait, HandedOutKept, FramesFollowSeekOnceOpen, FramesFollowSeek
  <1>20. NoneToCome'
    BY <1>1, <1>2 DEF Open, NoneToCome
  <1> QED
    BY <1>20, <1>3, <1>4, <1>5, <1>6, <1>7

LEMMA TakeSeekVideo ==
  ASSUME VideoInv, TakeSeek
  PROVE  VideoInv'
  <1> USE PictureAssumption DEF VideoInv, Awake
  <1>1. vid \in Vids /\ dec \in Decs /\ slots \in [Slots -> SlotStates] /\ pos \in Nat /\ forgot \in BOOLEAN
    BY DEF Typed
  <1>0. dec.at = "seek" /\ ~dec.asleep /\ slots' = slots /\ pos' = pos /\ forgot' = forgot
    BY DEF TakeSeek
  <1> DEFINE target == IF vid.target < 0 THEN 0 ELSE vid.target
             skip == IF vid.preview THEN None ELSE target
  <1>2. /\ vid' \in Vids /\ dec' \in Decs
        /\ vid'.state = vid.state /\ vid'.gen = vid.gen /\ vid'.target = vid.target
        /\ vid'.preview = vid.preview /\ vid'.shown = vid.shown /\ vid'.eof = (vid.eof /\ Current)
        /\ dec'.at = "idle" /\ dec'.gen = vid.gen /\ dec'.asleep = dec.asleep /\ dec'.slot = dec.slot
        /\ Current => dec'.preview = dec.preview /\ dec'.skip = dec.skip /\ dec'.next = dec.next /\ dec'.held = dec.held
        /\ ~Current => dec'.preview = vid.preview /\ dec'.skip = skip
    <2>1. CASE Current
      <3>1. dec' = [dec EXCEPT !.at = "idle"] /\ vid' = vid
        BY <2>1, Zenon DEF TakeSeek, Goes
      <3>2. dec' \in Decs
        BY <1>1, <3>1, DecSet DEF Ats
      <3>3. vid'.eof = (vid.eof /\ Current)
        BY <1>1, <2>1, <3>1 DEF Vids
      <3> QED
        BY <1>1, <2>1, <3>1, <3>2, <3>3, SMT DEF Decs, Current
    <2>2. CASE ~Current
      <3> DEFINE d1 == [dec EXCEPT !.at = "idle"]
                 d2 == [d1 EXCEPT !.gen = vid.gen]
                 d3 == [d2 EXCEPT !.preview = vid.preview]
                 d4 == [d3 EXCEPT !.skip = skip]
                 d5 == [d4 EXCEPT !.next = KeyframeAt(target)]
                 d6 == [d5 EXCEPT !.held = None]
      <3>1. dec' = d6 /\ vid' = [vid EXCEPT !.eof = FALSE]
        BY <2>2, Zenon DEF TakeSeek, Goes
      <3>2. target \in Nat /\ skip \in Nat \union {None}
        <4>1. vid.target \in Int
          BY <1>1, TargetIsNumber
        <4> QED
          BY <4>1, SMT
      <3>3. KeyframeAt(target) \in 0..Frames
        BY <3>2, KeyframeThere
      <3>4. vid.gen \in 0..MaxSeeks /\ vid.preview \in BOOLEAN
        BY <1>1 DEF Vids
      <3>5. d1 \in Decs
        BY <1>1, DecSet DEF Ats
      <3>6. d2 \in Decs
        BY <3>4, <3>5, DecSet
      <3>7. d3 \in Decs
        BY <3>4, <3>6, DecSet
      <3>8. d4 \in Decs
        <4> HIDE DEF d3, skip
        <4> QED
          BY <3>2, <3>7, DecSet
      <3>9. d5 \in Decs
        <4> HIDE DEF d4, target
        <4> QED
          BY <3>3, <3>8, DecSet
      <3>10. d6 \in Decs
        <4> HIDE DEF d5
        <4> QED
          BY <3>9, DecSet DEF Some
      <3>11. vid' \in Vids
        BY <1>1, <3>1, VidSet
      <3>12. vid'.eof = (vid.eof /\ Current)
        BY <1>1, <2>2, <3>1 DEF Vids
      <3>13. /\ dec'.at = "idle" /\ dec'.gen = vid.gen /\ dec'.asleep = dec.asleep /\ dec'.slot = dec.slot
             /\ dec'.preview = vid.preview /\ dec'.skip = skip
        BY <1>1, <3>1, Zenon DEF Decs
      <3>14. /\ vid'.state = vid.state /\ vid'.gen = vid.gen /\ vid'.target = vid.target
             /\ vid'.preview = vid.preview /\ vid'.shown = vid.shown
        BY <1>1, <3>1, Zenon DEF Vids
      <3> QED
        BY <2>2, <3>1, <3>10, <3>11, <3>12, <3>13, <3>14
    <2> QED
      BY <2>1, <2>2
  <1>3. Typed'
    BY <1>0, <1>1, <1>2, Zenon DEF Typed
  <1>4. SlotTaken'
    BY <1>0, <1>1, <1>2, SMT DEF SlotTaken, Decs
  <1>5. Reading'
    BY <1>0, <1>1, <1>2, SMT DEF Reading, AtEnd, Current, Decs, Vids, Some, None
  <1>6. Skipping'
    BY <1>0, <1>1, <1>2, SMT DEF Skipping, FromStart, Current, Decs, Vids, Some, None, Due
  <1>7. OnlyNewFramesWait' /\ HandedOutKept' /\ FramesFollowSeekOnceOpen'
    BY <1>0, <1>1, <1>2, SMT DEF OnlyNewFramesWait, HandedOutKept, FramesFollowSeekOnceOpen, FramesFollowSeek
  <1>20. NoneToCome'
    BY <1>0, <1>1, <1>2, SMT DEF NoneToCome
  <1> QED
    BY <1>20, <1>3, <1>4, <1>5, <1>6, <1>7

LEMMA IdleVideo ==
  ASSUME VideoInv, Idle
  PROVE  VideoInv'
  <1> USE PictureAssumption DEF VideoInv, Awake
  <1>1. vid \in Vids /\ dec \in Decs /\ slots \in [Slots -> SlotStates] /\ pos \in Nat /\ forgot \in BOOLEAN
    BY DEF Typed
  <1>0. dec.at = "idle" /\ ~dec.asleep /\ UNCHANGED <<vid, slots, pos, forgot>>
    BY DEF Idle
  <1>2. /\ dec' \in Decs
        /\ dec'.at \in {"idle", "gone", "seek", "read"}
        /\ vid.eof /\ Current => dec'.at # "read"
        /\ dec'.asleep => dec'.at = "idle"
        /\ dec'.gen = dec.gen /\ dec'.preview = dec.preview /\ dec'.skip = dec.skip
        /\ dec'.next = dec.next /\ dec'.held = dec.held /\ dec'.slot = dec.slot
    <2>1. CASE vid.eof /\ ~vid.quit /\ Current
      <3>1. dec' = [dec EXCEPT !.asleep = TRUE]
        BY <2>1, Zenon DEF Idle, Goes
      <3>2. dec' \in Decs
        BY <1>1, <3>1, DecSet
      <3> QED
        BY <1>0, <1>1, <3>1, <3>2, SMT DEF Decs
    <2>2. CASE ~(vid.eof /\ ~vid.quit /\ Current)
      <3> DEFINE a == IF vid.quit THEN "gone" ELSE IF ~Current THEN "seek" ELSE "read"
      <3>1. dec' = [dec EXCEPT !.at = a]
        BY <2>2, Zenon DEF Idle, Goes
      <3>2. dec' \in Decs
        BY <1>1, <3>1, DecSet DEF Ats
      <3> QED
        BY <1>0, <1>1, <2>2, <3>1, <3>2, SMT DEF Decs
    <2> QED
      BY <2>1, <2>2
  <1>3. Typed'
    BY <1>0, <1>1, <1>2, Zenon DEF Idle, Typed
  <1>4. SlotTaken'
    BY <1>0, <1>1, <1>2, SMT DEF SlotTaken, Decs
  <1>5. Reading'
    BY <1>0, <1>1, <1>2, SMT DEF Reading, AtEnd, Current, Decs, Vids, Some, None
  <1>6. Skipping'
    BY <1>0, <1>1, <1>2, SMT DEF Skipping, FromStart, Current, Decs, Vids, Some, None, Due
  <1>7. OnlyNewFramesWait' /\ HandedOutKept' /\ FramesFollowSeekOnceOpen'
    BY <1>0, <1>1, <1>2, SMT DEF OnlyNewFramesWait, HandedOutKept, FramesFollowSeekOnceOpen, FramesFollowSeek
  <1>20. NoneToCome'
    BY <1>0, <1>1, <1>2, SMT DEF NoneToCome
  <1> QED
    BY <1>20, <1>3, <1>4, <1>5, <1>6, <1>7

LEMMA AdvanceVideo ==
  ASSUME VideoInv, Advance
  PROVE  VideoInv'
  <1> USE PictureAssumption DEF VideoInv, Awake
  <1>1. vid \in Vids /\ dec \in Decs /\ slots \in [Slots -> SlotStates] /\ pos \in Nat /\ forgot \in BOOLEAN
    BY DEF Typed
  <1>2. pos' \in Nat
    BY <1>1 DEF Advance
  <1>3. Typed'
    BY <1>2, <1>1, <1>2, Zenon DEF Advance, Typed
  <1>4. SlotTaken'
    BY <1>1, <1>2, SMT DEF Advance, SlotTaken, Decs
  <1>5. Reading'
    BY <1>1, <1>2, SMT DEF Advance, Reading, AtEnd, Current, Decs, Vids, Some, None
  <1>6. Skipping'
    BY <1>1, <1>2, SMT DEF Advance, Skipping, FromStart, Current, Decs, Vids, Some, None, Due
  <1>7. OnlyNewFramesWait' /\ HandedOutKept' /\ FramesFollowSeekOnceOpen'
    BY <1>1, <1>2, SMT DEF Advance, OnlyNewFramesWait, HandedOutKept, FramesFollowSeekOnceOpen, FramesFollowSeek
  <1>20. NoneToCome'
    BY <1>1, <1>2 DEF Advance, NoneToCome
  <1> QED
    BY <1>20, <1>3, <1>4, <1>5, <1>6, <1>7

LEMMA EndVideo ==
  ASSUME VideoInv, End
  PROVE  VideoInv'
  <1> USE PictureAssumption DEF VideoInv, Awake
  <1>1. vid \in Vids /\ dec \in Decs /\ slots \in [Slots -> SlotStates] /\ pos \in Nat /\ forgot \in BOOLEAN
    BY DEF Typed
  <1>0. dec.at = "end" /\ ~dec.asleep /\ UNCHANGED <<slots, pos, forgot>>
    BY DEF End
  <1>2. /\ vid' \in Vids /\ dec' \in Decs
        /\ vid'.eof => Current \/ vid.eof
        /\ vid'.state = vid.state /\ vid'.gen = vid.gen /\ vid'.target = vid.target
        /\ vid'.preview = vid.preview /\ vid'.shown = vid.shown
        /\ dec'.at = "seek" /\ dec'.gen = dec.gen /\ dec'.preview = dec.preview /\ dec'.skip = dec.skip
        /\ dec'.next = dec.next /\ dec'.held = dec.held /\ dec'.slot = dec.slot /\ dec'.asleep = dec.asleep
    <2> DEFINE e == vid.eof \/ Current
    <2>1. vid' = [vid EXCEPT !.eof = e] /\ dec' = [dec EXCEPT !.at = "seek"]
      BY Zenon DEF End, Goes
    <2>2. e \in BOOLEAN
      OBVIOUS
    <2>3. dec' \in Decs
      BY <1>1, <2>1, DecSet DEF Ats
    <2>4. vid' \in Vids
      <3> HIDE DEF e
      <3> QED
        BY <1>1, <2>1, <2>2, VidSet
    <2> QED
      BY <1>1, <2>1, <2>3, <2>4, Zenon DEF Decs, Vids
  <1>3. Typed'
    BY <1>0, <1>1, <1>2, Zenon DEF End, Typed
  <1>4. SlotTaken'
    BY <1>0, <1>1, <1>2, SMT DEF SlotTaken, Decs
  <1>5. Reading'
    BY <1>0, <1>1, <1>2, SMT DEF Reading, AtEnd, Current, Decs, Vids, Some, None
  <1>6. Skipping'
    BY <1>0, <1>1, <1>2, SMT DEF Skipping, FromStart, Current, Decs, Vids, Some, None, Due
  <1>7. OnlyNewFramesWait' /\ HandedOutKept' /\ FramesFollowSeekOnceOpen'
    BY <1>0, <1>1, <1>2, SMT DEF OnlyNewFramesWait, HandedOutKept, FramesFollowSeekOnceOpen, FramesFollowSeek
  <1>20. NoneToCome'
    BY <1>0, <1>1, <1>2, SMT DEF NoneToCome
  <1> QED
    BY <1>20, <1>3, <1>4, <1>5, <1>6, <1>7

\* NextFrame, field by field.
LEMMA NextFrameIs ==
  ASSUME dec \in Decs
  PROVE  /\ NextFrame \in Decs
         /\ NextFrame.at = (IF dec.last THEN "end" ELSE "seek") /\ NextFrame.slot = 0
         /\ NextFrame.gen = dec.gen /\ NextFrame.skip = dec.skip /\ NextFrame.preview = dec.preview
         /\ NextFrame.next = dec.next /\ NextFrame.held = dec.held /\ NextFrame.asleep = dec.asleep
  <1> DEFINE a == IF dec.last THEN "end" ELSE "seek"
             d1 == [dec EXCEPT !.at = a]
             d2 == [d1 EXCEPT !.frame = None]
  <1>1. d1 \in Decs
    BY DecSet DEF Ats
  <1>2. d2 \in Decs
    BY <1>1, DecSet DEF Some
  <1>3. [d2 EXCEPT !.slot = 0] \in Decs
    BY <1>2, DecSet
  <1>4. NextFrame = [d2 EXCEPT !.slot = 0]
    BY Zenon DEF NextFrame
  <1> QED
    BY <1>3, <1>4, SMT DEF Decs

LEMMA NextFrameOther ==
  ASSUME dec \in Decs
  PROVE  NextFrame.last = dec.last
  BY Zenon DEF NextFrame, Decs

LEMMA ReadVideo ==
  ASSUME VideoInv, Read
  PROVE  VideoInv'
  <1> USE PictureAssumption DEF VideoInv, Awake
  <1>1. vid \in Vids /\ dec \in Decs /\ slots \in [Slots -> SlotStates] /\ pos \in Nat /\ forgot \in BOOLEAN
    BY DEF Typed
  <1>0. dec.at = "read" /\ ~dec.asleep /\ UNCHANGED <<vid, slots, pos, forgot>>
    BY DEF Read
  <1> DEFINE end == dec.next >= Frames
             h == IF end THEN None ELSE dec.next
             n == IF end THEN dec.next ELSE dec.next + 1
             a == IF dec.held # None THEN "place" ELSE IF end THEN "end" ELSE "seek"
             d1 == [dec EXCEPT !.frame = dec.held]
             d2 == [d1 EXCEPT !.last = end]
             d3 == [d2 EXCEPT !.held = h]
             d4 == [d3 EXCEPT !.next = n]
             d5 == [d4 EXCEPT !.at = a]
  <1>9. dec' = d5
    BY Zenon DEF Read, Goes
  <1>10. dec.next \in 0..Frames /\ dec.held \in Some
    BY <1>1 DEF Decs
  <1>11. h \in Some /\ n \in 0..Frames /\ a \in Ats /\ end \in BOOLEAN /\ (end => dec.next = Frames)
    BY <1>10, SMT DEF Some, Ats
  <1>12. d1 \in Decs
    BY <1>1, <1>10, DecSet
  <1>13. d2 \in Decs
    <2> HIDE DEF d1, end
    <2> QED
      BY <1>11, <1>12, DecSet
  <1>14. d3 \in Decs
    <2> HIDE DEF d2, h
    <2> QED
      BY <1>11, <1>13, DecSet
  <1>15. d4 \in Decs
    <2> HIDE DEF d3, n
    <2> QED
      BY <1>11, <1>14, DecSet
  <1>16. d5 \in Decs
    <2> HIDE DEF d4, a
    <2> QED
      BY <1>11, <1>15, DecSet
  <1>17. dec'.last = end /\ dec'.held = h /\ dec'.next = n /\ dec'.at = a
    BY <1>1, <1>9, SMT DEF Decs
  <1>2. /\ dec' \in Decs /\ dec'.at \in {"place", "end", "seek"}
        /\ dec'.at = "place" => dec'.frame # None
        /\ dec'.at = "place" /\ dec'.last => dec'.next = Frames /\ dec'.held = None
        /\ dec'.at = "end" => dec'.next = Frames /\ dec'.held = None
        /\ dec'.gen = dec.gen /\ dec'.preview = dec.preview /\ dec'.skip = dec.skip
        /\ dec'.slot = dec.slot /\ dec'.asleep = dec.asleep
    <2>1. /\ dec'.frame = dec.held /\ dec'.gen = dec.gen /\ dec'.preview = dec.preview /\ dec'.skip = dec.skip
          /\ dec'.slot = dec.slot /\ dec'.asleep = dec.asleep
      BY <1>1, <1>9, SMT DEF Decs
    <2>2. dec' \in Decs
      BY <1>9, <1>16
    <2>3. /\ dec'.at \in {"place", "end", "seek"}
          /\ dec'.at = "place" => dec.held # None
          /\ dec'.at = "place" /\ dec'.last => end
          /\ dec'.at = "end" => end
          /\ end => dec'.next = Frames /\ dec'.held = None
      BY <1>11, <1>17
    <2> HIDE DEF end
    <2> QED
      BY <2>1, <2>2, <2>3
  <1>3. Typed'
    BY <1>0, <1>1, <1>2, Zenon DEF Read, Typed
  <1>4. SlotTaken'
    BY <1>0, <1>1, <1>2, SMT DEF SlotTaken, Decs
  <1>5. Reading'
    BY <1>0, <1>1, <1>2, SMT DEF Reading, AtEnd, Current, Decs, Vids, Some, None
  <1>6. Skipping'
    BY <1>0, <1>1, <1>2, SMT DEF Skipping, FromStart, Current, Decs, Vids, Some, None, Due
  <1>7. OnlyNewFramesWait' /\ HandedOutKept' /\ FramesFollowSeekOnceOpen'
    BY <1>0, <1>1, <1>2, SMT DEF OnlyNewFramesWait, HandedOutKept, FramesFollowSeekOnceOpen, FramesFollowSeek
  <1>20. NoneToCome'
    BY <1>0, <1>1, <1>2, SMT DEF NoneToCome
  <1> QED
    BY <1>20, <1>3, <1>4, <1>5, <1>6, <1>7

LEMMA PlaceVideo ==
  ASSUME VideoInv, Place
  PROVE  VideoInv'
  <1> USE PictureAssumption DEF VideoInv, Awake
  <1>1. vid \in Vids /\ dec \in Decs /\ slots \in [Slots -> SlotStates] /\ pos \in Nat /\ forgot \in BOOLEAN
    BY DEF Typed
  <1>0. dec.at = "place" /\ ~dec.asleep /\ UNCHANGED <<vid, slots, pos, forgot>> /\ dec.slot = 0
    BY DEF Place, SlotTaken
  <1> DEFINE drop == (~dec.preview /\ (Due(dec.frame) < dec.skip \/ IsLate)) \/ vid.quit \/ ~Current
             free == {i \in Slots : slots[i].state = "free"}
  <1>2. /\ dec' \in Decs
        /\ dec'.gen = dec.gen /\ dec'.preview = dec.preview /\ dec'.skip = dec.skip
        /\ dec'.next = dec.next /\ dec'.held = dec.held
        /\ \/ dec'.at = (IF dec.last THEN "end" ELSE "seek") /\ dec'.slot = 0 /\ ~dec'.asleep
           \/ dec'.at = "place" /\ dec'.slot = 0 /\ dec'.frame = dec.frame /\ dec'.last = dec.last
           \/ /\ dec'.at = "convert" /\ dec'.slot \in Slots /\ slots[dec'.slot].state = "free" /\ ~dec'.asleep
              /\ dec'.frame = dec.frame /\ dec'.last = dec.last
              /\ ~dec.preview => ~(Due(dec.frame) < dec.skip)
    <2>1. CASE drop
      <3>1. dec' = NextFrame
        BY <2>1, Zenon DEF Place, Goes
      <3> QED
        BY <1>0, <1>1, <3>1, NextFrameIs
    <2>2. CASE ~drop /\ free = {}
      <3>1. dec' = [dec EXCEPT !.asleep = TRUE]
        BY <2>2, Zenon DEF Place, Goes
      <3>2. dec' \in Decs
        BY <1>1, <3>1, DecSet
      <3> QED
        BY <1>0, <1>1, <3>1, <3>2, SMT DEF Decs
    <2>3. CASE ~drop /\ free # {}
      <3> DEFINE first == CHOOSE i \in free : \A j \in free : i <= j
                 d1 == [dec EXCEPT !.at = "convert"]
      <3>1. dec' = [d1 EXCEPT !.slot = first]
        BY <2>3, Zenon DEF Place, Goes
      <3>2. \E i \in free : \A j \in free : i <= j
        BY <2>3, LeastNumber
      <3>3. first \in free
        BY <3>2, Zenon
      <3>4. d1 \in Decs
        BY <1>1, DecSet DEF Ats
      <3>5. dec' \in Decs
        <4> HIDE DEF d1, first
        <4> QED
          BY <3>1, <3>3, <3>4, DecSet
      <3>6. /\ dec'.gen = dec.gen /\ dec'.preview = dec.preview /\ dec'.skip = dec.skip
            /\ dec'.next = dec.next /\ dec'.held = dec.held /\ dec'.at = "convert" /\ dec'.slot = first
            /\ dec'.frame = dec.frame /\ dec'.last = dec.last /\ dec'.asleep = dec.asleep
        <4> HIDE DEF first
        <4> QED
          BY <1>1, <3>1, SMT DEF Decs
      <3> QED
        BY <1>0, <2>3, <3>3, <3>5, <3>6
    <2> QED
      BY <2>1, <2>2, <2>3
  <1>3. Typed'
    BY <1>0, <1>1, <1>2, Zenon DEF Place, Typed
  <1>4. SlotTaken'
    BY <1>0, <1>1, <1>2, SMT DEF SlotTaken, Decs
  <1>5. Reading'
    BY <1>0, <1>1, <1>2, SMT DEF Reading, AtEnd, Current, Decs, Vids, Some, None
  <1>6. Skipping'
    BY <1>0, <1>1, <1>2, SMT DEF Skipping, FromStart, Current, Decs, Vids, Some, None, Due
  <1>7. OnlyNewFramesWait' /\ HandedOutKept' /\ FramesFollowSeekOnceOpen'
    BY <1>0, <1>1, <1>2, SMT DEF OnlyNewFramesWait, HandedOutKept, FramesFollowSeekOnceOpen, FramesFollowSeek
  <1>20. NoneToCome'
    BY <1>0, <1>1, <1>2, SMT DEF NoneToCome
  <1> QED
    BY <1>20, <1>3, <1>4, <1>5, <1>6, <1>7

LEMMA ConvertVideo ==
  ASSUME VideoInv, Convert
  PROVE  VideoInv'
  <1> USE PictureAssumption DEF VideoInv, Awake
  <1>1. vid \in Vids /\ dec \in Decs /\ slots \in [Slots -> SlotStates] /\ pos \in Nat /\ forgot \in BOOLEAN
    BY DEF Typed
  <1>0. /\ dec.at = "convert" /\ ~dec.asleep /\ UNCHANGED <<vid, pos, forgot>>
        /\ dec.slot \in Slots /\ slots[dec.slot].state = "free"
        /\ dec.frame \in 0..Frames - 1 /\ dec.preview \in BOOLEAN
    <2>1. dec.at = "convert" /\ ~dec.asleep /\ UNCHANGED <<vid, pos, forgot>>
      BY DEF Convert
    <2>2. dec.slot # 0 /\ dec.slot \in Slots \union {0} /\ dec.frame # None /\ dec.frame \in Some /\ dec.preview \in BOOLEAN
      BY <1>1, <2>1, SMT DEF SlotTaken, Reading, Decs
    <2> QED
      BY <2>1, <2>2, SMT DEF HandedOutKept, Some
  <1>2. /\ dec' \in Decs /\ dec'.at = (IF dec.last THEN "end" ELSE "seek") /\ dec'.slot = 0
        /\ dec'.gen = dec.gen /\ dec'.skip = dec.skip /\ (~dec.preview => dec'.preview = dec.preview)
        /\ dec'.next = dec.next /\ dec'.held = dec.held /\ dec'.asleep = dec.asleep /\ ~dec'.preview
    <2>1. dec' = [NextFrame EXCEPT !.preview = FALSE]
      BY Zenon DEF Convert, Goes
    <2>2. NextFrame \in Decs
      BY <1>1, NextFrameIs
    <2>3. dec' \in Decs
      BY <2>1, <2>2, DecSet
    <2>4. /\ dec'.at = NextFrame.at /\ dec'.slot = NextFrame.slot /\ dec'.gen = NextFrame.gen /\ dec'.skip = NextFrame.skip
          /\ dec'.next = NextFrame.next /\ dec'.held = NextFrame.held /\ dec'.asleep = NextFrame.asleep
          /\ dec'.preview = FALSE
      BY <2>1, <2>2, SMT DEF Decs
    <2> QED
      BY <1>0, <1>1, <2>3, <2>4, NextFrameIs
  <1> DEFINE p == IF dec.preview THEN None ELSE Due(dec.frame)
             put == [state |-> "ready", pts |-> p, gen |-> dec.gen]
  <1>10. put \in SlotStates
    <2>1. p \in Times \union {None} /\ dec.gen \in 0..MaxSeeks
      <3>1. Due(dec.frame) \in Times
        BY <1>0, SMT DEF Due, Times
      <3> QED
        BY <1>1, <3>1 DEF Decs
    <2> HIDE DEF p
    <2> QED
      BY <2>1, Zenon DEF SlotStates
  <1>11. /\ slots' \in [Slots -> SlotStates]
         /\ \A i \in Slots : slots'[i] = slots[i] \/ (i = dec.slot /\ Current /\ slots'[i] = put)
    <2>1. CASE Current /\ ~vid.quit
      <3>1. slots' = [slots EXCEPT ![dec.slot] = put]
        BY <2>1, Zenon DEF Convert, Filled
      <3> HIDE DEF put
      <3>2. slots' \in [Slots -> SlotStates]
        BY <1>0, <1>1, <1>10, <3>1
      <3>3. \A i \in Slots : slots'[i] = slots[i] \/ (i = dec.slot /\ slots'[i] = put)
        BY <1>0, <1>1, <3>1
      <3> QED
        BY <2>1, <3>2, <3>3
    <2>2. CASE ~(Current /\ ~vid.quit)
      <3>1. slots' = slots
        BY <2>2, Zenon DEF Convert
      <3> HIDE DEF put
      <3> QED
        BY <1>1, <3>1, Zenon
    <2> HIDE DEF put
    <2> QED
      BY <2>1, <2>2
  <1>12. put.state = "ready" /\ put.gen = dec.gen /\ (dec.preview \/ put.pts = Due(dec.frame))
    OBVIOUS
  <1>3. Typed'
    BY <1>0, <1>11, <1>1, <1>2, Zenon DEF Convert, Typed
  <1>4. SlotTaken'
    BY <1>0, <1>1, <1>2, SMT DEF SlotTaken, Decs
  <1>5. Reading'
    BY <1>0, <1>1, <1>2, SMT DEF Reading, AtEnd, Current, Decs, Vids, Some, None
  <1>6. Skipping'
    BY <1>0, <1>1, <1>2, SMT DEF Skipping, FromStart, Current, Decs, Vids, Some, None, Due
  <1> HIDE DEF put
  <1>13. OnlyNewFramesWait'
    BY <1>0, <1>11, <1>12, SMT DEF OnlyNewFramesWait, Current
  <1>14. HandedOutKept'
    <2>1. vid.shown # 0 => vid.shown \in Slots /\ slots[vid.shown].state = "shown"
      BY <1>1 DEF HandedOutKept, Vids
    <2>2. vid.shown # 0 => slots'[vid.shown] = slots[vid.shown]
      <3> HIDE DEF put
      <3> QED
        BY <1>0, <1>11, <2>1
    <2> QED
      BY <1>0, <1>2, <2>1, <2>2 DEF HandedOutKept
  <1>15. FramesFollowSeekOnceOpen'
    <2> SUFFICES ASSUME ~forgot, ~vid.preview, NEW i \in Slots, slots'[i].state \in {"ready", "shown"},
                        slots'[i].gen = vid.gen, vid.gen > 0
                 PROVE  slots'[i].pts >= vid.target
      BY <1>0 DEF FramesFollowSeekOnceOpen, FramesFollowSeek
    <2>1. CASE slots'[i] = slots[i]
      BY <2>1 DEF FramesFollowSeekOnceOpen, FramesFollowSeek
    <2>2. CASE Current /\ slots'[i] = put
      <3>1. ~dec.preview /\ dec.skip = FromStart(vid.target)
        BY <2>2 DEF Skipping
      <3>2. dec.skip <= Due(dec.frame) /\ slots'[i].pts = Due(dec.frame)
        BY <1>0, <1>12, <2>2, <3>1 DEF Skipping
      <3>3. vid.target \in Int
        BY <1>1, TargetIsNumber
      <3> QED
        BY <1>0, <3>1, <3>2, <3>3, SMT DEF FromStart, Due
    <2> QED
      BY <1>11, <2>1, <2>2
  <1>7. OnlyNewFramesWait' /\ HandedOutKept' /\ FramesFollowSeekOnceOpen'
    BY <1>13, <1>14, <1>15
  <1>20. NoneToCome'
    BY <1>0, <1>11, <1>12 DEF NoneToCome, Reading
  <1> QED
    BY <1>20, <1>3, <1>4, <1>5, <1>6, <1>7

\* pthread_cond_broadcast(), field by field.
LEMMA WokenIs ==
  ASSUME dec \in Decs
  PROVE  /\ Woken \in Decs /\ ~Woken.asleep /\ Woken.at = dec.at /\ Woken.gen = dec.gen /\ Woken.skip = dec.skip
         /\ Woken.preview = dec.preview /\ Woken.next = dec.next /\ Woken.held = dec.held /\ Woken.slot = dec.slot
         /\ Woken.frame = dec.frame /\ Woken.last = dec.last
  <1>1. Woken \in Decs
    BY DecSet DEF Woken
  <1> QED
    BY <1>1, Zenon DEF Woken, Decs

LEMMA CloseVideo ==
  ASSUME VideoInv, Close
  PROVE  VideoInv'
  <1> USE PictureAssumption DEF VideoInv, Awake
  <1>1. vid \in Vids /\ dec \in Decs /\ slots \in [Slots -> SlotStates] /\ pos \in Nat /\ forgot \in BOOLEAN
    BY DEF Typed
  <1>0. UNCHANGED <<slots, pos, forgot>>
    BY DEF Close
  <1>2. /\ dec' \in Decs /\ ~dec'.asleep /\ dec'.at = dec.at /\ dec'.gen = dec.gen /\ dec'.skip = dec.skip
        /\ dec'.preview = dec.preview /\ dec'.next = dec.next /\ dec'.held = dec.held /\ dec'.slot = dec.slot
        /\ dec'.frame = dec.frame /\ dec'.last = dec.last
        /\ vid' \in Vids /\ vid'.state = vid.state /\ vid'.gen = vid.gen /\ vid'.target = vid.target
        /\ vid'.preview = vid.preview /\ vid'.shown = vid.shown /\ vid'.eof = vid.eof
    <2>1. vid' = [vid EXCEPT !.quit = TRUE] /\ dec' = Woken
      BY Zenon DEF Close, Goes
    <2>2. vid' \in Vids
      BY <1>1, <2>1, VidSet
    <2>3. /\ vid'.state = vid.state /\ vid'.gen = vid.gen /\ vid'.target = vid.target
          /\ vid'.preview = vid.preview /\ vid'.shown = vid.shown /\ vid'.eof = vid.eof
      BY <1>1, <2>1, Zenon DEF Vids
    <2> QED
      BY <1>1, <2>1, <2>2, <2>3, WokenIs
  <1>3. Typed'
    BY <1>0, <1>1, <1>2, Zenon DEF Close, Typed
  <1>4. SlotTaken'
    BY <1>0, <1>1, <1>2, SMT DEF SlotTaken, Decs
  <1>5. Reading'
    BY <1>0, <1>1, <1>2, SMT DEF Reading, AtEnd, Current, Decs, Vids, Some, None
  <1>6. Skipping'
    BY <1>0, <1>1, <1>2, SMT DEF Skipping, FromStart, Current, Decs, Vids, Some, None, Due
  <1>7. OnlyNewFramesWait' /\ HandedOutKept' /\ FramesFollowSeekOnceOpen'
    BY <1>0, <1>1, <1>2, SMT DEF OnlyNewFramesWait, HandedOutKept, FramesFollowSeekOnceOpen, FramesFollowSeek
  <1>20. NoneToCome'
    BY <1>0, <1>1, <1>2, SMT DEF NoneToCome
  <1> QED
    BY <1>20, <1>3, <1>4, <1>5, <1>6, <1>7

LEMMA FrameAtVideo ==
  ASSUME VideoInv, FrameAt
  PROVE  VideoInv'
  <1> USE PictureAssumption DEF VideoInv, Awake
  <1>1. vid \in Vids /\ dec \in Decs /\ slots \in [Slots -> SlotStates] /\ pos \in Nat /\ forgot \in BOOLEAN
    BY DEF Typed
  <1>0. UNCHANGED <<pos, forgot>>
    BY DEF FrameAt
  <1> DEFINE due == {i \in Slots : slots[i].state = "ready" /\ slots[i].pts <= pos}
  <1>2. /\ vid' \in Vids /\ vid'.state = vid.state /\ vid'.gen = vid.gen /\ vid'.target = vid.target
        /\ vid'.preview = vid.preview /\ vid'.eof = vid.eof
        /\ dec' \in Decs /\ (dec'.asleep => dec.asleep) /\ dec'.at = dec.at /\ dec'.gen = dec.gen /\ dec'.skip = dec.skip
        /\ dec'.preview = dec.preview /\ dec'.next = dec.next /\ dec'.held = dec.held /\ dec'.slot = dec.slot
        /\ dec'.frame = dec.frame /\ dec'.last = dec.last
        /\ slots' \in [Slots -> SlotStates]
        /\ \A i \in Slots : slots'[i] = slots[i] \/ slots'[i] = Free
              \/ (slots[i].state = "ready" /\ slots'[i] = [slots[i] EXCEPT !.state = "shown"])
        /\ vid'.shown # 0 => vid'.shown \in Slots /\ slots'[vid'.shown].state = "shown"
    <2>1. CASE due = {}
      <3>1. vid' = [vid EXCEPT !.clock = pos] /\ slots' = slots /\ dec' = dec
        BY <2>1, Zenon DEF FrameAt
      <3>2. vid' \in Vids
        BY <1>1, <3>1, VidSet
      <3>3. /\ vid'.state = vid.state /\ vid'.gen = vid.gen /\ vid'.target = vid.target
            /\ vid'.preview = vid.preview /\ vid'.eof = vid.eof /\ vid'.shown = vid.shown
        BY <1>1, <3>1, Zenon DEF Vids
      <3>4. vid.shown # 0 => vid.shown \in Slots /\ slots[vid.shown].state = "shown"
        BY <1>1 DEF HandedOutKept, Vids
      <3> QED
        BY <1>1, <3>1, <3>2, <3>3, <3>4
    <2>2. CASE due # {}
      <3> DEFINE best == CHOOSE i \in due : \A j \in due : slots[j].pts < slots[i].pts
                                               \/ (slots[j].pts = slots[i].pts /\ i <= j)
                 v1 == [vid EXCEPT !.clock = pos]
                 kept(i) == IF i = best THEN [slots[i] EXCEPT !.state = "shown"]
                            ELSE IF slots[i].state = "shown" \/ (slots[i].state = "ready" /\ slots[i].pts <= slots[best].pts)
                                 THEN Free ELSE slots[i]
      <3>1. vid' = [v1 EXCEPT !.shown = best] /\ slots' = [i \in Slots |-> kept(i)] /\ dec' = Woken
        BY <2>2, Zenon DEF FrameAt, Goes
      <3>2. best \in due
        <4>1. \E i \in due : \A j \in due : slots[j].pts < slots[i].pts \/ (slots[j].pts = slots[i].pts /\ i <= j)
          BY <2>2, NewestThere
        <4> QED
          BY <4>1, Zenon
      <3> HIDE DEF best
      <3>3. best \in Slots /\ slots[best].state = "ready"
        BY <3>2
      <3>4. v1 \in Vids
        BY <1>1, VidSet
      <3>5. vid' \in Vids
        <4> HIDE DEF v1
        <4> QED
          BY <3>1, <3>3, <3>4, VidSet
      <3>6. /\ vid'.state = vid.state /\ vid'.gen = vid.gen /\ vid'.target = vid.target
            /\ vid'.preview = vid.preview /\ vid'.eof = vid.eof /\ vid'.shown = best
        BY <1>1, <3>1, SMT DEF Vids
      <3>7. ASSUME NEW i \in Slots
            PROVE  [slots[i] EXCEPT !.state = "shown"] \in SlotStates /\ [slots[i] EXCEPT !.state = "shown"].state = "shown"
        BY <1>1, Zenon DEF SlotStates
      <3>8. ASSUME NEW i \in Slots PROVE kept(i) \in SlotStates
        BY <1>1, <3>7, FreeType
      <3>9. slots' \in [Slots -> SlotStates]
        <4> HIDE DEF kept
        <4> QED
          BY <3>1, <3>8, Zenon
      <3>10. ASSUME NEW i \in Slots
             PROVE  slots'[i] = slots[i] \/ slots'[i] = Free
                      \/ (slots[i].state = "ready" /\ slots'[i] = [slots[i] EXCEPT !.state = "shown"])
        <4>1. slots'[i] = kept(i)
          BY <3>1, Zenon
        <4> QED
          BY <3>3, <4>1, Zenon
      <3>11. slots'[best].state = "shown"
        <4>1. slots'[best] = [slots[best] EXCEPT !.state = "shown"]
          BY <3>1, <3>3, Zenon
        <4> QED
          BY <3>3, <3>7, <4>1
      <3>12. /\ dec' \in Decs /\ ~dec'.asleep /\ dec'.at = dec.at /\ dec'.gen = dec.gen /\ dec'.skip = dec.skip
             /\ dec'.preview = dec.preview /\ dec'.next = dec.next /\ dec'.held = dec.held /\ dec'.slot = dec.slot
             /\ dec'.frame = dec.frame /\ dec'.last = dec.last
        BY <1>1, <3>1, WokenIs
      <3> QED
        BY <3>3, <3>5, <3>6, <3>9, <3>10, <3>11, <3>12
    <2> QED
      BY <2>1, <2>2
  <1>3. Typed'
    BY <1>0, <1>1, <1>2, Zenon DEF FrameAt, Typed
  <1>4. SlotTaken'
    BY <1>0, <1>1, <1>2, SMT DEF SlotTaken, Decs
  <1>5. Reading'
    BY <1>0, <1>1, <1>2, SMT DEF Reading, AtEnd, Current, Decs, Vids, Some, None
  <1>6. Skipping'
    BY <1>0, <1>1, <1>2, SMT DEF Skipping, FromStart, Current, Decs, Vids, Some, None, Due
  <1>8. ASSUME NEW i \in Slots
        PROVE  /\ slots'[i].state = "ready" => slots[i].state = "ready"
               /\ slots'[i].state \in {"ready", "shown"}
                  => slots[i].state \in {"ready", "shown"} /\ slots'[i].gen = slots[i].gen /\ slots'[i].pts = slots[i].pts
               /\ slots[i].state = "free" => slots'[i].state = "free"
    <2>1. CASE slots'[i] = slots[i]
      BY <2>1
    <2>2. CASE slots'[i] = Free
      BY <2>2, SMT DEF Free
    <2>3. CASE slots[i].state = "ready" /\ slots'[i] = [slots[i] EXCEPT !.state = "shown"]
      BY <1>1, <2>3, SMT DEF SlotStates
    <2> QED
      BY <1>2, <2>1, <2>2, <2>3
  <1>9. OnlyNewFramesWait'
    BY <1>2, <1>8, SMT DEF OnlyNewFramesWait
  <1>10. HandedOutKept'
    BY <1>1, <1>2, <1>8, SMT DEF HandedOutKept, SlotTaken, Decs
  <1>11. FramesFollowSeekOnceOpen'
    BY <1>0, <1>2, <1>8, SMT DEF FramesFollowSeekOnceOpen, FramesFollowSeek
  <1>7. OnlyNewFramesWait' /\ HandedOutKept' /\ FramesFollowSeekOnceOpen'
    BY <1>9, <1>10, <1>11
  <1>20. NoneToCome'
    <2>1. ASSUME NEW i \in Slots PROVE slots'[i].gen <= vid.gen
      <3>1. slots[i].gen <= vid.gen /\ 0 <= vid.gen
        BY <1>1, SMT DEF NoneToCome, Vids
      <3>2. CASE slots'[i] = slots[i]
        BY <3>1, <3>2
      <3>3. CASE slots'[i] = Free
        BY <3>1, <3>3 DEF Free
      <3>4. CASE slots[i].state = "ready" /\ slots'[i] = [slots[i] EXCEPT !.state = "shown"]
        BY <1>1, <3>1, <3>4, SMT DEF SlotStates
      <3> QED
        BY <1>2, <3>2, <3>3, <3>4
    <2> QED
      BY <1>2, <2>1 DEF NoneToCome
  <1> QED
    BY <1>20, <1>3, <1>4, <1>5, <1>6, <1>7

LEMMA SeekVideo ==
  ASSUME VideoInv, NEW t \in SeekTimes, NEW preview \in BOOLEAN, Seek(t, preview)
  PROVE  VideoInv'
  <1> USE PictureAssumption DEF VideoInv, Awake
  <1>1. vid \in Vids /\ dec \in Decs /\ slots \in [Slots -> SlotStates] /\ pos \in Nat /\ forgot \in BOOLEAN
    BY DEF Typed
  <1>0. vid.gen < MaxSeeks /\ pos' \in Nat /\ forgot' = (forgot \/ vid.state = "opening") /\ vid.gen \in 0..MaxSeeks
    BY <1>1, SMT DEF Seek, ByUser, Vids
  <1>2. /\ dec' \in Decs /\ ~dec'.asleep /\ dec'.at = dec.at /\ dec'.gen = dec.gen /\ dec'.skip = dec.skip
        /\ dec'.preview = dec.preview /\ dec'.next = dec.next /\ dec'.held = dec.held /\ dec'.slot = dec.slot
        /\ dec'.frame = dec.frame /\ dec'.last = dec.last
        /\ vid' \in Vids /\ vid'.state = vid.state /\ vid'.gen = vid.gen + 1 /\ vid'.target = t
        /\ vid'.preview = preview /\ vid'.shown = vid.shown /\ vid'.eof = FALSE
        /\ slots' \in [Slots -> SlotStates]
        /\ \A i \in Slots : (slots'[i] = slots[i] /\ slots[i].state # "ready") \/ slots'[i] = Free
        /\ \A i \in Slots : slots[i].state # "ready" => slots'[i] = slots[i]
    <2> DEFINE v1 == [vid EXCEPT !.gen = vid.gen + 1]
               v2 == [v1 EXCEPT !.target = t]
               v3 == [v2 EXCEPT !.preview = preview]
               v4 == [v3 EXCEPT !.eof = FALSE]
               kept(i) == IF slots[i].state \in {"ready"} THEN Free ELSE slots[i]
    <2>1. vid' = v4 /\ dec' = Woken /\ slots' = [i \in Slots |-> kept(i)]
      BY Zenon DEF Seek, Sought, Freed, Goes
    <2>2. v1 \in Vids
      <3>1. vid.gen + 1 \in 0..MaxSeeks
        BY <1>0, SMT
      <3> QED
        BY <1>1, <3>1, VidSet
    <2>3. v2 \in Vids
      BY <2>2, VidSet
    <2>4. v3 \in Vids
      <3> HIDE DEF v2
      <3> QED
        BY <2>3, VidSet
    <2>5. v4 \in Vids
      <3> HIDE DEF v3
      <3> QED
        BY <2>4, VidSet
    <2>6. /\ vid'.state = vid.state /\ vid'.gen = vid.gen + 1 /\ vid'.target = t
          /\ vid'.preview = preview /\ vid'.shown = vid.shown /\ vid'.eof = FALSE
      BY <1>1, <2>1, Zenon DEF Vids
    <2>7. ASSUME NEW i \in Slots PROVE kept(i) \in SlotStates
      BY <1>1, FreeType
    <2>8. slots' \in [Slots -> SlotStates]
      <3> HIDE DEF kept
      <3> QED
        BY <2>1, <2>7, Zenon
    <2>9. ASSUME NEW i \in Slots PROVE slots'[i] = kept(i)
      BY <2>1, Zenon
    <2>10. dec' = Woken /\ vid' \in Vids
      BY <2>1, <2>5
    <2> HIDE DEF v4
    <2> QED
      BY <1>1, <2>6, <2>8, <2>9, <2>10, WokenIs
  <1>3. Typed'
    BY <1>0, <1>1, <1>2, Zenon DEF Seek, Typed
  <1>4. SlotTaken'
    BY <1>0, <1>1, <1>2, SMT DEF SlotTaken, Decs
  <1>5. Reading'
    BY <1>0, <1>1, <1>2, SMT DEF Reading, AtEnd, Current, Decs, Vids, Some, None
  <1>6. Skipping'
    <2>1. dec.gen \in Nat /\ dec.gen <= vid.gen
      BY <1>1 DEF Decs, Reading
    <2>2. dec'.gen # vid'.gen
      BY <1>0, <1>2, <2>1, SMT
    <2>3. dec'.at = "open" <=> vid'.state = "opening"
      BY <1>2 DEF Skipping
    <2>4. vid'.state = "opening" => forgot'
      BY <1>0, <1>2
    <2>5. dec'.at = "convert" /\ ~dec'.preview => dec'.skip <= Due(dec'.frame)
      BY <1>2 DEF Skipping
    <2> QED
      BY <2>2, <2>3, <2>4, <2>5, Zenon DEF Skipping, Current
  <1>8. ASSUME NEW i \in Slots
        PROVE  /\ slots'[i].state # "ready"
               /\ slots'[i].state = "shown" => slots'[i].gen <= vid.gen
               /\ slots[i].state \in {"free", "shown"} => slots'[i] = slots[i]
    <2>1. slots[i].gen \in 0..MaxSeeks /\ slots[i].gen <= vid.gen
      BY <1>1 DEF SlotStates, NoneToCome
    <2>2. CASE slots'[i] = Free
      BY <1>2, <2>2, SMT DEF Free
    <2> QED
      BY <1>2, <2>1, <2>2
  <1>9. OnlyNewFramesWait'
    BY <1>8 DEF OnlyNewFramesWait
  <1>10. HandedOutKept'
    <2>1. vid.shown # 0 => vid.shown \in Slots
      BY <1>1 DEF Vids
    <2>2. dec.at = "convert" => dec.slot \in Slots
      BY <1>1, SMT DEF SlotTaken, Decs
    <2> QED
      BY <1>2, <1>8, <2>1, <2>2 DEF HandedOutKept
  <1>11. FramesFollowSeekOnceOpen'
    BY <1>0, <1>2, <1>8, SMT DEF FramesFollowSeekOnceOpen, FramesFollowSeek
  <1>7. OnlyNewFramesWait' /\ HandedOutKept' /\ FramesFollowSeekOnceOpen'
    BY <1>9, <1>10, <1>11
  <1>20. NoneToCome'
    <2>1. ASSUME NEW i \in Slots PROVE slots'[i].gen <= vid.gen + 1
      <3>1. slots[i].gen <= vid.gen /\ slots[i].gen \in 0..MaxSeeks
        BY <1>1 DEF NoneToCome, SlotStates
      <3>2. CASE slots'[i] = slots[i]
        BY <1>0, <3>1, <3>2, SMT
      <3>3. CASE slots'[i] = Free
        BY <1>0, <3>3, SMT DEF Free
      <3> QED
        BY <1>2, <3>2, <3>3
    <2> QED
      BY <1>2, <2>1 DEF NoneToCome
  <1> QED
    BY <1>20, <1>3, <1>4, <1>5, <1>6, <1>7

LEMMA VideoInvStep == VideoInv /\ [VideoNext]_vidVars => VideoInv'
  <1> SUFFICES ASSUME VideoInv, [VideoNext]_vidVars PROVE VideoInv'
    OBVIOUS
  <1>1. CASE VideoNext
    BY <1>1, OpenVideo, TakeSeekVideo, IdleVideo, ReadVideo, PlaceVideo, ConvertVideo, EndVideo, FrameAtVideo,
       AdvanceVideo, CloseVideo, SeekVideo, Zenon DEF VideoNext, DecodeStep
  <1>2. CASE UNCHANGED vidVars
    BY <1>2, Zenon DEF vidVars, VideoInv, Typed, SlotTaken, NoneToCome, Reading, AtEnd, Skipping, Current, OnlyNewFramesWait,
       HandedOutKept, FramesFollowSeekOnceOpen, FramesFollowSeek
  <1> QED
    BY <1>1, <1>2

\* Which pictures wait and what is handed out, for any number of slots, frames,
\* keyframes and seeks (video_decoder.c): a frame that was read, converted or
\* waiting when a seek came is never taken for one of that seek.
THEOREM FramesInvariant == VideoSpec => []FramesRight
  <1>1. VideoSpec => []VideoInv
    BY VideoInvInit, VideoInvStep, PTL DEF VideoSpec
  <1> QED
    BY <1>1, VideoInvGoals, PTL
=============================================================================
