---------------------------- MODULE VideoDecoder ----------------------------
(***************************************************************************)
(* A video's pictures (src/src/video/video_decoder.c): a thread decodes    *)
(* frames ahead into a few slots; the LVGL thread shows the one whose time *)
(* has come and seeks.  Each block under v->lock is one step, and what the *)
(* thread does between two of them another.  The file and the codec are    *)
(* external: frame i is due at 2 * i, and the codec hands a frame out once *)
(* it has the packet after it, or at the end.                              *)
(***************************************************************************)
EXTENDS Integers, FiniteSets

CONSTANTS Slots,      \* 1..SLOTS
          Frames,     \* how many the file has
          Keyframes,  \* those a seek can start at, 0 among them
          Late,       \* LATE_MS
          SeekTimes,  \* where seeks go
          MaxSeeks    \* bound

\* A seek may be to anywhere, also to before the start: the sound is late by
\* the delay of its sink (video_screens.c).
ASSUME PictureAssumption ==
  /\ Slots \subseteq Nat \ {0} /\ Slots # {} /\ Frames \in Nat \ {0} /\ Late \in Nat
  /\ Keyframes \subseteq 0..Frames - 1 /\ 0 \in Keyframes
  /\ SeekTimes \subseteq Int /\ MaxSeeks \in Nat

VARIABLES
  vid,     \* struct rpod_video, but for its slots
  slots,   \* v->slots; `gen' is history: the seek a frame belongs to
  dec,     \* decode_thread(): its next step `at' and its dec_t; `held' is the
           \* codec's frame, `asleep' in pthread_cond_wait()
  pos,     \* the position the player screen shows
  forgot   \* history: a seek was made before the file was open

vidVars == <<vid, slots, dec, pos, forgot>>

None  == -1                 \* no frame, INT64_MIN
Times == 0..(2 * Frames)    \* positions; those at odd numbers have no frame
Due(i) == 2 * i

Free == [state |-> "free", pts |-> None, gen |-> 0]

VideoInit ==  \* rpod_video_open()
  /\ vid = [state |-> "opening", quit |-> FALSE, gen |-> 0, eof |-> FALSE, target |-> 0,
            preview |-> FALSE, clock |-> None, shown |-> 0]
  /\ slots = [i \in Slots |-> Free]
  /\ dec = [at |-> "open", gen |-> 0, skip |-> None, preview |-> FALSE, next |-> 0,
            held |-> None, frame |-> None, slot |-> 0, last |-> FALSE, asleep |-> FALSE]
  /\ pos = 0 /\ forgot = FALSE

Current == dec.gen = vid.gen
Goes(d) == dec' = d
Awake(at) == dec.at = at /\ ~dec.asleep
\* pthread_cond_broadcast()
Woken == [dec EXCEPT !.asleep = FALSE]
-----------------------------------------------------------------------------
\* decode_thread(): the file is open, or cannot be.
Open(ok) ==
  /\ Awake("open")
  /\ vid' = [vid EXCEPT !.state = IF ok THEN "ready" ELSE "failed"]
  /\ Goes([dec EXCEPT !.at = IF ok THEN "seek" ELSE "gone", !.gen = vid.gen])
  /\ UNCHANGED <<slots, pos, forgot>>

\* av_seek_frame() to the keyframe at or before the target
KeyframeAt(t) == CHOOSE k \in Keyframes :
                   Due(k) <= t /\ \A l \in Keyframes : Due(l) <= t => l <= k

\* take_seek()
TakeSeek ==
  /\ Awake("seek")
  /\ IF Current THEN Goes([dec EXCEPT !.at = "idle"]) /\ UNCHANGED vid
     ELSE LET target == IF vid.target < 0 THEN 0 ELSE vid.target IN
          /\ Goes([dec EXCEPT !.at = "idle", !.gen = vid.gen, !.preview = vid.preview,
                              !.skip = IF vid.preview THEN None ELSE target,
                              !.next = KeyframeAt(target), !.held = None])
          /\ vid' = [vid EXCEPT !.eof = FALSE]
  /\ UNCHANGED <<slots, pos, forgot>>

\* decode_thread(): at the end until a seek back.
Idle ==
  /\ Awake("idle")
  /\ Goes(IF vid.eof /\ ~vid.quit /\ Current THEN [dec EXCEPT !.asleep = TRUE]
          ELSE [dec EXCEPT !.at = IF vid.quit THEN "gone" ELSE IF ~Current THEN "seek" ELSE "read"])
  /\ UNCHANGED <<vid, slots, pos, forgot>>

\* A packet is read, or there is none and the codec gives what it still has.
Read ==
  /\ Awake("read")
  /\ LET end == dec.next >= Frames IN
     Goes([dec EXCEPT !.frame = dec.held, !.last = end,
                      !.held = IF end THEN None ELSE dec.next,
                      !.next = IF end THEN @ ELSE @ + 1,
                      !.at = IF dec.held # None THEN "place" ELSE IF end THEN "end" ELSE "seek"])
  /\ UNCHANGED <<vid, slots, pos, forgot>>

\* The frame is done with: on to the next one.
NextFrame == [dec EXCEPT !.at = IF dec.last THEN "end" ELSE "seek", !.frame = None, !.slot = 0]

IsLate == vid.shown # 0 /\ vid.clock # None /\ vid.clock - Due(dec.frame) > Late

\* publish(), free_slot(): a frame before the target or late is dropped, and so
\* is one a seek has overtaken; else it waits for a free slot.
Place ==
  /\ Awake("place")
  /\ LET free == {i \in Slots : slots[i].state = "free"} IN
     Goes(IF \/ ~dec.preview /\ (Due(dec.frame) < dec.skip \/ IsLate)
             \/ vid.quit \/ ~Current
          THEN NextFrame
          ELSE IF free = {} THEN [dec EXCEPT !.asleep = TRUE]
          ELSE [dec EXCEPT !.at = "convert", !.slot = CHOOSE i \in free : \A j \in free : i <= j])
  /\ UNCHANGED <<vid, slots, pos, forgot>>

Filled == [slots EXCEPT ![dec.slot] =
             [state |-> "ready", pts |-> IF dec.preview THEN None ELSE Due(dec.frame), gen |-> dec.gen]]

ConvertAnyway ==  \* Mutant: no look at what came in meanwhile.
  /\ Awake("convert")
  /\ slots' = Filled
  /\ Goes([NextFrame EXCEPT !.preview = FALSE])
  /\ UNCHANGED <<vid, pos, forgot>>

\* publish(): converted without the lock, the frame is put up unless a seek came in.
Convert ==
  /\ Awake("convert")
  /\ slots' = IF Current /\ ~vid.quit THEN Filled ELSE slots
  /\ Goes([NextFrame EXCEPT !.preview = FALSE])
  /\ UNCHANGED <<vid, pos, forgot>>

\* decode_thread(): the end, unless a seek came in.
End ==
  /\ Awake("end")
  /\ vid' = [vid EXCEPT !.eof = @ \/ Current]
  /\ Goes([dec EXCEPT !.at = "seek"])
  /\ UNCHANGED <<slots, pos, forgot>>

DecodeStep == \/ \E ok \in BOOLEAN : Open(ok)
              \/ TakeSeek \/ Idle \/ Read \/ Place \/ Convert \/ End
-----------------------------------------------------------------------------
\* rpod_video_frame_at(): the newest frame due is shown, those before it go.
FrameAt ==
  /\ ~vid.quit
  /\ LET due == {i \in Slots : slots[i].state = "ready" /\ slots[i].pts <= pos} IN
     IF due = {} THEN vid' = [vid EXCEPT !.clock = pos] /\ UNCHANGED <<slots, dec>>
     ELSE LET best == CHOOSE i \in due : \A j \in due : slots[j].pts < slots[i].pts
                                                        \/ (slots[j].pts = slots[i].pts /\ i <= j)
          IN  /\ vid' = [vid EXCEPT !.clock = pos, !.shown = best]
              /\ slots' = [i \in Slots |->
                   IF i = best THEN [slots[i] EXCEPT !.state = "shown"]
                   ELSE IF \/ slots[i].state = "shown"
                           \/ slots[i].state = "ready" /\ slots[i].pts <= slots[best].pts
                        THEN Free ELSE slots[i]]
              /\ Goes(Woken)
  /\ UNCHANGED <<pos, forgot>>

\* Time goes by.
Advance == /\ ~vid.quit /\ pos < 2 * Frames /\ pos' = pos + 1
           /\ UNCHANGED <<vid, slots, dec, forgot>>

Sought(t, preview) == [vid EXCEPT !.gen = @ + 1, !.target = t, !.preview = preview, !.eof = FALSE]
Freed(states) == [i \in Slots |-> IF slots[i].state \in states
                                  THEN Free ELSE slots[i]]
ByUser(t) == /\ ~vid.quit /\ vid.gen < MaxSeeks
             /\ pos' = (IF t < 0 THEN 0 ELSE t) /\ forgot' = (forgot \/ vid.state = "opening")

SeekQuietly(t, preview) ==  \* Mutant: the thread is not woken.
  /\ ByUser(t) /\ vid' = Sought(t, preview)
  /\ slots' = Freed({"ready"}) /\ UNCHANGED dec

\* rpod_video_seek(): what was waiting goes, what is up stays up.
Seek(t, preview) ==
  /\ ByUser(t) /\ vid' = Sought(t, preview)
  /\ slots' = Freed({"ready"}) /\ Goes(Woken)

\* rpod_video_close(), which then waits for the thread
Close ==
  /\ ~vid.quit /\ vid' = [vid EXCEPT !.quit = TRUE] /\ Goes(Woken)
  /\ UNCHANGED <<slots, pos, forgot>>

VideoNext == \/ DecodeStep \/ FrameAt \/ Advance \/ Close
             \/ \E t \in SeekTimes, preview \in BOOLEAN : Seek(t, preview)

\* The thread runs on; the screen's timer asks for frames while time goes by.
VideoSpec == VideoInit /\ [][VideoNext]_vidVars
VideoFairness == WF_vidVars(DecodeStep) /\ WF_vidVars(FrameAt) /\ WF_vidVars(Advance)
-----------------------------------------------------------------------------
\* rpod_video_ended()
Ended == \/ vid.state = "failed"
         \/ vid.state = "ready" /\ vid.eof /\ \A i \in Slots : slots[i].state # "ready"

VideoTypes ==
  /\ vid \in [state : {"opening", "ready", "failed"}, quit : BOOLEAN, gen : 0..MaxSeeks,
              eof : BOOLEAN, target : SeekTimes \union {0}, preview : BOOLEAN,
              clock : Nat \union {None}, shown : Slots \union {0}]
  /\ slots \in [Slots -> [state : {"free", "ready", "shown"},
                          pts : Times \union {None}, gen : 0..MaxSeeks]]
  /\ dec.at \in {"open", "seek", "idle", "read", "place", "convert", "end", "gone"}
  /\ dec.slot # 0 <=> dec.at = "convert"

\* "What was waiting belongs to the old position": a frame that waits is of the
\* last seek, also one the thread had in hand when the seek came.
OnlyNewFramesWait == \A i \in Slots : slots[i].state = "ready" => slots[i].gen = vid.gen

\* "Frames from there on follow": after an exact seek none from before its target.
FramesFollowSeek ==
  ~vid.preview => \A i \in Slots : /\ slots[i].state \in {"ready", "shown"}
                                   /\ slots[i].gen = vid.gen /\ vid.gen > 0
                                   => slots[i].pts >= vid.target

\* The same but for a seek made while the file was being opened.
FramesFollowSeekOnceOpen == ~forgot => FramesFollowSeek

\* The frame that was handed out stays valid: it is never in the slot the thread
\* converts into, and a waiting frame is not overwritten either.
HandedOutKept ==
  /\ vid.shown # 0 => slots[vid.shown].state = "shown"
  /\ dec.at = "convert" => slots[dec.slot].state = "free"

\* It has ended only when the thread is at the end of what the last seek asked for.
EndIsReal ==
  vid.state = "ready" /\ Ended => Current /\ dec.next = Frames /\ dec.held = None

\* What waits to be shown is of the last seek and from its target on, what was
\* handed out is kept, and the end is the end of what was asked for.
FramesRight == /\ VideoTypes /\ OnlyNewFramesWait /\ HandedOutKept
               /\ FramesFollowSeekOnceOpen /\ EndIsReal

\* A seek is served: while the screen asks on, a frame of it comes up, or the
\* end, and a close gets its thread back.
SeekServed ==
  /\ \A g \in 1..MaxSeeks :
       vid.gen = g ~> \/ vid.gen # g \/ vid.quit \/ Ended
                      \/ vid.shown # 0 /\ slots[vid.shown].gen = g
  /\ vid.quit ~> dec.at = "gone"
=============================================================================
