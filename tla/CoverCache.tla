----------------------------- MODULE CoverCache -----------------------------
(***************************************************************************)
(* The cover art cache (src/src/ui/cover_cache.c).  The LVGL thread asks   *)
(* for covers; a loader thread looks them up on disk; what it misses, one  *)
(* or two decoder threads fetch from MPD and decode.  The second decoder   *)
(* also fills the disk ahead of need.  Each section under g.lock is one    *)
(* step; the disk lookup, the fetch with its decode and the store, which   *)
(* hold no lock, lie between two steps of their thread.                    *)
(***************************************************************************)
EXTENDS Integers, FiniteSets

CONSTANTS Albums,     \* album keys
          Entries,    \* <<album, size>> pairs some screen asks for
          Nothing     \* what an idle thread holds

Album(e) == e[1]
Big(e)   == e[2] = "big"  \* larger than MASTER_SIZE: not for the disk
ASSUME CoverAssumption ==
  /\ Entries \subseteq Albums \X {"small", "big"} /\ IsFiniteSet(Entries)
  /\ Nothing \notin Entries \union Albums /\ Entries \intersect Albums = {}

Foreground == 1   \* the decoder without `prewarm'
Prewarmer  == 2
Decoders   == {Foreground, Prewarmer}

VARIABLES
  tier,      \* there is a cache_dir, and a loader and a prewarmer
  art,       \* the albums that have a cover which decodes
  disk,      \* the albums with a master tile on disk
  noart,     \* g.noart
  state,     \* of each entry: "absent" before the first request
  checked,   \* disk_checked of each entry
  pending,   \* g.disk_pending
  completed, notified,
  loader,    \* the entry the loader looks up
  decoder,   \* the entry, or the album to prewarm, each decoder has
  kept,      \* whether it has put that one's master tile on disk
  prewarm,   \* the albums left on the prewarm list
  scanned,   \* g.scanned, for the database as it is
  ui,        \* the LVGL thread: "idle", or "settle" in settle()
  shown      \* entries whose cover the screen shows

world == <<tier, art>>
queue == <<state, checked, pending>>
decoding == <<decoder, kept>>
vars == <<tier, art, disk, noart, state, checked, pending, completed, notified,
          loader, decoder, kept, prewarm, scanned, ui, shown>>

Of(s) == {e \in Entries : state[e] = s}

\* queue_pop_best(): a queued entry the disk has been looked up for, or one it
\* has not.  The code takes the one wanted last; here it may be any of them, so
\* that nothing below rests on the clock.
Queued(isChecked) == {e \in Of("queued") : checked[e] = isChecked}

Init ==
  /\ tier \in BOOLEAN /\ art \in SUBSET Albums /\ disk \in SUBSET art
  /\ (~tier => disk = {})
  /\ noart = {} /\ prewarm = {} /\ scanned = FALSE
  /\ state = [e \in Entries |-> "absent"] /\ checked = [e \in Entries |-> FALSE]
  /\ pending = 0 /\ completed = 0 /\ notified = 0
  /\ loader = Nothing
  /\ decoder = [d \in Decoders |-> Nothing] /\ kept = [d \in Decoders |-> FALSE]
  /\ ui = "idle" /\ shown = {}
-----------------------------------------------------------------------------
GetUncounted(e) ==  \* Mutant: a new entry is not counted for settle().
  /\ ui = "idle"
  /\ \/ /\ state[e] = "absent" /\ state' = [state EXCEPT ![e] = "queued"]
        /\ checked' = [checked EXCEPT ![e] = ~tier \/ Big(e)]
        /\ UNCHANGED <<pending, shown>>
     \/ state[e] = "ready" /\ shown' = shown \union {e} /\ UNCHANGED queue
  /\ UNCHANGED <<world, disk, noart, completed, notified, loader, decoding, prewarm,
                 scanned, ui>>

\* rpod_cover_cache_get(): the first request queues the entry, and one for a
\* finished entry shows its cover.
Get(e) ==
  /\ ui = "idle"
  /\ \/ /\ state[e] = "absent" /\ state' = [state EXCEPT ![e] = "queued"]
        /\ checked' = [checked EXCEPT ![e] = ~tier \/ Big(e)]
        /\ pending' = IF checked'[e] THEN pending ELSE pending + 1
        /\ UNCHANGED shown
     \/ state[e] = "ready" /\ shown' = shown \union {e} /\ UNCHANGED queue
  /\ UNCHANGED <<world, disk, noart, completed, notified, loader, decoding, prewarm,
                 scanned, ui>>

\* poll_cb(): when covers have landed, every watcher asks again for what it
\* still shows a placeholder for.  settle() does the same at its end.
Notify ==
  /\ notified' = completed
  /\ shown' = IF completed = notified THEN shown ELSE Of("ready")

Poll ==
  /\ ui = "idle" /\ completed # notified
  /\ Notify
  /\ UNCHANGED <<world, disk, noart, queue, completed, loader, decoding, prewarm,
                 scanned, ui>>

SettleStart ==
  /\ ui = "idle" /\ ui' = "settle"
  /\ UNCHANGED <<world, disk, noart, queue, completed, notified, loader, decoding,
                 prewarm, scanned, shown>>

\* settle() ends: nothing is left to look up on disk, or max_ms have gone by.
SettleEnd ==
  /\ ui = "settle" /\ ui' = "idle"
  /\ Notify
  /\ UNCHANGED <<world, disk, noart, queue, completed, loader, decoding, prewarm, scanned>>
-----------------------------------------------------------------------------
WorkKeepsQueued(e) == UNCHANGED state  \* Mutant: the entry stays queued.

Work(e) == state' = [state EXCEPT ![e] = "working"]

\* entry_finish()
Finish(e, s) ==
  state' = [state EXCEPT ![e] = s] /\ completed' = completed + 1

LoaderPop ==
  /\ tier /\ loader = Nothing
  /\ \E e \in Queued(FALSE) : loader' = e /\ Work(e)
  /\ UNCHANGED <<world, disk, noart, checked, pending, completed, notified,
                 decoding, prewarm, scanned, ui, shown>>

LoaderDropsMiss ==  \* Mutant: a miss is not put back on the queue.
  /\ loader # Nothing /\ loader' = Nothing
  /\ checked' = [checked EXCEPT ![loader] = TRUE] /\ pending' = pending - 1
  /\ \/ Album(loader) \in disk /\ Finish(loader, "ready")
     \/ UNCHANGED <<state, completed>>
  /\ UNCHANGED <<world, disk, noart, notified, decoding, prewarm, scanned, ui, shown>>

\* The loader has looked: a hit is finished, a miss queued again.  A tile that
\* has come since it looked, or that is damaged, is a miss too.
LoaderDone ==
  /\ loader # Nothing /\ loader' = Nothing
  /\ checked' = [checked EXCEPT ![loader] = TRUE] /\ pending' = pending - 1
  /\ \/ Album(loader) \in disk /\ Finish(loader, "ready")
     \/ state' = [state EXCEPT ![loader] = "queued"] /\ UNCHANGED completed
  /\ UNCHANGED <<world, disk, noart, notified, decoding, prewarm, scanned, ui, shown>>
-----------------------------------------------------------------------------
Runs(d) == d = Foreground \/ tier
Free(d) == Runs(d) /\ decoder[d] = Nothing

\* decoder_main(): the best entry the disk has been looked up for...
DecoderPop(d) ==
  /\ Free(d)
  /\ \E e \in Queued(TRUE) : decoder' = [decoder EXCEPT ![d] = e] /\ Work(e)
  /\ UNCHANGED <<world, disk, noart, checked, pending, completed, notified,
                 loader, kept, prewarm, scanned, ui, shown>>

\* ... or, with none queued, the next album of the prewarm list, unless it
\* has got onto the disk meanwhile...
PrewarmPop ==
  /\ Free(Prewarmer) /\ Queued(TRUE) = {}
  /\ \E a \in prewarm :
       /\ prewarm' = prewarm \ {a}
       /\ decoder' = IF a \in disk THEN decoder ELSE [decoder EXCEPT ![Prewarmer] = a]
  /\ UNCHANGED <<world, disk, noart, queue, completed, notified, loader, kept, scanned,
                 ui, shown>>

\* ... or, with that done too, a look at the library, if it has changed.
Scan ==
  /\ Free(Prewarmer) /\ Queued(TRUE) = {} /\ prewarm = {} /\ ~scanned
  /\ \/ scanned' = TRUE /\ prewarm' = Albums \ (noart \union disk)
     \/ UNCHANGED <<scanned, prewarm>>  \* MPD can't be asked
  /\ UNCHANGED <<world, disk, noart, queue, completed, notified, loader, decoding, ui, shown>>

\* MPD's database changes; the albums and their covers stay.
DbUpdate ==
  /\ scanned' = FALSE
  /\ UNCHANGED <<world, disk, noart, queue, completed, notified, loader, decoding,
                 prewarm, ui, shown>>

\* The album whose cover a decoder fetches, and whether its master is kept.
Fetches(d) == IF decoder[d] \in Entries THEN Album(decoder[d]) ELSE decoder[d]
Keeps(d)   == tier /\ ~(decoder[d] \in Entries /\ Big(decoder[d]))

\* fetch_album_cover() has got the cover and disk_store() keeps its master.
Stored(d) ==
  /\ decoder[d] # Nothing /\ ~kept[d] /\ Keeps(d) /\ Fetches(d) \in art
  /\ kept' = [kept EXCEPT ![d] = TRUE] /\ disk' = disk \union {Fetches(d)}
  /\ UNCHANGED <<world, noart, queue, completed, notified, loader, decoder, prewarm,
                 scanned, ui, shown>>

\* What fetch_album_cover() returns: MPD may be out of reach at any time, and a
\* cover it does have may have failed to be stored.
Outcomes(d) ==
  IF kept[d] THEN {"ok"} ELSE {IF Fetches(d) \in art THEN "ok" ELSE "no art", "no MPD"}

DecodedMarksAll(d) ==  \* Mutant: an unanswered fetch counts as an album without art.
  \E r \in Outcomes(d) :
    /\ decoder[d] # Nothing
    /\ decoder' = [decoder EXCEPT ![d] = Nothing] /\ kept' = [kept EXCEPT ![d] = FALSE]
    /\ noart' = IF r # "ok" THEN noart \union {Fetches(d)} ELSE noart
    /\ IF decoder[d] \in Entries
       THEN Finish(decoder[d], IF r = "ok" THEN "ready" ELSE "none")
       ELSE UNCHANGED <<state, completed>>
    /\ UNCHANGED <<world, disk, checked, pending, notified, loader, prewarm, scanned, ui, shown>>

\* The end of decode_entry() and of prewarm_one().
Decoded(d) ==
  \E r \in Outcomes(d) :
    /\ decoder[d] # Nothing
    /\ decoder' = [decoder EXCEPT ![d] = Nothing] /\ kept' = [kept EXCEPT ![d] = FALSE]
    /\ noart' = IF r = "no art" THEN noart \union {Fetches(d)} ELSE noart
    /\ IF decoder[d] \in Entries
       THEN Finish(decoder[d], IF r = "ok" THEN "ready" ELSE "none")
       ELSE UNCHANGED <<state, completed>>
    /\ UNCHANGED <<world, disk, checked, pending, notified, loader, prewarm, scanned, ui, shown>>
-----------------------------------------------------------------------------
Loader == LoaderPop \/ LoaderDone
Decoder(d) == DecoderPop(d) \/ Stored(d) \/ Decoded(d)
Ui == Poll \/ SettleStart \/ SettleEnd \/ \E e \in Entries : Get(e)
Next == Ui \/ Loader \/ (\E d \in Decoders : Decoder(d)) \/ PrewarmPop \/ Scan \/ DbUpdate

Spec == Init /\ [][Next]_vars

\* Every thread runs, MPD answers or fails in the end, and the poll timer fires.
FairSpec ==
  /\ Spec /\ WF_vars(Loader) /\ WF_vars(Poll) /\ WF_vars(SettleEnd)
  /\ \A d \in Decoders : WF_vars(Decoder(d))
-----------------------------------------------------------------------------
\* Types; the tiles and the count of finished entries are what they claim to be.
TypeOK ==
  /\ state \in [Entries -> {"absent", "queued", "working", "ready", "none"}]
  /\ disk \subseteq art /\ noart \subseteq Albums /\ prewarm \subseteq Albums
  /\ completed = Cardinality(Of("ready")) + Cardinality(Of("none"))

\* Every entry being worked on is in the hands of exactly one thread.
OneOwner ==
  \A e \in Entries :
    Cardinality({d \in Decoders : decoder[d] = e} \union {t \in {0} : loader = e})
      = IF state[e] = "working" THEN 1 ELSE 0

\* The count settle() waits on is the number of entries not looked up on disk.
PendingExact ==
  pending = Cardinality({e \in Of("queued") \union Of("working") : ~checked[e]})

\* An album remembered as having no art has none: MPD out of reach, or an
\* unlucky order of the two decoders, never puts one there.
NoArtIsTrue == noart \intersect art = {}

\* With no news to be told, the screen shows every cover that is there.
NewsTold == completed = notified => Of("ready") \subseteq shown

\* An entry is worked on by one thread at a time, and those not resolved yet are
\* counted exactly (cover_cache.c).
OwnersRight == TypeOK /\ OneOwner /\ PendingExact

\* What the screens are told is so: no art only of an album without any, and each
\* cover that comes (cover_cache.c).
ToldTrue == NoArtIsTrue /\ NewsTold

\* settle() that has not run out of time leaves no request not looked up.
SettleLooksUpAll ==
  [][ui = "settle" /\ ui' = "idle" /\ pending = 0
       => \A e \in Entries : state[e] # "absent" => checked[e]]_vars

\* Every cover asked for is resolved in the end, however often others are
\* asked for ahead of it.
EveryCoverResolved ==
  \A e \in Entries : state[e] = "queued" ~> state[e] \in {"ready", "none"}
=============================================================================
