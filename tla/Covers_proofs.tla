---------------------------- MODULE Covers_proofs ----------------------------
(***************************************************************************)
(* Proofs about covers, for any albums and any entries asked for           *)
(* (CoverCache): each entry being worked on has one owner, the counts      *)
(* settle() and the poll timer read are exact, and what the screens are    *)
(* told is so.  That the rows of a PNG come out as they went in            *)
(* (CoverPng), for bytes and rows of any width: by the least byte of a row *)
(* that would not.  And what holds of a cover's way to its tile for every  *)
(* size of picture and tile (CoverShrink).                                 *)
(***************************************************************************)
EXTENDS CoverCache, Covers, TLAPS, FiniteSetTheorems, WellFoundedInduction

(***************************************************************************)
(* The cache.                                                              *)
(***************************************************************************)
\* The types of all that OwnersRight leaves open.
MoreTypes ==
  /\ art \subseteq Albums
  /\ checked \in [Entries -> BOOLEAN]
  /\ completed \in Nat /\ notified \in Nat /\ notified <= completed
  /\ loader \in Entries \union {Nothing}
  /\ decoder \in [Decoders -> Entries \union Albums \union {Nothing}]
  /\ kept \in [Decoders -> BOOLEAN]

\* The loader has entries that have not been looked up, a decoder those that have,
\* and the two decoders different ones: so no entry has two owners, and what no
\* thread has is not being worked on.
Owned ==
  /\ \A e \in Entries : state[e] = "working" => loader = e \/ \E d \in Decoders : decoder[d] = e
  /\ loader \in Entries => state[loader] = "working" /\ ~checked[loader]
  /\ \A d \in Decoders : decoder[d] \in Entries =>
       state[decoder[d]] = "working" /\ checked[decoder[d]]
  /\ decoder[Foreground] \in Entries => decoder[Foreground] # decoder[Prewarmer]

\* An entry that is resolved has been looked up on disk, or need not be.
ResolvedChecked == \A e \in Entries : state[e] \in {"ready", "none"} => checked[e]

\* The entries settle() waits for.
Unchecked == {e \in Of("queued") \union Of("working") : ~checked[e]}

CacheInv ==
  /\ TypeOK /\ MoreTypes /\ Owned /\ ResolvedChecked
  /\ pending = Cardinality(Unchecked)
  /\ NoArtIsTrue /\ NewsTold
-----------------------------------------------------------------------------
(* The counts. *)

\* A set of entries is finite; an entry more or less is one more or less.
LEMMA EntrySets ==
  ASSUME NEW S, S \subseteq Entries
  PROVE  /\ IsFiniteSet(S) /\ Cardinality(S) \in Nat
         /\ \A x : x \notin S => Cardinality(S \cup {x}) = Cardinality(S) + 1
         /\ \A x \in S : Cardinality(S \ {x}) = Cardinality(S) - 1
<1>1. IsFiniteSet(S)
  BY FS_Subset, CoverAssumption
<1> QED
  BY <1>1, FS_CardinalityType, FS_AddElement, FS_RemoveElement

\* An entry that is finished joins those that are, and none leaves them.
LEMMA Finished ==
  ASSUME TypeOK, MoreTypes, NEW e \in Entries, NEW s \in {"ready", "none"},
         state[e] = "working", Finish(e, s)
  PROVE  /\ state' \in [Entries -> {"absent", "queued", "working", "ready", "none"}]
         /\ completed' = Cardinality(Of("ready")') + Cardinality(Of("none")')
         /\ completed' \in Nat /\ completed' = completed + 1
<1>1. /\ state \in [Entries -> {"absent", "queued", "working", "ready", "none"}]
      /\ completed = Cardinality(Of("ready")) + Cardinality(Of("none"))
      /\ state' = [state EXCEPT ![e] = s] /\ completed' = completed + 1
  BY DEF TypeOK, Finish
<1>2. /\ Of(s)' = Of(s) \cup {e} /\ e \notin Of(s)
      /\ \A t \in {"ready", "none"} : t # s => Of(t)' = Of(t)
  BY <1>1 DEF Of
<1>3. /\ Of("ready") \subseteq Entries /\ Of("none") \subseteq Entries
  BY DEF Of
<1>4. Cardinality(Of("ready")) \in Nat /\ Cardinality(Of("none")) \in Nat
  BY <1>3, EntrySets
<1>5. Cardinality(Of(s)') = Cardinality(Of(s)) + 1
  BY <1>2, <1>3, EntrySets
<1>6. CASE s = "ready"
  BY <1>1, <1>2, <1>4, <1>5, <1>6
<1>7. CASE s = "none"
  BY <1>1, <1>2, <1>4, <1>5, <1>7
<1> QED
  BY <1>1, <1>4, <1>6, <1>7

\* A step that resolves no entry leaves the count of those resolved.
LEMMA NotFinished ==
  ASSUME TypeOK, NEW e \in Entries, NEW s \in {"queued", "working"},
         state[e] \in {"absent", "queued", "working"},
         state' = [state EXCEPT ![e] = s], UNCHANGED completed
  PROVE  /\ state' \in [Entries -> {"absent", "queued", "working", "ready", "none"}]
         /\ completed' = Cardinality(Of("ready")') + Cardinality(Of("none")')
         /\ Of("ready")' = Of("ready")
<1>1. /\ state \in [Entries -> {"absent", "queued", "working", "ready", "none"}]
      /\ completed = Cardinality(Of("ready")) + Cardinality(Of("none"))
  BY DEF TypeOK
<1>2. Of("ready")' = Of("ready") /\ Of("none")' = Of("none")
  BY <1>1 DEF Of
<1> QED
  BY <1>1, <1>2
-----------------------------------------------------------------------------
(* The steps. *)

\* The first request for an entry queues it, and counts it for settle() if the
\* loader is to look it up.
LEMMA GetKeeps ==
  ASSUME CacheInv, NEW e \in Entries, Get(e)
  PROVE  CacheInv'
<1> USE DEF CacheInv
<1>1. CASE /\ state[e] = "absent" /\ state' = [state EXCEPT ![e] = "queued"]
           /\ checked' = [checked EXCEPT ![e] = ~tier \/ Big(e)]
           /\ pending' = IF checked'[e] THEN pending ELSE pending + 1
           /\ UNCHANGED shown
  <2>1. UNCHANGED <<tier, art, disk, noart, completed, notified, loader, decoder, kept, prewarm>>
    BY DEF Get, world, decoding
  <2>2. /\ completed' = Cardinality(Of("ready")') + Cardinality(Of("none")')
        /\ Of("ready")' = Of("ready")
        /\ state' \in [Entries -> {"absent", "queued", "working", "ready", "none"}]
    BY <1>1, <2>1, NotFinished
  <2>3. TypeOK'
    BY <2>1, <2>2 DEF TypeOK
  <2>4. MoreTypes'
    BY <1>1, <2>1 DEF MoreTypes
  <2>5. Owned' /\ ResolvedChecked'
    BY <1>1, <2>1 DEF TypeOK, MoreTypes, Owned, ResolvedChecked, Decoders, Foreground, Prewarmer
  <2>6. Unchecked' = IF checked'[e] THEN Unchecked ELSE Unchecked \cup {e}
    BY <1>1 DEF TypeOK, MoreTypes, Unchecked, Of
  <2>7. e \notin Unchecked /\ Unchecked \subseteq Entries
    BY <1>1 DEF Unchecked, Of
  <2>8. pending' = Cardinality(Unchecked')
    BY <1>1, <2>6, <2>7, EntrySets
  <2>9. NoArtIsTrue' /\ NewsTold'
    BY <1>1, <2>1, <2>2 DEF NoArtIsTrue, NewsTold
  <2> QED
    BY <2>3, <2>4, <2>5, <2>8, <2>9
<1>2. CASE state[e] = "ready" /\ shown' = shown \union {e} /\ UNCHANGED queue
  <2>1. UNCHANGED <<tier, art, disk, noart, state, checked, pending, completed, notified, loader,
                    decoder, kept, prewarm>>
    BY <1>2 DEF Get, world, decoding, queue
  <2>2. TypeOK' /\ MoreTypes' /\ Owned' /\ ResolvedChecked' /\ Unchecked' = Unchecked
    BY <2>1 DEF TypeOK, MoreTypes, Owned, ResolvedChecked, Unchecked, Of
  <2>3. NoArtIsTrue' /\ NewsTold'
    BY <1>2, <2>1 DEF NoArtIsTrue, NewsTold, Of
  <2> QED
    BY <2>1, <2>2, <2>3
<1> QED
  BY <1>1, <1>2 DEF Get

\* The poll timer and the end of settle() tell all the news there is.
LEMMA NotifyKeeps ==
  ASSUME CacheInv, Notify,
         UNCHANGED <<art, disk, noart, state, checked, pending, completed, loader, decoder, kept,
                     prewarm>>
  PROVE  CacheInv'
<1> USE DEF CacheInv
<1>1. TypeOK' /\ Owned' /\ ResolvedChecked' /\ Unchecked' = Unchecked
  BY DEF TypeOK, Owned, ResolvedChecked, Unchecked, Of
<1>2. MoreTypes'
  BY DEF MoreTypes, Notify
<1>3. NoArtIsTrue' /\ NewsTold'
  BY DEF NoArtIsTrue, NewsTold, Notify, Of
<1> QED
  BY <1>1, <1>2, <1>3

\* A step that touches no entry and no thread's hands.
LEMMA OthersKeep ==
  ASSUME CacheInv, disk' \subseteq art, noart' = noart, prewarm' \subseteq Albums,
         kept' \in [Decoders -> BOOLEAN],
         decoder' \in [Decoders -> Entries \union Albums \union {Nothing}],
         \A d \in Decoders : decoder'[d] = decoder[d]
                               \/ (decoder[d] \notin Entries /\ decoder'[d] \notin Entries),
         UNCHANGED <<art, state, checked, pending, completed, notified, loader, shown>>
  PROVE  CacheInv'
<1> USE DEF CacheInv
<1>1. TypeOK' /\ MoreTypes' /\ ResolvedChecked' /\ Unchecked' = Unchecked
  BY DEF TypeOK, MoreTypes, ResolvedChecked, Unchecked, Of
<1>2. Owned'
  BY DEF Owned, Decoders, Foreground, Prewarmer, MoreTypes
<1>3. NoArtIsTrue' /\ NewsTold'
  BY DEF NoArtIsTrue, NewsTold, Of
<1> QED
  BY <1>1, <1>2, <1>3

\* The loader takes an entry that nobody works on and that is not looked up yet.
LEMMA LoaderPopKeeps ==
  ASSUME CacheInv, LoaderPop
  PROVE  CacheInv'
<1> USE DEF CacheInv
<1>1. PICK e \in Queued(FALSE) : loader' = e /\ Work(e)
  BY DEF LoaderPop
<1>2. /\ e \in Entries /\ state[e] = "queued" /\ ~checked[e] /\ loader = Nothing
      /\ state' = [state EXCEPT ![e] = "working"]
      /\ UNCHANGED <<tier, art, disk, noart, checked, pending, completed, notified, decoder, kept,
                     prewarm, shown>>
  BY <1>1 DEF LoaderPop, Queued, Of, Work, world, decoding
<1>3. /\ completed' = Cardinality(Of("ready")') + Cardinality(Of("none")')
      /\ Of("ready")' = Of("ready")
      /\ state' \in [Entries -> {"absent", "queued", "working", "ready", "none"}]
  BY <1>2, NotFinished
<1>4. TypeOK' /\ MoreTypes'
  BY <1>1, <1>2, <1>3 DEF TypeOK, MoreTypes
<1>5. Owned' /\ ResolvedChecked'
  BY <1>1, <1>2, CoverAssumption DEF TypeOK, Owned, ResolvedChecked
<1>6. Unchecked' = Unchecked
  BY <1>2 DEF TypeOK, Unchecked, Of
<1>7. NoArtIsTrue' /\ NewsTold'
  BY <1>2, <1>3 DEF NoArtIsTrue, NewsTold
<1> QED
  BY <1>2, <1>4, <1>5, <1>6, <1>7

\* The loader lets go of the entry it has looked up: one fewer for settle() to wait for.
LEMMA LoaderDoneKeeps ==
  ASSUME CacheInv, LoaderDone
  PROVE  CacheInv'
<1> USE DEF CacheInv
<1> DEFINE e == loader
<1>1. /\ e \in Entries /\ state[e] = "working" /\ ~checked[e] /\ loader' = Nothing
      /\ checked' = [checked EXCEPT ![e] = TRUE] /\ pending' = pending - 1
      /\ \/ Finish(e, "ready")
         \/ state' = [state EXCEPT ![e] = "queued"] /\ UNCHANGED completed
      /\ UNCHANGED <<tier, art, disk, noart, notified, decoder, kept, prewarm, shown>>
      /\ loader = e
  BY DEF LoaderDone, MoreTypes, Owned, world, decoding
<1> HIDE DEF e
<1>2. /\ completed \in Nat /\ notified \in Nat /\ notified <= completed
      /\ checked \in [Entries -> BOOLEAN]
  BY DEF MoreTypes
<1>3. /\ completed' = Cardinality(Of("ready")') + Cardinality(Of("none")')
      /\ state' \in [Entries -> {"absent", "queued", "working", "ready", "none"}]
      /\ \/ completed' = completed + 1
         \/ completed' = completed /\ Of("ready")' = Of("ready")
  <2>1. CASE Finish(e, "ready")
    BY <1>1, <2>1, Finished
  <2>2. CASE state' = [state EXCEPT ![e] = "queued"] /\ UNCHANGED completed
    BY <1>1, <2>2, NotFinished
  <2> QED
    BY <1>1, <2>1, <2>2
<1>4. PICK s \in {"ready", "queued"} : state' = [state EXCEPT ![e] = s]
  BY <1>1 DEF Finish
<1>5. completed' \in Nat /\ notified <= completed'
  BY <1>2, <1>3
<1>6. TypeOK'
  BY <1>1, <1>3 DEF TypeOK
<1>7. checked' \in [Entries -> BOOLEAN] /\ loader' \in Entries \union {Nothing}
  BY <1>1, <1>2
<1>8. MoreTypes'
  BY <1>1, <1>5, <1>7 DEF MoreTypes
<1>9. Owned' /\ ResolvedChecked'
  <2>1. \A d \in Decoders : decoder[d] # e
    BY <1>1 DEF Owned
  <2>2. /\ state' \in [Entries -> {"absent", "queued", "working", "ready", "none"}]
        /\ state'[e] # "working" /\ checked'[e]
        /\ \A f \in Entries \ {e} : state'[f] = state[f] /\ checked'[f] = checked[f]
    BY <1>1, <1>2, <1>3, <1>4 DEF TypeOK
  <2>3. loader' \notin Entries
    BY <1>1, CoverAssumption
  <2>4. ResolvedChecked'
    BY <2>2 DEF ResolvedChecked
  <2>5. \A f \in Entries : state'[f] = "working" => \E d \in Decoders : decoder'[d] = f
    BY <1>1, <2>2 DEF Owned
  <2>6. \A d \in Decoders : decoder'[d] \in Entries =>
          state'[decoder'[d]] = "working" /\ checked'[decoder'[d]]
    BY <1>1, <2>1, <2>2 DEF Owned
  <2>7. decoder'[Foreground] \in Entries => decoder'[Foreground] # decoder'[Prewarmer]
    BY <1>1 DEF Owned
  <2> QED
    BY <2>3, <2>4, <2>5, <2>6, <2>7 DEF Owned
<1>10. Unchecked' = Unchecked \ {e} /\ e \in Unchecked /\ Unchecked \subseteq Entries
  BY <1>1, <1>2, <1>4 DEF TypeOK, Unchecked, Of
<1>11. pending' = Cardinality(Unchecked')
  BY <1>1, <1>10, EntrySets
<1>12. NoArtIsTrue' /\ NewsTold'
  <2>1. CASE completed' = completed + 1
    <3>1. notified' # completed'
      BY <1>1, <1>2, <2>1
    <3> QED
      BY <1>1, <3>1 DEF NoArtIsTrue, NewsTold
  <2>2. CASE completed' = completed /\ Of("ready")' = Of("ready")
    BY <1>1, <2>2 DEF NoArtIsTrue, NewsTold
  <2> QED
    BY <1>3, <2>1, <2>2
<1> QED
  BY <1>6, <1>8, <1>9, <1>11, <1>12

\* A decoder takes an entry that nobody works on and that has been looked up.
LEMMA DecoderPopKeeps ==
  ASSUME CacheInv, NEW d \in Decoders, DecoderPop(d)
  PROVE  CacheInv'
<1> USE DEF CacheInv
<1>1. PICK e \in Queued(TRUE) : decoder' = [decoder EXCEPT ![d] = e] /\ Work(e)
  BY DEF DecoderPop
<1>2. /\ e \in Entries /\ state[e] = "queued" /\ checked[e] /\ decoder[d] = Nothing
      /\ state' = [state EXCEPT ![e] = "working"]
      /\ UNCHANGED <<tier, art, disk, noart, checked, pending, completed, notified, loader, kept,
                     prewarm, shown>>
  BY <1>1 DEF DecoderPop, Queued, Of, Work, world, Free
<1>3. /\ completed' = Cardinality(Of("ready")') + Cardinality(Of("none")')
      /\ Of("ready")' = Of("ready")
      /\ state' \in [Entries -> {"absent", "queued", "working", "ready", "none"}]
  BY <1>2, NotFinished
<1>4. TypeOK' /\ MoreTypes'
  BY <1>1, <1>2, <1>3 DEF TypeOK, MoreTypes
<1>5. Owned' /\ ResolvedChecked'
  <2>1. loader # e /\ \A c \in Decoders : decoder[c] # e
    BY <1>2 DEF Owned
  <2> QED
    BY <1>1, <1>2, <2>1, CoverAssumption
       DEF TypeOK, MoreTypes, Owned, ResolvedChecked, Decoders, Foreground, Prewarmer
<1>6. Unchecked' = Unchecked
  BY <1>2 DEF TypeOK, Unchecked, Of
<1>7. NoArtIsTrue' /\ NewsTold'
  BY <1>2, <1>3 DEF NoArtIsTrue, NewsTold
<1> QED
  BY <1>2, <1>4, <1>5, <1>6, <1>7

\* A decoder lets go of what it has fetched, and resolves the entry it was for.
LEMMA DecodedKeeps ==
  ASSUME CacheInv, NEW d \in Decoders, Decoded(d)
  PROVE  CacheInv'
<1> USE DEF CacheInv
<1>1. PICK r \in Outcomes(d) :
        /\ decoder[d] # Nothing
        /\ decoder' = [decoder EXCEPT ![d] = Nothing] /\ kept' = [kept EXCEPT ![d] = FALSE]
        /\ noart' = IF r = "no art" THEN noart \union {Fetches(d)} ELSE noart
        /\ IF decoder[d] \in Entries
           THEN Finish(decoder[d], IF r = "ok" THEN "ready" ELSE "none")
           ELSE UNCHANGED <<state, completed>>
        /\ UNCHANGED <<tier, art, disk, checked, pending, notified, loader, prewarm, shown>>
  BY DEF Decoded, world
<1>2. noart' \subseteq Albums /\ noart' \intersect art' = {}
  <2>1. r = "no art" => Fetches(d) \in Albums /\ Fetches(d) \notin art
    <3>1. Fetches(d) \in Albums
      BY <1>1, CoverAssumption DEF Fetches, Album, MoreTypes
    <3> QED
      BY <3>1 DEF Outcomes
  <2> QED
    BY <1>1, <2>1 DEF TypeOK, NoArtIsTrue
<1>3. /\ decoder' \in [Decoders -> Entries \union Albums \union {Nothing}]
      /\ kept' \in [Decoders -> BOOLEAN]
      /\ decoder'[d] \notin Entries /\ \A c \in Decoders \ {d} : decoder'[c] = decoder[c]
  BY <1>1, CoverAssumption DEF MoreTypes
<1>4. /\ completed \in Nat /\ notified \in Nat /\ notified <= completed
      /\ UNCHANGED <<tier, art, disk, checked, pending, notified, loader, prewarm, shown>>
  BY <1>1 DEF MoreTypes
\* A decoder that has prewarmed an album changes no entry.
<1>5. CASE decoder[d] \notin Entries
  <2>1. UNCHANGED <<state, completed>>
    BY <1>1, <1>5
  <2>2. TypeOK' /\ MoreTypes'
    BY <1>2, <1>3, <1>4, <2>1 DEF TypeOK, MoreTypes, Of
  <2>3. ResolvedChecked' /\ Unchecked' = Unchecked
    BY <1>4, <2>1 DEF ResolvedChecked, Unchecked, Of
  <2>4. Owned'
    <3>1. \A f \in Entries, c \in Decoders : decoder'[c] = f <=> decoder[c] = f
      BY <1>3, <1>5
    <3> QED
      BY <1>4, <2>1, <3>1 DEF Owned, Decoders, Foreground, Prewarmer
  <2>5. NoArtIsTrue' /\ NewsTold'
    BY <1>2, <1>4, <2>1 DEF NoArtIsTrue, NewsTold, Of
  <2> QED
    BY <1>4, <2>2, <2>3, <2>4, <2>5
\* One that has decoded for an entry resolves it.
<1>6. ASSUME NEW e \in Entries, e = decoder[d], NEW s \in {"ready", "none"}, Finish(e, s)
      PROVE  CacheInv'
  <2>1. /\ state[e] = "working" /\ checked[e] /\ loader # e
        /\ \A c \in Decoders \ {d} : decoder[c] # e
    BY <1>6 DEF Owned, Decoders, Foreground, Prewarmer
  <2>2. /\ completed' = Cardinality(Of("ready")') + Cardinality(Of("none")')
        /\ state' \in [Entries -> {"absent", "queued", "working", "ready", "none"}]
        /\ completed' \in Nat /\ completed' = completed + 1
    BY <1>6, <2>1, Finished
  <2>3. /\ state \in [Entries -> {"absent", "queued", "working", "ready", "none"}]
        /\ state' = [state EXCEPT ![e] = s] /\ notified' <= completed' /\ notified' # completed'
    BY <1>4, <1>6, <2>2 DEF Finish, TypeOK
  <2>4. TypeOK' /\ MoreTypes'
    BY <1>2, <1>3, <1>4, <2>2, <2>3 DEF TypeOK, MoreTypes
  <2>5. /\ state'[e] = s /\ checked'[e] /\ s # "working"
        /\ \A f \in Entries \ {e} : state'[f] = state[f]
    BY <1>4, <2>1, <2>3
  <2>6. ResolvedChecked'
    BY <1>4, <2>5 DEF ResolvedChecked
  <2>7. Unchecked' = Unchecked
    BY <1>4, <1>6, <2>1, <2>5 DEF Unchecked, Of
  <2>8. Owned'
    <3>1. \A f \in Entries : state'[f] = "working" =>
            loader' = f \/ \E c \in Decoders : decoder'[c] = f
      BY <1>3, <1>4, <1>6, <2>5 DEF Owned
    <3>2. loader' \in Entries => state'[loader'] = "working" /\ ~checked'[loader']
      BY <1>4, <2>1, <2>5 DEF Owned
    <3>3. \A c \in Decoders : decoder'[c] \in Entries =>
            state'[decoder'[c]] = "working" /\ checked'[decoder'[c]]
      BY <1>3, <1>4, <2>1, <2>5 DEF Owned
    <3>4. decoder'[Foreground] \in Entries => decoder'[Foreground] # decoder'[Prewarmer]
      BY <1>3 DEF Owned, Decoders, Foreground, Prewarmer
    <3> QED
      BY <3>1, <3>2, <3>3, <3>4 DEF Owned
  <2>9. NoArtIsTrue' /\ NewsTold'
    BY <1>2, <2>3 DEF NoArtIsTrue, NewsTold
  <2> QED
    BY <1>4, <2>4, <2>6, <2>7, <2>8, <2>9
<1>7. CASE decoder[d] \in Entries
  BY <1>1, <1>6, <1>7
<1> QED
  BY <1>5, <1>7
-----------------------------------------------------------------------------
\* Nothing is asked for yet, and no thread has anything.
LEMMA CacheInvInit == Init => CacheInv
<1> SUFFICES ASSUME Init PROVE CacheInv
  OBVIOUS
<1>1. Of("ready") = {} /\ Of("none") = {} /\ Unchecked = {}
  BY DEF Init, Of, Unchecked
<1>2. TypeOK /\ pending = Cardinality(Unchecked)
  BY <1>1, FS_EmptySet DEF Init, TypeOK
<1>3. MoreTypes
  BY DEF Init, MoreTypes
<1>4. Owned /\ ResolvedChecked /\ NoArtIsTrue /\ NewsTold
  BY <1>1, CoverAssumption DEF Init, Owned, ResolvedChecked, NoArtIsTrue, NewsTold, Decoders,
     Foreground, Prewarmer
<1> QED
  BY <1>2, <1>3, <1>4 DEF CacheInv

\* Every action keeps the invariant.
LEMMA CacheInvStep == CacheInv /\ [Next]_vars => CacheInv'
<1> SUFFICES ASSUME CacheInv, [Next]_vars PROVE CacheInv'
  OBVIOUS
<1>0. /\ disk \subseteq art /\ prewarm \subseteq Albums /\ noart \subseteq Albums
      /\ kept \in [Decoders -> BOOLEAN]
      /\ decoder \in [Decoders -> Entries \union Albums \union {Nothing}]
  BY DEF CacheInv, TypeOK, MoreTypes
<1>1. ASSUME NEW e \in Entries, Get(e) PROVE CacheInv'
  BY <1>1, GetKeeps
<1>2. CASE Poll \/ SettleEnd
  BY <1>2, NotifyKeeps DEF Poll, SettleEnd, world, queue, decoding
<1>3. CASE SettleStart \/ DbUpdate \/ UNCHANGED vars
  BY <1>0, <1>3, OthersKeep DEF SettleStart, DbUpdate, vars, world, queue, decoding
<1>4. CASE LoaderPop
  BY <1>4, LoaderPopKeeps
<1>5. CASE LoaderDone
  BY <1>5, LoaderDoneKeeps
<1>6. ASSUME NEW d \in Decoders, DecoderPop(d) PROVE CacheInv'
  BY <1>6, DecoderPopKeeps
<1>7. ASSUME NEW d \in Decoders, Stored(d) PROVE CacheInv'
  <2>1. disk' \subseteq art /\ kept' \in [Decoders -> BOOLEAN]
    BY <1>0, <1>7 DEF Stored
  <2> QED
    BY <1>0, <1>7, <2>1, OthersKeep DEF Stored, world, queue
<1>8. ASSUME NEW d \in Decoders, Decoded(d) PROVE CacheInv'
  BY <1>8, DecodedKeeps
<1>9. CASE PrewarmPop
  <2>1. PICK a \in prewarm :
          /\ prewarm' = prewarm \ {a}
          /\ decoder' = IF a \in disk THEN decoder ELSE [decoder EXCEPT ![Prewarmer] = a]
    BY <1>9 DEF PrewarmPop
  <2>2. decoder[Prewarmer] = Nothing /\ a \in Albums /\ a \notin Entries /\ Nothing \notin Entries
    BY <1>0, <1>9, CoverAssumption DEF PrewarmPop, Free
  <2>3. /\ decoder' \in [Decoders -> Entries \union Albums \union {Nothing}]
        /\ \A d \in Decoders : decoder'[d] = decoder[d]
                                 \/ (decoder[d] \notin Entries /\ decoder'[d] \notin Entries)
    BY <1>0, <2>1, <2>2 DEF Decoders, Prewarmer, Foreground
  <2>4. UNCHANGED <<art, disk, noart, state, checked, pending, completed, notified, loader,
                    kept, shown>>
    BY <1>9 DEF PrewarmPop, world, queue
  <2> QED
    BY <1>0, <2>1, <2>3, <2>4, OthersKeep
<1>10. CASE Scan
  <2>1. prewarm' \subseteq Albums
    BY <1>0, <1>10 DEF Scan
  <2> QED
    BY <1>0, <1>10, <2>1, OthersKeep DEF Scan, world, queue, decoding
<1> QED
  BY <1>1, <1>2, <1>3, <1>4, <1>5, <1>6, <1>7, <1>8, <1>9, <1>10 DEF Next, Ui, Loader, Decoder

\* The invariant holds of every state of the cache.
LEMMA CacheInvariant == Spec => []CacheInv
  BY CacheInvInit, CacheInvStep, PTL DEF Spec

\* Owned leaves each entry being worked on with one thread, and any other with none.
LEMMA OwnedIsOneOwner == CacheInv => OneOwner
<1> SUFFICES ASSUME CacheInv, NEW e \in Entries
             PROVE  Cardinality({d \in Decoders : decoder[d] = e} \union {t \in {0} : loader = e})
                      = IF state[e] = "working" THEN 1 ELSE 0
  BY DEF OneOwner
<1> DEFINE owners == {d \in Decoders : decoder[d] = e} \union {t \in {0} : loader = e}
<1>1. CASE state[e] = "working"
  <2>1. \E o : owners = {o}
    <3>1. CASE loader = e
      <4>1. \A d \in Decoders : decoder[d] # e
        BY <3>1 DEF CacheInv, Owned
      <4>2. owners = {0}
        BY <3>1, <4>1
      <4> QED
        BY <4>2
    <3>2. CASE loader # e
      <4>1. PICK d \in Decoders : decoder[d] = e
        BY <1>1, <3>2 DEF CacheInv, Owned
      <4>2. \A c \in Decoders : c # d => decoder[c] # e
        BY <4>1 DEF CacheInv, Owned, Decoders, Foreground, Prewarmer
      <4>3. owners = {d}
        BY <3>2, <4>1, <4>2
      <4> QED
        BY <4>3
    <3> QED
      BY <3>1, <3>2
  <2> HIDE DEF owners
  <2>2. Cardinality(owners) = 1
    BY <2>1, FS_Singleton
  <2> QED
    BY <1>1, <2>2 DEF owners
<1>2. CASE state[e] # "working"
  <2>1. owners = {}
    BY <1>2 DEF CacheInv, Owned
  <2> HIDE DEF owners
  <2>2. Cardinality(owners) = 0
    BY <2>1, FS_EmptySet
  <2> QED
    BY <1>2, <2>2 DEF owners
<1> QED
  BY <1>1, <1>2

\* For any albums and entries: an entry being worked on is in the hands of exactly one
\* of the three threads, and completed and disk_pending are the counts they stand for
\* (cover_cache.c).
THEOREM OwnersInvariant == Spec => []OwnersRight
<1>1. CacheInv => OwnersRight
  BY OwnedIsOneOwner DEF CacheInv, OwnersRight, PendingExact, Unchecked
<1> QED
  BY <1>1, CacheInvariant, PTL

\* For any albums and entries: no album with art is remembered as having none, and
\* without news the screen shows every cover there is (cover_cache.c).
THEOREM ToldInvariant == Spec => []ToldTrue
<1>1. CacheInv => ToldTrue
  BY DEF CacheInv, ToldTrue
<1> QED
  BY <1>1, CacheInvariant, PTL

\* When settle() ends by its count, no request is left that the disk has not been looked
\* up for: those resolved have been, and the count leaves no other (cover_cache.c).
THEOREM SettleLooksUp == Spec => SettleLooksUpAll
<1>1. CacheInv => (pending = 0 => \A e \in Entries : state[e] # "absent" => checked[e])
  <2> SUFFICES ASSUME CacheInv, pending = 0, NEW e \in Entries, state[e] # "absent"
               PROVE  checked[e]
    OBVIOUS
  <2>1. Unchecked \subseteq Entries /\ Cardinality(Unchecked) = 0
    BY DEF CacheInv, Unchecked, Of
  <2>2. Unchecked = {}
    BY <2>1, EntrySets, FS_EmptySet
  <2>3. state[e] \in {"queued", "working", "ready", "none"}
    BY DEF CacheInv, TypeOK
  <2> QED
    BY <2>2, <2>3 DEF CacheInv, ResolvedChecked, Unchecked, Of
<1> QED
  BY <1>1, CacheInvariant, PTL DEF SettleLooksUpAll

(***************************************************************************)
(* The files.                                                              *)
(***************************************************************************)
\* A set of numbers has a least one.
LEMMA LeastOne ==
  ASSUME NEW T, T \subseteq Nat, T # {}
  PROVE  \E k \in T : \A l \in T : k <= l
  <1>1. PICK k \in T : \A l \in T : ~(<<l, k>> \in OpToRel(<, Nat))
    BY NatLessThanWellFounded, WFMin
  <1>2. \A l \in T : ~(l < k)
    BY <1>1 DEF OpToRel
  <1> QED
    BY <1>2, SMT

\* The code's predictor is the specification's, ties and all: of three numbers, the
\* closest to left + above - upleft.
LEMMA PaethIsSpec ==
  ASSUME NEW l \in Int, NEW u \in Int, NEW c \in Int
  PROVE  Paeth(l, u, c) = SpecPaeth(l, u, c)
  BY SMT DEF Paeth, SpecPaeth, Dist

\* At a row's left edge it is the byte above.
LEMMA PaethAtEdge ==
  ASSUME NEW u \in Nat
  PROVE  SpecPaeth(0, u, 0) = u
  BY SMT DEF SpecPaeth, Dist

LEMMA ModBounds ==
  ASSUME NEW m \in Int, NEW n \in Nat \ {0}
  PROVE  /\ m % n \in 0..n - 1
         /\ \E k \in Int : m = k * n + (m % n)
  <1>1. m % n \in 0..n - 1 /\ m \div n \in Int /\ m = (m \div n) * n + (m % n)
    BY SMT
  <1> QED
    BY <1>1

LEMMA ModUnique ==
  ASSUME NEW m \in Int, NEW n \in Nat \ {0}, NEW k \in Int, NEW r \in 0..n - 1, m = k * n + r
  PROVE  m % n = r
  <1>1. PICK l \in Int : m = l * n + (m % n)
    BY ModBounds
  <1>2. m % n \in 0..n - 1
    BY ModBounds
  <1>3. (k - l) * n = (m % n) - r
    BY <1>1, <1>2, SMT
  <1>4. k = l
    BY <1>2, <1>3, SMT
  <1> QED
    BY <1>1, <1>2, <1>4, SMT

\* What was subtracted from a byte is added to it again.
LEMMA AddedBack ==
  ASSUME NEW x \in Bytes, NEW p \in Int
  PROVE  (((x - p) % Byte) + p) % Byte = x
  <1> DEFINE r == (x - p) % Byte
  <1>1. Byte \in Nat \ {0} /\ x \in 0..Byte - 1 /\ x - p \in Int
    BY PngAssumption DEF Bytes
  <1>2. PICK k \in Int : x - p = k * Byte + r
    BY <1>1, ModBounds
  <1>3. r \in Int
    BY <1>1, ModBounds
  <1>4. r + p \in Int /\ -k \in Int /\ r + p = (-k) * Byte + x
    BY <1>1, <1>2, <1>3, SMT
  <1> QED
    BY <1>1, <1>4, ModUnique
-----------------------------------------------------------------------------
\* The predictor the writer used at a byte is the one the code uses there.
LEMMA ByteUndone ==
  ASSUME NEW filter \in 0..4, NEW raw \in [Index -> Bytes], NEW above \in [Index -> Bytes],
         NEW i \in Index
  PROVE  OneByte(filter, Filtered(filter, raw, above), above, raw, i) = raw[i]
  <1> DEFINE left   == At(raw, i - PixelBytes)
             upleft == At(above, i - PixelBytes)
             p      == Predicted(filter, left, above[i], upleft)
             cur    == Filtered(filter, raw, above)
  <1>1. left \in Bytes /\ upleft \in Bytes /\ above[i] \in Bytes /\ raw[i] \in Bytes
    BY PngAssumption DEF At, Bytes, Index
  <1>2. i > PixelBytes => left = raw[i - PixelBytes]
    BY PngAssumption DEF At, Index
  <1>3. ~(i > PixelBytes) => left = 0 /\ upleft = 0
    BY PngAssumption DEF At, Index
  <1>4. Bytes \subseteq Int
    BY PngAssumption DEF Bytes
  <1>5. SpecPaeth(left, above[i], upleft) = Paeth(left, above[i], upleft)
    BY <1>1, <1>4, PaethIsSpec
  <1>6. ~(i > PixelBytes) => SpecPaeth(left, above[i], upleft) = above[i]
    <2>1. above[i] \in Nat
      BY <1>1, PngAssumption DEF Bytes
    <2> QED
      BY <1>3, <2>1, PaethAtEdge
  <1>7. p \in Int
    <2>1. SpecPaeth(left, above[i], upleft) \in {left, above[i], upleft}
      BY DEF SpecPaeth
    <2> QED
      BY <1>1, <1>4, <2>1, SMT DEF Predicted
  <1>8. cur[i] = (raw[i] - p) % Byte
    BY DEF Filtered
  <1>9. (cur[i] + p) % Byte = raw[i]
    BY <1>1, <1>7, <1>8, AddedBack
  <1>10. p = 0 => cur[i] = raw[i]
    <2>1. raw[i] \in 0..Byte - 1 /\ raw[i] \in Int /\ raw[i] = 0 * Byte + raw[i] /\ raw[i] - 0 = raw[i]
      BY <1>1, PngAssumption, SMT DEF Bytes
    <2>2. raw[i] % Byte = raw[i]
      BY <2>1, PngAssumption, ModUnique
    <2> QED
      BY <1>8, <2>1, <2>2
  <1>11. CASE filter = 0
    <2>1. p = 0
      BY <1>11 DEF Predicted
    <2> QED
      BY <1>10, <1>11, <2>1 DEF OneByte
  <1>12. CASE filter = 1
    <2>1. p = left
      BY <1>12 DEF Predicted
    <2> QED
      BY <1>2, <1>3, <1>9, <1>10, <1>12, <2>1 DEF OneByte
  <1>13. CASE filter = 2
    <2>1. p = above[i]
      BY <1>13 DEF Predicted
    <2> QED
      BY <1>9, <1>13, <2>1 DEF OneByte
  <1>14. CASE filter = 3
    <2>1. p = (left + above[i]) \div 2
      BY <1>14 DEF Predicted
    <2> QED
      BY <1>2, <1>3, <1>9, <1>14, <2>1 DEF OneByte
  <1>15. CASE filter = 4
    <2>1. p = SpecPaeth(left, above[i], upleft)
      BY <1>15 DEF Predicted
    <2> QED
      BY <1>2, <1>5, <1>6, <1>9, <1>15, <2>1 DEF OneByte
  <1> QED
    BY <1>11, <1>12, <1>13, <1>14, <1>15

\* So a whole row is: it is what the recurrence of unfilter_row() describes, and
\* no other row is.
LEMMA RowUndone ==
  ASSUME NEW filter \in 0..4, NEW raw \in [Index -> Bytes], NEW above \in [Index -> Bytes]
  PROVE  Unfiltered(filter, Filtered(filter, raw, above), above) = raw
  <1> DEFINE cur     == Filtered(filter, raw, above)
             Row(f)  == [i \in Index |-> OneByte(filter, cur, above, f, i)]
             done    == CHOOSE f : f = Row(f)
  <1>1. raw = Row(raw)
    <2>1. \A i \in Index : OneByte(filter, cur, above, raw, i) = raw[i]
      BY ByteUndone
    <2> HIDE DEF cur
    <2> QED
      BY <2>1
  <1>2. done = Row(done)
    BY <1>1
  <1>3. \A i \in Index : (i > PixelBytes => done[i - PixelBytes] = raw[i - PixelBytes]) => done[i] = raw[i]
    <2> TAKE i \in Index
    <2> HAVE i > PixelBytes => done[i - PixelBytes] = raw[i - PixelBytes]
    <2>1. OneByte(filter, cur, above, done, i) = OneByte(filter, cur, above, raw, i)
      BY DEF OneByte
    <2>2. done[i] = OneByte(filter, cur, above, done, i)
      BY <1>2
    <2> QED
      BY <2>1, <2>2, ByteUndone
  <1> HIDE DEF done
  <1> DEFINE T == {i \in Index : done[i] # raw[i]}
  <1>4. T = {}
    <2> SUFFICES ASSUME T # {} PROVE FALSE
      OBVIOUS
    <2>1. T \subseteq Nat
      BY DEF Index
    <2>2. PICK k \in T : \A l \in T : k <= l
      BY <2>1, LeastOne
    <2>3. k > PixelBytes => k - PixelBytes \in Index /\ ~(k <= k - PixelBytes)
      BY PngAssumption, SMT DEF Index
    <2>4. k > PixelBytes => k - PixelBytes \notin T
      BY <2>2, <2>3
    <2> QED
      BY <1>3, <2>3, <2>4
  <1>5. done = raw
    BY <1>2, <1>4
  <1>6. Unfiltered(filter, cur, above) = done
    BY DEF Unfiltered, done
  <1> QED
    BY <1>5, <1>6
-----------------------------------------------------------------------------
\* The buffers hold rows, and `prev' names the one of the row in hand.
PngTypes ==
  /\ bufs \in [{0, 1} -> [Index -> Bytes]] /\ prev \in {0, 1}
  /\ row \in [Index -> Bytes]
PngInv == PngTypes /\ RowsRestored

LEMMA PngInvInit == PngInit => PngInv
  <1> SUFFICES ASSUME PngInit PROVE PngInv
    OBVIOUS
  <1>1. Zeros \in [Index -> Bytes]
    BY PngAssumption DEF Zeros, Bytes
  <1> QED
    BY <1>1 DEF PngInit, PngInv, PngTypes, RowsRestored

LEMMA PngInvStep == PngInv /\ [PngNext]_pngVars => PngInv'
  <1> SUFFICES ASSUME PngInv, [PngNext]_pngVars PROVE PngInv'
    OBVIOUS
  <1> USE DEF PngInv, PngTypes, RowsRestored
  <1>1. ASSUME NEW filter \in 0..4, NEW raw \in [Index -> Bytes], ReadRow(filter, raw)
        PROVE  PngInv'
    <2>1. bufs' = [bufs EXCEPT ![Other] = Unfiltered(filter, Filtered(filter, raw, row), row)]
      BY <1>1 DEF ReadRow
    <2>2. bufs' = [bufs EXCEPT ![Other] = raw]
      BY <2>1, RowUndone
    <2>3. Other \in {0, 1}
      BY SMT DEF Other
    <2>4. prev' = Other /\ row' = raw
      BY <1>1 DEF ReadRow
    <2> QED
      BY <2>2, <2>3, <2>4
  <1>2. ASSUME NEW raw \in [Index -> Bytes], ReadRow(5, raw)
        PROVE  PngInv'
    BY <1>2 DEF ReadRow
  <1>3. CASE Short
    BY <1>3 DEF Short
  <1>4. CASE UNCHANGED pngVars
    BY <1>4 DEF pngVars
  <1> QED
    BY <1>1, <1>2, <1>3, <1>4 DEF PngNext

\* Whatever filters the writer chose for its rows, each comes out of unfilter_row() as
\* the picture has it, of any width and for pixels of any size.
THEOREM RowsComeOut == PngSpec => []RowsRestored
  <1>1. PngInv => RowsRestored
    BY DEF PngInv
  <1> QED
    BY <1>1, PngInvInit, PngInvStep, PTL DEF PngSpec
-----------------------------------------------------------------------------
\* A quotient is what lies between its bounds.
LEMMA DivBounds ==
  ASSUME NEW m \in Nat, NEW n \in Nat \ {0}
  PROVE  /\ m \div n \in Nat
         /\ (m \div n) * n <= m
         /\ m < (m \div n) * n + n
  BY SMT

\* Only the quotient lies between them.
LEMMA DivUnique ==
  ASSUME NEW m \in Nat, NEW n \in Nat \ {0}, NEW k \in Nat, k * n <= m, m < k * n + n
  PROVE  m \div n = k
  BY SMT

\* A common factor may be left out of a comparison.
LEMMA LessFactor ==
  ASSUME NEW k \in Nat, NEW l \in Nat, NEW n \in Nat \ {0}, k * n < l * n
  PROVE  k < l
  BY SMT

LEMMA AtMostFactor ==
  ASSUME NEW k \in Nat, NEW l \in Nat, NEW n \in Nat, k <= l
  PROVE  k * n <= l * n
  BY SMT
-----------------------------------------------------------------------------
\* The window fits, and there is something in it.
LEMMA CropFits ==
  ASSUME NEW w \in Nat \ {0}, NEW h \in Nat \ {0}, NEW ow \in Nat \ {0}, NEW oh \in Nat \ {0}
  PROVE  CropW(w, h, ow, oh) \in 1..w /\ CropH(w, h, ow, oh) \in 1..h
  <1> DEFINE tall == (w * oh) \div ow
             wide == (h * ow) \div oh
  <1>1. w * oh \in Nat /\ h * ow \in Nat
    BY SMT
  <1>2. tall \in Nat /\ tall * ow <= w * oh
    BY <1>1, DivBounds
  <1>3. wide \in Nat /\ wide * oh <= h * ow
    BY <1>1, DivBounds
  <1>4. CASE tall > h
    <2>1. h * ow < tall * ow
      BY <1>2, <1>4, SMT
    <2>2. wide * oh < w * oh
      BY <1>1, <1>2, <1>3, <2>1, SMT
    <2>3. wide < w
      BY <1>3, <2>2, LessFactor
    <2> QED
      BY <1>3, <1>4, <2>3 DEF CropW, CropH, AtLeastOne
  <1>5. CASE ~(tall > h)
    BY <1>2, <1>5 DEF CropW, CropH, AtLeastOne
  <1> QED
    BY <1>4, <1>5

\* Each of at most as many bins as the window has sources gets one: the first whose
\* left edge isn't before the bin's.
LEMMA BinHit ==
  ASSUME NEW n \in Nat \ {0}, NEW crop \in 1..n, NEW dst \in 1..crop, NEW d \in 0..dst - 1
  PROVE  Binned(d, n, crop, dst) # {}
  <1> DEFINE k == (d * crop + (dst - 1)) \div dst
             s == First(n, crop) + k
  <1>1. d * crop \in Nat /\ d * crop + (dst - 1) \in Nat
    BY SMT
  <1>2. k \in Nat /\ k * dst <= d * crop + (dst - 1) /\ d * crop + (dst - 1) < k * dst + dst
    BY <1>1, DivBounds
  <1>3. k * dst \in Nat /\ d * crop <= k * dst /\ k * dst < d * crop + crop
    BY <1>1, <1>2, SMT
  <1>4. (k * dst) \div crop = d
    BY <1>3, DivUnique
  <1>5. d * crop + crop <= crop * dst
    <2>1. (d + 1) * crop <= dst * crop
      BY AtMostFactor
    <2> QED
      BY <2>1, SMT
  <1>6. k < crop
    BY <1>2, <1>3, <1>5, LessFactor, SMT
  <1>7. First(n, crop) \in Nat /\ First(n, crop) + crop <= n
    BY DEF First
  <1>8. s \in 0..n - 1 /\ InCrop(s, n, crop)
    BY <1>2, <1>6, <1>7 DEF InCrop
  <1>9. Bin(s, n, crop, dst) = d
    BY <1>2, <1>4, <1>7 DEF Bin
  <1> QED
    BY <1>8, <1>9 DEF Binned

\* The denominator is the last to which it halves.
LEMMA DenominatorLast ==
  ASSUME NEW w \in Nat, NEW h \in Nat, NEW ow \in Nat \ {0}, NEW oh \in Nat \ {0}
  PROVE  LET d == Denominator(w, h, ow, oh)
         IN  d \in {1, 2, 4, 8} /\ \A e \in {1, 2, 4} : e < d => Halves(w, h, ow, oh, e)
  <1> DEFINE Last(d) == /\ d = 8 \/ ~Halves(w, h, ow, oh, d)
                        /\ \A e \in {1, 2, 4} : e < d => Halves(w, h, ow, oh, e)
  <1>1. \E d \in {1, 2, 4, 8} : Last(d)
    <2>1. CASE ~Halves(w, h, ow, oh, 1)
      BY <2>1
    <2>2. CASE Halves(w, h, ow, oh, 1) /\ ~Halves(w, h, ow, oh, 2)
      BY <2>2
    <2>3. CASE Halves(w, h, ow, oh, 1) /\ Halves(w, h, ow, oh, 2) /\ ~Halves(w, h, ow, oh, 4)
      BY <2>3
    <2>4. CASE Halves(w, h, ow, oh, 1) /\ Halves(w, h, ow, oh, 2) /\ Halves(w, h, ow, oh, 4)
      BY <2>4
    <2> QED
      BY <2>1, <2>2, <2>3, <2>4
  <1> QED
    BY <1>1 DEF Denominator

\* What libjpeg makes of a side that was halved is still twice the tile's.
LEMMA ScaledEnough ==
  ASSUME NEW n \in Nat \ {0}, NEW out \in Nat \ {0}, NEW d \in {1, 2, 4, 8}
  PROVE  /\ Scaled(n, d) \in Nat \ {0}
         /\ d > 1 /\ n >= 2 * d * out => Scaled(n, d) >= 2 * out
  <1>1. CASE d = 1
    BY <1>1, SMT DEF Scaled
  <1>2. CASE d = 2
    BY <1>2, SMT DEF Scaled
  <1>3. CASE d = 4
    BY <1>3, SMT DEF Scaled
  <1>4. CASE d = 8
    BY <1>4, SMT DEF Scaled
  <1> QED
    BY <1>1, <1>2, <1>3, <1>4
-----------------------------------------------------------------------------
\* The sizes of a picture that was begun
Sized ==
  job.stage # "idle" =>
    /\ job.w \in Nat \ {0} /\ job.h \in Nat \ {0}
    /\ job.ow \in Nat \ {0} /\ job.oh \in Nat \ {0}
ShrinkInv == Sized /\ TwiceTheTile

LEMMA ShrinkInvInit == ShrinkInit => ShrinkInv
  BY DEF ShrinkInit, Idle, ShrinkInv, Sized, TwiceTheTile

LEMMA ShrinkInvStep == ShrinkInv /\ [ShrinkNext]_shrinkVars => ShrinkInv'
  <1> SUFFICES ASSUME ShrinkInv, [ShrinkNext]_shrinkVars PROVE ShrinkInv'
    OBVIOUS
  <1> USE DEF ShrinkInv, Sized, TwiceTheTile
  <1>1. ASSUME NEW kind \in {"jpeg", "png", "scale"}, NEW w \in Sides, NEW h \in Sides,
               NEW ow \in Tiles, NEW oh \in Tiles, Begin(kind, w, h, ow, oh)
        PROVE  ShrinkInv'
    <2> DEFINE d == IF kind = "jpeg" THEN Denominator(w, h, ow, oh) ELSE 1
    <2>1. w \in Nat \ {0} /\ h \in Nat \ {0} /\ ow \in Nat \ {0} /\ oh \in Nat \ {0}
      BY ShrinkAssumption
    <2>2. d \in {1, 2, 4, 8} /\ \A e \in {1, 2, 4} : e < d => Halves(w, h, ow, oh, e)
      BY <2>1, DenominatorLast
    <2>3. job'.by = d /\ job'.w = Scaled(w, d) /\ job'.h = Scaled(h, d) /\ job'.ow = ow /\ job'.oh = oh
      BY <1>1 DEF Begin
    <2> HIDE DEF d
    <2>4. d > 1 => w >= 2 * d * ow /\ h >= 2 * d * oh
      <3>1. CASE d = 1
        BY <3>1
      <3>2. CASE d = 2
        BY <2>1, <2>2, <3>2, SMT DEF Halves
      <3>3. CASE d = 4
        BY <2>1, <2>2, <3>3, SMT DEF Halves
      <3>4. CASE d = 8
        BY <2>1, <2>2, <3>4, SMT DEF Halves
      <3> QED
        BY <2>2, <3>1, <3>2, <3>3, <3>4
    <2>5. /\ Scaled(w, d) \in Nat \ {0} /\ (d > 1 => Scaled(w, d) >= 2 * ow)
          /\ Scaled(h, d) \in Nat \ {0} /\ (d > 1 => Scaled(h, d) >= 2 * oh)
      BY <2>1, <2>2, <2>4, ScaledEnough
    <2> QED
      BY <2>1, <2>3, <2>5
  <1>2. CASE AddRow
    BY <1>2 DEF AddRow
  <1>3. CASE Spoilt
    BY <1>3 DEF Spoilt
  <1>4. CASE FinishTile
    BY <1>4 DEF FinishTile
  <1>5. CASE UNCHANGED shrinkVars
    BY <1>5 DEF shrinkVars
  <1> QED
    BY <1>1, <1>2, <1>3, <1>4, <1>5 DEF ShrinkNext

\* A picture of any size leaves no pixel of the accumulator without a source, so
\* finishing never divides by zero.
THEOREM NeverEmpty == ShrinkSpec => []NoEmptyBin
  <1>1. Sized => NoEmptyBin
    <2> SUFFICES ASSUME Sized, job.stage # "idle"
                 PROVE  /\ \A d \in 0..MW - 1 : Columns(d) # {}
                        /\ \A d \in 0..MH - 1 : Lines(d) # {}
      BY DEF NoEmptyBin
    <2>1. CW \in 1..job.w /\ CH \in 1..job.h
      BY CropFits DEF Sized, CW, CH
    <2>2. MW \in 1..CW /\ MH \in 1..CH
      BY <2>1 DEF Sized, MW, MH, Mid
    <2>3. ASSUME NEW d \in 0..MW - 1 PROVE Columns(d) # {}
      BY <2>1, <2>2, BinHit DEF Columns, Sized
    <2>4. ASSUME NEW d \in 0..MH - 1 PROVE Lines(d) # {}
      BY <2>1, <2>2, BinHit DEF Lines, Sized
    <2> QED
      BY <2>3, <2>4
  <1> QED
    BY <1>1, ShrinkInvInit, ShrinkInvStep, PTL DEF ShrinkSpec, ShrinkInv

\* Of any JPEG, libjpeg leaves twice the tile to average, or all of it.
THEOREM LeavesTwice == ShrinkSpec => []TwiceTheTile
  <1>1. ShrinkInv => TwiceTheTile
    BY DEF ShrinkInv
  <1> QED
    BY <1>1, ShrinkInvInit, ShrinkInvStep, PTL DEF ShrinkSpec
-----------------------------------------------------------------------------
\* The window is as wide and as high as it can be.
LEMMA CropFills ==
  ASSUME NEW w \in Nat \ {0}, NEW h \in Nat \ {0}, NEW ow \in Nat \ {0}, NEW oh \in Nat \ {0}
  PROVE  LET cw == CropW(w, h, ow, oh)
             ch == CropH(w, h, ow, oh)
         IN  /\ cw = w \/ ch = h
             /\ ch < h => ch = 1 \/ (ch * ow <= cw * oh /\ cw * oh < (ch + 1) * ow)
             /\ cw < w => cw = 1 \/ (cw * oh <= ch * ow /\ ch * ow < (cw + 1) * oh)
  <1> DEFINE tall == (w * oh) \div ow
             wide == (h * ow) \div oh
             cw == CropW(w, h, ow, oh)
             ch == CropH(w, h, ow, oh)
  <1>1. w * oh \in Nat /\ h * ow \in Nat
    BY SMT
  <1>2. tall \in Nat /\ tall * ow <= w * oh /\ w * oh < tall * ow + ow
    BY <1>1, DivBounds
  <1>3. wide \in Nat /\ wide * oh <= h * ow /\ h * ow < wide * oh + oh
    BY <1>1, DivBounds
  <1>4. tall * ow + ow = (tall + 1) * ow /\ wide * oh + oh = (wide + 1) * oh
    <2>1. \A m, n \in Nat : m * n + n = (m + 1) * n
      BY SMT
    <2> HIDE DEF tall, wide
    <2> QED
      BY <1>2, <1>3, <2>1
  <1>5. CASE tall > h
    <2>1. ch = h /\ cw = AtLeastOne(wide)
      BY <1>5 DEF CropW, CropH
    <2>2. cw = 1 \/ cw = wide
      BY <2>1 DEF AtLeastOne
    <2> HIDE DEF tall, wide, cw, ch
    <2>3. cw = wide => cw * oh <= ch * ow /\ ch * ow < (cw + 1) * oh
      BY <1>3, <1>4, <2>1
    <2> QED
      BY <2>1, <2>2, <2>3 DEF cw, ch
  <1>6. CASE ~(tall > h)
    <2>1. cw = w /\ ch = AtLeastOne(tall)
      BY <1>6 DEF CropW, CropH
    <2>2. ch = 1 \/ ch = tall
      BY <2>1 DEF AtLeastOne
    <2> HIDE DEF tall, wide, cw, ch
    <2>3. ch = tall => ch * ow <= cw * oh /\ cw * oh < (ch + 1) * ow
      BY <1>2, <1>4, <2>1
    <2> QED
      BY <2>1, <2>2, <2>3 DEF cw, ch
  <1> QED
    BY <1>5, <1>6

\* A bin begins at the first source whose left edge isn't before its own.
Edge(d, crop, dst) == (d * crop + (dst - 1)) \div dst
LEMMA EdgeBounds ==
  ASSUME NEW crop \in Nat \ {0}, NEW dst \in Nat \ {0}, NEW d \in Nat
  PROVE  /\ Edge(d, crop, dst) \in Nat
         /\ d * crop \in Nat /\ Edge(d, crop, dst) * dst \in Nat
         /\ d * crop <= Edge(d, crop, dst) * dst /\ Edge(d, crop, dst) * dst <= d * crop + (dst - 1)
  <1> DEFINE m == d * crop + (dst - 1)
             k == m \div dst
  <1>1. d * crop \in Nat /\ m \in Nat
    BY SMT
  <1>2. k \in Nat /\ k * dst <= m /\ m < k * dst + dst
    <2> HIDE DEF m
    <2> QED
      BY <1>1, DivBounds
  <1>3. k * dst \in Nat
    <2> HIDE DEF k
    <2> QED
      BY <1>2, SMT
  <1>4. Edge(d, crop, dst) = k
    BY DEF Edge
  <1>5. d * crop <= k * dst /\ k * dst <= d * crop + (dst - 1)
    <2> DEFINE x == d * crop
               y == k * dst
    <2>1. x \in Nat /\ y \in Nat /\ y <= x + (dst - 1) /\ x + (dst - 1) < y + dst
      BY <1>1, <1>2, <1>3
    <2> HIDE DEF x, y
    <2>2. x <= y /\ y <= x + (dst - 1)
      BY <2>1, SMT
    <2> QED
      BY <2>2 DEF x, y
  <1> QED
    BY <1>1, <1>2, <1>3, <1>4, <1>5, Zenon

LEMMA AtEdge ==
  ASSUME NEW crop \in Nat \ {0}, NEW dst \in Nat \ {0}, NEW d \in Nat, NEW k \in Nat
  PROVE  Edge(d, crop, dst) <= k <=> d * crop <= k * dst
  <1> DEFINE e == Edge(d, crop, dst)
             x == d * crop
  <1>1. e \in Nat /\ x \in Nat /\ e * dst \in Nat /\ x <= e * dst /\ e * dst <= x + (dst - 1)
    BY EdgeBounds
  <1> HIDE DEF e, x
  <1>2. k * dst \in Nat
    BY SMT
  <1>3. ASSUME e <= k PROVE x <= k * dst
    <2>1. e * dst <= k * dst
      BY <1>1, <1>3, AtMostFactor
    <2> QED
      BY <2>1, <1>1, <1>2, SMT
  <1>4. ASSUME ~(e <= k) PROVE ~(x <= k * dst)
    <2>1. k + 1 \in Nat /\ k + 1 <= e
      BY <1>1, <1>4, SMT
    <2>2. (k + 1) * dst <= e * dst
      BY <1>1, <2>1, AtMostFactor
    <2>3. (k + 1) * dst = k * dst + dst
      BY SMT
    <2> QED
      BY <2>2, <2>3, <1>1, <1>2, SMT
  <1> QED
    BY <1>3, <1>4 DEF e, x

LEMMA EdgesEnd ==
  ASSUME NEW crop \in Nat \ {0}, NEW dst \in Nat \ {0}
  PROVE  Edge(0, crop, dst) = 0 /\ Edge(dst, crop, dst) = crop
  <1>1. 0 * crop = 0 /\ 0 * dst = 0 /\ dst * crop = crop * dst /\ dst * crop \in Nat
    BY SMT
  <1>2. Edge(0, crop, dst) \in Nat /\ Edge(dst, crop, dst) \in Nat
    BY EdgeBounds
  <1>3. Edge(0, crop, dst) <= 0
    BY <1>1, AtEdge
  <1>4. Edge(dst, crop, dst) <= crop
    BY <1>1, AtEdge
  <1>5. ~(Edge(dst, crop, dst) <= crop - 1)
    <2>1. crop - 1 \in Nat
      OBVIOUS
    <2>2. (crop - 1) * dst < crop * dst
      BY SMT
    <2>3. ~(dst * crop <= (crop - 1) * dst)
      <3>1. (crop - 1) * dst \in Nat
        BY <2>1, SMT
      <3> QED
        BY <1>1, <2>2, <3>1, SMT
    <2> QED
      BY <2>1, <2>3, AtEdge
  <1> QED
    BY <1>2, <1>3, <1>4, <1>5, SMT

\* A bin's sources are those from its edge to the next.
LEMMA BinIs ==
  ASSUME NEW n \in Nat \ {0}, NEW crop \in 1..n, NEW dst \in 1..crop, NEW d \in 0..dst - 1
  PROVE  /\ Binned(d, n, crop, dst)
              = First(n, crop) + Edge(d, crop, dst) .. First(n, crop) + Edge(d + 1, crop, dst) - 1
         /\ Edge(d, crop, dst) \in Nat /\ Edge(d + 1, crop, dst) \in 1..crop
         /\ Edge(d, crop, dst) < Edge(d + 1, crop, dst)
  <1> DEFINE f == First(n, crop)
             e == Edge(d, crop, dst)
             g == Edge(d + 1, crop, dst)
  <1>1. f \in Nat /\ f + crop <= n
    BY DEF First
  <1>2. e \in Nat /\ g \in Nat /\ d \in Nat /\ d + 1 \in Nat /\ dst \in Nat \ {0} /\ crop \in Nat \ {0}
    <2>1. d \in Nat /\ d + 1 \in Nat /\ dst \in Nat \ {0} /\ crop \in Nat \ {0}
      OBVIOUS
    <2> QED
      BY <2>1, EdgeBounds
  <1>3. ASSUME NEW k \in 0..crop - 1
        PROVE  (k * dst) \div crop = d <=> e <= k /\ k < g
    <2>1. k \in Nat /\ k * dst \in Nat /\ d * crop \in Nat
      BY <1>2, SMT
    <2>2. e <= k <=> d * crop <= k * dst
      BY <1>2, <2>1, AtEdge
    <2>3. g <= k <=> (d + 1) * crop <= k * dst
      BY <1>2, <2>1, AtEdge
    <2>4. (d + 1) * crop = d * crop + crop
      BY <1>2, SMT
    <2>5. d * crop <= k * dst /\ k * dst < d * crop + crop => (k * dst) \div crop = d
      BY <1>2, <2>1, DivUnique
    <2>6. (k * dst) \div crop = d => d * crop <= k * dst /\ k * dst < d * crop + crop
      BY <1>2, <2>1, DivBounds
    <2> DEFINE x == d * crop
               y == k * dst
               q == y \div crop
    <2>7. (x <= y /\ y < x + crop) <=> q = d
      BY <2>5, <2>6
    <2>8. x \in Nat /\ y \in Nat /\ (e <= k <=> x <= y) /\ (g <= k <=> x + crop <= y)
      BY <2>1, <2>2, <2>3, <2>4
    <2> HIDE DEF x, y, q, e, g
    <2>9. q = d <=> e <= k /\ k < g
      BY <2>7, <2>8, <1>2, SMT
    <2> QED
      BY <2>9 DEF x, y, q
  <1>4. g <= crop
    <2>1. (d + 1) * crop <= crop * dst
      <3>1. (d + 1) * crop <= dst * crop
        BY <1>2, AtMostFactor
      <3> QED
        BY <3>1, SMT
    <2> QED
      BY <1>2, <2>1, AtEdge
  <1>5. e < g
    <2>1. ~(g <= e)
      <3>1. e * dst \in Nat /\ e * dst <= d * crop + (dst - 1) /\ d * crop \in Nat
        BY <1>2, EdgeBounds
      <3>2. (d + 1) * crop = d * crop + crop
        BY <1>2, SMT
      <3>3. ~((d + 1) * crop <= e * dst)
        BY <3>1, <3>2, SMT
      <3> QED
        BY <1>2, <3>3, AtEdge
    <2> QED
      BY <1>2, <2>1
  <1>6. \A s : s \in Binned(d, n, crop, dst) <=> s \in f + e .. f + g - 1
    <2> TAKE s
    <2> HIDE DEF e, g
    <2>1. s \in Binned(d, n, crop, dst)
            <=> s \in 0..n - 1 /\ s - f \in 0..crop - 1 /\ ((s - f) * dst) \div crop = d
      BY <1>1, SMT DEF Binned, InCrop, Bin, f
    <2>2. s \in 0..n - 1 /\ s - f \in 0..crop - 1 => (((s - f) * dst) \div crop = d <=> e <= s - f /\ s - f < g)
      BY <1>3
    <2>3. s \in f + e .. f + g - 1 => s \in 0..n - 1 /\ s - f \in 0..crop - 1 /\ e <= s - f /\ s - f < g
      BY <1>1, <1>2, <1>4, SMT
    <2>4. s \in 0..n - 1 /\ e <= s - f /\ s - f < g => s \in f + e .. f + g - 1
      BY <1>1, <1>2, SMT
    <2> QED
      BY <2>1, <2>2, <2>3, <2>4
  <1>7. Binned(d, n, crop, dst) = f + e .. f + g - 1
    BY <1>6
  <1>8. g \in 1..crop
    BY <1>2, <1>4, <1>5
  <1> QED
    BY <1>2, <1>5, <1>7, <1>8

\* It has nearly as many as any other.
LEMMA BinSize ==
  ASSUME NEW n \in Nat \ {0}, NEW crop \in 1..n, NEW dst \in 1..crop
  PROVE  /\ \A d \in 0..dst - 1 : /\ IsFiniteSet(Binned(d, n, crop, dst))
                                  /\ Cardinality(Binned(d, n, crop, dst)) \in Nat \ {0}
         /\ \A d, e \in 0..dst - 1 :
              Cardinality(Binned(d, n, crop, dst)) <= Cardinality(Binned(e, n, crop, dst)) + 1
  <1> DEFINE Size(d) == Edge(d + 1, crop, dst) - Edge(d, crop, dst)
  <1>1. ASSUME NEW d \in 0..dst - 1
        PROVE  /\ IsFiniteSet(Binned(d, n, crop, dst)) /\ Cardinality(Binned(d, n, crop, dst)) = Size(d)
               /\ Size(d) \in Nat \ {0}
               /\ Size(d) * dst <= crop + (dst - 1) /\ crop <= Size(d) * dst + (dst - 1)
    <2> DEFINE f == First(n, crop)
               e == Edge(d, crop, dst)
               g == Edge(d + 1, crop, dst)
    <2>0. d \in Nat /\ d + 1 \in Nat /\ dst \in Nat \ {0} /\ crop \in Nat \ {0}
      OBVIOUS
    <2>1. /\ Binned(d, n, crop, dst) = f + e .. f + g - 1 /\ e \in Nat /\ g \in Nat /\ e < g
      <3>1. /\ Binned(d, n, crop, dst) = f + e .. f + g - 1 /\ e \in Nat /\ g \in 1..crop /\ e < g
        BY BinIs
      <3>2. g \in 1..crop => g \in Nat
        BY <2>0, SMT
      <3> QED
        BY <3>1, <3>2
    <2>2. f \in Int
      BY DEF First
    <2>3. /\ d * crop \in Nat /\ e * dst \in Nat /\ d * crop <= e * dst /\ e * dst <= d * crop + (dst - 1)
      BY <2>0, EdgeBounds
    <2>4. /\ (d + 1) * crop \in Nat /\ g * dst \in Nat
          /\ (d + 1) * crop <= g * dst /\ g * dst <= (d + 1) * crop + (dst - 1)
      BY <2>0, EdgeBounds
    <2>5. (d + 1) * crop = d * crop + crop
      BY SMT
    <2> HIDE DEF f, e, g
    <2>6. IsFiniteSet(f + e .. f + g - 1) /\ Cardinality(f + e .. f + g - 1) = g - e
      <3>1. f + e \in Int /\ f + g - 1 \in Int /\ ~(f + e > f + g - 1) /\ (f + g - 1) - (f + e) + 1 = g - e
        BY <2>1, <2>2, SMT
      <3> QED
        BY <3>1, FS_Interval
    <2>7. (g - e) * dst = g * dst - e * dst
      BY <2>1, SMT
    <2>8. (g - e) * dst <= crop + (dst - 1) /\ crop <= (g - e) * dst + (dst - 1)
      <3> DEFINE x == d * crop
                 y == e * dst
                 z == g * dst
      <3>1. /\ x \in Nat /\ y \in Nat /\ z \in Nat /\ x <= y /\ y <= x + (dst - 1)
            /\ x + crop <= z /\ z <= x + crop + (dst - 1) /\ (g - e) * dst = z - y
        BY <2>3, <2>4, <2>5, <2>7
      <3> HIDE DEF x, y, z
      <3>2. z - y <= crop + (dst - 1) /\ crop <= z - y + (dst - 1)
        BY <3>1, SMT
      <3> QED
        BY <3>1, <3>2
    <2>9. Size(d) = g - e
      BY DEF e, g
    <2> QED
      BY <2>1, <2>6, <2>8, <2>9
  <1>2. ASSUME NEW d \in 0..dst - 1, NEW e \in 0..dst - 1
        PROVE  Size(d) <= Size(e) + 1
    <2> DEFINE a == Size(d)
               b == Size(e)
    <2>1. a \in Nat /\ b \in Nat /\ a * dst <= crop + (dst - 1) /\ crop <= b * dst + (dst - 1)
      BY <1>1
    <2> HIDE DEF a, b
    <2>2. SUFFICES ASSUME a > b + 1 PROVE FALSE
      BY <2>1 DEF a, b
    <2>3. (b + 2) * dst <= a * dst
      BY <2>1, <2>2, AtMostFactor
    <2>4. (b + 2) * dst = b * dst + dst + dst /\ a * dst \in Nat /\ b * dst \in Nat
      BY <2>1, SMT
    <2> QED
      BY <2>1, <2>3, <2>4, SMT
  <1> HIDE DEF Size
  <1> QED
    BY <1>1, <1>2

\* A bin of each axis, of the tile's pixels, is reached; and in order.
LEMMA BinReached ==
  ASSUME NEW out \in Nat \ {0}, NEW m \in 1..out, NEW d \in 0..m - 1
  PROVE  \E p \in 0..out - 1 : (p * m) \div out = d
  <1>1. out \in 1..out
    OBVIOUS
  <1>2. PICK p : p \in Binned(d, out, out, m)
    <2>1. Binned(d, out, out, m) # {}
      BY <1>1, BinHit
    <2> QED
      BY <2>1
  <1>3. p \in 0..out - 1 /\ Bin(p, out, out, m) = d
    BY <1>2 DEF Binned
  <1>4. First(out, out) = 0 /\ p - 0 = p
    BY <1>3, SMT DEF First
  <1>5. (p * m) \div out = d
    BY <1>3, <1>4 DEF Bin
  <1> QED
    BY <1>3, <1>5

LEMMA DivInOrder ==
  ASSUME NEW m \in Nat, NEW n \in Nat \ {0}, NEW p \in Nat, NEW q \in Nat, p <= q
  PROVE  /\ (p * m) \div n \in Nat /\ (q * m) \div n \in Nat /\ (p * m) \div n <= (q * m) \div n
  <1> DEFINE x == p * m
             y == q * m
             a == x \div n
             b == y \div n
  <1>1. x \in Nat /\ y \in Nat /\ x <= y
    <2>1. p * m <= q * m
      BY AtMostFactor
    <2> QED
      BY <2>1, SMT
  <1>2. a \in Nat /\ a * n <= x /\ b \in Nat /\ y < b * n + n
    <2> HIDE DEF x, y
    <2> QED
      BY <1>1, DivBounds
  <1> HIDE DEF x, y, a, b
  <1>3. a * n \in Nat /\ (b + 1) * n = b * n + n /\ b * n \in Nat
    BY <1>2, SMT
  <1>4. a * n < (b + 1) * n
    BY <1>1, <1>2, <1>3, SMT
  <1>5. a < b + 1
    <2>1. b + 1 \in Nat
      BY <1>2
    <2> QED
      BY <1>2, <1>4, <2>1, LessFactor
  <1> QED
    BY <1>2, <1>5 DEF a, b, x, y

\* The bin of the accumulator that a pixel of the tile is of
LEMMA PlaceOf ==
  ASSUME NEW out \in Nat \ {0}, NEW m \in 1..out, NEW p \in 0..out - 1
  PROVE  (p * m) \div out \in 0..m - 1
  <1> DEFINE x == p * m
             k == x \div out
  <1>1. x \in Nat /\ x < m * out
    <2>1. (p + 1) * m <= out * m
      BY AtMostFactor
    <2>2. (p + 1) * m = p * m + m /\ out * m = m * out /\ p * m \in Nat
      BY SMT
    <2> QED
      BY <2>1, <2>2, SMT
  <1>2. k \in Nat /\ k * out <= x
    <2> HIDE DEF x
    <2> QED
      BY <1>1, DivBounds
  <1> HIDE DEF x, k
  <1>3. k * out < m * out
    <2>1. k * out \in Nat /\ m * out \in Nat
      BY <1>2, SMT
    <2> QED
      BY <1>1, <1>2, <2>1, SMT
  <1>4. k < m
    BY <1>2, <1>3, LessFactor
  <1> QED
    BY <1>2, <1>4 DEF k, x

\* What is before in the source is not in a later bin.
LEMMA BinsInOrder ==
  ASSUME NEW n \in Nat \ {0}, NEW crop \in 1..n, NEW dst \in 1..crop, NEW d \in Nat, NEW e \in Nat, d < e,
         NEW s \in Binned(d, n, crop, dst), NEW t \in Binned(e, n, crop, dst)
  PROVE  s < t
  <1> DEFINE f == First(n, crop)
             a == s - f
             b == t - f
  <1>1. f \in Nat
    BY DEF First
  <1>2. s \in Int /\ t \in Int /\ f <= s /\ f <= t /\ Bin(s, n, crop, dst) = d /\ Bin(t, n, crop, dst) = e
    BY DEF Binned, InCrop
  <1>3. a \in Nat /\ b \in Nat /\ (a * dst) \div crop = d /\ (b * dst) \div crop = e
    BY <1>1, <1>2 DEF Bin
  <1>4. ASSUME b <= a PROVE FALSE
    <2>1. (b * dst) \div crop <= (a * dst) \div crop
      <3>1. dst \in Nat /\ crop \in Nat \ {0} /\ a \in Nat /\ b \in Nat
        BY <1>3
      <3> HIDE DEF a, b
      <3> QED
        BY <1>4, <3>1, DivInOrder
    <2> QED
      BY <1>3, <2>1
  <1>5. a < b
    BY <1>3, <1>4
  <1> QED
    BY <1>1, <1>2, <1>5

\* All of a window is in some bin of it.
LEMMA AllBinned ==
  ASSUME NEW n \in Nat \ {0}, NEW crop \in 1..n, NEW dst \in 1..crop
  PROVE  /\ \A s \in 0..n - 1 : InCrop(s, n, crop) => \E d \in 0..dst - 1 : s \in Binned(d, n, crop, dst)
         /\ IsFiniteSet({s \in 0..n - 1 : InCrop(s, n, crop)})
         /\ Cardinality({s \in 0..n - 1 : InCrop(s, n, crop)}) = crop
  <1> DEFINE f == First(n, crop)
  <1>1. f \in Nat /\ f + crop <= n
    BY DEF First
  <1>2. ASSUME NEW s \in 0..n - 1, InCrop(s, n, crop)
        PROVE  \E d \in 0..dst - 1 : s \in Binned(d, n, crop, dst)
    <2>1. s - f \in 0..crop - 1
      BY <1>1, <1>2 DEF InCrop
    <2>2. Bin(s, n, crop, dst) \in 0..dst - 1
      BY <2>1, PlaceOf, SMT DEF Bin
    <2> QED
      BY <1>2, <2>2 DEF Binned
  <1>3. {s \in 0..n - 1 : InCrop(s, n, crop)} = f .. f + crop - 1
    BY <1>1, SMT DEF InCrop
  <1>4. IsFiniteSet(f .. f + crop - 1) /\ Cardinality(f .. f + crop - 1) = crop
    <2>1. f \in Int /\ f + crop - 1 \in Int /\ ~(f > f + crop - 1) /\ (f + crop - 1) - f + 1 = crop
      BY <1>1, SMT
    <2> HIDE DEF f
    <2> QED
      BY <2>1, FS_Interval
  <1> QED
    BY <1>2, <1>3, <1>4

\* What the accumulator holds, up to the row that is next, and what the tile does.
Bins == (0..MW - 1) \X (0..MH - 1)
AccIs ==
  job.stage \in {"rows", "done"} =>
    /\ job.y \in 0..job.h
    /\ acc = [c \in Bins |-> Columns(c[1]) \X (Lines(c[2]) \cap (0..job.y - 1))]
PlaceX(p) == (p[1] * MW) \div job.ow
PlaceY(p) == (p[2] * MH) \div job.oh
TileIs ==
  job.stage = "done" =>
    tile = [p \in (0..job.ow - 1) \X (0..job.oh - 1) |->
              [of |-> Columns(PlaceX(p)) \X Lines(PlaceY(p)),
               n |-> Cardinality(Columns(PlaceX(p))) * Cardinality(Lines(PlaceY(p)))]]
Staged ==
  job \in [stage : {"idle", "rows", "none", "done"}, kind : {"none", "jpeg", "png", "scale"},
           full : Nat \X Nat, by : {1, 2, 4, 8}, w : Nat, h : Nat, ow : Nat, oh : Nat, y : Nat]
AverageInv == ShrinkInv /\ Staged /\ AccIs /\ TileIs

LEMMA JobFields ==
  ASSUME Staged
  PROVE  /\ job.stage \in {"idle", "rows", "none", "done"} /\ job.y \in Nat
         /\ \A g \in {"idle", "rows", "none", "done"} :
              LET j == [job EXCEPT !.stage = g]
              IN  /\ j \in [stage : {"idle", "rows", "none", "done"}, kind : {"none", "jpeg", "png", "scale"},
                            full : Nat \X Nat, by : {1, 2, 4, 8}, w : Nat, h : Nat, ow : Nat, oh : Nat, y : Nat]
                  /\ j.stage = g /\ j.w = job.w /\ j.h = job.h /\ j.ow = job.ow /\ j.oh = job.oh /\ j.y = job.y
         /\ \A n \in Nat :
              LET j == [job EXCEPT !.y = n]
              IN  /\ j \in [stage : {"idle", "rows", "none", "done"}, kind : {"none", "jpeg", "png", "scale"},
                            full : Nat \X Nat, by : {1, 2, 4, 8}, w : Nat, h : Nat, ow : Nat, oh : Nat, y : Nat]
                  /\ j.stage = job.stage /\ j.w = job.w /\ j.h = job.h /\ j.ow = job.ow /\ j.oh = job.oh /\ j.y = n
  BY Zenon DEF Staged

\* The sizes of the window and of what it is averaged to
LEMMA WindowSizes ==
  ASSUME Sized, job.stage # "idle"
  PROVE  /\ job.w \in Nat \ {0} /\ job.h \in Nat \ {0} /\ job.ow \in Nat \ {0} /\ job.oh \in Nat \ {0}
         /\ CW \in 1..job.w /\ CH \in 1..job.h
         /\ MW \in 1..CW /\ MH \in 1..CH /\ MW \in 1..job.ow /\ MH \in 1..job.oh
<1>1. job.w \in Nat \ {0} /\ job.h \in Nat \ {0} /\ job.ow \in Nat \ {0} /\ job.oh \in Nat \ {0}
  BY DEF Sized
<1>2. CW \in 1..job.w /\ CH \in 1..job.h
  BY <1>1, CropFits DEF CW, CH
<1>3. MW \in 1..CW /\ MH \in 1..CH /\ MW \in 1..job.ow /\ MH \in 1..job.oh
  BY <1>1, <1>2 DEF MW, MH, Mid
<1> QED
  BY <1>1, <1>2, <1>3

LEMMA AverageInit == ShrinkInit => AverageInv
<1> SUFFICES ASSUME ShrinkInit PROVE AverageInv
  OBVIOUS
<1>1. job.stage = "idle" /\ Staged
  BY DEF ShrinkInit, Idle, Staged
<1> QED
  BY <1>1, ShrinkInvInit DEF AverageInv, AccIs, TileIs

LEMMA AverageStep == AverageInv /\ [ShrinkNext]_shrinkVars => AverageInv'
<1> SUFFICES ASSUME AverageInv, [ShrinkNext]_shrinkVars PROVE Staged' /\ AccIs' /\ TileIs'
  BY ShrinkInvStep DEF AverageInv
<1>1. ShrinkInv' /\ ShrinkInv /\ Staged /\ AccIs /\ TileIs /\ Sized
  BY ShrinkInvStep DEF AverageInv, ShrinkInv
<1>2. ASSUME NEW kind \in {"jpeg", "png", "scale"}, NEW w \in Sides, NEW h \in Sides,
             NEW ow \in Tiles, NEW oh \in Tiles, Begin(kind, w, h, ow, oh)
      PROVE  Staged' /\ AccIs' /\ TileIs'
  <2>1. /\ job'.stage \in {"rows", "none"} /\ job'.y = 0
        /\ acc' = [c \in (0..Mid(CropW(job'.w, job'.h, job'.ow, job'.oh), job'.ow) - 1)
                           \X (0..Mid(CropH(job'.w, job'.h, job'.ow, job'.oh), job'.oh) - 1) |-> {}]
    BY <1>2 DEF Begin
  <2>2. acc' = [c \in Bins' |-> {}]
    BY <2>1 DEF Bins, MW, MH, CW, CH
  <2>3. \A X, Y : X \X (Y \cap (0..-1)) = {}
    OBVIOUS
  <2>4. 0..job'.y - 1 = 0..-1
    BY <2>1
  <2>5. acc' = [c \in Bins' |-> Columns(c[1])' \X (Lines(c[2])' \cap (0..job'.y - 1))]
    BY <2>2, <2>3, <2>4
  <2>6. job'.stage # "idle" /\ Sized'
    BY <2>1, <1>1 DEF ShrinkInv
  <2>7. job'.y \in 0..job'.h
    BY <2>1, <2>6 DEF Sized
  <2>8. Staged'
    <3> DEFINE d == IF kind = "jpeg" THEN Denominator(w, h, ow, oh) ELSE 1
    <3>1. w \in Nat \ {0} /\ h \in Nat \ {0} /\ ow \in Nat \ {0} /\ oh \in Nat \ {0}
      BY ShrinkAssumption
    <3>2. d \in {1, 2, 4, 8}
      BY <3>1, DenominatorLast
    <3>3. \E g \in {"rows", "none"} :
            job' = [stage |-> g, kind |-> kind, full |-> <<w, h>>, by |-> d, w |-> Scaled(w, d),
                    h |-> Scaled(h, d), ow |-> ow, oh |-> oh, y |-> 0]
      BY <1>2 DEF Begin
    <3> HIDE DEF d
    <3>4. Scaled(w, d) \in Nat /\ Scaled(h, d) \in Nat
      BY <3>1, <3>2, ScaledEnough
    <3> QED
      BY <3>1, <3>2, <3>3, <3>4 DEF Staged
  <2> QED
    BY <2>1, <2>5, <2>7, <2>8 DEF AccIs, TileIs
<1>3. CASE AddRow
  <2>1. job.stage = "rows" /\ job.y < job.h /\ UNCHANGED tile /\ job.y \in 0..job.h /\ job.h \in Nat \ {0}
    BY <1>1, <1>3 DEF AddRow, AccIs, Sized
  <2>2. job' = [job EXCEPT !.y = job.y + 1]
    BY <1>3 DEF AddRow
  <2>3. /\ UNCHANGED <<job.stage, job.w, job.h, job.ow, job.oh>> /\ job'.y = job.y + 1 /\ Staged'
    <3>1. Staged /\ job.y + 1 \in Nat
      BY <1>1, <2>1
    <3> QED
      BY <2>2, <3>1, JobFields, Zenon DEF Staged
  <2>5. UNCHANGED <<CW, CH, MW, MH, Bins>>
    BY <2>3 DEF CW, CH, MW, MH, Bins
  <2>6. \A d : Columns(d)' = Columns(d) /\ Lines(d)' = Lines(d)
    BY <2>3, <2>5 DEF Columns, Lines
  <2>7. acc = [c \in Bins |-> Columns(c[1]) \X (Lines(c[2]) \cap (0..job.y - 1))]
    BY <1>1, <2>1 DEF AccIs
  <2>8. acc' = [c \in Bins |-> IF job.y \in Lines(c[2]) THEN acc[c] \union (Columns(c[1]) \X {job.y}) ELSE acc[c]]
    BY <1>3, <2>7 DEF AddRow
  <2>9. \A X, Y : (X \X (Y \cap (0..job.y - 1))) \union (IF job.y \in Y THEN X \X {job.y} ELSE {})
                    = X \X (Y \cap (0..job.y))
    <3>1. 0..job.y = (0..job.y - 1) \union {job.y}
      BY <2>1
    <3> QED
      BY <3>1
  <2>10. \A c \in Bins : acc'[c] = Columns(c[1]) \X (Lines(c[2]) \cap (0..job.y))
    BY <2>7, <2>8, <2>9
  <2>11. 0..job.y = 0..job'.y - 1 /\ job'.y \in 0..job'.h
    BY <2>1, <2>3
  <2>12. acc' = [c \in Bins |-> Columns(c[1]) \X (Lines(c[2]) \cap (0..job.y))]
    BY <2>8, <2>10
  <2>13. acc' = [c \in Bins' |-> Columns(c[1])' \X (Lines(c[2])' \cap (0..job'.y - 1))]
    BY <2>5, <2>6, <2>11, <2>12
  <2> QED
    BY <2>1, <2>3, <2>11, <2>13 DEF AccIs, TileIs
<1>4. CASE Spoilt
  <2>1. job'.stage = "none" /\ Staged'
    BY <1>1, <1>4, JobFields, Zenon DEF Staged, Spoilt
  <2> QED
    BY <2>1 DEF AccIs, TileIs
<1>5. CASE FinishTile
  <2>1. job.stage = "rows" /\ job.y = job.h /\ job' = [job EXCEPT !.stage = "done"] /\ UNCHANGED acc
    BY <1>5 DEF FinishTile
  <2>2. /\ UNCHANGED <<job.w, job.h, job.ow, job.oh, job.y>> /\ job'.stage = "done" /\ Staged'
    BY <1>1, <2>1, JobFields, Zenon DEF Staged
  <2>3. UNCHANGED <<CW, CH, MW, MH, Bins>>
    BY <2>2 DEF CW, CH, MW, MH, Bins
  <2>4. \A d : Columns(d)' = Columns(d) /\ Lines(d)' = Lines(d)
    BY <2>2, <2>3 DEF Columns, Lines
  <2>5. job.y \in 0..job.h /\ acc = [c \in Bins |-> Columns(c[1]) \X (Lines(c[2]) \cap (0..job.y - 1))]
    BY <1>1, <2>1 DEF AccIs
  <2>6. AccIs'
    BY <2>1, <2>2, <2>3, <2>4, <2>5 DEF AccIs
  <2>7. \A d : Lines(d) \cap (0..job.y - 1) = Lines(d)
    BY <2>1 DEF Lines, Binned
  <2>8. ASSUME NEW p \in (0..job.ow - 1) \X (0..job.oh - 1)
        PROVE  acc[<<PlaceX(p), PlaceY(p)>>] = Columns(PlaceX(p)) \X Lines(PlaceY(p))
    <3>1. /\ job.ow \in Nat \ {0} /\ job.oh \in Nat \ {0} /\ MW \in 1..job.ow /\ MH \in 1..job.oh
      BY <1>1, <2>1, WindowSizes
    <3>2. PlaceX(p) \in 0..MW - 1 /\ PlaceY(p) \in 0..MH - 1
      BY <3>1, PlaceOf DEF PlaceX, PlaceY
    <3> QED
      BY <2>5, <2>7, <3>2 DEF Bins
  <2>9. tile' = [p \in (0..job.ow - 1) \X (0..job.oh - 1) |->
                  [of |-> acc[<<PlaceX(p), PlaceY(p)>>],
                   n |-> Cardinality(Columns(PlaceX(p))) * Cardinality(Lines(PlaceY(p)))]]
    BY <1>5 DEF FinishTile, PlaceX, PlaceY
  <2>10. tile' = [p \in (0..job.ow - 1) \X (0..job.oh - 1) |->
                   [of |-> Columns(PlaceX(p)) \X Lines(PlaceY(p)),
                    n |-> Cardinality(Columns(PlaceX(p))) * Cardinality(Lines(PlaceY(p)))]]
    BY <2>8, <2>9
  <2>11. \A p : PlaceX(p)' = PlaceX(p) /\ PlaceY(p)' = PlaceY(p)
    BY <2>2, <2>3 DEF PlaceX, PlaceY
  <2>12. TileIs'
    BY <2>2, <2>4, <2>10, <2>11 DEF TileIs
  <2> QED
    BY <2>2, <2>6, <2>12
<1>6. CASE UNCHANGED shrinkVars
  <2>1. UNCHANGED <<job, acc, tile>>
    BY <1>6 DEF shrinkVars
  <2>2. UNCHANGED <<CW, CH, MW, MH, Bins>>
    BY <2>1 DEF CW, CH, MW, MH, Bins
  <2>3. \A d : Columns(d)' = Columns(d) /\ Lines(d)' = Lines(d)
    BY <2>1, <2>2 DEF Columns, Lines
  <2>4. \A p : PlaceX(p)' = PlaceX(p) /\ PlaceY(p)' = PlaceY(p)
    BY <2>1, <2>2 DEF PlaceX, PlaceY
  <2>5. Staged'
    BY <1>1, <2>1 DEF Staged
  <2>6. AccIs'
    BY <1>1, <2>1, <2>2, <2>3 DEF AccIs
  <2>7. TileIs'
    BY <1>1, <2>1, <2>3, <2>4 DEF TileIs
  <2> QED
    BY <2>5, <2>6, <2>7
<1> QED
  BY <1>2, <1>3, <1>4, <1>5, <1>6 DEF ShrinkNext

LEMMA AverageIsPlain == AverageInv => WindowFills /\ PlainAverage
<1> SUFFICES ASSUME AverageInv, job.stage # "idle" PROVE WindowFills /\ PlainAverage
  BY DEF WindowFills, PlainAverage
<1>1. Sized /\ AccIs /\ TileIs
  BY DEF AverageInv, ShrinkInv
<1>2. /\ job.w \in Nat \ {0} /\ job.h \in Nat \ {0} /\ job.ow \in Nat \ {0} /\ job.oh \in Nat \ {0}
      /\ CW \in 1..job.w /\ CH \in 1..job.h
      /\ MW \in 1..CW /\ MH \in 1..CH /\ MW \in 1..job.ow /\ MH \in 1..job.oh
  BY <1>1, WindowSizes
<1>3. WindowFills
  <2>1. /\ CW = job.w \/ CH = job.h
        /\ CH < job.h => CH = 1 \/ (CH * job.ow <= CW * job.oh /\ CW * job.oh < (CH + 1) * job.ow)
        /\ CW < job.w => CW = 1 \/ (CW * job.oh <= CH * job.ow /\ CH * job.ow < (CW + 1) * job.oh)
    <3>1. job.w \in Nat \ {0} /\ job.h \in Nat \ {0} /\ job.ow \in Nat \ {0} /\ job.oh \in Nat \ {0}
      BY <1>2
    <3> QED
      BY <3>1, CropFills, Zenon DEF CW, CH
  <2>2. CW <= job.w /\ CH <= job.h
    BY <1>2
  <2> QED
    BY <2>1, <2>2, Zenon DEF WindowFills
<1> SUFFICES ASSUME job.stage = "done" PROVE PlainAverage
  BY <1>3 DEF PlainAverage
<1> DEFINE Pixels == (0..job.ow - 1) \X (0..job.oh - 1)
           AllX == {s \in 0..job.w - 1 : InCrop(s, job.w, CW)}
           AllY == {s \in 0..job.h - 1 : InCrop(s, job.h, CH)}
<1>4. /\ DOMAIN tile = Pixels
      /\ \A p \in Pixels : /\ tile[p].of = Columns(PlaceX(p)) \X Lines(PlaceY(p))
                            /\ tile[p].n = Cardinality(Columns(PlaceX(p))) * Cardinality(Lines(PlaceY(p)))
                            /\ PlaceX(p) \in 0..MW - 1 /\ PlaceY(p) \in 0..MH - 1
  <2>1. \A p \in Pixels : PlaceX(p) \in 0..MW - 1 /\ PlaceY(p) \in 0..MH - 1
    BY <1>2, PlaceOf DEF PlaceX, PlaceY
  <2>2. tile = [p \in Pixels |->
                  [of |-> Columns(PlaceX(p)) \X Lines(PlaceY(p)),
                   n |-> Cardinality(Columns(PlaceX(p))) * Cardinality(Lines(PlaceY(p)))]]
    BY <1>1 DEF TileIs
  <2> HIDE DEF Pixels
  <2> QED
    BY <2>1, <2>2
<1>5. /\ \A d \in 0..MW - 1 : IsFiniteSet(Columns(d)) /\ Cardinality(Columns(d)) \in Nat \ {0}
      /\ \A d, e \in 0..MW - 1 : Cardinality(Columns(d)) <= Cardinality(Columns(e)) + 1
  BY <1>2, BinSize DEF Columns
<1>6. /\ \A d \in 0..MH - 1 : IsFiniteSet(Lines(d)) /\ Cardinality(Lines(d)) \in Nat \ {0}
      /\ \A d, e \in 0..MH - 1 : Cardinality(Lines(d)) <= Cardinality(Lines(e)) + 1
  BY <1>2, BinSize DEF Lines
<1>7. ASSUME NEW p \in DOMAIN tile
      PROVE  tile[p].n > 0 /\ tile[p].n = Cardinality(tile[p].of)
  <2> DEFINE C == Columns(PlaceX(p))
             L == Lines(PlaceY(p))
  <2>1. /\ tile[p].of = C \X L /\ tile[p].n = Cardinality(C) * Cardinality(L)
        /\ IsFiniteSet(C) /\ Cardinality(C) \in Nat \ {0} /\ IsFiniteSet(L) /\ Cardinality(L) \in Nat \ {0}
    BY <1>4, <1>5, <1>6, <1>7
  <2> HIDE DEF C, L
  <2>2. Cardinality(C \X L) = Cardinality(C) * Cardinality(L)
    BY <2>1, FS_Product
  <2>3. \A x, y \in Nat \ {0} : x * y > 0
    BY SMT
  <2> QED
    BY <2>1, <2>2, <2>3
<1>8. UNION {tile[p].of : p \in DOMAIN tile} = AllX \X AllY
  <2>1. \A d \in 0..MW - 1 : Columns(d) \subseteq AllX
    BY DEF Columns, Binned
  <2>2. \A d \in 0..MH - 1 : Lines(d) \subseteq AllY
    BY DEF Lines, Binned
  <2>3. \A s \in AllX : \E d \in 0..MW - 1 : s \in Columns(d)
    BY <1>2, AllBinned DEF Columns
  <2>4. \A s \in AllY : \E d \in 0..MH - 1 : s \in Lines(d)
    BY <1>2, AllBinned DEF Lines
  <2>5. \A d \in 0..MW - 1, e \in 0..MH - 1 : \E p \in Pixels : PlaceX(p) = d /\ PlaceY(p) = e
    <3> TAKE d \in 0..MW - 1, e \in 0..MH - 1
    <3>1. PICK x \in 0..job.ow - 1 : (x * MW) \div job.ow = d
      BY <1>2, BinReached
    <3>2. PICK y \in 0..job.oh - 1 : (y * MH) \div job.oh = e
      BY <1>2, BinReached
    <3>3. <<x, y>> \in Pixels /\ <<x, y>>[1] = x /\ <<x, y>>[2] = y
      OBVIOUS
    <3>4. PlaceX(<<x, y>>) = d /\ PlaceY(<<x, y>>) = e
      BY <3>1, <3>2, <3>3 DEF PlaceX, PlaceY
    <3> QED
      BY <3>3, <3>4
  <2> HIDE DEF Pixels, AllX, AllY
  <2>6. UNION {tile[p].of : p \in DOMAIN tile} \subseteq AllX \X AllY
    BY <1>4, <2>1, <2>2
  <2>7. ASSUME NEW s \in AllX, NEW t \in AllY
        PROVE  <<s, t>> \in UNION {tile[p].of : p \in DOMAIN tile}
    <3>1. PICK d \in 0..MW - 1 : s \in Columns(d)
      BY <2>3
    <3>2. PICK e \in 0..MH - 1 : t \in Lines(e)
      BY <2>4
    <3>3. PICK p \in Pixels : PlaceX(p) = d /\ PlaceY(p) = e
      BY <2>5
    <3>4. tile[p].of = Columns(d) \X Lines(e) /\ p \in DOMAIN tile
      BY <1>4, <3>3
    <3> QED
      BY <3>1, <3>2, <3>4
  <2> QED
    BY <2>6, <2>7
<1>9. Cardinality(UNION {tile[p].of : p \in DOMAIN tile}) = CW * CH
  <2>1. IsFiniteSet(AllX) /\ Cardinality(AllX) = CW /\ IsFiniteSet(AllY) /\ Cardinality(AllY) = CH
    <3>1. MW \in 1..CW /\ MH \in 1..CH
      BY <1>2
    <3> QED
      BY <1>2, <3>1, AllBinned
  <2> HIDE DEF AllX, AllY
  <2> QED
    BY <1>8, <2>1, FS_Product
<1>10. ASSUME NEW p \in DOMAIN tile, NEW q \in DOMAIN tile, p[2] = q[2], p[1] < q[1]
       PROVE  \/ tile[p].of = tile[q].of
              \/ \A s \in tile[p].of, t \in tile[q].of : s[1] < t[1]
  <2>1. p \in Pixels /\ q \in Pixels /\ p[1] \in Nat /\ q[1] \in Nat
    BY <1>4, <1>10
  <2>2. PlaceX(p) \in Nat /\ PlaceX(q) \in Nat /\ PlaceX(p) <= PlaceX(q) /\ PlaceY(p) = PlaceY(q)
    <3>1. MW \in Nat /\ p[1] <= q[1]
      BY <1>2, <1>10, <2>1
    <3>2. PlaceX(p) \in Nat /\ PlaceX(q) \in Nat /\ PlaceX(p) <= PlaceX(q)
      BY <1>2, <2>1, <3>1, DivInOrder DEF PlaceX
    <3> QED
      BY <1>10, <3>2 DEF PlaceY
  <2>3. /\ tile[p].of = Columns(PlaceX(p)) \X Lines(PlaceY(p))
        /\ tile[q].of = Columns(PlaceX(q)) \X Lines(PlaceY(q))
    BY <1>4, <2>1
  <2>4. CASE PlaceX(p) = PlaceX(q)
    BY <2>2, <2>3, <2>4
  <2>5. CASE PlaceX(p) < PlaceX(q)
    <3>1. \A s \in Columns(PlaceX(p)), t \in Columns(PlaceX(q)) : s < t
      BY <1>2, <2>2, <2>5, BinsInOrder DEF Columns
    <3> QED
      BY <2>3, <3>1
  <2> QED
    BY <2>2, <2>4, <2>5
<1> QED
  BY <1>5, <1>6, <1>7, <1>9, <1>10 DEF PlainAverage

\* A cover of any size comes out of its file as it went in, and its tile is the plain
\* average of the largest window of the tile's shape, each of the source's pixels
\* counted in its place and no sum divided by zero (cover_art.c).
THEOREM CoversInvariant == CoversSpec => []CoversRight
<1>1. AverageInv => WindowFills /\ PlainAverage
  BY AverageIsPlain
<1>2. PngSpec => []RowsRestored
  BY RowsComeOut
<1>3. ShrinkSpec => []NoEmptyBin
  BY NeverEmpty
<1>4. ShrinkSpec => []TwiceTheTile
  BY LeavesTwice
<1>5. ShrinkSpec => [](WindowFills /\ PlainAverage)
  BY <1>1, AverageInit, AverageStep, PTL DEF ShrinkSpec
<1>6. RowsRestored /\ NoEmptyBin /\ TwiceTheTile /\ (WindowFills /\ PlainAverage) => CoversRight
  BY DEF CoversRight
<1> QED
  BY <1>2, <1>3, <1>4, <1>5, <1>6, PTL DEF CoversSpec
=============================================================================
