------------------------------ MODULE MpdClient ------------------------------
(***************************************************************************)
(* rPod's calls to MPD (src/src/audio/mpd_client.c) over one connection,   *)
(* with the liking of a song (src/src/ui/playlist_membership.c) and the    *)
(* playlist picker (src/src/ui/screens/playlist_picker.c) on top.  A call  *)
(* is one or more commands; between two of them MPD may end, come back or  *)
(* do what another client says.  libmpdclient keeps the error of a command *)
(* that failed and fails every later one until it is cleared, which it     *)
(* can't be once the connection is gone.                                   *)
(*                                                                         *)
(* MPD, its playlists and its queue are external.                          *)
(***************************************************************************)
EXTENDS Integers, Sequences, SequencesExt

CONSTANTS Tracks,      \* the songs there are
          Extra,       \* the sound of an alarm or a quiz, added to the queue
          MaxLiked,    \* bound: the length of "Liked Songs"
          MaxEnds,     \* bound: how often MPD ends
          MaxMeddling  \* bound: what other clients do

ASSUME MpdAssumption == /\ MaxLiked \in Nat /\ MaxLiked >= 3  \* those in LikedInit
                        /\ IsFiniteSet(Tracks) /\ Tracks # {}

VARIABLES
  link,  \* mpd->conn: "ok", "error" (kept, can be cleared) or "gone"
  up,    \* external: MPD runs
  liked, \* external: "Liked Songs" and whether there is such a playlist
  queue, \* external: MPD's queue, and whether it plays
  call,  \* the call under way, or the last one: its name and place, the song and
         \* the positions it has, what it returned, and whether it says the song is in
  past,  \* history of the call: the playlist before it; whether MPD was away, the
         \* connection gone when it began, a command refused, another client at work
  mpdcount

clientVars == <<link, up, liked, queue, call, past, mpdcount>>

NoCall == [name |-> "none", at |-> "done", song |-> Extra, found |-> {}, ok |-> TRUE, in |-> FALSE]
Clean  == [away |-> FALSE, gone |-> FALSE, refused |-> FALSE, meddled |-> FALSE]

\* No "Liked Songs" yet, or one with a song in it twice.
LikedInit == \/ liked = [exists |-> FALSE, list |-> <<>>]
             \/ \E t, u \in Tracks : liked = [exists |-> TRUE, list |-> <<t, t, u>>]

ClientInit ==
  /\ link = "ok" /\ up = TRUE /\ LikedInit /\ queue = [songs |-> <<>>, plays |-> FALSE]
  /\ call = NoCall /\ past = [before |-> liked.list, was |-> Clean]
  /\ mpdcount = [ends |-> 0, meddling |-> 0]

Happened(what) == past' = [past EXCEPT !.was[what] = TRUE]
MayEnd == /\ mpdcount.ends < MaxEnds /\ mpdcount' = [mpdcount EXCEPT !.ends = @ + 1]
          /\ up' = FALSE /\ link' = "gone" /\ Happened("away")
-----------------------------------------------------------------------------
MendedHalf(l) ==  \* Mutant: the error is cleared, and rPod does not connect again.
  IF l = "error" THEN "ok" ELSE l

\* fail(): the error is cleared, or rPod connects again.
Mended(l) == IF l = "error" \/ up THEN "ok" ELSE "gone"

\* rpod_mpd_get_status() only clears it when there is no song to tell of.
Cleared(l) == IF l = "error" THEN "ok" ELSE l

\* A call begins at its first command.
Begins(name, at, song) ==
  /\ call.at = "done"
  /\ call' = [NoCall EXCEPT !.name = name, !.at = at, !.song = song]
  /\ past' = [before |-> liked.list,
              was |-> [Clean EXCEPT !.away = ~up, !.gone = (link = "gone")]]
  /\ UNCHANGED <<link, up, liked, queue, mpdcount>>

CallAt(name, at) == call.name = name /\ call.at = at
GoesTo(at)       == call' = [call EXCEPT !.at = at]
Returns(ok)      == call' = [call EXCEPT !.at = "done", !.ok = ok]

\* A command that MPD did, told or not told to a connection that broke.
Done == link = "ok" /\ UNCHANGED <<link, up, past, mpdcount>>
Lost == link = "ok" /\ MayEnd

\* What the connection is after a command that failed: a caller with nothing to
\* return only clears.
After(l, clears) == IF clears THEN Cleared(l) ELSE Mended(l)

\* One that did nothing: MPD refused it, ended before it, or it was not sent.
Failing(refusable, clears) ==
  \/ /\ link = "ok" /\ refusable /\ link' = After("error", clears) /\ Happened("refused")
     /\ UNCHANGED <<up, mpdcount>>
  \/ Lost
  \/ link # "ok" /\ link' = After(link, clears) /\ UNCHANGED <<up, past, mpdcount>>
Failed(refusable) == Failing(refusable, FALSE)
-----------------------------------------------------------------------------
\* Whatever asks or tells MPD one thing: browsing, the state, the volume, a mode.
AskOne ==
  /\ CallAt("read", "ask") /\ UNCHANGED <<liked, queue>>
  /\ (Done /\ Returns(TRUE)) \/ (Failed(TRUE) /\ Returns(FALSE))

\* rpod_mpd_get_status(): the status stands with no song.
Status ==
  /\ UNCHANGED <<liked, queue>>
  /\ \/ CallAt("status", "ask")  /\ ((Done /\ GoesTo("song")) \/ (Failed(FALSE) /\ Returns(FALSE)))
     \/ CallAt("status", "song") /\ (Done \/ Failing(TRUE, TRUE)) /\ Returns(TRUE)

\* rpod_mpd_play_songs() and its variants: queue_songs() is one list of commands,
\* of which MPD does those before the one it refuses; then it plays.
Album == SetToSeq(Tracks)
PlaySongs ==
  /\ UNCHANGED liked
  /\ \/ /\ CallAt("play", "queue")
        /\ \/ Done /\ GoesTo("start") /\ queue' = [songs |-> Album, plays |-> FALSE]
           \/ Failed(TRUE) /\ Returns(FALSE) /\ UNCHANGED queue
           \/ /\ (\E n \in 0..Len(Album) - 1 : queue' = [songs |-> SubSeq(Album, 1, n), plays |-> FALSE])
              /\ link = "ok" /\ Failed(TRUE) /\ Returns(FALSE)
     \/ /\ CallAt("play", "start")
        /\ \/ Done /\ Returns(TRUE) /\ queue' = [queue EXCEPT !.plays = @ \/ queue.songs # <<>>]
           \/ Failed(TRUE) /\ Returns(FALSE) /\ UNCHANGED queue

\* Where the sound is in the queue; mpd_run_delete_id() of it
ExtraAt  == {i \in DOMAIN queue.songs : queue.songs[i] = Extra}
DeleteId == \E i \in ExtraAt : queue' = [queue EXCEPT !.songs = RemoveAt(@, i)]

\* rpod_mpd_play_extra(): "addid", "seekid" and "pause", or out with it again.
PlayExtra ==
  /\ UNCHANGED liked
  /\ \/ /\ CallAt("extra", "add")
        /\ \/ Done /\ GoesTo("seek") /\ queue' = [queue EXCEPT !.songs = Append(@, Extra)]
           \/ Lost /\ Returns(FALSE) /\ queue' = [queue EXCEPT !.songs = Append(@, Extra)]
           \/ Failed(TRUE) /\ Returns(FALSE) /\ UNCHANGED queue
     \/ /\ CallAt("extra", "seek") /\ UNCHANGED queue
        /\ (Done /\ GoesTo("unpause")) \/ (Failed(TRUE) /\ GoesTo("remove"))
     \/ /\ CallAt("extra", "unpause")
        /\ \/ Done /\ Returns(TRUE) /\ queue' = [queue EXCEPT !.plays = TRUE]
           \/ Failed(TRUE) /\ GoesTo("remove") /\ UNCHANGED queue
     \/ /\ CallAt("extra", "remove") /\ Returns(FALSE)
        /\ (Done /\ DeleteId) \/ (Failed(ExtraAt = {}) /\ UNCHANGED queue)

\* rpod_mpd_delete_id(), when whoever borrowed playback gives it back
TakeOut ==
  /\ CallAt("extra", "done") /\ call.ok
  /\ (Done /\ DeleteId) \/ (Failed(ExtraAt = {}) /\ UNCHANGED queue)
  /\ call' = NoCall /\ UNCHANGED liked
-----------------------------------------------------------------------------
Places == {i \in DOMAIN liked.list : liked.list[i] = call.song}

\* rpod_playlist_liked_toggle() asks rpod_mpd_playlist_contains(), to which a
\* listing that fails is one without the song.
LookUp ==
  /\ CallAt("toggle", "look") /\ UNCHANGED <<liked, queue>>
  /\ \/ liked.exists /\ Done /\ GoesTo(IF Places # {} THEN "list" ELSE "add")
     \/ Failed(~liked.exists) /\ GoesTo("add")

\* row_click_cb() of the picker goes by what its row shows, which may be old.
PickerClick == \E t \in Tracks : Begins("pick", "list", t) \/ Begins("pick", "add", t)

\* rpod_mpd_playlist_add_song(); MPD makes the playlist if there is none.
Add ==
  /\ call.at = "add" /\ call.name # "extra" /\ UNCHANGED queue
  /\ \/ /\ Len(liked.list) < MaxLiked /\ (Done \/ Lost)
        /\ liked' = [exists |-> TRUE, list |-> Append(liked.list, call.song)]
        /\ call' = [call EXCEPT !.at = "done", !.ok = up', !.in = TRUE]
     \/ Failed(TRUE) /\ Returns(FALSE) /\ UNCHANGED liked

\* rpod_mpd_playlist_remove_song(): the listing, a failure of which is success...
List ==
  /\ call.at = "list" /\ UNCHANGED <<liked, queue>>
  /\ \/ liked.exists /\ Done /\ call' = [call EXCEPT !.at = "delete", !.found = Places]
     \/ Failed(~liked.exists) /\ Returns(TRUE)

NextPlaceUp ==  \* Mutant: from its first position on.
  CHOOSE i \in call.found : \A k \in call.found : i <= k

\* ... and its positions, from the last one back.
NextPlace == CHOOSE i \in call.found : \A k \in call.found : k <= i
Delete ==
  /\ call.at = "delete" /\ UNCHANGED queue
  /\ \/ call.found = {} /\ Returns(TRUE) /\ UNCHANGED <<link, up, liked, past, mpdcount>>
     \/ /\ call.found # {} /\ NextPlace \in DOMAIN liked.list
        /\ liked' = [liked EXCEPT !.list = RemoveAt(@, NextPlace)]
        /\ \/ Done /\ call' = [call EXCEPT !.found = @ \ {NextPlace}]
           \/ Lost /\ Returns(FALSE)
     \/ /\ call.found # {} /\ Failed(NextPlace \notin DOMAIN liked.list)
        /\ Returns(FALSE) /\ UNCHANGED liked
-----------------------------------------------------------------------------
\* MPD ends, and is started again; its queue comes back from its state file.
MpdEnds == up /\ MayEnd /\ UNCHANGED <<liked, queue, call>>
ComesUp == ~up /\ up' = TRUE /\ UNCHANGED <<link, liked, queue, call, past, mpdcount>>

\* Another client: the first song out of the playlist, or the queue emptied.
Meddles ==
  /\ up /\ mpdcount.meddling < MaxMeddling /\ mpdcount' = [mpdcount EXCEPT !.meddling = @ + 1]
  /\ \/ liked.list # <<>> /\ liked' = [liked EXCEPT !.list = Tail(@)] /\ UNCHANGED queue
     \/ queue.songs # <<>> /\ queue' = [songs |-> <<>>, plays |-> FALSE] /\ UNCHANGED liked
  /\ Happened("meddled") /\ UNCHANGED <<link, up, call>>

Calls ==
  \/ Begins("read", "ask", Extra) \/ Begins("status", "ask", Extra) \/ Begins("play", "queue", Extra)
  \/ ExtraAt = {} /\ Begins("extra", "add", Extra)
  \/ (\E t \in Tracks : Begins("toggle", "look", t)) \/ PickerClick

ClientNext ==
  \/ Calls \/ AskOne \/ Status \/ PlaySongs \/ PlayExtra \/ TakeOut
  \/ LookUp \/ Add \/ List \/ Delete
  \/ MpdEnds \/ ComesUp \/ Meddles
-----------------------------------------------------------------------------
ClientTypes ==
  /\ link \in {"ok", "error", "gone"} /\ up \in BOOLEAN
  /\ Len(liked.list) <= MaxLiked /\ call.found \subseteq 1..MaxLiked

\* No failure wedges the connection: a call that has MPD there all along leaves
\* it usable, also one that found it broken; and a call fails only for a reason
\* of its own, so an end of MPD costs one call.
Recovers ==
  call.at = "done" =>
    /\ link # "error"
    /\ ~past.was.away => link = "ok"
    /\ ~call.ok => past.was.away \/ past.was.gone \/ past.was.refused

\* The songs of two lists but `song' are the same, in the same order.
SameBut(song, l, m) ==
  LET others(x) == {i \in DOMAIN x : x[i] # song} IN
  \E f \in Bijection(others(l), others(m)) :
     /\ \A i \in others(l) : m[f[i]] = l[i]
     /\ \A i, j \in others(l) : i < j => f[i] < f[j]

\* A song liked or unliked is so, once, and no other song is touched: unless MPD
\* or the connection was gone (a listing that fails says "not in it"), or
\* another client changed the playlist meanwhile.
LikesTrue ==
  ~past.was.meddled /\ call.name \in {"toggle", "pick"} =>
    LET was == \E i \in DOMAIN past.before : past.before[i] = call.song
    IN  /\ SameBut(call.song, liked.list, past.before)
        /\ call.at = "done" /\ call.ok /\ ~past.was.away /\ ~past.was.gone
             => /\ call.in = (Places # {})
                /\ call.name = "toggle" => call.in = ~was

\* What was to be played is what plays, all of it; and a sound that could not be
\* started is out of the queue again, unless MPD went with it.
PlaysWhole ==
  ~past.was.meddled /\ call.at = "done" =>
    /\ call.name = "play" /\ call.ok => queue = [songs |-> Album, plays |-> TRUE]
    /\ call.name = "extra" /\ ~call.ok /\ ~past.was.away
         => ExtraAt = {}

ClientSpec == ClientInit /\ [][ClientNext]_clientVars

\* A call leaves the connection to MPD usable, and an end of MPD costs one call
\* (mpd_client.c).
CallsRecover == ClientTypes /\ Recovers

\* A song liked or unliked is so, once, and what was to be played plays whole
\* (mpd_client.c, playlist_membership.c, playlist_picker.c).
ResultsTrue == LikesTrue /\ PlaysWhole
=============================================================================
