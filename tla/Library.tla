------------------------------- MODULE Library -------------------------------
(***************************************************************************)
(* The music library of the web UI (src/web/library.c, with the requests   *)
(* on it in src/web/api.c): uploads into a folder, and renaming and        *)
(* deleting what is there, each request on a thread of its own with no     *)
(* lock but the file system's.  A system call is a step.                   *)
(*                                                                         *)
(* The file system is external: what it says of one folder, `folder', gets *)
(* onto the card in its own time, `card', and is all there is after a      *)
(* power cut.  Of a folder just made, fsync() is taken to put its own name *)
(* there too: put_upload() does not fsync the folder it is in (api.c:662). *)
(***************************************************************************)
EXTENDS Naturals, FiniteSets

CONSTANTS FileNames,  \* names in the folder
          MaxPuts,    \* bound: uploads begun
          MaxChanges, \* bound: renames and deletions
          MaxCuts     \* bound: power cuts

ASSUME LibraryAssumption == {MaxPuts, MaxChanges, MaxCuts} \subseteq Nat

Puts   == 1..MaxPuts
NoFile == 0

VARIABLES
  folder,    \* the folder: which one it is (0: none), its names, the uploads with a
           \* .rpod-upload-*.part in it
  card,    \* the same, as it is on the card
  data,    \* external: what there is of each upload: "none", "some", "all" or "safe"
  puts,    \* put_upload(): the place it is at, its folder, name and `overwrite', its answer
  rm,      \* post_delete() of the folder: its place, the entries it has yet to delete
  noflag,  \* external: the file system doesn't take RENAME_NOREPLACE
  libhist, \* history: uploads deleted or replaced as asked, and those cut off
  libcount

libVars == <<folder, card, data, puts, rm, noflag, libhist, libcount>>

Empty(id) == [id |-> id, names |-> [n \in FileNames |-> NoFile], parts |-> {}]
NewPut    == [at |-> "new", dir |-> 0, name |-> NoFile, over |-> FALSE, answer |-> 0]

LibInit ==
  /\ folder = Empty(1) /\ card = folder /\ data = [u \in Puts |-> "none"]
  /\ puts = [u \in Puts |-> NewPut] /\ rm = [at |-> "idle", files |-> {}, parts |-> {}]
  /\ noflag \in BOOLEAN /\ libhist = [gone |-> {}, cut |-> {}]
  /\ libcount = [changes |-> 0, cuts |-> 0]

Change == libcount.changes < MaxChanges /\ libcount' = [libcount EXCEPT !.changes = @ + 1]
PutAt(u, at) == puts[u].at = at
Goes(u, at) == puts' = [puts EXCEPT ![u].at = at]
Answer(u, status) == puts' = [puts EXCEPT ![u].at = "done", ![u].answer = status]

\* The folder an upload has open is the one that is there.
Open(u) == folder.id # 0 /\ puts[u].dir = folder.id
Taken(n) == folder.names[n] # NoFile
-----------------------------------------------------------------------------
\* put_upload() until the body: a file that can't stay isn't taken, and
\* rpod_lib_upload_begin() makes the folder if need be.
BeginUpload(u, n, over) ==
  /\ PutAt(u, "new") /\ \A v \in Puts : v < u => ~PutAt(v, "new")
  /\ LET asked == [puts[u] EXCEPT !.name = n, !.over = over]
         id == IF folder.id = 0 THEN libcount.changes + 1 ELSE folder.id
     IN  IF ~over /\ folder.id # 0 /\ Taken(n)
         THEN puts' = [puts EXCEPT ![u] = [asked EXCEPT !.at = "done", !.answer = 409]] /\ UNCHANGED folder
         ELSE /\ puts' = [puts EXCEPT ![u] = [asked EXCEPT !.at = "body", !.dir = id]]
              /\ folder' = [IF folder.id = 0 THEN Empty(id) ELSE folder EXCEPT !.parts = @ \union {u}]
  /\ UNCHANGED <<card, data, rm, noflag, libhist, libcount>>

\* receive_body(): some of it, and all of it, ...
Receive(u) ==
  /\ PutAt(u, "body") /\ data[u] \in {"none", "some"}
  /\ data' = [data EXCEPT ![u] = IF @ = "none" THEN "some" ELSE "all"]
  /\ UNCHANGED <<folder, card, puts, rm, noflag, libhist, libcount>>

SkipSync(u) ==  \* Mutant: the name comes before the data is on the card.
  /\ PutAt(u, "body") /\ data[u] = "all" /\ UNCHANGED data /\ Goes(u, "finish")
  /\ UNCHANGED <<folder, card, rm, noflag, libhist, libcount>>

\* ... and onto the card before it has a name.
SyncData(u) ==
  /\ PutAt(u, "body") /\ data[u] = "all" /\ data' = [data EXCEPT ![u] = "safe"] /\ Goes(u, "finish")
  /\ UNCHANGED <<folder, card, rm, noflag, libhist, libcount>>

\* The .part goes; nothing happens if its folder has.
Unpart(u) == IF Open(u) THEN [folder EXCEPT !.parts = @ \ {u}] ELSE folder

\* The browser went away (499), or the card is full or fails.
Break(u, status) ==
  /\ PutAt(u, "body") /\ status \in {499, 507} /\ folder' = Unpart(u) /\ Answer(u, status)
  /\ UNCHANGED <<card, data, rm, noflag, libhist, libcount>>

\* A .part gets its name.
Named(u) == [folder EXCEPT !.parts = @ \ {u}, !.names[puts[u].name] = u]
Replaces(n) == libhist' = [libhist EXCEPT !.gone = @ \union ({folder.names[n]} \ {NoFile})]
-----------------------------------------------------------------------------
LookFirst == FALSE  \* Mutant: a look before, and a rename that replaces.
\* rpod_lib_rename_noreplace(): is it one call?
OneCall == ~noflag

\* rpod_lib_upload_finish(), with rpod_lib_rename_noreplace(): one call, or a
\* look and a rename where the file system doesn't take the flag.
FinishUpload(u) ==
  /\ PutAt(u, "finish")
  /\ LET n == puts[u].name
         part == Open(u) /\ u \in folder.parts
     IN  \/ ~part /\ Answer(u, 500) /\ folder' = Unpart(u) /\ UNCHANGED libhist
         \/ part /\ OneCall /\ ~Taken(n) /\ folder' = Named(u) /\ Goes(u, "named") /\ UNCHANGED libhist
         \/ part /\ ~OneCall /\ ~Taken(n) /\ Goes(u, "looked") /\ UNCHANGED <<folder, libhist>>
         \/ part /\ Taken(n) /\ puts[u].over /\ Goes(u, "over") /\ UNCHANGED <<folder, libhist>>
         \/ part /\ Taken(n) /\ ~puts[u].over /\ Answer(u, 409) /\ folder' = Unpart(u) /\ UNCHANGED libhist
  /\ UNCHANGED <<card, data, rm, noflag, libcount>>

\* renameat(): after the look, or over a plain file when asked to.
RenameOver(u) ==
  /\ puts[u].at \in {"looked", "over"}
  /\ IF Open(u) /\ u \in folder.parts
     THEN folder' = Named(u) /\ Goes(u, "named") /\ Replaces(puts[u].name)
     ELSE folder' = Unpart(u) /\ Answer(u, 500) /\ UNCHANGED libhist
  /\ UNCHANGED <<card, data, rm, noflag, libcount>>

\* With `overwrite', what had the name may be gone when it is looked at again.
OverGone(u) ==
  /\ PutAt(u, "over") /\ Open(u) /\ ~Taken(puts[u].name) /\ folder' = Unpart(u) /\ Answer(u, 409)
  /\ UNCHANGED <<card, data, rm, noflag, libhist, libcount>>


\* fsync() of the folder, and the answer
SyncFolder(u) ==
  /\ PutAt(u, "named") /\ card' = (IF Open(u) THEN folder ELSE card) /\ Answer(u, 201)
  /\ UNCHANGED <<folder, data, rm, noflag, libhist, libcount>>
-----------------------------------------------------------------------------
\* post_rename() of a file: its look and its rename are one step here.
Rename(from, to) ==
  /\ folder.id # 0 /\ from # to /\ Taken(from) /\ ~Taken(to) /\ Change
  /\ folder' = [folder EXCEPT !.names[to] = folder.names[from], !.names[from] = NoFile]
  /\ UNCHANGED <<card, data, puts, rm, noflag, libhist>>

\* post_delete() of a file
DeleteFile(n) ==
  /\ folder.id # 0 /\ Taken(n) /\ Change /\ Replaces(n) /\ folder' = [folder EXCEPT !.names[n] = NoFile]
  /\ UNCHANGED <<card, data, puts, rm, noflag>>

\* post_delete() of the folder, remove_at(): the entries it reads, one by one,
\* and the folder, if nothing has come in meanwhile.
Walk ==
  /\ rm.at = "idle" /\ folder.id # 0 /\ Change
  /\ rm' = [at |-> "walk", files |-> {n \in FileNames : Taken(n)}, parts |-> folder.parts]
  /\ UNCHANGED <<folder, card, data, puts, noflag, libhist>>
WalkOn ==
  /\ rm.at = "walk"
  /\ \/ \E n \in rm.files :
          /\ rm' = [rm EXCEPT !.files = @ \ {n}, !.at = IF Taken(n) THEN @ ELSE "idle"]
          /\ Replaces(n) /\ folder' = [folder EXCEPT !.names[n] = NoFile]
     \/ \E u \in rm.parts :
          /\ rm' = [rm EXCEPT !.parts = @ \ {u}, !.at = IF u \in folder.parts THEN @ ELSE "idle"]
          /\ folder' = [folder EXCEPT !.parts = @ \ {u}] /\ UNCHANGED libhist
     \/ /\ rm.files = {} /\ rm.parts = {} /\ rm' = [rm EXCEPT !.at = "idle"] /\ UNCHANGED libhist
        /\ folder' = IF folder.parts = {} /\ (\A n \in FileNames : ~Taken(n)) THEN Empty(0) ELSE folder
  /\ UNCHANGED <<card, data, puts, noflag, libcount>>
-----------------------------------------------------------------------------
\* The folder gets onto the card when the kernel sees fit: of interest as long as
\* the power may go.
WriteBack ==
  /\ libcount.cuts < MaxCuts /\ card # folder /\ card' = folder
  /\ UNCHANGED <<folder, data, puts, rm, noflag, libhist, libcount>>

\* The power goes: what is on the card is left, and what was not safe is short.
PowerCut ==
  /\ libcount.cuts < MaxCuts /\ libcount' = [libcount EXCEPT !.cuts = @ + 1]
  /\ folder' = card /\ data' = [u \in Puts |-> IF data[u] = "all" THEN "some" ELSE data[u]]
  /\ puts' = [u \in Puts |-> IF puts[u].at \in {"new", "done"} THEN puts[u]
                             ELSE [puts[u] EXCEPT !.at = "done"]]
  /\ libhist' = [libhist EXCEPT !.cut = @ \union {u \in Puts : puts[u].at \notin {"new"}}]
  /\ rm' = [at |-> "idle", files |-> {}, parts |-> {}] /\ UNCHANGED <<card, noflag>>

LibNext ==
  \/ \E u \in Puts :
       \/ \E n \in FileNames, over \in BOOLEAN : BeginUpload(u, n, over)
       \/ Receive(u) \/ SyncData(u) \/ (\E status \in {499, 507} : Break(u, status))
       \/ FinishUpload(u) \/ RenameOver(u) \/ OverGone(u) \/ SyncFolder(u)
  \/ (\E from, to \in FileNames : Rename(from, to)) \/ (\E n \in FileNames : DeleteFile(n))
  \/ Walk \/ WalkOn \/ WriteBack \/ PowerCut

LibSpec == LibInit /\ [][LibNext]_libVars
-----------------------------------------------------------------------------
\* What has a name is whole, also after a power cut; and what was answered 201
\* is there until a request deletes or replaces it.
Visible(u) == \E n \in FileNames : folder.names[n] = u
WholeByName == \A u \in Puts : Visible(u) => data[u] \in {"all", "safe"}
KeptWhenTold == \A u \in Puts : puts[u].answer = 201 => Visible(u) \/ u \in libhist.gone

\* An upload that was refused or broke off leaves nothing, and a .part is of a
\* request under way or one that a power cut ended.
RefusedLeavesNothing ==
  \A u \in Puts : puts[u].at = "done" /\ u \notin libhist.cut =>
    u \notin folder.parts /\ (puts[u].answer # 201 => ~Visible(u))

\* What has a name in the library is whole, what was answered 201 is there
\* through a power cut, and what was refused or broke off left nothing (api.c,
\* library.c).
LibraryKept == WholeByName /\ KeptWhenTold /\ RefusedLeavesNothing

\* Without `overwrite' an upload replaces nothing, but for one of the same name
\* that came between look and rename where the file system has no better (library.c).
ReplacesOnlyIfAsked ==
  [][\A n \in FileNames : folder.names[n] # NoFile /\ folder'.names[n] \notin {NoFile, folder.names[n]}
       => noflag \/ puts[folder'.names[n]].over \/ libcount'.cuts # libcount.cuts]_libVars
=============================================================================
