----------------------------- MODULE VideoJobs -----------------------------
(***************************************************************************)
(* The conversion queue of rpod-web (src/web/videos.c): requests queue and *)
(* cancel jobs, one worker converts them in a child process, and a job is  *)
(* kept on disk by two hidden files, the upload (.rpod-source-<n>) and its *)
(* job file beside it, from which a restart takes it up again.             *)
(* Each section under g.lock is one step; the work between two of them     *)
(* (the child running, the video put in place, the files removed) is a     *)
(* place of the worker.  A crash may come at any of these places and also  *)
(* between the two files of one job being made or removed.  The worker     *)
(* tries one name after the other for a video, without the lock, while     *)
(* requests (api.c) delete and rename the videos there.                    *)
(*                                                                         *)
(* The file system takes RENAME_NOREPLACE; the fallback without it is in   *)
(* Library.  Posters are left out.                                         *)
(***************************************************************************)
EXTENDS Integers, Sequences, FiniteSets, SequencesExt

CONSTANTS Targets,     \* names a video is to have, without " 2", " 3"...
          MaxCopies,   \* bound: the 99 of install()
          MaxJobs,     \* MAX_JOBS
          MaxUploads,  \* bound: uploads handed over in a behaviour
          MaxTrouble,  \* bound: crashes of rpod-web, and videos renamed or deleted
          SamePid      \* the process id may come round again after a restart

None    == 0    \* no such file, no such name
Part    == -1   \* the output of a conversion not finished

ASSUME VideoAssumption ==
  /\ None \notin Targets
  /\ MaxCopies \in Nat \ {0} /\ MaxJobs \in Nat \ {0}
  /\ MaxUploads \in Nat /\ MaxTrouble \in Nat /\ SamePid \in BOOLEAN

Uploads == 1..MaxUploads
Names   == (0..MaxTrouble) \X (0..MaxUploads)  \* .rpod-source-<pid>-<seq>
Finals  == Targets \X (1..MaxCopies)           \* <<t, 1>> is t, <<t, 2>> "t 2"
NoJob   == [target |-> None, overwrite |-> FALSE]
Asks    == [target : Targets, overwrite : BOOLEAN]

VARIABLES
  src,      \* the uploads on disk, by name
  jobfile,  \* the job files on disk, by name of their upload
  videos,   \* the videos in the folder
  out,      \* .rpod-convert-<id>.mp4 of the job under way
  pid, seq, \* what the next source name is made of
  jobs, nextId,  \* g.jobs, g.next_id
  converter, \* the worker: "off", "idle", "spawn", "follow", "install", "cleanup", "settle"
  cur,      \* id of the job in run()
  attempt,  \* install()'s n, 1 for the name without one
  good,     \* run()'s ok
  child,    \* rpod-convert: "none", "running", "ok", "failed"
  copy,     \* the upload the child reads
  nextUpload, crashes,
  hands,    \* how many videos have been renamed and deleted
  asked,    \* history: what each accepted upload was to become
  ended,    \* history: uploads whose job failed or was cancelled
  installs, \* history: how often each upload was put in place
  cut,      \* history: uploads in place whose files a crash left
  byHand    \* history: names whose video got them by a rename

folder  == <<src, jobfile, videos, out>>
work    == <<converter, cur, attempt, good, child, copy>>
history == <<asked, ended, installs, cut, byHand>>
jobVars == <<src, jobfile, videos, out, pid, seq, jobs, nextId, converter, cur, attempt, good,
             child, copy, nextUpload, crashes, hands, asked, ended, installs, cut, byHand>>

Up == converter # "off"
Active(j) == j.state \in {"waiting", "converting"}
JobAt == CHOOSE i \in DOMAIN jobs : jobs[i].id = cur
Job == jobs[JobAt]

\* The places of some of the jobs of js, in order.
Selections(js) ==
  {kept \in UNION {[1..n -> DOMAIN js] : n \in 0..Len(js)} :
     \A i, k \in DOMAIN kept : i < k => kept[i] < kept[k]}

\* prune(): a cancelled job goes as soon as it has failed, another finished
\* one when its time is up, which may be now or not.
Pruned(js) ==
  {[i \in DOMAIN kept |-> js[kept[i]]] :
     kept \in {at \in Selections(js) :
                 /\ \A k \in DOMAIN js : Active(js[k]) => k \in Range(at)
                 /\ \A i \in DOMAIN at :
                      ~(js[at[i]].state = "failed" /\ js[at[i]].cancelled)}}

NewJob(id, name, ask, u) ==
  [id |-> id, source |-> name, target |-> ask.target, overwrite |-> ask.overwrite,
   state |-> "waiting", pid |-> FALSE, cancelled |-> FALSE, upload |-> u]

JobsInit ==
  /\ src = [n \in Names |-> None] /\ jobfile = [n \in Names |-> NoJob]
  /\ videos = [f \in Finals |-> None] /\ out = None
  /\ pid = 0 /\ seq = 0 /\ jobs = <<>> /\ nextId = 1
  /\ converter = "off" /\ cur = 0 /\ attempt = 1 /\ good = FALSE /\ child = "none" /\ copy = None
  /\ nextUpload = 1 /\ crashes = 0 /\ hands = 0
  /\ asked = [u \in Uploads |-> NoJob] /\ installs = [u \in Uploads |-> 0]
  /\ ended = {} /\ cut = {} /\ byHand = {}
-----------------------------------------------------------------------------
\* The jobs whose two files are there, and recover()'s list of them, in
\* whatever order readdir() gives them.
Recoverable == {n \in Names : jobfile[n] # NoJob /\ src[n] # None}
TakeUp ==
  /\ \E order \in SetToSeqs(Recoverable) :
       jobs' = [i \in 1..Len(order) |->
                  NewJob(i, order[i], jobfile[order[i]], src[order[i]])]
  /\ nextId' = Cardinality(Recoverable) + 1
OnlyOf(files, kept, none) == [n \in Names |-> IF n \in kept THEN files[n] ELSE none]

RecoverDropsUploads ==  \* Mutant: the second pass takes every upload for a stray.
  /\ TakeUp /\ src' = OnlyOf(src, {}, None) /\ out' = None
  /\ jobfile' = OnlyOf(jobfile, Recoverable, NoJob)

\* recover(): takes up the jobs; every other hidden file goes.
Recover ==
  /\ TakeUp /\ src' = OnlyOf(src, Recoverable, None) /\ out' = None
  /\ jobfile' = OnlyOf(jobfile, Recoverable, NoJob)

\* rpod_videos_start() in a new process.
Restart ==
  /\ ~Up /\ converter' = "idle"
  /\ Recover
  /\ pid' \in IF SamePid THEN 0..crashes ELSE {crashes}
  /\ seq' = 0
  /\ UNCHANGED <<videos, cur, attempt, good, child, copy, nextUpload, crashes,
                 hands, history>>

Room(js) == Len(js) < MaxJobs

\* rpod_videos_queue(): the upload gets its job's name and a job file, or is
\* thrown away: the list is full, or one of the two files can't be made.
Queue(ask) ==
  LET name == <<pid, seq>>  u == nextUpload IN
  /\ Up /\ nextUpload \in Uploads /\ nextUpload' = nextUpload + 1 /\ seq' = seq + 1
  /\ \E js \in Pruned(jobs) :
       \/ /\ Room(js)
          /\ src' = [src EXCEPT ![name] = u]
          /\ jobfile' = [jobfile EXCEPT ![name] = ask]
          /\ jobs' = Append(js, NewJob(nextId, name, ask, u)) /\ nextId' = nextId + 1
          /\ asked' = [asked EXCEPT ![u] = ask]
       \/ /\ jobs' = js /\ src' = [src EXCEPT ![name] = None]
          /\ \/ UNCHANGED nextId
             \/ Room(js) /\ nextId' = nextId + 1
          /\ UNCHANGED <<jobfile, asked>>
  /\ UNCHANGED <<videos, out, pid, work, crashes, hands, ended, installs, cut, byHand>>

\* remove_job_files() of a job.
RemoveFiles(j) ==
  /\ src' = [src EXCEPT ![j.source] = None]
  /\ jobfile' = [jobfile EXCEPT ![j.source] = NoJob]

\* rpod_videos_cancel(): a waiting job goes at once; the child of the one
\* under way is killed, and the worker cleans up.
Cancel(i) ==
  LET stopped == [jobs EXCEPT ![i].cancelled = TRUE] IN
  /\ Up /\ Active(jobs[i])
  /\ IF jobs[i].state = "waiting"
     THEN /\ RemoveFiles(jobs[i])
          /\ jobs' \in Pruned([stopped EXCEPT ![i].state = "failed"])
          /\ ended' = ended \union {jobs[i].upload}
          /\ UNCHANGED child
     ELSE /\ jobs' = stopped
          /\ child' = IF jobs[i].pid /\ child = "running" THEN "failed" ELSE child
          /\ UNCHANGED <<src, jobfile, ended>>
  /\ UNCHANGED <<videos, out, pid, seq, nextId, converter, cur, attempt, good, copy, nextUpload,
                 crashes, hands, asked, installs, cut, byHand>>

\* rpod_videos_clear_finished(), or prune() when the jobs are listed.
Forget ==
  /\ Up /\ jobs' \in Pruned(jobs)
  /\ UNCHANGED <<folder, pid, seq, nextId, work, nextUpload, crashes,
                 hands, history>>
\* post_video_delete() and post_video_rename(), by rpod_lib_rename(), on any
\* connection's thread and without g.lock.
OnlyVideos ==
  /\ crashes + hands < MaxTrouble /\ hands' = hands + 1
  /\ UNCHANGED <<src, jobfile, out, pid, seq, jobs, nextId, work, nextUpload, crashes,
                 asked, ended, installs, cut>>
DeleteVideo(f) ==
  /\ Up /\ videos[f] # None
  /\ videos' = [videos EXCEPT ![f] = None] /\ byHand' = byHand \ {f} /\ OnlyVideos
RenameVideo(f, h) ==
  /\ Up /\ videos[f] # None /\ videos[h] = None
  /\ videos' = [videos EXCEPT ![f] = None, ![h] = videos[f]]
  /\ byHand' = (byHand \ {f}) \union {h} /\ OnlyVideos
-----------------------------------------------------------------------------
PickHead ==  \* Mutant: a job waits for the one before it to be over.
  /\ converter = "idle"
  /\ \E i \in DOMAIN jobs :
       /\ jobs[i].state = "waiting"
       /\ \A k \in 1..i-1 : ~Active(jobs[k])
       /\ jobs' = [jobs EXCEPT ![i].state = "converting"]
       /\ cur' = jobs[i].id
  /\ converter' = "spawn"
  /\ UNCHANGED <<folder, pid, seq, nextId, attempt, good, child, copy, nextUpload, crashes,
                 hands, history>>

\* The worker takes the first waiting job.
Pick ==
  /\ converter = "idle"
  /\ \E i \in DOMAIN jobs :
       /\ jobs[i].state = "waiting"
       /\ \A k \in 1..i-1 : jobs[k].state # "waiting"
       /\ jobs' = [jobs EXCEPT ![i].state = "converting"]
       /\ cur' = jobs[i].id
  /\ converter' = "spawn"
  /\ UNCHANGED <<folder, pid, seq, nextId, attempt, good, child, copy, nextUpload, crashes,
                 hands, history>>

\* pipe2() or fork() fails: run() returns, and the job stays "converting".
SpawnFails ==
  /\ converter = "spawn" /\ converter' = "idle"
  /\ jobs' \in Pruned(jobs)
  /\ UNCHANGED <<folder, pid, seq, nextId, cur, attempt, good, child, copy, nextUpload, crashes,
                 hands, history>>

\* The child starts; a cancel that came before its pid was known kills it now.
Spawn ==
  /\ converter = "spawn" /\ converter' = "follow"
  /\ jobs' = [jobs EXCEPT ![JobAt].pid = TRUE]
  /\ copy' = src[Job.source] /\ out' = Part
  /\ child' = IF copy' = None \/ Job.cancelled THEN "failed" ELSE "running"
  /\ UNCHANGED <<src, jobfile, videos, pid, seq, nextId, cur, attempt, good, nextUpload, crashes,
                 hands, history>>

\* rpod-convert finishes its output, or fails.
ChildEnds ==
  /\ child = "running"
  /\ \/ child' = "ok" /\ out' = copy
     \/ child' = "failed" /\ UNCHANGED out
  /\ UNCHANGED <<src, jobfile, videos, pid, seq, jobs, nextId, converter, cur, attempt, good, copy,
                 nextUpload, crashes,
                 hands, history>>

ReapIgnoresStatus ==  \* Mutant: whatever the child left is put in place.
  /\ converter = "follow" /\ child \in {"ok", "failed"}
  /\ jobs' = [jobs EXCEPT ![JobAt].pid = FALSE]
  /\ good' = ~Job.cancelled
  /\ converter' = IF good' THEN "install" ELSE "cleanup"
  /\ child' = "none" /\ copy' = None
  /\ UNCHANGED <<folder, pid, seq, nextId, cur, attempt, nextUpload, crashes,
                 hands, history>>

\* waitpid(), and whether the output is to be put in place (sync_file() may
\* fail too).
Reap ==
  /\ converter = "follow" /\ child \in {"ok", "failed"}
  /\ jobs' = [jobs EXCEPT ![JobAt].pid = FALSE]
  /\ good' \in IF Job.cancelled \/ child = "failed" THEN {FALSE} ELSE BOOLEAN
  /\ converter' = IF good' THEN "install" ELSE "cleanup"
  /\ child' = "none" /\ copy' = None
  /\ UNCHANGED <<folder, pid, seq, nextId, cur, attempt, nextUpload, crashes,
                 hands, history>>

TakesAnyName(f) == TRUE  \* Mutant: a plain rename().

\* Whether the worker's rename to f succeeds: rpod_lib_upload_finish(), which may
\* replace, or rpod_lib_rename_noreplace(), which finds f taken or takes it in one.
TakesName(f) == Job.overwrite \/ videos[f] = None

\* install(), one name after the other, the folder being anybody's in between;
\* each rename may also fail, and all names may be taken.
Install ==
  LET f == <<Job.target, attempt>> IN
  /\ converter = "install"
  /\ \/ /\ TakesName(f) /\ converter' = "cleanup" /\ attempt' = 1
        /\ videos' = [videos EXCEPT ![f] = out] /\ out' = None
        /\ byHand' = byHand \ {f}
        /\ installs' = [installs EXCEPT ![Job.upload] = @ + 1]
        /\ UNCHANGED good
     \/ /\ ~TakesName(f) /\ attempt < MaxCopies /\ attempt' = attempt + 1
        /\ UNCHANGED <<converter, videos, out, byHand, installs, good>>
     \/ /\ converter' = "cleanup" /\ attempt' = 1
        /\ good' = FALSE /\ out' \in {None, out} /\ UNCHANGED <<videos, byHand, installs>>
  /\ UNCHANGED <<src, jobfile, pid, seq, jobs, nextId, cur, child, copy, nextUpload,
                 crashes, hands, asked, ended, cut>>

\* remove_job_files() in run().
Cleanup ==
  /\ converter = "cleanup" /\ converter' = "settle"
  /\ RemoveFiles(Job) /\ out' = None
  /\ ended' = IF good THEN ended ELSE ended \union {Job.upload}
  /\ UNCHANGED <<videos, pid, seq, jobs, nextId, cur, attempt, good, child, copy, nextUpload,
                 crashes, hands, asked, installs, cut, byHand>>

\* The job is done or failed, and the worker's loop prunes.
Settle ==
  /\ converter = "settle" /\ converter' = "idle"
  /\ jobs' \in Pruned([jobs EXCEPT ![JobAt].state = IF good THEN "done" ELSE "failed"])
  /\ UNCHANGED <<folder, pid, seq, nextId, cur, attempt, good, child, copy, nextUpload, crashes,
                 hands, history>>
-----------------------------------------------------------------------------
\* The files of a job whose removal, or making, a crash can cut in two: the
\* upload is there without its job file, or the job file without its upload.
Halfway ==
  \/ \E i \in DOMAIN jobs :
       /\ jobs[i].state = "waiting" \/ (converter = "cleanup" /\ jobs[i].id = cur)
       /\ src' = [src EXCEPT ![jobs[i].source] = None]
       /\ ended' = IF converter = "cleanup" /\ jobs[i].id = cur /\ good
                   THEN ended ELSE ended \union {jobs[i].upload}
  \/ /\ nextUpload \in Uploads /\ Room(jobs)
     /\ src' = [src EXCEPT ![<<pid, seq>>] = nextUpload]
     /\ UNCHANGED ended

\* rpod-web stops, and systemd stops what it had started.
Die ==
  /\ Up /\ crashes + hands < MaxTrouble /\ crashes' = crashes + 1
  /\ Halfway \/ UNCHANGED <<src, ended>>
  /\ cut' = IF converter = "cleanup" /\ good THEN cut \union {Job.upload} ELSE cut
  /\ converter' = "off" /\ cur' = 0 /\ attempt' = 1 /\ good' = FALSE
  /\ child' = "none" /\ copy' = None
  /\ jobs' = <<>> /\ nextId' = 1 /\ seq' = 0
  /\ UNCHANGED <<jobfile, videos, out, pid, nextUpload, hands, asked, installs, byHand>>

Api ==
  \/ (\E ask \in Asks : Queue(ask)) \/ (\E i \in DOMAIN jobs : Cancel(i)) \/ Forget
  \/ (\E f \in Finals : DeleteVideo(f)) \/ (\E f, h \in Finals : RenameVideo(f, h))
Converter == Pick \/ SpawnFails \/ Spawn \/ Reap \/ Install \/ Cleanup \/ Settle
JobsNext == Restart \/ Api \/ Converter \/ ChildEnds \/ Die

\* systemd restarts rpod-web, its thread runs, and a conversion comes to an end.
JobsSpec == JobsInit /\ [][JobsNext]_jobVars
JobsFairSpec == JobsSpec /\ WF_jobVars(Restart) /\ WF_jobVars(Converter) /\ WF_jobVars(ChildEnds)
-----------------------------------------------------------------------------
\* Types, and the bound on the list of jobs.
JobsTypeOK ==
  /\ src \in [Names -> Uploads \union {None}]
  /\ jobfile \in [Names -> Asks \union {NoJob}]
  /\ videos \in [Finals -> Uploads \union {None, Part}]
  /\ out \in Uploads \union {None, Part} /\ copy \in Uploads \union {None}
  /\ Len(jobs) <= MaxJobs
  /\ \A i, k \in DOMAIN jobs : jobs[i].id = jobs[k].id => i = k
  /\ converter \in {"idle", "off"} \/ \E i \in DOMAIN jobs : jobs[i].id = cur

\* An upload taken is on disk as a job a restart would take up, or has become
\* a video, or its job failed or was cancelled: through every crash.
UploadKept ==
  \A u \in Uploads : asked[u] # NoJob =>
    \/ u \in ended \/ installs[u] > 0
    \/ \E n \in Names : src[n] = u /\ jobfile[n] = asked[u]

\* A video is a whole conversion of an upload, one that was to have its name if
\* the name is not from a rename.
VideosAsAsked ==
  \A f \in Finals : videos[f] # None => /\ videos[f] \in Uploads
                                        /\ f \in byHand \/ asked[videos[f]].target = f[1]

\* A video is replaced by an upload that was allowed to, and else by none, nor by
\* a rename: whatever is renamed and deleted while install() tries its names.
ReplacedOnlyIfAsked ==
  [][\A f \in Finals : videos[f] # None /\ videos'[f] \notin {videos[f], None}
       => asked[videos'[f]].overwrite /\ f \notin byHand']_jobVars

\* An upload becomes a video twice only if a crash came after the first one
\* was in place and before its job's files were gone.
TwiceOnlyIfCut == \A u \in Uploads : installs[u] > 1 => u \in cut

\* With nothing waiting or under way, no hidden file is left in the folder.
NoLitter ==
  converter = "idle" /\ (\A i \in DOMAIN jobs : ~Active(jobs[i]))
    => out = None /\ \A n \in Names : src[n] = None /\ jobfile[n] = NoJob

\* An upload taken is never lost, in a list of jobs that keeps to its cap and in
\* which the worker always finds its own by its id; it becomes one video, unless a
\* crash came right after it was in place; and nothing hidden is left once all is
\* done (videos.c).
UploadsRight == JobsTypeOK /\ UploadKept /\ TwiceOnlyIfCut /\ NoLitter

\* No job waits for ever, also behind one whose child couldn't be started: the
\* uploads being few, there comes a time when none waits.
EveryJobServed ==
  LET waiting == \E i \in DOMAIN jobs : jobs[i].state = "waiting"
  IN  waiting ~> ~waiting
=============================================================================
