# rPod, modelled

TLA+ modules, TLC runs and machine-checked proofs about rPod, a music player
(LVGL user interface, MPD for the sound, a click wheel daemon, a web server).
Every definition is translated from the C source; `PROJECT.json` names the lines
each one stands for.

## The system

Four processes:

* **rpod** (`src/src/`) - one LVGL thread with timers and callbacks, and worker
  threads beside it: the ListenBrainz worker, the cover loader and decoders, the
  sinks' worker and follower, the Home Assistant worker, the video decoder, the
  Bluetooth client's D-Bus pump. MPD (a separate program) holds the queue, the
  play state and the volume.
* **rpod-web** (`src/web/`) - a threaded HTTP server, one conversion worker, and
  `rpod-convert` as its child.
* **rpod-wheel** (`src/daemon/`) - decodes the wheel and hands events to at most
  eight clients over a socket.
* **rpod-splash** - a picture during the boot.

systemd restarts `rpod` and `rpod-web` when they fail
(`src/system/systemd/*.service`, `Restart=on-failure`).

### Inventory

| Component | State | Operations | Hard because | Right if |
|---|---|---|---|---|
| ListenBrainz outbox (`audio/listenbrainz.c`) | queue file, ring of pings, token, worker | submit, ping, set token, flush | POSTs run unlocked between a copy of the file and a removal by count; rewrites truncate; stop joins the worker | nothing lost, reordered or repeated without cause; stop ends; all is sent in the end |
| Scrobbler (`audio/scrobbler.c`) | song being played, state file | poll | crash between submission and state file | each play counts once |
| Video jobs (`web/videos.c`) | job list, two hidden files per job, child | queue, cancel, clear, recover, run | crash at any point, cancel at any point, names made of pid and counter | no upload lost; videos as asked; no starvation; no litter |
| Cover cache (`ui/cover_cache.c`) | entries, disk tiles, `noart`, prewarm list | get, settle, poll, load, decode, scan | three threads and the UI share one queue; MPD may be out of reach | one owner; exact counts; every request resolved and told |
| Volume memory (`audio/volume_memory.c`) | level per device, its file, the duck | poll, switch, duck | two duckers that do not know of each other, the hand, switches, MPD failing, crashes | the device's own level is neither lost nor overwritten by a lowered one |
| Alarm (`ui/alarm.c`) | settings and their file, ringing, fade, snooze | check, go off, snooze, stop, dismiss, fade, set | its fade is a duck; the minute lasts sixty checks, and clocks are set | rings in its minute, once; fades to the level before; stops when turned |
| AirPods (`audio/airpods.c`, `aap.c`) | link, settings, ears, duck | connect, packets, bt change | reconnects, ear detection pausing MPD | resumes only what it paused |
| Sinks (`audio/sinks.c`) | selection, running worker, published list | select, refresh, worker, follow | coalesced requests, a worker that ends by itself, MPD's outputs with a mixer each | one of headset and speakers is fed, the last selection wins |
| MPD client (`audio/mpd_client.c`), playlists (`ui/playlist_membership.c`, `playlist_picker.c`) | connection, the error it keeps | every command, likes | MPD ends between the commands of one call; positions move under a deletion | the connection recovers; a like is so, once; the queue is left as it was |
| Bluetooth (`audio/bluetooth.c`) | devices, calls under way | connect, pair, autoconnect | late answers to old calls | a late answer changes nothing |
| Home Assistant (`ha/ha.c`) | job queue of 16, entities, generation | activate, refresh, worker | optimistic state against replies | the confirmed state wins in the end |
| Input (`input/*.c`) and wheel daemon (`daemon/rpod-wheel.c`) | buttons down, framing, clients | feed, tick, packets, connect | holds, sleep, lost connection, wrap of the ring | each press is let go of once; a seek that starts stops |
| Video player (`video/*.c`) | frame slots, seek generation | seek, decode, present | seeks against frames in hand | no old frame after a seek; the end is the end |
| Screen stack (`ui/screens/screen_stack.c`) | frames, groups, overlay | push, pop, rebuild | nested calls from callbacks | depth, screen and group agree |
| Control socket (`ui/control.c`) | four clients | accept, serve | clients that say nothing | all are served in the end |
| Web server (`web/rpod_web.c`), Auto-Off (`ui/shutdown.c`) | eight places, what counts as use, the idle clock | connections, reports, looks | a report a minute that may be lost, against a clock in another process | not off while in use, off when left alone |
| Library (`web/library.c`, `web/api.c`) | the music folder and its card | upload, rename, delete | a thread per request, no lock but the file system's; power cuts | names are of whole files; what was answered stays |
| Battery (`power/gauge.c`, `battery.c`, `app.c`) | average, level, how long it has been low; what was warned of | read, deliver, warn, power off | readings wander, the charger lifts them, power comes and goes between a reading and its delivery | a level near the truth; off when empty and only then; each warning once |
| Cover art (`ui/cover_art.c`) | two rows, an accumulator | unfilter, add, finish | in-place undoing, integer division, any shape | the picture, averaged; never a division by zero |
| Sleep timer, backlight | timers | | they meet the buttons and each other | dark and off when they say, and not again |
| Games, screens and widgets | timers and drawing | | little concurrency | |

Interactions: the alarm and the AirPods call the volume memory; the sinks decide
which device it follows; the scrobbler calls the outbox; the screens call the
cover cache, whose watchers call them; the web API calls the job queue and, over
the control socket, rpod. `PROJECT.json` lists the hazards of all of these at
their lines, with the properties that catch them or why none does yet.

## Plan

Ordered by how much a user would lose; all of these are written:

1. `ListenOutbox`, `ListenQueue` - scrobbles, with the first proofs.
2. `VideoJobs` - uploads; `CoverCache` - the largest piece of threading.
3. `SoundLevel` - volume memory with alarm and AirPods composed.
4. `Sinks` and `VideoDecoder` - who is owed an answer by a thread.
5. `Gestures`, `ClickWheel` - daemon, socket and gestures composed; `HaQueue`,
   `Scrobbler`, `Screens`, `ControlSocket`, `Bluetooth`, `EarBuds`.
6. `MpdClient`, `Library`, `AutoOff` - what the web UI asks for.
7. `AlarmClock`, `Battery` - what time and a cell that runs down do to the device;
   `CoverPng`, `CoverShrink` - the algorithms of a cover, with proofs.

Left: the level during a change of outputs (`Sinks` with `SoundLevel`), the
Scrobbler driving `ListenQueue`, the wheel's deltas and HTTP ranges as functions
against reference definitions.

Small modules that do not interact share a run, so that a run stands for a
question and not for a file: see *Composites* below.

Theorems, in order: the types and places of `ListenQueue`, its token, *nothing
lost*, then the order of what is sent and that it implements `ListenOutbox`; the
owner and the count of `CoverCache`; that `VideoJobs` keeps uploads; the levels, the
scrobbler, the alarm, ear detection and Home Assistant; the battery, the library, Auto-Off, the
control socket, the calls to MPD and what they do; the sinks and the decoder; the rows and the averages of a cover;
the wheel with its gestures; the screens and who has playback; what bluetoothd says and what is made of it. All of these
are proved. No module that is proved about declares a
RECURSIVE operator; sequences are cut with `SubSeq` and counted with `Cardinality`.

## Modules

### ListenOutbox and ListenQueue

`ListenQueue` is `audio/listenbrainz.c`. The mutex is held for whole critical
sections, so each is one step; a POST holds no lock and is therefore a place of
the worker (`worker`), between whose start and end everything else may happen.

| Code | Model |
|---|---|
| `thread_main()` waiting, draining the ring, flushing | `Wake`, `Drain`, `PingDone`, `FlushStart` |
| `flush_listen_queue()`: copy, POSTs, removal by count | `FlushStart`, `PostOk`, `PostFail`, `RemoveSent` |
| `append_capped()` and `enqueue()` | `AppendCapped`, `Enqueue`, in `SubmitListen` and `NowPlaying` |
| `rpod_lb_set_token()`, `start()`, `stop()` | `SetToken`, `Start`, `TurnOff`, `Join` (the LVGL thread stands in `"join"` meanwhile) |
| `fopen()` and writes failing unnoticed, the process dying inside a rewrite | disjuncts with `Fault`, and `Crash` |

A line of the file is the number of its listen, 0 a line cut short. The server is
what POSTs reach: it may refuse a listen each time (`refused`), answer late or
not at all. `damaged` and `drops` record that a rewrite or the cap cost lines.

`ListenOutbox` is the promise: listens stay until delivered, oldest first, and
only delivered ones are forgotten. `ImplementsOutbox` maps the file to the
outbox; from the first drop or damaged rewrite (`degraded`) nothing is promised.

### VideoJobs

`web/videos.c`. The worker's places (`converter`) are the stretches of `run()` between two
sections under the lock; the child ends by itself (`ChildEnds`). `Cancel` may come
at any of them. `src` and `jobfile` are the two hidden files of each job, by the
name made of `pid` and `seq`; `Die` may also cut the making or removing of the
two in half, and `Restart` is `recover()` in a new process, with the jobs in the
order `readdir()` gives. `Pruned` removes finished jobs at any time their time
may be up. `install()` tries one name after the other (`attempt`), a rename each
(`TakesName`), with no lock in between: there `post_video_rename()` and
`post_video_delete()` of `web/api.c` come in (`RenameVideo`, `DeleteVideo`), each with one
rename or unlink of the file system. `byHand` has the names that got their video by
such a rename. The fallback of a file system without RENAME_NOREPLACE is in `Library` only.

### CoverCache

`ui/cover_cache.c`. Sections under the lock are steps; the disk lookup, the fetch
with its decode and the store lie between two steps of their thread (`loader`,
`decoder`). `queue_pop_best()` takes the entry wanted last: here any may be taken,
so no property rests on the clock, and liveness holds for the real order too. MPD may be out
of reach at every fetch. Without a cache directory (`tier = FALSE`) there is
neither loader nor prewarmer.

### SoundLevel

`audio/volume_memory.c` with the parts of `ui/alarm.c` and `audio/airpods.c` that
lower the volume. All run on the LVGL thread, so each callback is one step; MPD
may answer it, not answer it, or answer the read and not the write. `Turn` is
anyone else who sets the volume. `slipped` becomes TRUE when the volume is left at
a level other than the one it is taken for (a failed write, a crash while
lowered, or the switch described under *What the runs found*).

### Sinks

`audio/sinks.c`. `kick()` and its two callers set what is wanted and start the worker
if none runs (`Kick`, `Refresh`, `Select`); each call the worker makes to OwnTone or
MPD is a step of it (`WorkerStep`) and may fail. `Following` is the second thread,
which stops and restarts a speaker's stream by MPD's state. MPD has a mixer for each
output, of which it reports the mean over those that are on (`Volume`): that is why a
switch carries the level (`Carry`). `Turn`, `Toggle`, `Drop`, `Autostart` and
`MpdRestarts` are the world.

### VideoDecoder

`video/video_decoder.c`. A frame slot is free, being written, ready or shown; the
generation is counted up by a seek. The thread's places are those between two
sections under the lock, so `Seek`, `Close` and `FrameAt` of the LVGL thread come in
between a frame's decoding and its publishing, and while the end is drained. The
codec holds one frame back, which is what a drain is for. `forgot` marks a seek made
while the file is being opened, which the code loses.

### Gestures and ClickWheel

`Gestures` is `input/gestures.c`, `seek_control.c` and the callbacks of `app.c`, all of
one thread, as operators on the record `u`. `ClickWheel` adds the daemon
(`daemon/rpod-wheel.c`: its table of clients, full socket buffers, a restart), the
socket's stream of events and `input/wheel_input.c` (connecting again, letting go of
what was down), and the timers that sleep, darken, wake or power off the device.

### HaQueue

`ha/ha.c`. The LVGL thread queues jobs and patches what is shown (`Act`, `Patch`);
the worker takes a job or a refresh, makes its requests with no lock held and stores
the outcome (`Call`, `Reads`, `Store`, `Confirm`), unless the generation has moved
(`Configure`). A lamp is on or off; `home` is what the servers really have, and may
be changed by hand.

### Scrobbler

`audio/scrobbler.c`. A poll is two commands, the status and the song, between which
MPD goes on. A play is numbered so that a listen can be told from a second one of
the same song; positions are scaled to steps of some seconds. `Dies` starts it again
with its state file, `Suspend` is a video's.

### Screens

`ui/screens/screen_stack.c` with those that use it as more than a list: the Screen
Lock, the alarm's card, the AirPods' card, the video player and Music Quiz with what
they borrow of MPD (`Borrow`, `GiveBack`, `mpd_client.c`'s spot in the queue), where it is and
whether it plays. One thread, so each callback is a step with all it calls; what is hard is
the order of callbacks. `ui` is the whole state, `past` the history the properties need. Names that another part
has too are longer here: `RpodRestarts` is rPod dying and starting again with
`rpod_screen_lock_restore()`, `VideoPlaysOn` and `PauseOrPlay` are MPD's.

### ControlSocket

`ui/control.c`: a poll accepts while a slot is free, reads what has come and drops who
said nothing for `Patience` polls. The kernel's backlog holds the rest.

### Bluetooth

`audio/bluetooth.c` with bluetoothd as the other side: a call is sent (`Sent`), taken
(`Take`) and answered (`Done`) in its own time, or never (`Timeout`); signals and replies
come in the order bluetoothd sent them (`wire`, `Process`). bluetoothd restarts
(`BluezDown`, `BluezUp`), its adapter goes (`Unplug`), the bus is lost (`LoseBus`); the generation
of the mirror tells old replies (`Outdated`).

### EarBuds

`audio/airpods.c` without its volume part: the link's life (`Follow`, `Dial`, `Setup`,
`Fail`), a packet of ear positions (`OnEar`), and the look a second later that resumes
(`Look`). Anybody may play or pause in between (`Press`, `UserPlays`), the sound may go to
AirPlay (`Redirect`) and the setting be switched.

### MpdClient

`audio/mpd_client.c`. A call is its commands in order, one step each, since MPD may end or
do what another client says between two. libmpdclient keeps the error of a command
that failed; `Mended` is what `fail()` does about it. There is one kind of call for
everything that asks or tells one thing (`AskOne`), and one each for those with more than
one command: the status, playing songs, an extra song in the queue, a like, and a row
of the playlist picker.

### Library

`web/library.c` with `put_upload()`, `receive_body()`, `post_rename()` and
`post_delete()` of `web/api.c`. A step is a system call. `folder` is what the file system
says, `card` what is on it: the first gets there by an `fsync` (`SyncFolder`) or when the
kernel sees fit (`WriteBack`), and is replaced by the second in a `PowerCut`. `data` says
as much of a file's contents.

### AutoOff

`web/rpod_web.c` (a thread per connection, `g_slots`, `using()`, `keep_alive()`),
`ui/shutdown.c` and the battery's part of `app.c`. `Tick` is one look of Auto-Off, 15 s;
what is due in it comes in any order. A request under way has a client that may fall
silent for `IoTimeout` ticks.

### AlarmClock

`ui/alarm.c` but for its fade. The check comes once between two ticks; what is set,
snoozed or stopped comes in any order in between, and `Changes` is `save()`, which may
fail. `ClockSet` is NTP, `Restart` rPod ending and starting. `Minute` and `OfDay` are the
minute since 1970 and that of the day, so that the day after is another minute.

### Battery

`power/gauge.c` as operators on its record (`Fed`), `power/battery.c`'s thread (`Sample`,
`NoAnswer`) and the LVGL thread's `Deliver`, which hears only what changed, and
`app.c`'s `OnBatteryChanged` and `PowerOffFires`. The average is any voltage between the
last one and the reading's, which is what a weight between 0 and 1 can give.

### CoverPng and CoverShrink

`ui/cover_art.c`. `CoverPng` is the unfiltering of a PNG's rows, in place and from the
other of two buffers, for a writer that filters as the PNG specification says;
`CoverShrink` the window (`CropW`, `CropH`), the bins (`Bin`), the adding of rows and the
division, for what any of the three sources gives (`Begin`). A pixel is the set of the
source's pixels summed in it, so that an average can be seen to be of the right ones.
`Covers` states what the two promise together.

### Composites

`MCQueues`, `MCAnswers`, `MCDevice` and `MCWeb` put parts that share no state in one
run: `part`, chosen at the start, names the one that moves, and the others stay in one
of their initial states. TLC explores the sum of the parts' states and not the
product, and nothing is claimed of how they act on each other. Where parts do
interact the module itself composes them: the alarm and the AirPods in `SoundLevel`,
the daemon and the UI in `ClickWheel`, the borrowers in `Screens`, the two processes in
`AutoOff`. A part with theorems is extended by the composite, so that the run checks the
very definitions that are proved about, and evaluates their assumptions: `MCDevice`
extends `MCSoundLevel` (with `SoundLevel`), `Scrobbler`, `ClickWheel`, `AlarmClock`, `EarBuds`,
`HaQueue`, `Screens` and `Bluetooth`; `MCWeb` `Battery`, `Library`, `AutoOff`, `Covers`, `ControlSocket` and `MpdClient`; `MCAnswers`
`Sinks` and `VideoDecoder`. The properties stand in
the module of the part (`HaRight` in `HaQueue`, `SinksRight` in `Sinks`).

## Runs

| Run | What it shows | Bounds |
|---|---|---|
| `queues` | listens: nothing lost, in order, no POST without a token, the refinement, both liveness properties; uploads: kept, as asked, nothing left, no starvation | one token, caps of 2, 4 listens, 1 fault: the cap drops lines during POSTs, and one crash, I/O error or lost reply comes at every place; 3 uploads of one name, 2 jobs at a time, 2 copies of a name, 1 crash, or 1 video renamed or deleted: the list fills, names collide, and either comes at every place of the worker |
| `listen_queue_cap` | a drop by the cap during POSTs makes the removal take a line not sent | no fault |
| `listen_queue_crash` | a rewrite cut short loses listens | 1 fault |
| `video_jobs_stuck` | a job whose child cannot start cannot be cancelled | 1 upload |
| `cover_cache` | owners, counts, news, every cover resolved | 2 albums, one at two sizes: hit, miss, too big for the disk, with and without art |
| `cover_cache_no_mpd` | a fetch that could not ask is taken for no art | the same |
| `answers` | sinks: what plays is what is shown, at its level, and every selection and pause gets through; decoder: only frames of the last seek, and each seek brings one | 1 speaker, 2 levels, 3 askings, 1 failure or outside change; 2 slots, 3 frames, 2 seeks: the slots fill, and a seek comes at every place of the thread |
| `device` | levels and ducking, listens, wheel and gestures, Home Assistant, screens, Bluetooth, ear detection, the alarm's clock: safety | see below |
| `sound_level_lowered` | a lowered level is remembered | no fault |
| `web` | calls to MPD recover and do as they say; names in the library are of whole files through power cuts; Auto-Off in time and not under use; the control socket's turns; battery; covers | see below; playlist of 3, MPD ends once, 1 meddling; 2 names, 2 uploads, 1 change, 1 power cut; 2 clients for 1 place, a report every 2 ticks, a limit of 5, 1 failure and 1 change |
| `screens_quiz` | a video over the quiz takes the suspension with it | 3 songs added, 1 deed from outside |
| `screens_paused` | the music plays after a video that ran to its end | the same |

Bounds of `device`: 3 sound devices (one of each kind) with room for 2 levels, 2
faults, 2 levels (nothing explored after a slip, `UntilSlip`); 2 plays and 2 seeks,
failures or crashes of a long and a short song and a video; 3 packets of no button,
one, two at once or the finger, 1 restart of either process, 1 timer, a table of 1
client, a socket buffer of 2; 1 lamp at 2 servers, a job queue of 2, 2 wishes, 1 change
of server, 1 failure; a stack of 4, 3 songs added, 1 deed from outside; 1 Bluetooth device and 2 events; 3 moves of the buds, 2
touches by hand, 1 lost link; days of 3 minutes of 2 checks, two of them, with 2 changes
and 1 mishap. TLC tells its states apart by `PartView`, the variables of the part that moves:
the others are the same in all of a part's states.

Further bounds of `web`: 2 clients for 1 slot with a patience of 2 polls; 4 readings of 4 voltages over a curve of 3 points; PNG rows of 3 bytes of
2 bits, all of them; covers with sides of 1 to 17 for tiles of 1 to 3, so that each way
of cropping, repeating and halving occurs and some sums are too large.

The bounds are enough for each interesting order to occur: two entries for
"before" and "after", a third where something is displaced, and a fault at every
place it can come. Two faults that meet are only explored in `device`'s levels and
listens. Times are scaled: what matters is that a report comes more often than the
limit is long, also when one is lost (`Report * (1 + MaxTrouble) < Limit`; the shortest
choice of Auto-Off is five of `ACTIVE_EVERY_S`), and that a client's silence ends before
a report is due. `web` uses the symmetry of the names and of the clients, which nothing
tells apart; its properties are safety. With a second place for connections the same
properties hold (1.4 million states of that part alone).
A run's cfg says `CHECK_DEADLOCK FALSE` because the bounds, and a device nobody
touches, let the system stop. Of all disjuncts one cannot be fired within the bounds
of its run: the daemon's refusal of a client beyond its table, as one UI prunes its
own dead connection before it counts.

Every property has a mutant: a change of one definition of the kind a bug in that
code would be, which breaks the property under the run's own bounds. Mutants
stand before the definition they change.

### What the runs found

1. **The cap against a flush** (`RemovesOnlySent`). `append_capped()` drops the
   oldest line of a full file while a flush is posting; the flush then removes as
   many lines as it sent from a front that has moved. One listen more than the
   cap dropped can go. `SentInOrder` shows that each drop costs one listen at most.
2. **Rewrites truncate** (`CrashKeepsQueue`). Unlike the other state files, the
   queue file is rewritten in place.
3. **A job that cannot start** (`CancelEndsJob`) stays "converting".
4. **MPD out of reach** (`NoneHasNoArt`). The entry is resolved to no art for
   good, although the album is not (`ToldTrue` holds).
5. **A switch while lowered** (`LoweredNotRemembered`). When the incoming device's
   level equals the one before the lowering, `switch_to()` does not set it, and the
   lowered level is remembered.
6. **One flag for two** (`QuizUnheard`). A video over Music Quiz ends the
   scrobbler's suspension for the quiz as well.
7. **Paused, it plays** (`LeftPaused`). `rpod_mpd_restore_spot()` pauses a player that has
   stopped, which does nothing, and the seek then starts it.

Met while modelling, modelled as the code does it, and left out of what the
properties claim, at the place named:

* **Cut off in use.** `keep_alive()` reports once a minute, so an upload begun in the last
  minute before the limit can be cut off by Auto-Off, although `rpod_web.c:10-14` says a
  request under way holds it off: `StaysOnInUse` claims it of use that has gone on
  for longer than it takes to hear of it. `AutoOff`'s `NeverOffInUse` is the sentence as it
  stands, which TLC refutes.
* **A like after a dead connection.** `rpod_mpd_playlist_contains()` and
  `rpod_mpd_playlist_remove_song()` take any failed listing for "not in it", so
  `rpod_playlist_liked_toggle()`, which "returns false on a connection error"
  (`playlist_membership.h:34-35`), can add a song a second time. `LikesTrue` leaves out the
  calls during which MPD was away or that found the connection gone.
* **Names by pid.** A recovered upload can be overwritten by a new one if rpod-web's
  pid comes round again (`SamePid`, FALSE in the runs).
* **A seek while a video is opened** is forgotten (`video_decoder.c:259`; `forgot`).
* **A player started anew while leaving** still leaves (`video_screens.c:328`: `start()` does
  not clear `leaving`; `GoesWhenOver` leaves those out).
* **Shut down in a scan.** A scan through a song goes on while the message of the
  shutdown is up (`ClickWheel`'s `overlap`).
* **A refresh that fails** leaves the screens with the list of before, without a word
  (`sinks.c:54-66`).
* **Torn status.** The scrobbler's status and song are of two commands
  (`mpd_client.c:181`, `198`): one poll may give a song its predecessor's position. The
  next poll rights it.
* **A song on repeat** counts once, and a song of exactly 30 s counts, where
  `scrobbler.c:18-21` says 30 s or shorter does not.
* **A search crossed** by its own stop on the way (`Bluetooth`'s `crossed`) ends with
  bluetoothd searching until the next change.
* **Ear detection** looks once a second and does not ask AirPlay before it resumes, where
  `airpods.h:6-8` has it do so "while MPD plays to its Bluetooth output"; turned off with a
  resume pending, it still resumes. `ComesBack` asks for neither (`Unasked`): there the code
  may resume or not.
* **A quiz whose song ran out.** `music_quiz.h:3-6` has the music pick up where it left off
  when the quiz ends, and `music_quiz.c:99-100` excepts only that "something else has taken
  over playback". `give_back()` (line 107) looks whether its own song is current; one that has
  run out, or that MPD could not play, is not, and the music is not put back. The history keeps
  this (`past.ran`) apart from a playback someone took (`past.other`); `MusicBack` and
  `PlaysAsBefore` leave out both.
* **A quiz that was paused**, by hand or by a video over it, leaves the music paused although
  it played before: `rpod_mpd_restore_spot()` starts nothing that is paused (`mpd_client.c:847-853`).
  `PlaysAsBefore` wants the music to play only where the quiz's song did.
* **Warnings of a low battery** come again also after the chip did not answer:
  `on_battery_changed()` re-arms them there too (`app.c:246-247`), where its comment
  (`app.c:239-240`) names USB power alone. `WarnsOnce` counts from there.
* **A folder made for an upload** is not synced into its parent (`api.c:662` syncs the folder
  itself); `SyncFolder` takes the one `fsync` to be enough for the name of a new one.
* **A power cut's `.part` files** stay in the music library (`RefusedLeavesNothing` leaves
  them out); the videos folder is cleaned at the start.
* **A refused power-off** of an empty battery is not tried again until USB power has
  come and gone (`tried`).

## Fairness

* `ListenQueue`: weak for the worker, the join and the restart (threads run,
  systemd restarts; a POST ends within the 10 s of `CURLOPT_TIMEOUT`); strong for
  `PostOk` - a server tried again and again answers at some point. The last is an
  assumption on the network, and needed only by `OutboxServed`; nothing is
  assumed of failures, pings or the user.
* `VideoJobs`: weak for the restart, the worker and the child (a conversion ends).
* `CoverCache`: weak for each thread by itself, the poll timer and the end of
  `settle()`, which has a time limit. No fairness on requests or on MPD's answers.
* `Sinks`: weak for the worker, the follower and the timer that looks for it; every
  request they make has a time limit, and may fail.
* `VideoDecoder`: weak for the thread, for the player's `FrameAt` (its timer) and for
  time going by (`Advance`).
* In a composite each holds while its part runs. `device` and `web` check safety
  only; that Auto-Off and the control socket come to their end is stated with
  counted ticks (`GoesOffInTime`, `ServedInTime`).

## Proofs

Eight modules hold the proofs, all of which `tlapm` checks to the last leaf. Each
theorem holds for every value of the constants that the module's named assumption
allows, so for any number of threads' steps, faults and requests; the runs check the
same formula on a small instance. The pattern is the same throughout: an invariant
(`...Inv`) that contains the property and holds at the start, a lemma for each action
that says it keeps it, and the theorem from those by temporal logic. What follows says
of each why the property alone is not inductive, and what is assumed.

| Module | Theorems | Invariant |
|---|---|---|
| `Queues_proofs` | of `ListenQueue`: `TypesInvariant`, `TokenInvariant`, `NothingLostInvariant`, `SentInOrderInvariant`, `OutboxImplemented` (refinement) | `TypeOK`, `PlacesOK`, `FlushOK`, `SendsOK` |
| | of `VideoJobs`: `UploadsInvariant`, `VideosInvariant`, `OnlyAskedReplace` (action) | `JobsInv` |
| `Covers_proofs` | of `CoverCache`: `OwnersInvariant`, `ToldInvariant`, `SettleLooksUp` (action) | `CacheInv` |
| | of `CoverPng` and `CoverShrink`: `RowsComeOut`, `NeverEmpty`, `LeavesTwice`, `CoversInvariant` | `PngInv`, `ShrinkInv`, `AverageInv` |
| `Device_proofs` | `LevelsInvariant`, `RaisesOnlyLowered` (action), `ListensInvariant`, `AlarmInvariant`, `EarsInvariant`, `HaInvariant` | `SoundInv`, `ScrobInv`, `ClockInv`, `EarInv`, `HaInv` |
| `Interface_proofs` | `PressesInvariant`, `QuietInvariant`, `ClientKept` (action), `ScreensInvariant`, `PlaybackInvariant` | `WheelInv`, `ScreenInv` |
| `BluetoothCalls_proofs`, `Bluetooth_proofs` | `BluetoothInvariant` | `BtInv` |
| `Answers_proofs` | `SinksInvariant`, `FramesInvariant` | `SinksInv`, `VideoInv` |
| `Web_proofs` | `BatteryInvariant`, `LibraryInvariant`, `ReplacesOnlyAsked` (action), `PlacesInvariant`, `GoesOffInvariant`, `StaysOn` (action), `ControlInvariant`, `CallsInvariant`, `ResultsInvariant` | `BatteryInv`, `LibInv`, `OffInv`, `ControlInv`, `CallInv`, `ResultInv` |

### ListenQueue

From `TokenAssumption`, `CapAssumption`, `BoundAssumption` and `RefusableAssumption` only.
`TypeOK` is inductive together with `PlacesOK`, which says which places of the two
threads go together and what they hold: a POST has a line of the batch, scrobbling is
on while the worker is, and the token is not empty then. That is what makes
`PostsHaveToken` follow: the token is cleared only after the join, and the join waits
for the worker.

`NothingLost` is not inductive: it does not see that the removal by count removes what
was sent. `FlushOK` says that, as long as nothing was dropped or damaged, a flush's
batch is still a prefix of the file and its first `sent` lines are with the server. A
submission keeps it because it appends at the tail; a removal because it takes exactly
those lines; the cap breaks it, which is the first finding.

`SentInOrder` has to hold after that as well. `OrderOK` says that the file and the copy
a flush has are in order, and that what is still to be sent is `Due`: the server has
nothing younger, but where it had the line before. `OnceOK` says which lines of the
file the server can have while no fault came. `LossOK` is the loss: after d drops during
a flush, file and copy are d lines apart (`Aligned`), and the lines the removal will
take too many are counted before they are gone (`Ahead`). `OutboxImplemented` takes
each step of the two threads and of a crash to a step of `ListenOutbox` or none, by the
same invariant.

### CoverCache

`CoverAssumption` says that the rows asked for are finitely many and that a row is no
album. `OwnersRight` needs `Owned`: the loader has entries not looked up yet, a decoder
those that are, and the two decoders different ones. The count is exact because `pending`
is the cardinality of `Unchecked`, which every step changes by one element or not at
all. `SettleLooksUpAll` then reads off `pending = 0`.

### VideoJobs

`JobsInv` relates three pictures of the same jobs: the list in memory, the hidden files,
and what was asked for. `FilesOK` is that while the server runs, the files are those of
its live jobs; `FolderOK` that what a restart would find is as it was asked for, no upload
twice, no more than fit in the list; `JobOnceOK` that what would be taken up again has not
become a video, was cut off, or is about to be cleaned up. Crashes in the middle of the
two files' making are why the three are needed. Videos renamed or deleted from a page touch
only the folder, and `VideosAsAsked` and `ReplacedOnlyIfAsked` hold by what each single
rename does: that `install()` looks at no name before it takes it is what they rest on. The theorems assume `~SamePid`: with a
pid that comes round again a new upload can take a recovered one's name, and TLC then
finds `UploadsRight` violated (`MCQueues.cfg` with `SamePid = TRUE`).

### SoundLevel, Scrobbler, AlarmClock, EarBuds, HaQueue

`SoundInv`: that a level remembered was chosen needs that the volume, or the one before it
was lowered, was (`Chosen`), and after a crash while lowered, that every device's level
is already in the file (`AllKnown`). `SoundAssumption` says that a fade and a conversation
lower to less than all, and that there is room for a device.

`ScrobInv`: that a play counts once needs that a play once submitted is the last one,
recorded no further in than it has got, and that a poll in its middle has a status near
that (`LastRight`); that it counts at all, that a song said to be submitted is (`SentTrue`).
The proof showed an earlier form of the property to be false: several seeks back, each of
no more than the grace, add up. What is excepted is a seek to more than the grace before
the farthest the play got. `ScrobAssumption`: silence and the video are no songs.

`ClockInv`: that the alarm goes off once in its minute needs what `last` says of all the
minutes in which it rang (`LastRang`), and that those at the alarm's time of day are a day
back, or still past after the clock was set (`Gone`). `ClockAssumption` has `LastCheck`,
the last second looked at, within no more than being a number.

`EarInv` adds to the property that a pause by ear is of the session under way
(`PausedHere`); a resume not owed, with Ear Detection off or the sound on AirPlay, is `moot`.

`HaInv` is the largest: `WorkerIs` and `QueueIs` say that a worker of an old generation
cannot store; `WishDue` that each device is as it was last told to be, or a job in the
queue or in hand will make it so, and that the last one of each device carries the last
wish; `ShownDue` the same of what is on screen, with a fetch or its storing as the third
way. `HaAssumption` is that no server and no state is `None`.

### Gestures and ClickWheel

`WheelInv` has a part for each process and one for what is between them. `UiRight` is of
the UI: each gesture and each timer is an operator on its record and has a lemma that it
keeps it. It is a conjunction because the parts are disturbed together: a press that
counts or has acted is one that may (`PressRight`), and a transport button that counts
and is not held has done nothing yet, or its release would act a second time; the encoder
has the centre button down exactly while it counts (`CenterRight`); a scan has the button
that holds it (`ScanRight`); and music that is to be quiet has no scan that would start it
again at its end (`QuietRight`), which `StaysQuiet` alone does not see.

`SocketRight` is of the daemon and the socket: until the daemon has the UI among its
clients nothing is in the socket and no button is down; after that a button that the
socket says last is down, or that is down in the UI if it says nothing, is down at the daemon.
A step of the daemon appends, one of the UI takes the head: `SaidAfter` is that the last
word of two sequences is that of the second if it has one, `HeadSaid` that reading an
event changes nothing of what is said in the end, and `EdgesSay` that the events of a
packet say of every button what the packet did. A client whose buffer is full gets fewer and
is dropped at once (`ended`), which is why `NothingStuck` has no exception but that.

`ButtonsAssumption` is that the buttons there are, are among five different ones;
`WheelAssumption` that the table has a place and that packets are of buttons there are.

### Screens

`ScreenInv` serves both theorems. What is on screen is `InOrder`: `Stacked` says of the whole
stack what `OnePlayer` and `LockHolds` say of its top, that there are menus below, or a quiz
right below a player, so that a pop uncovers what the flags then say; `CardRight` is the
overlay's side of it, and `AbsentRight` that a borrower whose screen is gone has nothing, which
is what lets a handler that finds `player.on` false go on.

`Lent` is the loan. `PlaybackLent` speaks of when it is over; `OwedBack` says what has to
be true meanwhile: the quiz remembers the song there was, a player over it the quiz's, both
are still in the queue and are not what the player will delete, and a quiz with nobody over
it has its own song current, unless that has run out, or its `give_back()` would leave the
music where it is. A video
that got going and is not over is the current song, so that a player leaves playback `taken`
only when someone took it. `BorrowersRight` keeps the borrowers' ids apart, from each other
and from those MPD has yet to give. The lemmas about `Borrow`, `NextExtra` and the two
`give_back()`s (`StartVideoLent`, `QuizSongLent`, `GiveBackLent`, `QuizGivesBackLent`) each
say how `Lent` comes out of them when MPD answers, refuses or is down, and `HandedBack` what
MPD is left at, which is `PlaysAsBefore`. `Going` is why a player
goes only when its video is over: it is leaving for the video it has, unless one was started
as it left (`late`). `ScreensAssumption` is a stack with room for the Screen Lock on the main
menu, which `rpod_screen_lock_restore()` relies on.

### Bluetooth

`CallsAnswered` speaks of the moment when all is processed; `BtInv` says of every moment
before what the signals and replies still on the wire will make of it. Its parts, each
kept with those before it:

* `BtSound`: calls are told apart. No two that are pending are one, what bluetoothd has not
  taken is pending and unanswered, a call is answered once. So a reply ends the call it is
  for, and one to a call of an earlier mirror is stale and ends nothing.
* `BtShut`: without a bus nothing is known, asked for or under way.
* `BtComing`, for the mirror: there are views (`Views`) from what it shows now, one for
  each message on the wire, to a last one that is what bluetoothd has, unless all objects
  will have been asked for anew (`Mirrors`, `Good`). A view forgets the operations and keeps
  whether the objects are awaited, as their reply replaces the rest and a signal before it
  may or may not be in it.
* `BtAwaited`, for what is shown as under way: an operation has its call among the pending of
  this generation, the power's change too, and pairings are counted as the cardinality of
  theirs (`Held`). That a device's removal takes the mark while its call goes on, and that
  replies of failure come before or after the signal, is why it is shown for each message
  by itself. `BtDown` keeps the owner's comings and goings on the wire in turns: bluetoothd
  does not come up in a mirror that has it up.
* `BtAimed`, for the search: of the calls to start and to stop that bluetoothd has not taken
  yet, the last that counts agrees with what the mirror believes (`Starts`, `SearchOff`), or
  the wire will tell it that the search is over. Where that word meets a search
  that was asked for since, `crossed` is set; `Followed` says that otherwise the answer to
  what is asked comes after it.

`BluetoothCalls_proofs` has what each handler and each step of bluetoothd does to calls and
wire, and `BtSound`; `Bluetooth_proofs` the other parts. `BtAssumption`: the devices are
finitely many, there is one, and the AirPods are among them.

### Sinks and VideoDecoder

`SinksInv` says at each place of the worker what its pass has achieved so far
(`Passing`), that the level it read before a switch is the one chosen last (`LevelHeld`),
and that only the switch itself has an output on that is not wanted (`OneOutput`).
`SinksAssumption` keeps the headset, the speakers and OwnTone's feed apart, and has the
mean of two levels be a level.

`VideoInv`: a frame of the last seek that waits is not before its target because what the
thread works on carries the target as its skip (`Skipping`), unless the seek came before
the file was open (`forgot`); the end is true because the thread is behind the last frame
with nothing in the codec (`Reading`). `PictureAssumption` has a keyframe first.

### Battery, Library, AutoOff, ControlSocket, MpdClient

`BatteryInv`: the gauge is critical for as long as it has been low on battery, what it
waited for a climb is within the time on USB power that no climb used up (`GaugeKept`),
and what was read and what was handed on are the same if their numbers are (`HandedOn`).
`BatteryAssumption` is a curve that falls and ends at 0, and times and slack that are
positive.

`LibInv` holds of two folders at once, the one there is and the one on the card
(`FolderOK`), so that a power cut, which puts the second in place of the first, keeps it;
`PutOK` says for each place of an upload what is synced by then. `LibraryAssumption` is
only that the bounds are numbers.

`OffInv`: `Counted` is the places and requests as cardinalities of sets of connections;
`LeftAlone` bounds how long rPod has not been used by Auto-Off's own two clocks, but for
the time a report is late; `Reported` that what has been in use for longer than reports
can be lost has been heard of. `OffAssumption` is the one that matters:
`Report * (1 + MaxTrouble) < Limit`, that the limit is longer than the reports lost in a row
take. Without it Auto-Off cuts off what is in use.

`ControlInv`: the polls a client waits come in rounds of `Patience + 2`. As nobody gets in
between, of those ahead of it as many are gone as are neither inside nor before it
(`Gone`). `Turn` says that in its r-th poll of a round, those inside at the round's start
are gone or at least r polls old; since nobody gets older than `Patience + 1`, the end of
a round is the end of `MaxClients` more. `ServedInTime` is that, divided out.

`CallInv`: the connection is gone only for a reason that lies before the call until its
first command is done (`First`), after which `fail()` has connected again if MPD is there
(`Mendable`); and a call on its way out with what it added (`"remove"`) has a reason
already. `rpod_mpd_get_status()`, which at its second command only clears, needs the
first. `MpdAssumption` is that the playlist's bound has room for those it starts with, and
that there are songs, finitely many.

`ResultInv` adds what a call has done so far. That two lists are the same but for one song is
stated as a bijection between their other positions that keeps the order (`SameBut`): it is kept
by an addition at the end and by the removal of any one copy (`SameAdded`, `SameWithout`), and
so by a call that ends in the middle. `LikeRight` has in it that the positions found are at
every moment exactly those of the song, which is what taking them from the last one back is
for: after `RemoveAt` at the greatest, the others have not moved. `ToggleRight` relates the way
a like goes to what the list was when it began, unless the listing failed; `ExtraRight` that an
extra sound is in the queue at most once.

### CoverPng and CoverShrink

`PaethIsSpec` says that the code's predictor, which has no `p`, is the specification's,
ties included; `ByteUndone` that a byte is restored when those to its left are;
`RowUndone` that a row therefore is. There the row itself shows that the recurrence of
`unfilter_row()` has a solution, and the least byte in which another solution differed
shows that it has no other.

`NeverEmpty` names the source that each bin gets (`BinHit`), from the bounds of the window
(`CropFits`); `LeavesTwice` is from the denominator's being the last one to which the
decoder halves. `CoversInvariant` puts the rest on them: `AccIs` says what the
accumulator holds up to the next row, as sets of source pixels, and `TileIs` that each pixel
of the tile divides by as many as it sums. That columns and lines are exact stretches
of the source follows from where the integer division changes (`Edge`).

### What is only model-checked

* Liveness under fairness and ENABLED are out of this prover's reach: `OutboxServed`,
  `EveryJobServed`, `EveryCoverResolved`, `SinksAnswer` and `SeekServed`.
* What folds over sequences compute for every input.

Every invariant and every action property of the passing runs is proved.

## Not modelled

* Allocation failure, and thread creation failing other than in `start()`, the child of
  a conversion and a connection's thread.
* The disk reordering writes on a power loss, but in `Library`.
* Failing to save in the volume memory (the code forgets that it is unsaved).
* Memory lifetime: a job or a watcher freed while another thread or the list's walk
  has it (`videos.c:451`, `cover_cache.c:728`).
* A signal to a pid that `waitpid()` has just freed (`videos.c:424`).
* Wording, progress figures, posters, colours, the sleep timer's times, the order
  of the cover queue, the wheel's deltas and acceleration.
* The transient level while the sinks' worker switches MPD's outputs; the
  cached target of `volume_control.c`.
* Parsing (HTTP, JSON, OwnTone, AAP, MP4, the chunks and palettes of a PNG) and authorisation: functions of their input
  with tests of their own.
* The components listed as such in `PROJECT.json`. Much of the repository is not
  program logic: fonts, art and tables as C arrays and LVGL's configuration are about
  half of its lines, and layout and drawing a good part of the rest, so the lines the
  map names are a small share of all.
