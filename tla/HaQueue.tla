-------------------------------- MODULE HaQueue --------------------------------
(***************************************************************************)
(* Home Assistant (src/src/ha/ha.c): screens on the LVGL thread ask for    *)
(* actions, which are shown at once and queued; a worker thread calls the  *)
(* server, asks how it went, and fetches everything when told to.  The     *)
(* server may be changed meanwhile.  A section under g.mu is one step, a   *)
(* request another.  The servers and the devices at them are external.     *)
(*                                                                         *)
(* An entity is on or off; brightness and temperature are set in the same  *)
(* way, and an entity without a state to show is left out.                 *)
(***************************************************************************)
EXTENDS Integers, Sequences

CONSTANTS Entities, Servers,
          None,      \* no address, no entities, no patch to make
          JobsMax,   \* JOBS_MAX
          MaxActs, MaxChanges, MaxTrouble  \* bounds

VARIABLES
  ha,      \* g: url, token, gen, st, ents (what is shown), of (whose they are),
           \* info, jobs, pending, failed
  hw,      \* the worker: its next step `at' and its local variables
  patch,   \* LVGL thread: what it has queued and is about to show
  home,    \* at each server: whether each device is on
  hahist,  \* history: wish: what each device was last told to be; clean: no
           \* call failed, no device changed itself and no job was forgotten;
           \* blur: what is shown need not be so
  hacount

haVars == <<ha, hw, patch, home, hahist, hacount>>

Vals == {"on", "off"}
ASSUME HaAssumption == None \notin Servers /\ None \notin [Entities -> Vals]

Flip(v) == IF v = "on" THEN "off" ELSE "on"
Configured(g) == g.url # None /\ g.token
Asleep == hw.at = "asleep"

HaInit ==  \* rpod_ha_init(), the server in the file
  /\ \E s \in Servers, v \in Vals :
       /\ ha = [url |-> s, token |-> TRUE, gen |-> 0, st |-> "connecting", ents |-> None,
                of |-> None, info |-> None, jobs |-> <<>>, pending |-> FALSE, failed |-> FALSE]
       /\ home = [t \in Servers |-> [e \in Entities |-> IF t = s THEN v ELSE Flip(v)]]
  /\ hw = [at |-> "look", gen |-> 0, url |-> None, job |-> None, read |-> None]
  /\ patch = None
  /\ hahist = [wish |-> home, clean |-> TRUE, blur |-> TRUE]
  /\ hacount = [acts |-> 0, changes |-> 0, trouble |-> 0]

HaUses(bound, max) == /\ hacount[bound] < max
                      /\ hacount' = [hacount EXCEPT ![bound] = @ + 1]
Signal == hw' = IF Asleep THEN [hw EXCEPT !.at = "look"] ELSE hw
Goes(at) == hw' = [hw EXCEPT !.at = at]
-----------------------------------------------------------------------------
\* enqueue(), if there is room
Queued(e, v) ==
  /\ ha' = [ha EXCEPT !.jobs = Append(@, [entity |-> e, to |-> v, gen |-> ha.gen])]
  /\ Signal

\* rpod_ha_activate(), which asks for what is not shown, and
\* rpod_ha_set_brightness(), rpod_ha_set_temperature(), which ask for anything.
\* With a full queue nothing happens.
Act(e, v) ==
  /\ patch = None /\ HaUses("acts", MaxActs)
  /\ Configured(ha) /\ Len(ha.jobs) < JobsMax
  /\ Queued(e, v) /\ patch' = [entity |-> e, to |-> v]
  /\ hahist' = [hahist EXCEPT !.wish[ha.url][e] = v]
  /\ UNCHANGED home

\* The job asked for last is still to be done, or being done.
Underway == \/ Len(ha.jobs) > 0
            \/ (hw.at \in {"call", "failed", "ask", "confirm"} /\ hw.job.entity = patch.entity)

\* ... patch_locked(): the worker may be done with it by now.
Patch ==
  /\ patch # None
  /\ ha' = IF ha.ents = None THEN ha ELSE [ha EXCEPT !.ents[patch.entity] = patch.to]
  /\ patch' = None
  /\ hahist' = [hahist EXCEPT !.blur = @ \/ ~Underway]
  /\ UNCHANGED <<hw, home, hacount>>

\* rpod_ha_refresh()
Refresh ==
  /\ patch = None /\ Configured(ha) /\ ~ha.pending
  /\ ha' = [ha EXCEPT !.pending = TRUE] /\ Signal
  /\ UNCHANGED <<patch, home, hahist, hacount>>

\* rpod_ha_take_failure()
TakeFailure == /\ patch = None /\ ha.failed /\ ha' = [ha EXCEPT !.failed = FALSE]
               /\ UNCHANGED <<hw, patch, home, hahist, hacount>>

\* config_changed_locked()
Changed(g) ==
  [g EXCEPT !.gen = @ + 1, !.ents = None, !.of = None, !.info = None, !.jobs = <<>>,
            !.st = IF Configured(g) THEN "connecting" ELSE "unconfigured", !.pending = Configured(g)]

\* rpod_ha_set_url(), which forgets the token with the address, and
\* rpod_ha_set_token(); a file that cannot be written leaves all as it was.
Configure(url, token) ==
  /\ patch = None /\ HaUses("changes", MaxChanges)
  /\ \/ url = None /\ ~token
     \/ url # None /\ token = ha.token
     \/ url = ha.url
  /\ <<url, token>> # <<ha.url, ha.token>>
  /\ ha' = Changed([ha EXCEPT !.url = url, !.token = token])
  /\ Signal
  /\ hahist' = [hahist EXCEPT !.clean = @ /\ ha.jobs = <<>> /\ hw.at # "call", !.blur = TRUE]
  /\ UNCHANGED <<patch, home>>
-----------------------------------------------------------------------------
\* worker(): the oldest job ...
TakeJob ==
  /\ hw.at = "look" /\ ha.jobs # <<>>
  /\ hw' = [hw EXCEPT !.at = "call", !.gen = ha.gen, !.url = ha.url, !.job = Head(ha.jobs)]
  /\ ha' = [ha EXCEPT !.jobs = Tail(@)]
  /\ UNCHANGED <<patch, home, hahist, hacount>>

\* ... else a refresh, else it waits.
TakeRefresh ==
  /\ hw.at = "look" /\ ha.jobs = <<>>
  /\ IF ha.pending /\ Configured(ha)
     THEN /\ hw' = [hw EXCEPT !.at = "fetch", !.gen = ha.gen, !.url = ha.url]
          /\ ha' = [ha EXCEPT !.pending = FALSE]
     ELSE Goes("asleep") /\ UNCHANGED ha
  /\ UNCHANGED <<patch, home, hahist, hacount>>

\* do_job(): the call; it may fail, and still have been heard.
Call(heard, answered) ==
  /\ hw.at = "call" /\ (answered => heard)
  /\ home' = IF heard THEN [home EXCEPT ![hw.url][hw.job.entity] = hw.job.to] ELSE home
  /\ Goes(IF answered THEN "ask" ELSE "failed")
  /\ IF answered THEN UNCHANGED <<hahist, hacount>>
     ELSE HaUses("trouble", MaxTrouble) /\ hahist' = [hahist EXCEPT !.clean = FALSE]
  /\ UNCHANGED <<ha, patch>>

FailedOnlyTold ==  \* Mutant: what was shown at once stays up.
  /\ hw.at = "failed" /\ Goes("look")
  /\ ha' = IF hw.gen = ha.gen THEN [ha EXCEPT !.failed = TRUE] ELSE ha
  /\ UNCHANGED <<patch, home, hahist, hacount>>

\* do_job(): told, and everything fetched again.
Failed ==
  /\ hw.at = "failed" /\ Goes("look")
  /\ ha' = IF hw.gen = ha.gen THEN [ha EXCEPT !.failed = TRUE, !.pending = TRUE] ELSE ha
  /\ UNCHANGED <<patch, home, hahist, hacount>>

\* do_job(), do_refresh(): a GET reads what is so now, or fails.
Reads(ok) ==
  /\ hw.at \in {"ask", "fetch"}
  /\ hw' = IF ok THEN [hw EXCEPT !.at = IF @ = "ask" THEN "confirm" ELSE "store", !.read = home[hw.url]]
           ELSE [hw EXCEPT !.at = IF @ = "ask" THEN "look" ELSE "error"]
  /\ IF ok THEN hahist' = [hahist EXCEPT !.blur = @ /\ hw.at = "ask"] /\ UNCHANGED hacount
     ELSE HaUses("trouble", MaxTrouble) /\ hahist' = [hahist EXCEPT !.blur = TRUE]
  /\ UNCHANGED <<ha, patch, home>>

\* do_job(): the one entity
Confirm ==
  /\ hw.at = "confirm" /\ hw' = [hw EXCEPT !.at = "look", !.read = None]
  /\ ha' = IF hw.gen = ha.gen /\ ha.ents # None
           THEN [ha EXCEPT !.ents[hw.job.entity] = hw.read[hw.job.entity]] ELSE ha
  /\ UNCHANGED <<patch, home, hahist, hacount>>

\* do_refresh(): all of them; its name is asked for once.
Store ==
  /\ hw.at = "store"
  /\ hw' = [hw EXCEPT !.at = IF hw.gen = ha.gen /\ ha.info = None THEN "info" ELSE "look", !.read = None]
  /\ ha' = IF hw.gen = ha.gen THEN [ha EXCEPT !.ents = hw.read, !.of = hw.url, !.st = "ok"] ELSE ha
  /\ UNCHANGED <<patch, home, hahist, hacount>>

StoreError ==
  /\ hw.at = "error" /\ Goes("look")
  /\ ha' = IF hw.gen = ha.gen THEN [ha EXCEPT !.st = "error"] ELSE ha
  /\ UNCHANGED <<patch, home, hahist, hacount>>

\* fetch_info()
Info(ok) ==
  /\ hw.at = "info" /\ Goes("look")
  /\ ha' = IF ok /\ hw.gen = ha.gen THEN [ha EXCEPT !.info = hw.url] ELSE ha
  /\ UNCHANGED <<patch, home, hahist, hacount>>

\* Somebody switches a device by hand.
ByHand(s, e) ==
  /\ HaUses("trouble", MaxTrouble)
  /\ home' = [home EXCEPT ![s][e] = Flip(@)]
  /\ hahist' = [hahist EXCEPT !.clean = FALSE, !.blur = TRUE]
  /\ UNCHANGED <<ha, hw, patch>>

HaNext ==
  \/ \E e \in Entities, v \in Vals : Act(e, v)
  \/ \E url \in Servers \union {None}, token \in BOOLEAN : Configure(url, token)
  \/ \E heard, answered \in BOOLEAN : Call(heard, answered)
  \/ \E ok \in BOOLEAN : Reads(ok) \/ Info(ok)
  \/ \E s \in Servers, e \in Entities : ByHand(s, e)
  \/ Patch \/ Refresh \/ TakeFailure \/ TakeJob \/ TakeRefresh
  \/ Failed \/ Confirm \/ Store \/ StoreError
HaSpec == HaInit /\ [][HaNext]_haVars
-----------------------------------------------------------------------------
\* The worker never sleeps with something to do.
NoLostWakeup == Asleep => ha.jobs = <<>> /\ ~ha.pending

\* What is shown is of the server that is set, however late the reply.
OfThisServer ==
  /\ ha.ents # None => ha.of = ha.url
  /\ ha.info \in {None, ha.url}
  /\ ha.st = "ok" => ha.ents # None
  /\ ha.st = "unconfigured" <=> ~Configured(ha)

\* A job goes to the server it was meant for: none is left when the server is
\* changed, and the worker's address and job are of the same one.
JobsStayHome ==
  /\ \A i \in DOMAIN ha.jobs : ha.jobs[i].gen = ha.gen
  /\ hw.at \in {"call", "failed", "ask", "confirm"} => hw.job.gen = hw.gen

\* The last wish wins: once the jobs are done every device is as it was last
\* told to be, unless a call failed, a device changed itself or a job was forgotten.
LastWishWins == hahist.clean /\ ha.jobs = <<>> /\ hw.at # "call" => home = hahist.wish

\* "The worker confirms it with the server and corrects it if it didn't take":
\* when it has nothing more to do, what is shown is so, unless the asking
\* failed, a device changed itself, or the patch came when the job was done.
ShownIsSo ==
  Asleep /\ patch = None /\ ha.ents # None /\ ~hahist.blur => ha.ents = home[ha.url]

\* No job or refresh waits for a worker that sleeps, what is shown or queued
\* belongs to the server that is configured, and the devices end as they were
\* last told to be, and are shown so (ha.c).
HaRight == NoLostWakeup /\ OfThisServer /\ JobsStayHome /\ LastWishWins /\ ShownIsSo
=============================================================================
