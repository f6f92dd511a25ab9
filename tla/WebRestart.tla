------------------------------ MODULE WebRestart ------------------------------
(***************************************************************************)
(* Restarting the camera application from the web (restart_camera in       *)
(* web/mt11-web.c).  On the A8, ZR10 and Z1-Mini a launcher script starts  *)
(* the application and the web workers talk to it through two files in     *)
(* /tmp: the generation they request and the generation it started last.   *)
(* On the MT11 the worker stops and starts the application itself.  The    *)
(* application announces itself in the ready file.                         *)
(*                                                                         *)
(* The launcher of the ZR10 reads the request and writes the started file  *)
(* under the lock that publishing takes: one step here.  The A8 launcher   *)
(* takes no lock.  That of the Z1-Mini, like the ZR10's otherwise, reads   *)
(* no request while its ISP daemon is gone or cannot be stopped, and does  *)
(* not wait after SIGKILL: not modelled.  Pids are not reused.             *)
(***************************************************************************)
EXTENDS Integers, FiniteSets

CONSTANTS
    Restarters,     \* web workers that handle a restart
    MaxRestarts,    \* bound: restarts requested
    MaxMishaps      \* bound: crashes, failed starts and timeouts of a start

ASSUME WebRestartAssumption == {MaxRestarts, MaxMishaps} \subseteq Nat

VARIABLES
    target,     \* "mt11", "a8" or "zr10"
    request,    \* camera-app.request; on the MT11 the number of restarts begun
    started,    \* camera-app.started
    ready,      \* the pid in the ready file, 0 when there is none
    app,        \* the last instance: [pid, gen, born, st, term]
    launcher,   \* [pc, gen]
    restarter,  \* [Restarters -> [pc, old, gen, now]]
    restartLock,
    vouched,    \* what "restarted" answers vouched for: set of [gen, born]
    mishaps

restartVars == <<target, request, started, ready, app, launcher, restarter, restartLock, vouched, mishaps>>
webFiles == <<request, started>>
webSide == <<restarter, restartLock, vouched>>

RestartInit ==
    /\ target \in {"mt11", "a8", "zr10"}
    /\ request = 0 /\ started = 0 /\ ready = 1
    /\ app = [pid |-> 1, gen |-> 0, born |-> 0, st |-> "ready", term |-> FALSE]
    /\ launcher = [pc |-> IF target = "mt11" THEN "none" ELSE "watch", gen |-> 0]
    /\ restarter = [w \in Restarters |-> [pc |-> "idle", old |-> {}, gen |-> 0, now |-> {}]]
    /\ restartLock = {} /\ vouched = {} /\ mishaps = 0

-----------------------------------------------------------------------------
\* The application.

Alive == app.st # "dead"
Gone(pids) == Alive => app.pid \notin pids
\* A fork shows in /proc under the name of its parent until it calls exec.
camera_pids == IF app.st \in {"booting", "ready"} THEN {app.pid} ELSE {}
Forked(gen) == app' = [pid |-> app.pid + 1, gen |-> gen, born |-> 0, st |-> "forked", term |-> FALSE]
\* SIGTERM ends a shell at once and asks the application to leave its loop.
Terminated == IF app.st = "forked" THEN [app EXCEPT !.st = "dead"]
              ELSE IF Alive THEN [app EXCEPT !.term = TRUE] ELSE app
Killed == [app EXCEPT !.st = "dead"]

\* The application removes a ready file it finds and reads camera.ini.
AppStarts ==
    /\ app.st = "forked"
    /\ app' = [app EXCEPT !.st = "booting", !.born = request]
    /\ ready' = 0
    /\ UNCHANGED <<target, webFiles, launcher, webSide, mishaps>>
write_ready ==
    /\ app.st = "booting"
    /\ app' = [app EXCEPT !.st = "ready"] /\ ready' = app.pid
    /\ UNCHANGED <<target, webFiles, launcher, webSide, mishaps>>
AppExits ==
    /\ app.term /\ app.st = "ready"
    /\ app' = Killed /\ ready' = 0
    /\ UNCHANGED <<target, webFiles, launcher, webSide, mishaps>>
\* A failed start goes through the same exit; a crash leaves the file.
AppFails ==
    /\ app.st \in {"booting", "ready"} /\ mishaps < MaxMishaps
    /\ app' = Killed /\ ready' \in {ready, 0}
    /\ mishaps' = mishaps + 1
    /\ UNCHANGED <<target, webFiles, launcher, webSide>>

-----------------------------------------------------------------------------
\* The launcher.

LauncherAt(pc) == launcher.pc = pc
\* The order in which a start is prepared: it is recorded before the fork.
After(pc) == CASE pc = "read" -> "mark" [] pc = "mark" -> "fork" [] pc = "fork" -> "starting"

ReadRequest ==
    /\ LauncherAt("read")
    /\ IF target = "zr10"
       THEN launcher' = [pc |-> "fork", gen |-> request] /\ started' = request
       ELSE launcher' = [pc |-> After("read"), gen |-> request] /\ UNCHANGED started
    /\ ready' = 0
    /\ UNCHANGED <<target, request, app, webSide, mishaps>>
mark_started ==
    /\ LauncherAt("mark")
    /\ \/ started' = launcher.gen /\ launcher' = [launcher EXCEPT !.pc = After("mark")] /\ UNCHANGED mishaps
       \/ /\ mishaps < MaxMishaps /\ mishaps' = mishaps + 1
          /\ launcher' = [launcher EXCEPT !.pc = "stop"] /\ UNCHANGED started
    /\ UNCHANGED <<target, request, ready, app, webSide>>
StartApp ==
    /\ LauncherAt("fork")
    /\ Forked(launcher.gen)
    /\ launcher' = [launcher EXCEPT !.pc = IF target = "zr10" THEN "starting" ELSE After("fork")]
    /\ UNCHANGED <<target, webFiles, ready, webSide, mishaps>>

\* While the application starts and while it runs the launcher looks for its
\* end and for a newer request.  In mutant_Superseded it does not look.
mutant_Superseded == FALSE
Superseded == request # launcher.gen
Starting ==
    /\ LauncherAt("starting")
    /\ \/ ready # 0 /\ launcher' = [launcher EXCEPT !.pc = "watch"] /\ UNCHANGED mishaps
       \/ (~Alive \/ Superseded) /\ launcher' = [launcher EXCEPT !.pc = "stop"] /\ UNCHANGED mishaps
       \/ /\ mishaps < MaxMishaps /\ mishaps' = mishaps + 1
          /\ launcher' = [launcher EXCEPT !.pc = "stop"]
    /\ UNCHANGED <<target, webFiles, ready, app, webSide>>
Watch ==
    /\ LauncherAt("watch") /\ (~Alive \/ Superseded)
    /\ launcher' = [launcher EXCEPT !.pc = "stop"]
    /\ UNCHANGED <<target, webFiles, ready, app, webSide, mishaps>>

\* stop_child and kill_app: SIGTERM, and SIGKILL when that takes too long.
StopChild ==
    /\ \/ LauncherAt("stop") /\ app' = Terminated /\ launcher' = [launcher EXCEPT !.pc = "reap"] /\ UNCHANGED ready
       \/ LauncherAt("reap") /\ Alive /\ app' = Killed /\ UNCHANGED <<launcher, ready>>
       \/ LauncherAt("reap") /\ ~Alive /\ launcher' = [launcher EXCEPT !.pc = "wait"] /\ ready' = 0 /\ UNCHANGED app
    /\ UNCHANGED <<target, webFiles, webSide, mishaps>>
wait_for_restart ==
    /\ LauncherAt("wait") /\ request # launcher.gen
    /\ launcher' = [launcher EXCEPT !.pc = "read"]
    /\ UNCHANGED <<target, webFiles, ready, app, webSide, mishaps>>

-----------------------------------------------------------------------------
\* The web worker.

RestarterAt(w, pc) == restarter[w].pc = pc
To(w, pc) == restarter' = [restarter EXCEPT ![w].pc = pc]
lock_restart(w) ==
    /\ RestarterAt(w, "idle") /\ restartLock = {} /\ request < MaxRestarts
    /\ restartLock' = {w}
    /\ To(w, IF target = "mt11" THEN "stop all" ELSE "scan")
    /\ UNCHANGED <<target, webFiles, ready, app, launcher, vouched, mishaps>>

ScanOld(w) ==
    /\ RestarterAt(w, "scan")
    /\ restarter' = [restarter EXCEPT ![w].pc = "publish", ![w].old = camera_pids]
    /\ UNCHANGED <<target, webFiles, ready, app, launcher, restartLock, vouched, mishaps>>
publish_request(w) ==
    /\ RestarterAt(w, "publish")
    /\ request' = request + 1
    /\ restarter' = [restarter EXCEPT ![w].pc = "check", ![w].gen = request + 1]
    /\ UNCHANGED <<target, started, ready, app, launcher, restartLock, vouched, mishaps>>
\* The second scan counts when no instance was started for this request
\* before it, nor by the time it ends.  In mutant_Check it is not made.
mutant_Check(w) ==
    /\ RestarterAt(w, "check")
    /\ To(w, "stop")
    /\ UNCHANGED <<target, webFiles, ready, app, launcher, restartLock, vouched, mishaps>>
Check(w) ==
    /\ RestarterAt(w, "check")
    /\ To(w, IF started < restarter[w].gen THEN "scan again" ELSE "stop")
    /\ UNCHANGED <<target, webFiles, ready, app, launcher, restartLock, vouched, mishaps>>
ScanAgain(w) ==
    /\ RestarterAt(w, "scan again")
    /\ restarter' = [restarter EXCEPT ![w].pc = "check again", ![w].now = camera_pids]
    /\ UNCHANGED <<target, webFiles, ready, app, launcher, restartLock, vouched, mishaps>>
CheckAgain(w) ==
    /\ RestarterAt(w, "check again")
    /\ restarter' = [restarter EXCEPT ![w].pc = "stop", ![w].now = {},
            ![w].old = IF started < restarter[w].gen THEN @ \cup restarter[w].now ELSE @]
    /\ UNCHANGED <<target, webFiles, ready, app, launcher, restartLock, vouched, mishaps>>

\* stop_pids, and stop_camera, which signals everyone and does not kill.
stop_pids(w) ==
    /\ \/ /\ RestarterAt(w, "stop")
          /\ app' = IF Gone(restarter[w].old) THEN app ELSE Terminated
          /\ To(w, "stopping")
       \/ RestarterAt(w, "stopping") /\ Gone(restarter[w].old) /\ To(w, "await") /\ UNCHANGED app
       \/ RestarterAt(w, "stopping") /\ ~Gone(restarter[w].old) /\ app' = Killed /\ UNCHANGED restarter
    /\ UNCHANGED <<target, webFiles, ready, launcher, restartLock, vouched, mishaps>>
Finish(w, ok) ==
    /\ To(w, "idle") /\ restartLock' = {}
    /\ vouched' = IF ok THEN vouched \cup {[gen |-> restarter[w].gen, born |-> app.born]} ELSE vouched
wait_for_camera(w) ==
    /\ RestarterAt(w, "await")
    /\ \/ ready \in camera_pids \ restarter[w].old /\ Finish(w, TRUE) /\ UNCHANGED mishaps
       \/ mishaps < MaxMishaps /\ mishaps' = mishaps + 1 /\ Finish(w, FALSE)
    /\ UNCHANGED <<target, webFiles, ready, app, launcher>>

stop_camera(w) ==
    /\ \/ /\ RestarterAt(w, "stop all") /\ To(w, "stopping all")
          /\ app' = (IF camera_pids = {} THEN app ELSE Terminated)
          /\ UNCHANGED <<restartLock, vouched, mishaps>>
       \/ /\ RestarterAt(w, "stopping all") /\ camera_pids = {} /\ To(w, "start")
          /\ UNCHANGED <<app, restartLock, vouched, mishaps>>
       \/ /\ RestarterAt(w, "stopping all") /\ camera_pids # {} /\ mishaps < MaxMishaps
          /\ mishaps' = mishaps + 1 /\ Finish(w, FALSE) /\ UNCHANGED app
    /\ UNCHANGED <<target, webFiles, ready, launcher>>
start_camera(w) ==
    /\ RestarterAt(w, "start")
    /\ ready' = 0 /\ request' = request + 1 /\ Forked(request + 1)
    /\ restarter' = [restarter EXCEPT ![w].pc = "await child", ![w].gen = request + 1]
    /\ UNCHANGED <<target, started, launcher, restartLock, vouched, mishaps>>
restart_camera_direct(w) ==
    /\ RestarterAt(w, "await child")
    /\ \/ ready # 0 /\ Finish(w, TRUE) /\ UNCHANGED <<app, mishaps>>
       \/ ~Alive /\ Finish(w, FALSE) /\ UNCHANGED <<app, mishaps>>
       \/ mishaps < MaxMishaps /\ mishaps' = mishaps + 1 /\ app' = Terminated /\ Finish(w, FALSE)
    /\ UNCHANGED <<target, webFiles, ready, launcher>>

AppStep == AppStarts \/ write_ready \/ AppExits
LauncherStep == ReadRequest \/ mark_started \/ StartApp \/ Starting \/ Watch \/ StopChild \/ wait_for_restart
RestarterStep(w) ==
    \/ ScanOld(w) \/ publish_request(w) \/ Check(w) \/ ScanAgain(w) \/ CheckAgain(w) \/ stop_pids(w) \/ wait_for_camera(w)
    \/ stop_camera(w) \/ start_camera(w) \/ restart_camera_direct(w)
RestartNext == AppStep \/ AppFails \/ LauncherStep \/ \E w \in Restarters : lock_restart(w) \/ RestarterStep(w)
RestartFairness ==
    /\ WF_restartVars(AppStep) /\ WF_restartVars(LauncherStep)
    /\ \A w \in Restarters : WF_restartVars(RestarterStep(w))
RestartSpec == RestartInit /\ [][RestartNext]_restartVars /\ RestartFairness

-----------------------------------------------------------------------------
\* "Restarted" is only said of an application that read its configuration
\* after the restart was asked for: an instance that the launcher was just
\* starting is not taken for the new one (restart_camera_locked).
FreshInstance == \A a \in vouched : a.born >= a.gen

\* A worker never stops the instance that was started for its request.
Spared ==
    \A w \in Restarters :
        restarter[w].pc \in {"stop", "stopping"} /\ ~Gone(restarter[w].old) => app.gen < restarter[w].gen

\* A restart never mixes up the instances before and after it: the one it
\* reports is new, and it does not stop that one (restart_camera_locked).
RestartHonest == FreshInstance /\ Spared

\* Every request is served by an instance that gets ready, whoever missed
\* whom in the scans, unless a start goes wrong.
RestartServed ==
    \A n \in 1 .. MaxRestarts :
        request = n ~> \/ app.gen >= n /\ app.st = "ready"
                       \/ mishaps > 0 /\ (launcher.gen >= n \/ target = "mt11")
=============================================================================
