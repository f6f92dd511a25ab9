------------------------------ MODULE Mt11Focus ------------------------------
(***************************************************************************)
(* The MT11's motorised lens and everything that moves it: the stepper     *)
(* driver with its dead-reckoned positions (mt11/e5739.c), the autofocus   *)
(* search (media/autofocus.c), and the commands and threads of the media   *)
(* backend around them (mt11/media.c).                                     *)
(*                                                                         *)
(* Three threads: the event loop, which runs one command at a time and may *)
(* wait for a join or for actuator_lock; the manual focus thread, one step *)
(* per turn; the autofocus thread, which holds actuator_lock for a whole   *)
(* search.  Positions are small integers.  A move is one step here, of     *)
(* pulse batches: one that fails stops before or after any of them, and    *)
(* the batch it fails at may be counted without having been made, so the   *)
(* model keeps the counted positions and how far the lens is from them.    *)
(***************************************************************************)
EXTENDS Integers, Sequences, FiniteSets, FiniteSetsExt

CONSTANTS
    Table,       \* rows of E5739_focus.txt: [zoom, focus, min, max]
    BatchSteps,  \* E5739_HOME_COARSE_STEPS: the most steps of one pulse batch
    CoarseStep,  \* the 3 of ca_autofocus_search(..., 3U, ...)
    Peaks,       \* positions where the scene may be sharpest
    MaxFaults,   \* bound: motor, encoder and thread-creation failures
    MaxFocusCommands  \* bound: commands of the event loop

Rows == DOMAIN Table
\* load_calibration: rows by rising zoom position, the infinity position one
\* of those between minimum and maximum.
ASSUME FocusAssumption ==
    /\ Table \in Seq([zoom : Int, focus : Int, min : Int, max : Int]) /\ Peaks \subseteq Int
    /\ Len(Table) > 0 /\ CoarseStep \in Nat \ {0} /\ BatchSteps \in Nat \ {0}
    /\ MaxFaults \in Nat /\ MaxFocusCommands \in Nat
    /\ \A r \in Rows : Table[r].min <= Table[r].focus /\ Table[r].focus <= Table[r].max
    /\ \A r, s \in Rows : r < s => Table[r].zoom < Table[s].zoom

VARIABLES
    motor,      \* ca_e5739: [zoom, focus, row], and external: how far the lens itself is
                \* from these, [zoomOff, focusOff], after [missed] batches counted but not made
    peak,       \* external: where the score is highest
    lock,       \* actuator_lock: "free", "main", "auto"
    direction,  \* manual_focus_direction
    running,    \* autofocus_running
    cancel,     \* autofocus_cancel
    focusMain,       \* the event loop: [pc, cmd]
    manual,     \* manual_focus_thread: "none", "test", "move", "giveup", "ended"
    auto,       \* autofocus_thread: [pc, initial, pos, best, have, pass]
    mstarted,   \* manual_focus_thread_started
    astarted,   \* autofocus_thread_started
    zoom,       \* media->zoom, as the row it asks for
    broken,     \* a zoom move failed and none has succeeded since
    faults, focusCommands

focusVars == <<motor, peak, lock, direction, running, cancel, focusMain, manual, auto,
          mstarted, astarted, zoom, broken, faults, focusCommands>>
threads == <<manual, auto, mstarted, astarted>>
flags == <<direction, running, cancel>>

-----------------------------------------------------------------------------
\* e5739.c

Clamp(v, lo, hi) == IF v < lo THEN lo ELSE IF v > hi THEN hi ELSE v
Abs(d) == IF d < 0 THEN 0 - d ELSE d
Between(a, b) == IF a <= b THEN a .. b ELSE b .. a
focus_range(m) == Table[m.row].min .. Table[m.row].max

\* move_zoom_to, move_focus_to: batch after batch while the counted position
\* is not the target.  motor_step counts a batch when its registers are
\* written and then gates it, so a failed batch was not counted, counted and
\* made (clearing the gate failed), or counted and not made: then the lens is
\* left behind by slip = (where it was) - (where it is counted).
Stages(from, target) == {p \in Between(from, target) \ {target} : Abs(p - from) % BatchSteps = 0}
Nearer(p, target) == IF p < target THEN Clamp(p + BatchSteps, p, target) ELSE Clamp(p - BatchSteps, target, p)
Failed(p, target) ==
    {[at |-> p, slip |-> 0], [at |-> Nearer(p, target), slip |-> 0],
     [at |-> Nearer(p, target), slip |-> p - Nearer(p, target)]}
move_to(from, target, fault) ==
    IF fault THEN UNION {Failed(p, target) : p \in Stages(from, target)} ELSE {[at |-> target, slip |-> 0]}

Counted(m, s) == m.missed + (IF s.slip = 0 THEN 0 ELSE 1)
move_zoom_to(m, p, fault) ==
    {[m EXCEPT !.zoom = s.at, !.zoomOff = @ + s.slip, !.missed = Counted(m, s)] : s \in move_to(m.zoom, p, fault)}
move_focus_to(m, p, fault) ==
    {[m EXCEPT !.focus = s.at, !.focusOff = @ + s.slip, !.missed = Counted(m, s)] : s \in move_to(m.focus, p, fault)}

\* ca_e5739_set_focus_position for a position inside the range.
set_focus_position(m, p, fault) == move_focus_to(m, p, fault)

\* ca_e5739_set_zoom: zoom first, then focus along the factory curve; the row
\* changes only when both have arrived.  fault: "", "zoom" or "focus".
Follow(m, row) == Clamp(m.focus + (Table[row].focus - Table[m.row].focus), Table[row].min, Table[row].max)
focus_set_zoom(m, row, fault) ==
    IF fault = "zoom" THEN move_zoom_to(m, Table[row].zoom, TRUE)
    ELSE LET moved == UNION {move_focus_to(z, Follow(m, row), fault = "focus") :
                                z \in move_zoom_to(m, Table[row].zoom, FALSE)}
         IN IF fault = "focus" THEN moved ELSE {[n EXCEPT !.row = row] : n \in moved}

-----------------------------------------------------------------------------
\* autofocus.c

\* The score of a counted position is the one the lens has there.
Sharpest == peak - motor.focusOff
Score(p) == 0 - (IF p < Sharpest THEN Sharpest - p ELSE p - Sharpest)

\* better: a higher score, or the same score nearer to where the search began.
better(p, a) ==
    \/ ~a.have
    \/ Score(p) > Score(a.best)
    \/ Score(p) = Score(a.best) /\ Abs(p - a.initial) < Abs(a.best - a.initial)

\* The sample just taken, and where the search goes from it: on through the
\* coarse pass, then through every position around its best, then "set".
Sampled(a) == IF better(a.pos, a) THEN [a EXCEPT !.best = a.pos, !.have = TRUE] ELSE a
fine_pass_forgets(a) == [a EXCEPT !.have = FALSE]
\* Mutant: the fine pass begins at the coarse best.
AdvanceOneSided(a, lo, hi) ==
    CASE a.pass = "coarse" /\ a.pos # hi ->
            [a EXCEPT !.pos = IF hi - a.pos <= CoarseStep THEN hi ELSE a.pos + CoarseStep]
      [] a.pass = "coarse" /\ a.pos = hi -> [fine_pass_forgets(a) EXCEPT !.pass = "fine", !.pos = a.best]
      [] a.pass = "fine" ->
            IF a.pos < Clamp(a.best0 + CoarseStep, lo, hi) THEN [a EXCEPT !.pos = @ + 1]
            ELSE [a EXCEPT !.pass = "set"]
Advance(a, lo, hi) ==
    CASE a.pass = "coarse" /\ a.pos # hi ->
            [a EXCEPT !.pos = IF hi - a.pos <= CoarseStep THEN hi ELSE a.pos + CoarseStep]
      [] a.pass = "coarse" /\ a.pos = hi ->
            [fine_pass_forgets(a) EXCEPT !.pass = "fine", !.pos = Clamp(a.best - CoarseStep, lo, hi)]
      [] a.pass = "fine" ->
            IF a.pos < Clamp(a.best0 + CoarseStep, lo, hi) THEN [a EXCEPT !.pos = @ + 1]
            ELSE [a EXCEPT !.pass = "set"]

-----------------------------------------------------------------------------
NoSearch == [pc |-> "none", initial |-> 0, pos |-> 0, best |-> 0, best0 |-> 0, have |-> FALSE, pass |-> ""]
FocusIdle == [pc |-> "idle", cmd |-> "none", arg |-> 0]

FocusInit ==
    /\ motor = [zoom |-> Table[1].zoom, focus |-> Table[1].focus, row |-> 1,
                zoomOff |-> 0, focusOff |-> 0, missed |-> 0]
    /\ peak \in Peaks
    /\ lock = "free"
    /\ direction = 0 /\ running = FALSE /\ cancel = FALSE
    /\ focusMain = FocusIdle
    /\ manual = "none" /\ auto = NoSearch
    /\ mstarted = FALSE /\ astarted = FALSE
    /\ zoom = 1 /\ broken = FALSE
    /\ faults = 0 /\ focusCommands = 0

CanFault == faults < MaxFaults
Fault == faults' = faults + 1

-----------------------------------------------------------------------------
\* Commands.  focusMain.cmd names the command, .pc where it is in it.
FocusAt(pc) == focusMain.pc = pc
FocusGoto(pc) == focusMain' = [focusMain EXCEPT !.pc = pc]
Done == focusMain' = FocusIdle

FocusCommand(cmd, arg) ==
    /\ FocusAt("idle") /\ focusCommands < MaxFocusCommands
    /\ focusCommands' = focusCommands + 1
    /\ focusMain' = [pc |-> cmd, cmd |-> cmd, arg |-> arg]
    /\ UNCHANGED <<motor, peak, lock, flags, threads, zoom, broken, faults>>

\* ca_media_impl_manual_focus(0), the beginning of set_focus_percent, and of
\* media_cleanup (which joins the autofocus thread first): clear the direction.
StopManual ==
    /\ focusMain.pc \in {"stop", "percent", "close"}
    /\ direction' = 0
    /\ cancel' = IF FocusAt("close") /\ astarted THEN TRUE ELSE cancel
    /\ FocusGoto(IF FocusAt("close") THEN "join auto" ELSE "join manual")
    /\ UNCHANGED <<motor, peak, lock, running, threads, zoom, broken, faults, focusCommands>>

\* ca_media_impl_manual_focus(direction): refused during autofocus; only a
\* change of direction while the thread is believed to run; else a new one.
ManualFocus ==
    /\ FocusAt("focus")
    /\ \/ running /\ Done
       \/ ~running /\ mstarted /\ direction # 0 /\ FocusGoto("redirect")
       \/ ~running /\ mstarted /\ direction = 0 /\ FocusGoto("join manual")
       \/ ~running /\ ~mstarted /\ FocusGoto("spawn manual")
    /\ UNCHANGED <<motor, peak, lock, flags, threads, zoom, broken, faults, focusCommands>>

Redirect ==
    /\ FocusAt("redirect")
    /\ direction' = focusMain.arg
    /\ Done
    /\ UNCHANGED <<motor, peak, lock, running, cancel, threads, zoom, broken, faults, focusCommands>>

\* ca_media_impl_autofocus: refused while a manual direction is set.
Autofocus ==
    /\ FocusAt("autofocus")
    /\ IF direction # 0 THEN Done ELSE FocusGoto("join manual")
    /\ UNCHANGED <<motor, peak, lock, flags, threads, zoom, broken, faults, focusCommands>>

AfterJoinManual ==
    \/ focusMain.cmd = "stop" /\ Done
    \/ focusMain.cmd = "focus" /\ FocusGoto("spawn manual")
    \/ /\ focusMain.cmd \in {"percent", "autofocus"}
       /\ IF running THEN Done ELSE FocusGoto("join auto")
    \/ focusMain.cmd = "close" /\ FocusGoto("closed")

\* pthread_join of the manual thread, if it was started.
JoinManual ==
    /\ FocusAt("join manual")
    /\ mstarted => manual = "ended"
    /\ manual' = "none" /\ mstarted' = FALSE
    /\ running' = (running \/ focusMain.cmd = "autofocus")
    /\ AfterJoinManual
    /\ UNCHANGED <<motor, peak, lock, direction, cancel, auto, astarted, zoom, broken, faults, focusCommands>>

AfterJoinAuto ==
    \/ focusMain.cmd = "percent" /\ FocusGoto("lock")
    \/ focusMain.cmd = "autofocus" /\ FocusGoto("spawn auto")
    \/ focusMain.cmd = "close" /\ FocusGoto("join manual")

JoinAuto ==
    /\ FocusAt("join auto")
    /\ astarted => auto.pc = "ended"
    /\ auto' = NoSearch /\ astarted' = FALSE
    /\ cancel' = IF focusMain.cmd = "autofocus" THEN FALSE ELSE cancel
    /\ AfterJoinAuto
    /\ UNCHANGED <<motor, peak, lock, direction, running, manual, mstarted, zoom, broken, faults, focusCommands>>

\* The direction is stored before the thread that reads it is created.
SpawnManual ==
    /\ FocusAt("spawn manual")
    /\ Done
    /\ \/ direction' = focusMain.arg /\ manual' = "test" /\ mstarted' = TRUE /\ faults' = faults
       \/ CanFault /\ Fault /\ direction' = 0 /\ UNCHANGED <<manual, mstarted>>
    /\ UNCHANGED <<motor, peak, lock, running, cancel, auto, astarted, zoom, broken, focusCommands>>

SpawnAuto ==
    /\ FocusAt("spawn auto")
    /\ Done
    /\ \/ auto' = [NoSearch EXCEPT !.pc = "wait"] /\ astarted' = TRUE /\ UNCHANGED <<running, faults>>
       \/ CanFault /\ Fault /\ running' = FALSE /\ UNCHANGED <<auto, astarted>>
    /\ UNCHANGED <<motor, peak, lock, direction, cancel, manual, mstarted, zoom, broken, focusCommands>>

\* set_focus_percent, actuator_lock held: to a position of the range.
FocusPercent ==
    /\ FocusAt("lock") /\ focusMain.cmd = "percent" /\ lock = "free"
    /\ \E p \in focus_range(motor), fault \in {b \in BOOLEAN : b => CanFault} :
        /\ motor' \in set_focus_position(motor, p, fault)
        /\ faults' = faults + (IF fault THEN 1 ELSE 0)
    /\ Done
    /\ UNCHANGED <<peak, lock, flags, threads, zoom, broken, focusCommands>>

\* ca_media_impl_set_zoom, under actuator_lock: the optics, then the digital
\* crop (its failure moves the optics back, which may fail too), then the lens
\* and the slots (a failure there leaves the optics where they are); the zoom
\* is noted last.  (SetZoomUnlocked is also the mutant that forgets the lock.)
SetZoomUnlocked ==
    /\ FocusAt("zoom")
    /\ \/ /\ motor' \in focus_set_zoom(motor, focusMain.arg, "")
          /\ zoom' = focusMain.arg /\ broken' = FALSE /\ faults' = faults
       \/ /\ CanFault /\ Fault
          /\ \/ /\ \E where \in {"zoom", "focus"} : motor' \in focus_set_zoom(motor, focusMain.arg, where)
                /\ broken' = TRUE
             \/ /\ \E m \in focus_set_zoom(motor, focusMain.arg, "") : motor' \in focus_set_zoom(m, zoom, "") \cup {m}
                /\ broken' = FALSE
          /\ zoom' = zoom
       \/ /\ faults + 2 <= MaxFaults /\ faults' = faults + 2
          /\ \E m \in focus_set_zoom(motor, focusMain.arg, ""), where \in {"zoom", "focus"} :
                motor' \in focus_set_zoom(m, zoom, where)
          /\ broken' = TRUE /\ zoom' = zoom
    /\ Done
    /\ UNCHANGED <<peak, lock, flags, threads, focusCommands>>
FocusSetZoom == lock = "free" /\ SetZoomUnlocked

-----------------------------------------------------------------------------
\* The manual focus thread: one step per turn, SIYI +1 towards the minimum.

ManualTest ==
    /\ manual = "test"
    /\ manual' = IF direction = 0 THEN "ended" ELSE "move"
    /\ UNCHANGED <<motor, peak, lock, flags, focusMain, auto, mstarted, astarted, zoom, broken, faults, focusCommands>>

\* actuator_lock taken, the direction read again, one step made, the lock
\* given back; at a limit or after a failure the thread gives up.
ManualMove ==
    /\ manual = "move" /\ lock = "free"
    /\ LET target == motor.focus - direction IN
        \/ /\ direction = 0
           /\ manual' = "ended" /\ UNCHANGED <<motor, faults>>
        \/ /\ direction # 0 /\ target \notin focus_range(motor)
           /\ manual' = "giveup" /\ UNCHANGED <<motor, faults>>
        \/ /\ direction # 0 /\ target \in focus_range(motor)
           /\ manual' = "test" /\ motor' \in set_focus_position(motor, target, FALSE) /\ faults' = faults
        \/ /\ direction # 0 /\ target \in focus_range(motor) /\ CanFault /\ Fault
           /\ manual' = "giveup" /\ motor' \in set_focus_position(motor, target, TRUE)
    /\ UNCHANGED <<peak, lock, flags, focusMain, auto, mstarted, astarted, zoom, broken, focusCommands>>

\* The store that follows the unlock, so a command may run in between.
ManualGivesUp ==
    /\ manual = "giveup"
    /\ manual' = "ended" /\ direction' = 0
    /\ UNCHANGED <<motor, peak, lock, running, cancel, focusMain, auto, mstarted, astarted, zoom, broken, faults, focusCommands>>

-----------------------------------------------------------------------------
\* The autofocus thread.

Usable(lo, hi) == motor.focus \in lo .. hi /\ CoarseStep <= hi - lo + 1

AutoLock ==
    /\ auto.pc = "wait" /\ lock = "free"
    /\ LET lo == Table[motor.row].min
           hi == Table[motor.row].max IN
        auto' = IF Usable(lo, hi)
                THEN [auto EXCEPT !.pc = "search", !.initial = motor.focus, !.pos = lo,
                                  !.best = motor.focus, !.pass = "coarse"]
                ELSE [auto EXCEPT !.pc = "unlock"]
    /\ lock' = "auto"
    /\ UNCHANGED <<motor, peak, flags, focusMain, manual, mstarted, astarted, zoom, broken, faults, focusCommands>>

\* sample_position: move (not after a cancel), measure, compare, go on.
AutoSample ==
    /\ auto.pc = "search" /\ auto.pass # "set" /\ ~cancel
    /\ motor' \in set_focus_position(motor, auto.pos, FALSE)
    /\ LET a == Sampled(auto)
           b == IF a.pass = "coarse" THEN [a EXCEPT !.best0 = a.best] ELSE a IN
        auto' = Advance(b, Table[motor.row].min, Table[motor.row].max)
    /\ UNCHANGED <<peak, lock, flags, focusMain, manual, mstarted, astarted, zoom, broken, faults, focusCommands>>

AutoSet ==
    /\ auto.pc = "search" /\ auto.pass = "set" /\ ~cancel
    /\ motor' \in set_focus_position(motor, auto.best, FALSE)
    /\ auto' = [auto EXCEPT !.pc = "unlock", !.pass = "found"]
    /\ UNCHANGED <<peak, lock, flags, focusMain, manual, mstarted, astarted, zoom, broken, faults, focusCommands>>

\* A cancel, a move or a measurement that fails: back to where the search
\* began, except that move_focus refuses to move once cancelled; the way back
\* may fail as well, which is ignored.
AutoFails ==
    /\ auto.pc = "search"
    /\ \/ cancel /\ UNCHANGED <<motor, faults>>
       \/ /\ ~cancel
          /\ \E moves, returns \in BOOLEAN :
                /\ ~moves \/ auto.pass # "set"
                /\ \E m \in set_focus_position(motor, IF auto.pass = "set" THEN auto.best ELSE auto.pos, ~moves) :
                        motor' \in set_focus_position(m, auto.initial, ~returns)
                /\ faults' = faults + (IF returns THEN 1 ELSE 2) /\ faults' <= MaxFaults
    /\ auto' = [auto EXCEPT !.pc = "unlock", !.pass = "failed"]
    /\ UNCHANGED <<peak, lock, flags, focusMain, manual, mstarted, astarted, zoom, broken, focusCommands>>

AutoUnlock ==
    /\ auto.pc = "unlock"
    /\ lock' = "free" /\ auto' = [auto EXCEPT !.pc = "report"]
    /\ UNCHANGED <<motor, peak, flags, focusMain, manual, mstarted, astarted, zoom, broken, faults, focusCommands>>

AutoReport ==
    /\ auto.pc = "report"
    /\ running' = FALSE /\ auto' = [auto EXCEPT !.pc = "ended"]
    /\ UNCHANGED <<motor, peak, lock, direction, cancel, focusMain, manual, mstarted, astarted, zoom, broken, faults, focusCommands>>

-----------------------------------------------------------------------------
Commands ==
    \/ FocusCommand("stop", 0) \/ FocusCommand("percent", 0) \/ FocusCommand("autofocus", 0) \/ FocusCommand("close", 0)
    \/ \E d \in {-1, 1} : FocusCommand("focus", d)
    \/ \E r \in Rows : FocusCommand("zoom", r)
MainStep ==
    \/ StopManual \/ ManualFocus \/ Redirect \/ Autofocus \/ JoinManual \/ JoinAuto
    \/ SpawnManual \/ SpawnAuto \/ FocusPercent \/ FocusSetZoom
ManualStep == ManualTest \/ ManualMove \/ ManualGivesUp
AutoStep == AutoLock \/ AutoSample \/ AutoSet \/ AutoFails \/ AutoUnlock \/ AutoReport

FocusNext == Commands \/ MainStep \/ ManualStep \/ AutoStep

FocusSpec == FocusInit /\ [][FocusNext]_focusVars

-----------------------------------------------------------------------------
\* The dead reckoning stays calibrated: while nobody holds the lens and no
\* zoom move has failed since the last that succeeded, the counted zoom
\* position is the one of the current row and the counted focus inside that
\* row's range, whichever of the three threads moved it last (actuator_lock,
\* current_row).  It says nothing of the lens itself: a zoom that fails in its
\* last batch may leave the target counted and the lens short of it; asked for
\* again, it finds nothing to move and succeeds, and only ca_e5739_open homes.
Calibrated ==
    lock = "free" /\ ~broken =>
        motor.zoom = Table[motor.row].zoom /\ motor.focus \in focus_range(motor)

\* Where the lens itself is: at the counted positions, except for the batches
\* that were counted and not made, each of which leaves it at most one batch
\* off, and no later move, zoom, search or retry of any thread adds to that
\* (motor_step counts before gate_batch).
Reckoned == Abs(motor.zoomOff) + Abs(motor.focusOff) <= BatchSteps * motor.missed

\* Stop means stop: with the last manual command a completed stop, percent
\* or autofocus, no manual thread exists and no direction is left over for
\* one that would still move the lens.
StopStops ==
    FocusAt("idle") /\ ~mstarted => manual = "none" /\ direction = 0

\* Between commands the counted positions fit the calibration and stay as they
\* are, and the lens is off them by no more than the batches counted but not
\* made (actuator_lock, focus_direction and the joins around them, motor_step).
LensKnown == Calibrated /\ StopStops /\ Reckoned

\* The search finds the peak: a search that completed leaves the lens, at the
\* counted position of the range with the best score (coarse pass, window of
\* the fine pass and tie-breaking of ca_autofocus_search).
SearchFindsPeak ==
    auto.pass = "found" /\ auto.pc = "unlock" =>
        \A p \in focus_range(motor) : Score(p) <= Score(motor.focus)

=============================================================================
