---------------------------- MODULE GimbalControl ----------------------------
(***************************************************************************)
(* Who moves the gimbal.  A live-view page may take a lease on it          *)
(* (protocol/manual_control.c); without one, the location tracker and the  *)
(* MAVLink attitude handler (protocol/mavlink_server.c) and the vendor     *)
(* protocols (backends) move it.  All of them run in the event loop of     *)
(* main.c, which is blocked while the media pipeline is reopened, and all  *)
(* of them use a serial link whose writes may fail, with or without        *)
(* effect.                                                                 *)
(*                                                                         *)
(* Time is counted in ticks of the loop's 20 ms poll timeout.  expires_ms  *)
(* and stop_ms are kept as the number of ticks left.                       *)
(***************************************************************************)
EXTENDS Integers

CONSTANTS
    Lease,          \* APCAM_MANUAL_LEASE_MS in ticks
    Pulse,          \* APCAM_MANUAL_PULSE_MS in ticks
    Retry,          \* the 20 ms of stop_motion, in ticks
    Reopen,         \* ticks a media reopen blocks the event loop
    PublicPath,     \* TRUE where the app's own gimbal commands pass through
                    \* ca_backend_handle_siyi (ZR10)
    MaxCommands     \* bound: packets the pages send

ASSUME GimbalControlAssumption ==
    /\ Lease \in Nat \ {0}
    /\ Pulse \in Nat \ {0}
    /\ Retry \in Nat \ {0}
    /\ Retry <= Pulse
    /\ Reopen \in Nat
    /\ PublicPath \in BOOLEAN
    /\ MaxCommands \in Nat

VARIABLES
    running,        \* the event loop has not ended
    pc,             \* where in its body the loop is
    active,         \* ca_manual_control: active
    token,          \* ca_manual_control: token
    issued,         \* tokens created so far
    lease,          \* ticks until expires_ms
    stop,           \* ticks until stop_ms, or NoStop
    target,         \* mavlink: target_location_active
    rate,           \* mavlink: tracking_rate_active
    settings,       \* mavlink: settings.tracking_method, position_targeting
    gimbal,         \* external: whose command the gimbal obeys, and whether
                    \* that command keeps it turning
    commands,       \* packets received from the pages
    turned,         \* history: ticks since the last pulse or attempt to stop it
    lost            \* history: the tracker's last command failed

manualVars == <<active, token, issued, lease, stop, commands>>
trackVars == <<target, rate, settings, lost>>
vars == <<running, pc, active, token, issued, lease, stop, target, rate,
          settings, gimbal, commands, turned, lost>>

NoStop == -1
Overlong == Pulse + 2      \* turned counts no further
Owners == {"none", "manual", "track", "mavlink", "vendor"}
Gimbal == [owner : Owners, turning : BOOLEAN]

TypeOK ==
    /\ running \in BOOLEAN
    /\ pc \in {"poll", "timers", "packets", "events"}
    /\ active \in BOOLEAN
    /\ issued \in 0 .. MaxCommands
    /\ token \in 0 .. MaxCommands
    /\ lease \in 0 .. Lease
    /\ stop \in {NoStop} \cup 0 .. Pulse
    /\ target \in BOOLEAN
    /\ rate \in BOOLEAN
    /\ settings \in [method : {"angle", "rate"}, targeting : BOOLEAN]
    /\ gimbal \in Gimbal
    /\ commands \in 0 .. MaxCommands
    /\ turned \in 0 .. Overlong
    /\ lost \in BOOLEAN

-----------------------------------------------------------------------------
Init ==
    /\ running = TRUE
    /\ pc = "poll"
    /\ active = FALSE
    /\ token = 0
    /\ issued = 0
    /\ lease = 0
    /\ stop = NoStop
    /\ target = FALSE
    /\ rate = FALSE
    /\ settings \in [method : {"angle", "rate"}, targeting : BOOLEAN]
    /\ gimbal = [owner |-> "none", turning |-> FALSE]
    /\ commands = 0
    /\ turned = 0
    /\ lost = FALSE

ManualTurning == gimbal.owner = "manual" /\ gimbal.turning
TrackTurning == gimbal.owner = "track" /\ gimbal.turning

\* A movement command on the serial link to the gimbal.  One that is reported
\* as failed may have been transmitted.
Sent(g, by, turning) ==
    LET new == [owner |-> by, turning |-> turning]
    IN  {[ok |-> TRUE, gimbal |-> new],
         [ok |-> FALSE, gimbal |-> new],
         [ok |-> FALSE, gimbal |-> g]}

\* ca_backend_manual_blocked for a movement command that is not the lease's own.
ManualBlocked == active

\* A movement command of the MAVLink server.  Where it is blocked the backend
\* reports success.
Internal(g, by, turning) ==
    IF PublicPath /\ ManualBlocked THEN {[ok |-> TRUE, gimbal |-> g]}
    ELSE Sent(g, by, turning)

\* stop_tracking_rate, which also clears tracking_rate_active.
StopTrackingRate(g) ==
    IF rate THEN {[gimbal |-> o.gimbal, lost |-> ~o.ok] : o \in Internal(g, "track", FALSE)}
    ELSE {[gimbal |-> g, lost |-> lost]}

\* Time passes: the deadlines come nearer.
Left(t, n) == IF t > n THEN t - n ELSE 0
Elapse(n) ==
    /\ lease' = Left(lease, n)
    /\ stop' = IF stop = NoStop THEN NoStop ELSE Left(stop, n)
    /\ turned' = IF gimbal'.owner = "manual" /\ gimbal'.turning 
               THEN IF turned + n < Overlong THEN turned + n ELSE Overlong
               ELSE 0

-----------------------------------------------------------------------------
\* Mutant of RetryOf: a stop that failed is forgotten.
RetryOfNever(ok) == NoStop

\* stop_motion: what becomes of stop_ms.
RetryOf(ok) == IF ok THEN NoStop ELSE Retry

\* stop_motion: the lease's own command, never blocked.
StopMotion(o) ==
    /\ o \in Sent(gimbal, "manual", FALSE)
    /\ stop' = RetryOf(o.ok)
    /\ turned' = 0

\* The loop's poll: returns on an event or after its timeout.
Poll ==
    /\ running
    /\ pc = "poll"
    /\ pc' = "timers"
    /\ gimbal' = gimbal
    /\ \E n \in 0 .. 1 : Elapse(n)
    /\ UNCHANGED <<running, active, token, issued, target, rate, settings,
                   commands, lost>>

\* ca_manual_control_update up to its packets.  The stop of an expired lease
\* leaves no other stop due.
Expired == active /\ lease = 0

StopDue == Expired \/ stop = 0

UpdateTimers ==
    /\ running
    /\ pc = "timers"
    /\ pc' = "packets"
    /\ active' = (active /\ ~Expired)
    /\ token' = IF Expired THEN 0 ELSE token
    /\ IF StopDue
       THEN \E o \in Sent(gimbal, "manual", FALSE) : StopMotion(o) /\ gimbal' = o.gimbal
       ELSE UNCHANGED <<stop, gimbal, turned>>
    /\ UNCHANGED <<running, issued, lease, target, rate, settings, commands, lost>>

-----------------------------------------------------------------------------
\* ca_manual_control_update: a packet is received.
Packet ==
    /\ running
    /\ pc = "packets"
    /\ commands < MaxCommands
    /\ commands' = commands + 1
    /\ UNCHANGED <<running, pc, settings>>

\* ca_mavlink_server_suspend_gimbal: the target is kept for release.
Suspended == target

\* Mutant of Acquire: a lease is given although the gimbal was not stopped.
AcquireUnstopped ==
    /\ Packet
    /\ ~active
    /\ token' = issued + 1
    /\ issued' = issued + 1
    /\ \E o \in Sent(gimbal, "manual", FALSE) :
         /\ StopMotion(o)
         /\ active' = TRUE
         /\ lease' = Lease
         /\ target' = Suspended
         /\ rate' = FALSE
         /\ \E s \in StopTrackingRate(o.gimbal) : gimbal' = s.gimbal /\ lost' = s.lost

\* APCAM_MANUAL_ACQUIRE.  The lease begins after the gimbal has been stopped.
Acquire ==
    /\ Packet
    /\ ~active
    /\ token' = issued + 1
    /\ issued' = issued + 1
    /\ \E o \in Sent(gimbal, "manual", FALSE) :
         /\ StopMotion(o)
         /\ IF o.ok
            THEN /\ active' = TRUE
                 /\ lease' = Lease
                 /\ target' = Suspended
                 /\ rate' = FALSE
                 /\ \E s \in StopTrackingRate(o.gimbal) : gimbal' = s.gimbal /\ lost' = s.lost
            ELSE gimbal' = o.gimbal /\ UNCHANGED <<active, lease, target, rate, lost>>

\* command: the lease is active and the packet carries its token.  A page may
\* send any token it was ever given, at any time.
Owned(t) == Packet /\ active /\ t = token

\* A packet that is refused (EBUSY, EACCES, EINVAL), or APCAM_MANUAL_ZOOM.
Refuse ==
    /\ Packet
    /\ UNCHANGED <<active, token, issued, lease, stop, target, rate, gimbal, turned, lost>>

\* APCAM_MANUAL_RELEASE: the lease is kept when the gimbal cannot be stopped.
Release(t) ==
    /\ Owned(t)
    /\ \E o \in Sent(gimbal, "manual", FALSE) :
         /\ StopMotion(o)
         /\ gimbal' = o.gimbal
         /\ active' = ~o.ok
         /\ token' = IF o.ok THEN 0 ELSE token
    /\ UNCHANGED <<issued, lease, target, rate, lost>>

\* APCAM_MANUAL_RENEW.
Renew(t) ==
    /\ Owned(t)
    /\ lease' = Lease
    /\ UNCHANGED <<active, token, issued, stop, target, rate, gimbal, turned, lost>>

\* APCAM_MANUAL_LEFT .. APCAM_MANUAL_DOWN: stopped later, sent or not.
Move(t) ==
    /\ Owned(t)
    /\ \E o \in Sent(gimbal, "manual", TRUE) : gimbal' = o.gimbal
    /\ stop' = Pulse
    /\ turned' = 0
    /\ UNCHANGED <<active, token, issued, lease, target, rate, lost>>

\* Mutant of Center: the pending stop is dropped although the command failed.
CenterForgets(t) ==
    /\ Owned(t)
    /\ \E o \in Sent(gimbal, "manual", FALSE) : gimbal' = o.gimbal
    /\ stop' = NoStop
    /\ UNCHANGED <<active, token, issued, lease, target, rate, turned, lost>>

\* APCAM_MANUAL_CENTER: the neutral position replaces a turning command.
Center(t) ==
    /\ Owned(t)
    /\ \E o \in Sent(gimbal, "manual", FALSE) :
         /\ gimbal' = o.gimbal
         /\ stop' = IF o.ok THEN NoStop ELSE stop
    /\ UNCHANGED <<active, token, issued, lease, target, rate, turned, lost>>

\* No more packets are waiting.
PacketsDone ==
    /\ running
    /\ pc = "packets"
    /\ pc' = "events"
    /\ UNCHANGED <<running, active, token, issued, lease, stop, target, rate,
                   settings, gimbal, commands, turned, lost>>

-----------------------------------------------------------------------------
\* The backend, the vendor server and the MAVLink server handle their input.
Event ==
    /\ running
    /\ pc = "events"
    /\ UNCHANGED <<running, pc, manualVars, turned>>

\* A vendor movement command: ca_backend_handle_siyi among the events, or
\* ca_xfrobot_server_update before the poll.
VendorCommand ==
    /\ running
    /\ pc \in {"poll", "events"}
    /\ ~ManualBlocked
    /\ \E turning \in BOOLEAN : \E o \in Sent(gimbal, "vendor", turning) : gimbal' = o.gimbal
    /\ UNCHANGED <<running, pc, manualVars, trackVars, turned>>

\* handle_gimbal_set_attitude: ends tracking, then turns the gimbal, points
\* it, or does nothing when the vehicle's attitude is unknown.
SetAttitude ==
    /\ Event
    /\ ~active
    /\ target' = FALSE
    /\ rate' = FALSE
    /\ \E s \in StopTrackingRate(gimbal) :
         /\ lost' = s.lost
         /\ \/ gimbal' = s.gimbal
            \/ \E turning \in BOOLEAN :
                 \E o \in Internal(s.gimbal, "mavlink", turning) : gimbal' = o.gimbal
    /\ UNCHANGED settings

\* handle_command_int: MAV_CMD_DO_SET_ROI_LOCATION.
SetRoi ==
    /\ Event
    /\ ~active
    /\ settings.targeting
    /\ target' = TRUE
    /\ UNCHANGED <<rate, settings, gimbal, lost>>

\* handle_command_int: MAV_CMD_DO_SET_ROI_NONE.
ClearRoi ==
    /\ Event
    /\ ~active
    /\ target' = FALSE
    /\ rate' = FALSE
    /\ \E s \in StopTrackingRate(gimbal) : gimbal' = s.gimbal /\ lost' = s.lost
    /\ UNCHANGED settings

\* apply_runtime_config for a change of the video format: the pipeline is
\* reopened with the loop blocked, after tracking has been stopped.
Reconfigure ==
    /\ running
    /\ pc = "events"
    /\ rate' = FALSE
    /\ \E s \in StopTrackingRate(gimbal) : gimbal' = s.gimbal /\ lost' = s.lost
    /\ Elapse(Reopen)
    /\ UNCHANGED <<running, pc, active, token, issued, target, settings, commands>>

\* apply_runtime_config for a change of the tracking settings.
ConfigureTracking(next) ==
    /\ Event
    /\ next # settings
    /\ settings' = next
    /\ target' = (target /\ next.targeting)
    /\ IF next.method # settings.method \/ ~next.targeting
       THEN /\ rate' = FALSE
            /\ \E s \in StopTrackingRate(gimbal) : gimbal' = s.gimbal /\ lost' = s.lost
       ELSE UNCHANGED <<rate, gimbal, lost>>

\* apply_camera_config when the new settings cannot be saved: they are applied
\* and taken back, and the target is restored.  (Were taking back to fail too,
\* the new settings would stay applied without being saved: not modelled.)
ConfigureUndone ==
    /\ Event
    /\ rate' = FALSE
    /\ \E s \in StopTrackingRate(gimbal) : gimbal' = s.gimbal /\ lost' = s.lost
    /\ UNCHANGED <<target, settings>>

\* ca_mavlink_server_periodic reaches update_target_location and the body of
\* the loop ends.
Periodic ==
    /\ running
    /\ pc = "events"
    /\ pc' = "poll"
    /\ UNCHANGED <<running, manualVars, turned, target, settings>>

\* update_target_location: under a lease, or before its interval is over.
UpdateTargetSkip ==
    /\ Periodic
    /\ active \/ (target /\ settings.targeting)
    /\ UNCHANGED <<rate, gimbal, lost>>

\* update_target_location: there is no target, or telemetry or attitude are
\* missing or stale.
UpdateTargetStop ==
    /\ Periodic
    /\ ~active
    /\ rate' = FALSE
    /\ \E s \in StopTrackingRate(gimbal) : gimbal' = s.gimbal /\ lost' = s.lost

\* update_target_location with the angle method.
UpdateTargetAngle ==
    /\ Periodic
    /\ ~active
    /\ target /\ settings.targeting /\ settings.method = "angle"
    /\ rate' = FALSE
    /\ \E s \in StopTrackingRate(gimbal) :
         \E o \in Internal(s.gimbal, "track", FALSE) :
           gimbal' = o.gimbal /\ lost' = (s.lost \/ ~o.ok)

\* update_target_location with the rate method; one that fails is stopped if
\* the tracker was turning the gimbal before.
UpdateTargetRate ==
    /\ Periodic
    /\ ~active
    /\ target /\ settings.targeting /\ settings.method = "rate"
    /\ \E o \in Internal(gimbal, "track", TRUE) :
         IF o.ok
         THEN rate' = TRUE /\ gimbal' = o.gimbal /\ lost' = FALSE
         ELSE /\ rate' = FALSE
              /\ IF rate
                 THEN \E s \in StopTrackingRate(o.gimbal) : gimbal' = s.gimbal /\ lost' = s.lost
                 ELSE gimbal' = o.gimbal /\ lost' = TRUE

\* The end of main: ca_manual_control_close, then ca_mavlink_server_close.
Close ==
    /\ running
    /\ pc \in {"poll", "events"}
    /\ running' = FALSE
    /\ active' = FALSE
    /\ rate' = FALSE
    /\ IF active \/ stop # NoStop
       THEN \E o \in Sent(gimbal, "manual", FALSE) :
              /\ StopMotion(o)
              /\ \E s \in StopTrackingRate(o.gimbal) : gimbal' = s.gimbal /\ lost' = s.lost
       ELSE /\ \E s \in StopTrackingRate(gimbal) : gimbal' = s.gimbal /\ lost' = s.lost
            /\ UNCHANGED <<stop, turned>>
    /\ UNCHANGED <<pc, token, issued, lease, target, settings, commands>>

-----------------------------------------------------------------------------
ManualStep ==
    \/ UpdateTimers
    \/ Acquire
    \/ Refuse
    \/ \E t \in 0 .. issued : Release(t) \/ Renew(t) \/ Move(t) \/ Center(t)
    \/ PacketsDone

LoopEnds ==
    \/ UpdateTargetSkip
    \/ UpdateTargetStop
    \/ UpdateTargetAngle
    \/ UpdateTargetRate

OtherStep ==
    \/ VendorCommand
    \/ SetAttitude
    \/ SetRoi
    \/ ClearRoi
    \/ Reconfigure
    \/ \E next \in [method : {"angle", "rate"}, targeting : BOOLEAN] : ConfigureTracking(next)
    \/ ConfigureUndone
    \/ LoopEnds

Next == Poll \/ ManualStep \/ OtherStep \/ Close

Spec == Init /\ [][Next]_vars

\* The loop goes round, its poll times out again and again, and the link to
\* the gimbal carries a stop that is retried for ever.
StopReaches == UpdateTimers /\ StopDue /\ stop' = NoStop
FairSpec ==
    /\ Spec
    /\ WF_vars(Poll) /\ SF_vars(Poll /\ Elapse(1))
    /\ WF_vars(UpdateTimers) /\ SF_vars(StopReaches)
    /\ WF_vars(PacketsDone)
    /\ WF_vars(LoopEnds)

-----------------------------------------------------------------------------
\* A gimbal that the lease has set turning is never forgotten: as long as the
\* app runs a stop is scheduled, whatever the link did to earlier commands and
\* whether or not the lease still exists.
NoRunaway == running /\ ManualTurning => stop # NoStop

\* While a page holds the lease nobody else keeps the gimbal turning, not even
\* with a command given before the lease began.
Exclusive == active /\ gimbal.turning => gimbal.owner = "manual"

\* Under a lease no other controller's command reaches the gimbal, not even the
\* stop of a tracker that was turning it.
Undisturbed == [][active /\ active' => gimbal' = gimbal \/ gimbal'.owner = "manual"]_vars

\* A location target survives the lease: only a change of the settings removes
\* it between the lease's beginning and its end.
TargetKept == [][(active \/ active') /\ settings' = settings => target' = target]_vars

\* When the tracker keeps the gimbal turning, the server knows it, unless the
\* link failed: stop_tracking_rate has something to stop.
TrackerKnown == TrackTurning => rate \/ lost

\* docs/manual-gimbal-control.md: pulses are bounded by 180 ms.  One turn of
\* the loop is granted.
PulseBounded == ManualTurning => turned <= Pulse + 1

\* Once the pages are silent the lease ends.
LeaseEnds == <>[]~active

\* Once the pages are silent a gimbal they have set turning comes to rest, if
\* the app keeps running and the link recovers.
ManualStops == <>[](running => ~ManualTurning)

\* Whatever the pages did before they fell silent, and whichever stops failed,
\* the gimbal comes to rest and is free again (ca_manual_control_update).
Progress == LeaseEnds /\ ManualStops
=============================================================================
