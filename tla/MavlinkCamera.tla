---------------------------- MODULE MavlinkCamera -----------------------------
(***************************************************************************)
(* The camera commands of the MAVLink server (handle_camera_command,       *)
(* camera_parameter_set and the periodic work in protocol/mavlink_server.c): *)
(* single and timed photos, recording by command and by the armed state,   *)
(* zoom by position, step and rate, camera mode and streams.  The media    *)
(* backend may refuse; another protocol may record and stop too.           *)
(***************************************************************************)
EXTENDS Integers

CONSTANTS
    ZoomMax,        \* APCAM_ZOOM_CONTROL_MAX, in steps
    Counts,         \* counts of IMAGE_START_CAPTURE
    Intervals,      \* intervals, in ticks
    MaxCameraNow,   \* bound: ticks
    MaxCommands     \* bound: commands and heartbeats

ASSUME MavlinkCameraAssumption ==
    ZoomMax \in Nat \ {0, 1} /\ Counts \subseteq Nat /\ Intervals \subseteq Nat /\ {MaxCameraNow, MaxCommands} \subseteq Nat

VARIABLES
    capture,    \* [remaining, interval, next]: timed photos; remaining -1 without end
    zoom,       \* [level, rate, fixed]: fixed, the last absolute zoom that no later
                \* command moved from, 0 if none (ghost)
    recording,  \* [media, reported, started]: of the backend, as last reported, since when
    settings,   \* [mode, streams, autorecord, focus]
    armed,      \* "unknown", "armed", "disarmed"
    cameraNow,
    shots,      \* ghost: [asked, taken, last]: photos asked for, taken since, when
    spaced,     \* ghost: timed photos kept their interval
    commands

cameraVars == <<capture, zoom, recording, settings, armed, cameraNow, shots, spaced, commands>>

CameraInit ==
    /\ capture = [remaining |-> 0, interval |-> 0, next |-> 0]
    /\ zoom = [level |-> 1, rate |-> 0, fixed |-> 0]
    /\ recording = [media |-> FALSE, reported |-> FALSE, started |-> 0]
    /\ settings \in [mode : {0}, streams : {TRUE}, autorecord : {"off", "armed"}, focus : {"unknown"}]
    /\ armed = "unknown" /\ cameraNow = 1
    /\ shots = [asked |-> 0, taken |-> 0, last |-> 0] /\ spaced = TRUE /\ commands = 0

Command == commands < MaxCommands /\ commands' = commands + 1

-----------------------------------------------------------------------------
\* Photos.

\* capture_one counts and reports a photo whether or not it succeeded.
capture_one(asked, taken) == shots' = [asked |-> asked, taken |-> taken, last |-> cameraNow]
\* In mutant_Remaining the photo taken at once is not counted.
mutant_Remaining(count) == IF count = 0 THEN -1 ELSE count
Remaining(count) == IF count = 0 THEN -1 ELSE count - 1
Bounded(interval) == IF interval = 0 THEN 1 ELSE interval
ImageStartCapture ==
    /\ Command
    /\ \E count \in Counts, interval \in Intervals :
        /\ capture' = IF count = 1 THEN [capture EXCEPT !.remaining = 0, !.interval = 0]
                      ELSE [remaining |-> Remaining(count), interval |-> Bounded(interval), next |-> cameraNow + Bounded(interval)]
        /\ capture_one(count, 1)
    /\ UNCHANGED <<zoom, recording, settings, armed, cameraNow, spaced>>
ImageStopCapture ==
    /\ Command
    /\ capture' = [capture EXCEPT !.remaining = 0, !.interval = 0]
    /\ shots' = [asked |-> 0, taken |-> 0, last |-> 0]
    /\ UNCHANGED <<zoom, recording, settings, armed, cameraNow, spaced>>

-----------------------------------------------------------------------------
\* Recording.

VideoCapture(on) ==
    /\ Command
    /\ \/ UNCHANGED recording
       \/ recording' = [recording EXCEPT !.media = on, !.started = IF ~on THEN 0 ELSE IF @ = 0 THEN cameraNow ELSE @]
    /\ UNCHANGED <<capture, zoom, settings, armed, cameraNow, shots, spaced>>
\* process_message, a heartbeat of the vehicle: with autorecord while armed,
\* recording follows the armed state on every heartbeat, if the backend will.
VehicleHeartbeat(state) ==
    /\ Command
    /\ armed' = state
    /\ \/ UNCHANGED recording
       \/ settings.autorecord = "armed" /\ recording' = [recording EXCEPT !.media = state = "armed"]
    /\ UNCHANGED <<capture, zoom, settings, cameraNow, shots, spaced>>
\* ca_media_set_recording by another protocol.
OtherRecords ==
    /\ Command
    /\ recording' = [recording EXCEPT !.media = ~@]
    /\ UNCHANGED <<capture, zoom, settings, armed, cameraNow, shots, spaced>>

-----------------------------------------------------------------------------
\* Zoom.

Limited(level) == IF level < 1 THEN 1 ELSE IF level > ZoomMax THEN ZoomMax ELSE level
\* Type 2: an absolute zoom, also the camera parameter.  It ends
\* a rate that runs.
ZoomTo(level) == zoom' = [level |-> level, rate |-> 0, fixed |-> level]
ZoomRate(rate) == zoom' = [zoom EXCEPT !.rate = rate, !.fixed = 0]
ZoomStep(step) == zoom' = [zoom EXCEPT !.level = Limited(@ + step), !.fixed = 0]
set_zoom ==
    /\ Command
    /\ \/ \E level \in 1 .. ZoomMax : ZoomTo(level)
       \/ zoom' = [zoom EXCEPT !.rate = 0, !.fixed = 0] \* the backend refused it
       \/ \E rate \in -1 .. 1 : ZoomRate(rate)
       \/ \E step \in {-1, 1} : ZoomStep(step)
    /\ UNCHANGED <<capture, recording, settings, armed, cameraNow, shots, spaced>>

-----------------------------------------------------------------------------
\* Mode, streams, focus: by command, and camera_parameter_set.

set_focus == settings' \in [mode : {settings.mode}, streams : {settings.streams}, autorecord : {settings.autorecord}, focus : {"set", "unknown"}]
SetMode == \E m \in {0, 1} : settings' = [settings EXCEPT !.mode = m]
Streaming == \E on \in BOOLEAN : settings' = [settings EXCEPT !.streams = on]
camera_parameter_set ==
    /\ Command
    /\ set_focus \/ SetMode \/ Streaming
    /\ UNCHANGED <<capture, zoom, recording, armed, cameraNow, shots, spaced>>

-----------------------------------------------------------------------------
\* ca_mavlink_server_periodic.

Reported ==
    IF recording.media = recording.reported THEN recording
    ELSE [recording EXCEPT !.reported = recording.media,
                           !.started = IF ~recording.media THEN 0 ELSE IF @ = 0 THEN cameraNow ELSE @]
Moved ==
    LET level == Limited(zoom.level + zoom.rate)
    IN  [zoom EXCEPT !.level = level,
                     !.rate = IF zoom.level + zoom.rate <= 1 \/ zoom.level + zoom.rate >= ZoomMax THEN 0 ELSE @]
Due == capture.remaining # 0 /\ cameraNow >= capture.next
TimedPhoto ==
    IF ~Due THEN UNCHANGED <<capture, shots, spaced>>
    ELSE LET left == IF capture.remaining > 0 THEN capture.remaining - 1 ELSE capture.remaining IN
         /\ capture_one(shots.asked, IF shots.asked = 0 THEN 1 ELSE shots.taken + 1)
         /\ spaced' = (spaced /\ cameraNow - shots.last >= capture.interval)
         /\ capture' = [remaining |-> left, interval |-> IF left = 0 THEN 0 ELSE capture.interval,
                        next |-> IF left = 0 THEN capture.next ELSE cameraNow + capture.interval]
cameraPeriodic ==
    /\ cameraNow < MaxCameraNow /\ cameraNow' = cameraNow + 1
    /\ recording' = Reported
    /\ IF zoom.rate = 0 THEN UNCHANGED zoom ELSE zoom' = Moved \/ zoom' = [Moved EXCEPT !.level = zoom.level]
    /\ TimedPhoto
    /\ UNCHANGED <<settings, armed, commands>>

CameraNext ==
    \/ ImageStartCapture \/ ImageStopCapture \/ OtherRecords \/ set_zoom \/ camera_parameter_set \/ cameraPeriodic
    \/ \E on \in BOOLEAN : VideoCapture(on)
    \/ \E state \in {"armed", "disarmed"} : VehicleHeartbeat(state)
CameraSpec == CameraInit /\ [][CameraNext]_cameraVars

-----------------------------------------------------------------------------
\* A request for n photos is answered by n, the first at once, unless it is
\* stopped or replaced, and by none after; timed photos keep their interval.
CapturesExact ==
    /\ shots.asked > 0 => shots.taken + capture.remaining = shots.asked
    /\ shots.asked = 0 => capture.remaining = (IF shots.taken = 0 THEN 0 ELSE -1)
    /\ spaced

\* An absolute zoom ends a zoom that was running by rate: nothing moves the
\* lens from where it was sent but a later command.
ZoomHolds == zoom.fixed # 0 => zoom.level = zoom.fixed

\* What runs on by the clock after a command was answered, photos and zoom,
\* does what that command said and nothing after the next one.
CommandsExact == CapturesExact /\ ZoomHolds

=============================================================================
