----------------------------- MODULE SiyiCamera -----------------------------
(***************************************************************************)
(* The SIYI requests that a backend carries out itself (photographs,       *)
(* recording, zoom, which picture is shown, focus, thermal settings, the   *)
(* clock) and those it passes on to the gimbal's controller (MCU), on the  *)
(* MT11 (backends/mt11/control.c) and on the A8 and ZR10                   *)
(* (backends/siyi/control.c).  On the ZR10 the MCU may also send a request *)
(* back for the camera to carry out; the answer then goes to the MCU.      *)
(*                                                                         *)
(* A request is named for its opcode.  The media is seen through the       *)
(* callbacks: a setter succeeds, or fails and leaves the setting as it     *)
(* was.  The MCU is external: it answers, or on the ZR10 delegates, any    *)
(* request it is sent.  Movements, attitude and mounting are in            *)
(* GimbalBackend, the lease of manual control in GimbalControl.            *)
(***************************************************************************)
EXTENDS Naturals, FiniteSets

CONSTANTS
    TopZoom,        \* largest zoom of opcode 0x05, in its steps; 1 is wide
    RangeInterval,  \* THERMAL_RANGE_INTERVAL_MS, in ticks
    MaxAsks         \* bound: requests of clients

ASSUME SiyiCameraAssumption ==
    /\ TopZoom \in Nat \ {0} /\ RangeInterval \in Nat \ {0} /\ MaxAsks \in Nat

VARIABLES
    camera,         \* "mt11", "a8" or "zr10"
    shot,           \* the media behind the callbacks
    shownBefore,          \* what was shown before the last request
    feedback_last, gimbal_mode,
    thermal_continuous, sinceRange, \* since thermal_last_emit_ms, or Never
    frames,         \* the thermal camera has delivered a frame
    reply,          \* what the last request was answered
    atMcu,          \* external: requests on their way to or in the MCU
    stuck,          \* setting the picture back failed too
    asks

siyiVars == <<camera, shot, shownBefore, feedback_last, gimbal_mode, thermal_continuous,
              sinceRange, frames, reply, atMcu, stuck, asks>>
reports == <<thermal_continuous, sinceRange>>

Never == RangeInterval + 1
Silent == [op |-> "none", to |-> "nobody", ok |-> TRUE]
Shown == [thermal |-> shot.thermal, wide |-> shot.wide]

\* ca_backend_open: feedback_last is 6, recording off.
SiyiCameraInit ==
    /\ camera \in {"mt11", "a8", "zr10"}
    /\ shot = [taping |-> FALSE, zoom |-> 1, wide |-> TRUE, thermal |-> FALSE,
               gain |-> 1, palette |-> 0]
    /\ shownBefore = Shown
    /\ feedback_last = "off" /\ gimbal_mode = 0
    /\ thermal_continuous = FALSE /\ sinceRange = Never
    /\ frames = FALSE
    /\ reply = Silent /\ atMcu = {} /\ stuck = FALSE /\ asks = 0

-----------------------------------------------------------------------------
\* emit_local: to the MCU if it asked (reply_to_mcu, which handle_frame holds
\* just while a request of the MCU is handled), otherwise to the clients.
emit_local(from, op, ok) ==
    reply' = [op |-> op, ok |-> ok,
              to |-> IF from = "mcu" THEN "mcu" ELSE "clients"]
Quiet == reply' = Silent
emit_feedback(from, f) == feedback_last' = f /\ emit_local(from, "feedback", TRUE)

\* A setter of the media.
Set(field, v) == shot' = [shot EXCEPT ![field] = v]
\* Answered with a status, whether it worked or not.
Try(from, op, field, v) ==
    \/ Set(field, v) /\ emit_local(from, op, TRUE)
    \/ UNCHANGED shot /\ emit_local(from, op, FALSE)

\* A stop whose file cannot be closed stops all the same and is reported as a
\* failure.
toggle_recording(from) ==
    \/ Set("taping", ~shot.taping) /\ emit_feedback(from, IF shot.taping THEN "off" ELSE "on")
    \/ /\ shot' \in {shot, [shot EXCEPT !.taping = FALSE]}
       /\ emit_feedback(from, "failed")
capture_still(from) ==
    /\ \E f \in {"photo", "no photo"} : emit_feedback(from, f)
    /\ UNCHANGED shot

\* Opcode 0x0c with 0, 1 and 2, and the query 0x0b of the last feedback.
Function(from) ==
    /\ \/ toggle_recording(from)
       \/ capture_still(from)
       \/ \E f \in {"no hdr", feedback_last} : emit_feedback(from, f) /\ UNCHANGED shot
    /\ UNCHANGED <<gimbal_mode, reports, atMcu, stuck>>

\* 0x0a, 0x10, 0x18, 0x37, 0x1a, 0x16: what is reported is read from the media
\* when it is asked.  A thermal query may fail and is then not answered.
Query(from) ==
    /\ \/ \E op \in {"status", "slots?"} : emit_local(from, op, TRUE)
       \/ camera # "zr10" /\ \E op \in {"zoom?", "maximum"} : emit_local(from, op, TRUE)
       \/ \E op \in {"gain?", "palette?"} : emit_local(from, op, TRUE) \/ Quiet
    /\ UNCHANGED <<shot, feedback_last, gimbal_mode, reports, atMcu, stuck>>

\* 0x0f sets the zoom, 0x05 moves it by a step within its limits; a step that
\* fails is not answered.
Zoom(from) ==
    /\ \/ \E z \in 1 .. TopZoom : Try(from, "zoom", "zoom", z)
       \/ \E z \in {shot.zoom - 1, shot.zoom, shot.zoom + 1} :
            LET clamped == IF z < 1 THEN 1 ELSE IF z > TopZoom THEN TopZoom ELSE z IN
            \/ Set("zoom", clamped) /\ emit_local(from, "step", TRUE)
            \/ UNCHANGED shot /\ Quiet
    /\ UNCHANGED <<feedback_last, gimbal_mode, reports, atMcu, stuck>>

\* 0x38, which is never acknowledged on success, and 0x1b, which is.
ThermalSetting(from) ==
    /\ \/ \E g \in 0 .. 1 : Set("gain", g) /\ Quiet
       \/ \E p \in {0, 2} : Set("palette", p) /\ emit_local(from, "palette", TRUE)
       \/ UNCHANGED shot /\ Quiet
    /\ UNCHANGED <<feedback_last, gimbal_mode, reports, atMcu, stuck>>

\* 0x04 and 0x06: of focus only the answer matters here.  That of the A8 is
\* fixed and always reported as done; the MT11 does not answer a malformed 0x04.
Focus(from) ==
    /\ \/ camera = "mt11" /\ (Quiet \/ \E ok \in BOOLEAN : emit_local(from, "focus", ok))
       \/ camera = "a8" /\ emit_local(from, "focus", TRUE)
    /\ UNCHANGED <<shot, feedback_last, gimbal_mode, reports, atMcu, stuck>>
\* 0x30: the clock of the camera, likewise.
Clock(from) ==
    /\ \E ok \in BOOLEAN : emit_local(from, "clock", ok)
    /\ UNCHANGED <<shot, feedback_last, gimbal_mode, reports, atMcu, stuck>>

-----------------------------------------------------------------------------
\* Opcode 0x11 of the MT11: thermal on the main picture, or one of the two
\* lenses, which takes two calls.  The form with two slots sets the thermal
\* picture back when the lens cannot be selected; the form with one does not.
ThermalMain ==
    Try("client", "slots", "thermal", TRUE) /\ UNCHANGED stuck
Lens_kept(wide) ==
    /\ \/ /\ shot' = [shot EXCEPT !.thermal = FALSE, !.wide = wide]
          /\ emit_local("client", "slots", TRUE)
       \/ shot' \in {shot, [shot EXCEPT !.thermal = FALSE]} /\ emit_local("client", "slots", FALSE)
    /\ UNCHANGED stuck
Lens(wide) ==
    \/ /\ shot' = [shot EXCEPT !.thermal = FALSE, !.wide = wide]
       /\ emit_local("client", "slots", TRUE) /\ UNCHANGED stuck
    \/ /\ UNCHANGED <<shot, stuck>>
       /\ emit_local("client", "slots", FALSE)
    \/ /\ shot.thermal
       /\ Set("thermal", FALSE) /\ stuck' = TRUE
       /\ emit_local("client", "slots", FALSE)
LensMode(wide) ==
    /\ \/ /\ shot' = [shot EXCEPT !.thermal = FALSE, !.wide = wide]
          /\ emit_local("client", "mode", TRUE)
       \/ /\ shot' \in {shot, [shot EXCEPT !.thermal = FALSE]}
          /\ emit_local("client", "mode", FALSE)
    /\ UNCHANGED stuck
\* A slot that does not exist is refused before anything is set.
Slots(from) ==
    /\ \/ /\ camera = "mt11"
          /\ \/ ThermalMain
             \/ \E wide \in BOOLEAN : Lens(wide) \/ LensMode(wide)
             \/ emit_local(from, "slots", FALSE) /\ UNCHANGED <<shot, stuck>>
       \/ /\ camera # "mt11"
          /\ emit_local(from, "slots", TRUE) /\ UNCHANGED <<shot, stuck>>
    /\ UNCHANGED <<feedback_last, gimbal_mode, reports, atMcu>>

-----------------------------------------------------------------------------
\* emit_thermal_range: nothing is sent, and nothing noted, before the first
\* thermal frame.
emit_thermal_range ==
    \/ frames /\ reply' = [op |-> "range", ok |-> TRUE, to |-> "clients"] /\ sinceRange' = 0
    \/ ~frames /\ Quiet /\ UNCHANGED sinceRange

\* Opcode 0x14: once, or from now on until mode 0.  The others only log it.
RangeMode(m) ==
    /\ \/ /\ camera = "mt11"
          /\ thermal_continuous' = (m = 2)
          /\ IF m # 0 THEN emit_thermal_range ELSE Quiet /\ UNCHANGED sinceRange
       \/ camera # "mt11" /\ Quiet /\ UNCHANGED reports
    /\ UNCHANGED <<shot, feedback_last, gimbal_mode, atMcu, stuck>>

\* ca_backend_periodic of the MT11.
ReportRange ==
    /\ camera = "mt11" /\ thermal_continuous /\ sinceRange >= RangeInterval
    /\ emit_thermal_range
    /\ UNCHANGED <<camera, shot, shownBefore, feedback_last, gimbal_mode, thermal_continuous, frames,
                   atMcu, stuck, asks>>

\* Time passes, and the event loop gets to its periodic work in every tick.
SiyiTick ==
    /\ sinceRange < Never
    /\ ~(thermal_continuous /\ frames /\ sinceRange >= RangeInterval)
    /\ sinceRange' = sinceRange + 1
    /\ UNCHANGED <<camera, shot, shownBefore, feedback_last, gimbal_mode, thermal_continuous, frames,
                   reply, atMcu, stuck, asks>>
FirstFrame ==
    /\ camera = "mt11" /\ ~frames /\ frames' = TRUE
    /\ UNCHANGED <<camera, shot, shownBefore, feedback_last, gimbal_mode, reports,
                   reply, atMcu, stuck, asks>>

-----------------------------------------------------------------------------
\* Requests for the MCU.  hops counts how often this one has been sent to it.
send_tunnel(op, hops) ==
    atMcu' = atMcu \cup {[op |-> op, hops |-> hops + 1]}

\* The gimbal's modes (0x0c with 3 to 5): noted, then sent.
Mode(m) ==
    /\ gimbal_mode' = m /\ Quiet
    /\ \/ camera = "mt11" /\ send_tunnel("mode", 0)
       \/ UNCHANGED atMcu
    /\ UNCHANGED <<shot, feedback_last, reports, stuck>>

\* Everything else: as it came, through the tunnel.  What the MCU itself asks
\* for is not sent back to it; on the ZR10 lens and movement requests become
\* commands of the private link, which are not delegated.
PassOn_back(from, op, hops) ==
    /\ Quiet
    /\ send_tunnel(op, hops) \/ UNCHANGED atMcu
    /\ UNCHANGED <<shot, feedback_last, gimbal_mode, reports, stuck>>
PassOn(from, op, hops) ==
    /\ Quiet
    /\ \/ from = "client" /\ send_tunnel(op, hops)
       \/ UNCHANGED atMcu
    /\ UNCHANGED <<shot, feedback_last, gimbal_mode, reports, stuck>>

\* ca_backend_handle_siyi for the requests the camera carries out.  The ZR10
\* has none of its own for zoom, lens and focus (its lens is the MCU's).
CarryOut(from) ==
    \/ Function(from) \/ Query(from) \/ ThermalSetting(from) \/ Focus(from) \/ Clock(from) \/ Slots(from)
    \/ camera # "zr10" /\ Zoom(from)
    \/ \E m \in 0 .. 2 : RangeMode(m) \/ Mode(m)

Asked ==
    /\ asks < MaxAsks /\ asks' = asks + 1
    /\ CarryOut("client") \/ \E op \in {"lens", "gimbal"} : PassOn("client", op, 0)
    /\ shownBefore' = Shown
    /\ UNCHANGED <<camera, frames>>

\* The MCU sends back a request it was sent (6b/35), perhaps repeatedly.
Delegated ==
    /\ camera = "zr10"
    /\ \/ atMcu # {} /\ CarryOut("mcu")
       \/ \E r \in atMcu : PassOn("mcu", r.op, r.hops)
    /\ shownBefore' = Shown
    /\ UNCHANGED <<camera, frames, asks>>

\* handle_tunnel_reply, handle_private: the MCU's answer goes to the clients as
\* it is; a mode and, on the ZR10, the zoom of its lens are noted.
TunnelReply ==
    /\ \E r \in atMcu : atMcu' = atMcu \ {r}
    /\ reply' = [op |-> "gimbal", ok |-> TRUE, to |-> "clients"]
    /\ gimbal_mode' \in 0 .. 2
    /\ \/ UNCHANGED shot
       \/ camera = "zr10" /\ \E z \in 1 .. TopZoom : Set("zoom", z)
    /\ shownBefore' = Shown
    /\ UNCHANGED <<camera, feedback_last, reports, frames, stuck, asks>>

\* The remote control's buttons (MT11), and the zoom of the lens the ZR10 asks
\* for every second.
RemoteButton ==
    /\ camera = "mt11" /\ asks < MaxAsks /\ asks' = asks + 1
    /\ toggle_recording("client") \/ capture_still("client")
    /\ shownBefore' = Shown
    /\ UNCHANGED <<camera, gimbal_mode, reports, frames, atMcu, stuck>>
PollZoom ==
    /\ camera = "zr10" /\ send_tunnel("zoom?", 0)
    /\ UNCHANGED <<camera, shot, shownBefore, feedback_last, gimbal_mode, reports, frames,
                   reply, stuck, asks>>

SiyiCameraNext ==
    \/ Asked \/ Delegated \/ TunnelReply \/ RemoteButton \/ PollZoom
    \/ ReportRange \/ SiyiTick \/ FirstFrame
SiyiCameraSpec == SiyiCameraInit /\ [][SiyiCameraNext]_siyiVars

-----------------------------------------------------------------------------
\* A request for other picture slots that is refused has changed nothing,
\* although it takes two calls of which the second may fail, unless setting
\* the picture back fails too (ca_backend_handle_siyi, opcode 0x11).
RefusalHarmless ==
    reply.op = "slots" /\ ~reply.ok /\ ~stuck => Shown = shownBefore

\* A request never goes round between camera and MCU: what the MCU delegates
\* is answered or refused, not sent to it again (handle_frame: "without
\* recursively forwarding requests").
NoPingPong == \A r \in atMcu : r.hops = 1
=============================================================================
