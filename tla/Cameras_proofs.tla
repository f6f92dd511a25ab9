---------------------------- MODULE Cameras_proofs ----------------------------
(***************************************************************************)
(* Proofs about the camera back ends: the SIYI gimbal's requests to the    *)
(* camera, the recorder, image settings and ports of the SigmaStar media,  *)
(* the MT11's focus and zoom motors with the autofocus search, its thermal *)
(* camera, and how the cameras and the application come up and go down.    *)
(* Each part gives the inductive invariant of one component, for every     *)
(* value of its constants.                                                 *)
(***************************************************************************)
EXTENDS SiyiCamera, SigmaMedia, Mt11Focus, Thermal, BringUp, SequenceTheorems,
        WellFoundedInduction, TLAPS

\* Requests of the SIYI gimbal (SiyiCamera).

\* What the media hold: the zoom stays within its limits.
Shots == [taping : BOOLEAN, zoom : 1 .. TopZoom, wide : BOOLEAN, thermal : BOOLEAN,
          gain : 0 .. 2, palette : 0 .. 2]
Ops == {"none", "feedback", "status", "slots?", "zoom?", "maximum", "gain?", "palette?", "zoom",
        "step", "palette", "focus", "clock", "slots", "mode", "range", "gimbal"}
Replies == [op : Ops, ok : BOOLEAN, to : {"mcu", "clients", "nobody"}]

\* The picture shown is the one before the last request if that was refused.
SiyiCameraInv ==
    /\ shot \in Shots /\ reply \in Replies
    /\ RefusalHarmless
    /\ NoPingPong

LEMMA SiyiCameraInitially == SiyiCameraInit => SiyiCameraInv
BY SiyiCameraAssumption, SMT DEF SiyiCameraInit, SiyiCameraInv, Shots, Replies, Ops, Silent, RefusalHarmless, NoPingPong, Shown

\* What a request must do: keep the types, and keep the picture shown where it
\* is answered with a refusal of other slots.
Harmless ==
    /\ shot' \in Shots /\ reply' \in Replies
    /\ reply'.op = "slots" /\ ~reply'.ok /\ ~stuck' => Shown' = Shown

\* A setter of the media keeps the record what it is.
LEMMA ShotSwitched ==
    \A s \in Shots, b \in BOOLEAN :
        [s EXCEPT !["taping"] = b] \in Shots /\ [s EXCEPT !["thermal"] = b] \in Shots
BY SMT DEF Shots

LEMMA ShotLens ==
    \A s \in Shots, b \in BOOLEAN, w \in BOOLEAN : [s EXCEPT !.thermal = b, !.wide = w] \in Shots
<1> SUFFICES ASSUME NEW s \in Shots, NEW b \in BOOLEAN, NEW w \in BOOLEAN
             PROVE  [[s EXCEPT !.thermal = b] EXCEPT !.wide = w] \in Shots
  OBVIOUS
<1>1. [s EXCEPT !.thermal = b] \in Shots
  BY SMT DEF Shots
<1>2. \A r \in Shots : [r EXCEPT !.wide = w] \in Shots
  BY SMT DEF Shots
<1> QED BY <1>1, <1>2

LEMMA ShotZoomed == \A s \in Shots, z \in 1 .. TopZoom : [s EXCEPT !["zoom"] = z] \in Shots
BY SMT DEF Shots

LEMMA ShotTuned ==
    \A s \in Shots, g \in 0 .. 2 : [s EXCEPT !["gain"] = g] \in Shots /\ [s EXCEPT !["palette"] = g] \in Shots
BY SMT DEF Shots

LEMMA ReplyMade ==
    ASSUME NEW ok \in BOOLEAN, NEW op \in Ops
    PROVE  [op |-> op, ok |-> ok, to |-> "clients"] \in Replies
BY SMT DEF Replies, Ops

LEMMA EmitsReply ==
    ASSUME NEW from, NEW op \in Ops, NEW ok \in BOOLEAN, emit_local(from, op, ok)
    PROVE  reply' \in Replies /\ reply'.op = op /\ reply'.ok = ok
BY SMT DEF emit_local, Replies, Ops

LEMMA QuietReply == Quiet => reply' \in Replies /\ reply'.op = "none"
BY SMT DEF Quiet, Silent, Replies, Ops

LEMMA FunctionHarmless ==
    ASSUME SiyiCameraInv, NEW from, toggle_recording(from) \/ capture_still(from) \/ Function(from)
    PROVE  Harmless
<1>1. PICK f : emit_feedback(from, f)
  BY DEF Function, toggle_recording, capture_still
<1>2. reply' \in Replies /\ reply'.op = "feedback"
  BY <1>1, EmitsReply DEF emit_feedback, Ops
<1>3. shot' \in Shots
  <2>1. shot \in Shots
    BY DEF SiyiCameraInv
  <2>2. shot' \in {shot, [shot EXCEPT !.taping = FALSE], [shot EXCEPT !["taping"] = ~shot.taping]}
    BY DEF Function, toggle_recording, capture_still, Set
  <2> QED BY <2>1, <2>2, ShotSwitched
<1> QED BY <1>2, <1>3, SMT DEF Harmless

LEMMA AnswerHarmless ==
    ASSUME SiyiCameraInv, NEW from, Query(from) \/ Focus(from) \/ Clock(from)
    PROVE  Harmless
<1>1. UNCHANGED <<shot, stuck>>
  BY DEF Query, Focus, Clock
<1>2. reply' \in Replies
  BY EmitsReply, QuietReply DEF Query, Focus, Clock, Ops
<1>3. Shown' = Shown
  BY <1>1 DEF Shown
<1> QED BY <1>1, <1>2, <1>3 DEF Harmless, SiyiCameraInv

LEMMA SettingHarmless ==
    ASSUME SiyiCameraInv, NEW from, ThermalSetting(from) \/ Zoom(from)
    PROVE  Harmless
<1> USE SiyiCameraAssumption
<1>1. reply' \in Replies /\ reply'.op # "slots"
  BY EmitsReply, QuietReply DEF ThermalSetting, Zoom, Try, Ops
<1>2. shot' \in Shots
  <2>1. CASE ThermalSetting(from)
    <3>1. shot' = shot \/ \E g \in 0 .. 2 : shot' = [shot EXCEPT !["gain"] = g] \/ shot' = [shot EXCEPT !["palette"] = g]
      <4>1. 0 .. 1 \subseteq 0 .. 2 /\ {0, 2} \subseteq 0 .. 2
        BY SMT
      <4> QED BY <2>1, <4>1 DEF ThermalSetting, Set
    <3> QED BY <3>1, ShotTuned DEF SiyiCameraInv
  <2>2. CASE Zoom(from)
    <3>1. shot \in Shots /\ shot.zoom \in 1 .. TopZoom
      BY DEF SiyiCameraInv, Shots
    <3>2. shot' = shot \/ \E z \in 1 .. TopZoom : shot' = [shot EXCEPT !["zoom"] = z]
      <4>1. \A z \in {shot.zoom - 1, shot.zoom, shot.zoom + 1} :
              (IF z < 1 THEN 1 ELSE IF z > TopZoom THEN TopZoom ELSE z) \in 1 .. TopZoom
        BY <3>1, SMT
      <4> QED BY <2>2, <4>1 DEF Zoom, Try, Set
    <3> QED BY <3>1, <3>2, ShotZoomed
  <2> QED BY <2>1, <2>2
<1> QED BY <1>1, <1>2 DEF Harmless

LEMMA SlotsHarmless ==
    ASSUME SiyiCameraInv, NEW from, Slots(from)
    PROVE  Harmless
<1>0. shot \in Shots
  BY DEF SiyiCameraInv
<1>1. CASE UNCHANGED <<shot, stuck>> /\ \E ok \in BOOLEAN : emit_local(from, "slots", ok)
  <2>1. reply' \in Replies
    BY <1>1, EmitsReply DEF Ops
  <2>2. Shown' = Shown
    BY <1>1 DEF Shown
  <2> QED BY <1>0, <1>1, <2>1, <2>2 DEF Harmless
<1>2. CASE ThermalMain
  <2>1. CASE Set("thermal", TRUE) /\ emit_local("client", "slots", TRUE)
    <3>1. reply' \in Replies /\ reply'.ok = TRUE
      BY <2>1, EmitsReply DEF Ops
    <3>2. shot' \in Shots
      BY <1>0, <2>1, ShotSwitched DEF Set
    <3> QED BY <3>1, <3>2 DEF Harmless
  <2>2. CASE UNCHANGED shot /\ emit_local("client", "slots", FALSE)
    <3>1. reply' \in Replies
      BY <2>2, EmitsReply DEF Ops
    <3>2. Shown' = Shown
      BY <2>2 DEF Shown
    <3> QED BY <1>0, <2>2, <3>1, <3>2 DEF Harmless
  <2> QED BY <1>2, <2>1, <2>2 DEF ThermalMain, Try
<1>3. ASSUME NEW wide \in BOOLEAN, Lens(wide)
      PROVE  Harmless
  <2>1. CASE shot' = [shot EXCEPT !.thermal = FALSE, !.wide = wide] /\ emit_local("client", "slots", TRUE)
    <3>1. reply' \in Replies /\ reply'.ok = TRUE
      BY <2>1, EmitsReply DEF Ops
    <3>2. shot' \in Shots
      BY <1>0, <2>1, ShotLens
    <3> QED BY <3>1, <3>2 DEF Harmless
  <2>2. CASE UNCHANGED <<shot, stuck>> /\ emit_local("client", "slots", FALSE)
    <3>1. reply' \in Replies
      BY <2>2, EmitsReply DEF Ops
    <3>2. Shown' = Shown
      BY <2>2 DEF Shown
    <3> QED BY <1>0, <2>2, <3>1, <3>2 DEF Harmless
  <2>3. CASE Set("thermal", FALSE) /\ stuck' = TRUE /\ emit_local("client", "slots", FALSE)
    <3>1. reply' \in Replies
      BY <2>3, EmitsReply DEF Ops
    <3>2. shot' \in Shots
      BY <1>0, <2>3, ShotSwitched DEF Set
    <3> QED BY <2>3, <3>1, <3>2 DEF Harmless
  <2> QED BY <1>3, <2>1, <2>2, <2>3 DEF Lens
<1>4. ASSUME NEW wide \in BOOLEAN, LensMode(wide)
      PROVE  Harmless
  <2>1. \E ok \in BOOLEAN : emit_local("client", "mode", ok)
    BY <1>4 DEF LensMode
  <2>2. reply' \in Replies /\ reply'.op = "mode"
    BY <2>1, EmitsReply DEF Ops
  <2>3. shot' \in Shots
    BY <1>0, <1>4, ShotLens, ShotSwitched DEF LensMode
  <2> QED BY <2>2, <2>3 DEF Harmless
<1> QED BY <1>1, <1>2, <1>3, <1>4 DEF Slots

LEMMA MotionHarmless ==
    ASSUME SiyiCameraInv, NEW m,
           RangeMode(m) \/ Mode(m) \/ \E from, op, hops : PassOn(from, op, hops)
    PROVE  Harmless
<1>1. UNCHANGED <<shot, stuck>>
  BY DEF RangeMode, Mode, PassOn
<1>2. Quiet \/ reply' = [op |-> "range", ok |-> TRUE, to |-> "clients"]
  BY DEF RangeMode, Mode, PassOn, emit_thermal_range
<1>3. reply' \in Replies
  BY <1>2, QuietReply, ReplyMade DEF Ops
<1>4. Shown' = Shown
  BY <1>1 DEF Shown
<1> QED BY <1>1, <1>3, <1>4 DEF Harmless, SiyiCameraInv

LEMMA CarriedOutHarmless ==
    ASSUME SiyiCameraInv, NEW from, CarryOut(from)
    PROVE  Harmless
BY FunctionHarmless, AnswerHarmless, SettingHarmless, SlotsHarmless, MotionHarmless DEF CarryOut

\* Only a request that has not been at the MCU is sent to it.
FirstHop == atMcu' \subseteq atMcu \cup {[op |-> op, hops |-> 1] : op \in {"mode", "lens", "gimbal", "zoom?"}}

LEMMA CarriedOutHops ==
    ASSUME NEW from, CarryOut(from)
    PROVE  FirstHop
<1>1. atMcu' = atMcu \/ send_tunnel("mode", 0)
  BY DEF CarryOut, Function, Query, ThermalSetting, Focus, Clock, Slots, Zoom, RangeMode, Mode
<1>2. atMcu' = atMcu \/ atMcu' = atMcu \cup {[op |-> "mode", hops |-> 1]}
  BY <1>1, SMT DEF send_tunnel
<1> QED BY <1>2 DEF FirstHop

LEMMA HopsCounted == NoPingPong /\ FirstHop => NoPingPong'
BY SMT DEF NoPingPong, FirstHop

LEMMA HarmlessKept == Harmless /\ shownBefore' = Shown => RefusalHarmless'
BY DEF Harmless, RefusalHarmless

LEMMA SiyiCameraStep == SiyiCameraInv /\ [SiyiCameraNext]_siyiVars => SiyiCameraInv'
<1> SUFFICES ASSUME SiyiCameraInv, [SiyiCameraNext]_siyiVars PROVE SiyiCameraInv'
  OBVIOUS
<1>0. shot \in Shots /\ reply \in Replies /\ RefusalHarmless /\ NoPingPong
  BY DEF SiyiCameraInv
<1>a. ASSUME Harmless, FirstHop, shownBefore' = Shown
      PROVE  SiyiCameraInv'
  BY <1>0, <1>a, HopsCounted, HarmlessKept DEF SiyiCameraInv, Harmless
<1>1. CASE Asked
  <2>1. CASE CarryOut("client")
    BY <1>1, <2>1, <1>a, CarriedOutHarmless, CarriedOutHops DEF Asked
  <2>2. ASSUME NEW op \in {"lens", "gimbal"}, PassOn("client", op, 0)
        PROVE  SiyiCameraInv'
    <3>1. Harmless
      BY <2>2, MotionHarmless
    <3>2. atMcu' = atMcu \/ atMcu' = atMcu \cup {[op |-> op, hops |-> 1]}
      BY <2>2, SMT DEF PassOn, send_tunnel
    <3>3. FirstHop
      BY <2>2, <3>2 DEF FirstHop
    <3> QED BY <1>1, <1>a, <3>1, <3>3 DEF Asked
  <2> QED BY <1>1, <2>1, <2>2 DEF Asked
<1>2. CASE Delegated
  <2>1. CASE CarryOut("mcu")
    BY <1>2, <2>1, <1>a, CarriedOutHarmless, CarriedOutHops DEF Delegated
  <2>2. ASSUME NEW r \in atMcu, PassOn("mcu", r.op, r.hops)
        PROVE  SiyiCameraInv'
    <3>1. Harmless
      BY <2>2, MotionHarmless
    <3>2. atMcu' = atMcu
      BY <2>2 DEF PassOn
    <3>3. FirstHop
      BY <3>2 DEF FirstHop
    <3> QED BY <1>2, <1>a, <3>1, <3>3 DEF Delegated
  <2> QED BY <1>2, <2>1, <2>2 DEF Delegated
<1>3. CASE TunnelReply
  <2>1. reply' \in Replies /\ reply'.op = "gimbal"
    BY <1>3, SMT DEF TunnelReply, Replies, Ops
  <2>2. shot' \in Shots
    BY <1>0, <1>3, SMT DEF TunnelReply, Set, Shots
  <2>3. Harmless
    BY <2>1, <2>2 DEF Harmless
  <2>4. FirstHop
    BY <1>3 DEF TunnelReply, FirstHop
  <2> QED BY <1>3, <1>a, <2>3, <2>4 DEF TunnelReply
<1>4. CASE RemoteButton
  BY <1>4, <1>a, FunctionHarmless DEF RemoteButton, FirstHop
<1>5. CASE PollZoom
  <2>1. FirstHop
    <3>1. atMcu' = atMcu \cup {[op |-> "zoom?", hops |-> 1]}
      BY <1>5, SMT DEF PollZoom, send_tunnel
    <3> QED BY <3>1 DEF FirstHop
  <2>2. UNCHANGED <<shot, shownBefore, reply, stuck>>
    BY <1>5 DEF PollZoom
  <2> QED BY <1>0, <2>1, <2>2, HopsCounted DEF SiyiCameraInv, RefusalHarmless, Shown
<1>6. CASE ReportRange
  <2>1. UNCHANGED <<shot, atMcu>>
    BY <1>6 DEF ReportRange
  <2>2. reply' \in Replies /\ reply'.op # "slots"
    <3>1. Quiet \/ reply' = [op |-> "range", ok |-> TRUE, to |-> "clients"]
      BY <1>6 DEF ReportRange, emit_thermal_range
    <3>2. CASE reply' = [op |-> "range", ok |-> TRUE, to |-> "clients"]
      <4>1. "range" \in Ops
        BY DEF Ops
      <4> QED BY <3>2, <4>1, ReplyMade
    <3> QED BY <3>1, <3>2, QuietReply
  <2> QED BY <1>0, <2>1, <2>2 DEF SiyiCameraInv, RefusalHarmless, NoPingPong
<1>7. CASE SiyiTick \/ FirstFrame \/ UNCHANGED siyiVars
  <2>1. UNCHANGED <<shot, shownBefore, reply, stuck, atMcu>>
    BY <1>7 DEF SiyiTick, FirstFrame, siyiVars
  <2> QED BY <1>0, <2>1 DEF SiyiCameraInv, RefusalHarmless, NoPingPong, Shown
<1> QED BY <1>1, <1>2, <1>3, <1>4, <1>5, <1>6, <1>7 DEF SiyiCameraNext

LEMMA SiyiCameraAlways == SiyiCameraSpec => []SiyiCameraInv
BY SiyiCameraInitially, SiyiCameraStep, PTL DEF SiyiCameraSpec

\* A request for other picture slots that is refused has changed nothing,
\* although it takes two calls of which the second may fail, unless setting the
\* picture back fails too (ca_backend_handle_siyi, opcode 0x11).
THEOREM RefusalsStayHarmless == SiyiCameraSpec => []RefusalHarmless
BY SiyiCameraAlways, PTL DEF SiyiCameraInv

\* What the MCU delegates is answered or refused and never sent to it again
\* (handle_frame of siyi/control.c).
THEOREM NoRequestGoesRound == SiyiCameraSpec => []NoPingPong
BY SiyiCameraAlways, PTL DEF SiyiCameraInv

-----------------------------------------------------------------------------
\* Recorder, image settings and ports (SigmaMedia).

\* While it is not waiting for a key picture, the recorder has written the
\* picture before, unless the encoder's output was lost.
TapeInv ==
    /\ taping \in BOOLEAN /\ recording_wait_keyframe \in BOOLEAN /\ follows \in BOOLEAN
    /\ tape \in {"none", "empty", "whole", "torn"}
    /\ TapeDecodable
    /\ taping /\ recording_wait_keyframe => tape = "empty"
    /\ taping /\ ~recording_wait_keyframe => follows \/ "picture" \in mishaps

\* Implementation and media agree on the image settings, before the tuning too.
ImageInv == image = promised /\ ImageHonest

\* What the pipeline remembers is what the media report, until a port fails.
PortsInv ==
    /\ maker \in {"a8", "zr10"}
    /\ maker = "zr10" => zoom_crop = 1 /\ flipped = media_inverted
    /\ maker = "a8" => "port" \in mishaps \/ (zoom_crop = media_zoom /\ flipped = media_inverted)
    /\ PortsHonest

SigmaInv == TapeInv /\ ImageInv /\ PortsInv

LEMMA SigmaInitially == SigmaInit => SigmaInv
<1> SUFFICES ASSUME SigmaInit PROVE SigmaInv
  OBVIOUS
<1>1. TapeInv
  BY DEF SigmaInit, SigmaFrom, TapeInv, TapeDecodable
<1>2. ImageInv
  BY DEF SigmaInit, SigmaFrom, ImageInv, ImageHonest
<1>3. PortsInv
  <2>1. /\ maker \in {"a8", "zr10"} /\ zoom_crop = 1 /\ media_zoom = 1 /\ flipped = media_inverted
        /\ view = [c \in Channels |-> [crop |-> 1, flip |-> media_inverted]]
    BY DEF SigmaInit, SigmaFrom
  <2>2. \A c \in Channels : view[c] = [crop |-> 1, flip |-> media_inverted]
    BY <2>1
  <2> QED BY <2>1, <2>2 DEF PortsInv, PortsHonest
<1> QED BY <1>1, <1>2, <1>3 DEF SigmaInv

LEMMA TapeFrame ==
    ASSUME TapeInv, UNCHANGED taped, mishaps \subseteq mishaps' PROVE TapeInv'
BY DEF TapeInv, TapeDecodable, taped
LEMMA ImageFrame ==
    ASSUME ImageInv, UNCHANGED <<maker, tuning>>, mishaps \subseteq mishaps' PROVE ImageInv'
BY DEF ImageInv, ImageHonest, tuning
LEMMA PortsFrame ==
    ASSUME PortsInv, UNCHANGED <<maker, looks>>, mishaps \subseteq mishaps' PROVE PortsInv'
<1>1. PortsHonest'
  <2>1. CASE mishaps \cap (IF maker = "a8" THEN {"port"} ELSE {"rollback"}) # {}
    BY <2>1 DEF PortsHonest
  <2>2. CASE \A c \in Channels : view[c] = [crop |-> IF maker = "a8" THEN media_zoom ELSE 1, flip |-> media_inverted]
    BY <2>2 DEF PortsHonest, looks
  <2> QED BY <2>1, <2>2 DEF PortsInv, PortsHonest
<1> QED BY <1>1 DEF PortsInv, looks

\* The recorder.
LEMMA RecordKeeps == ASSUME TapeInv, NEW key \in BOOLEAN, RecordFrame(key) PROVE TapeInv'
<1>1. UNCHANGED mishaps
  BY DEF RecordFrame
<1>2. recording_wait_keyframe' = (recording_wait_keyframe /\ ~(taping /\ key))
  BY DEF RecordFrame
<1>3. CASE /\ taping /\ ~recording_wait_keyframe'
           /\ tape' = IF tape # "torn" /\ (key \/ follows) THEN "whole" ELSE "torn"
           /\ follows' = TRUE /\ UNCHANGED taping
  BY <1>1, <1>2, <1>3 DEF TapeInv, TapeDecodable
<1>4. CASE tape' = "none" /\ taping' = FALSE /\ follows' = FALSE
  BY <1>1, <1>2, <1>4 DEF TapeInv, TapeDecodable
<1>5. CASE /\ ~(taping /\ ~recording_wait_keyframe')
           /\ follows' = FALSE /\ UNCHANGED <<tape, taping>>
  BY <1>1, <1>2, <1>5 DEF TapeInv, TapeDecodable
<1> QED BY <1>3, <1>4, <1>5 DEF RecordFrame

LEMMA StartStopKeeps == ASSUME TapeInv, NEW b \in BOOLEAN, set_recording(b) PROVE TapeInv'
<1>1. UNCHANGED mishaps
  BY DEF set_recording
<1>2. CASE taping' = TRUE /\ recording_wait_keyframe' = TRUE /\ tape' = "empty" /\ follows' = FALSE
  BY <1>1, <1>2 DEF TapeInv, TapeDecodable
<1>3. CASE UNCHANGED <<taping, recording_wait_keyframe, tape, follows>>
  BY <1>1, <1>3 DEF TapeInv, TapeDecodable
<1>4. CASE taping' = FALSE /\ tape' = "none" /\ follows' = FALSE /\ recording_wait_keyframe' = FALSE
  BY <1>1, <1>4 DEF TapeInv, TapeDecodable
<1> QED BY <1>2, <1>3, <1>4 DEF set_recording

\* Image settings.
LEMMA TuningKeeps ==
    ASSUME ImageInv, NEW c, ViewedFrame(c) PROVE ImageInv' /\ mishaps \subseteq mishaps'
<1>1. UNCHANGED maker
  BY DEF ViewedFrame
<1>2. CASE UNCHANGED <<tuning, mishaps>>
  BY <1>1, <1>2 DEF ImageInv, ImageHonest, tuning
<1>3. CASE LoadTuning_a8
  BY <1>1, <1>3 DEF LoadTuning_a8, apply_isp_config, ImageInv, ImageHonest
<1>4. CASE LoadTuning_zr10
  BY <1>1, <1>4 DEF LoadTuning_zr10, ImageInv, ImageHonest, tuning
<1> QED BY <1>2, <1>3, <1>4 DEF ViewedFrame

LEMMA ApplyKeeps ==
    ASSUME ImageInv, NEW c, ApplyImage(c) PROVE ImageInv' /\ mishaps \subseteq mishaps'
<1>1. UNCHANGED <<maker, isp_bin_loaded>>
  BY DEF ApplyImage, Order
<1>2. CASE UNCHANGED <<isp, image, promised, mishaps>>
  BY <1>1, <1>2 DEF ImageInv, ImageHonest
<1>3. CASE isp' = c /\ image' = c /\ promised' = c /\ UNCHANGED mishaps
  BY <1>1, <1>3 DEF ImageInv, ImageHonest
<1>4. CASE apply_isp_config(promised) /\ UNCHANGED <<image, promised>>
  BY <1>1, <1>4 DEF apply_isp_config, ImageInv, ImageHonest
<1> QED BY <1>2, <1>3, <1>4 DEF ApplyImage

\* All three ports, set one after the other, are all there are.
LEMMA AllPorts ==
    ASSUME NEW crop, NEW flip, NEW c \in Channels
    PROVE  Configured(3, crop, flip)[c] = [crop |-> crop, flip |-> flip]
<1>1. \E i \in 1 .. 3 : ScalerPorts[i] = c
  <2>1. ScalerPorts[1] = "main" /\ ScalerPorts[2] = "sub" /\ ScalerPorts[3] = "record"
    BY DEF ScalerPorts
  <2>2. 1 \in 1 .. 3 /\ 2 \in 1 .. 3 /\ 3 \in 1 .. 3
    BY SMT
  <2> QED BY <2>1, <2>2 DEF Channels
<1> QED BY <1>1 DEF Configured

\* Ports.
LEMMA ZoomA8Keeps ==
    ASSUME PortsInv, NEW z, SetZoom_a8(z) PROVE PortsInv' /\ mishaps \subseteq mishaps'
<1>0. maker = "a8" /\ maker' = maker /\ zoom_crop' = z /\ UNCHANGED <<flipped, media_inverted>>
  BY DEF SetZoom_a8, Order
<1>1. CASE "port" \in mishaps' /\ mishaps \subseteq mishaps'
  BY <1>0, <1>1 DEF PortsInv, PortsHonest
<1>2. CASE /\ view' = Configured(3, z, flipped) /\ media_zoom' = z /\ UNCHANGED mishaps
           /\ "port" \notin mishaps
  <2>1. flipped = media_inverted
    BY <1>0, <1>2 DEF PortsInv
  <2>2. \A c \in Channels : view'[c] = [crop |-> media_zoom', flip |-> media_inverted']
    BY <1>0, <1>2, <2>1, AllPorts
  <2> QED BY <1>0, <1>2, <2>1, <2>2 DEF PortsInv, PortsHonest
<1> QED BY <1>1, <1>2 DEF SetZoom_a8

LEMMA ZoomZr10Keeps ==
    ASSUME PortsInv, NEW z, SetZoom_zr10(z) PROVE PortsInv' /\ mishaps \subseteq mishaps'
BY DEF SetZoom_zr10, Order, PortsInv, PortsHonest

LEMMA InvertA8Keeps ==
    ASSUME PortsInv, NEW f, SetInverted_a8(f) PROVE PortsInv' /\ mishaps \subseteq mishaps'
<1>0. maker = "a8" /\ maker' = maker /\ flipped' = f /\ UNCHANGED <<zoom_crop, media_zoom>>
  BY DEF SetInverted_a8, Order
<1>1. CASE "port" \in mishaps' /\ mishaps \subseteq mishaps'
  BY <1>0, <1>1 DEF PortsInv, PortsHonest
<1>2. CASE /\ view' = Configured(3, zoom_crop, f) /\ media_inverted' = f /\ UNCHANGED mishaps
           /\ "port" \notin mishaps
  <2>1. zoom_crop = media_zoom
    BY <1>0, <1>2 DEF PortsInv
  <2>2. \A c \in Channels : view'[c] = [crop |-> media_zoom', flip |-> media_inverted']
    BY <1>0, <1>2, <2>1, AllPorts
  <2> QED BY <1>0, <1>2, <2>1, <2>2 DEF PortsInv, PortsHonest
<1> QED BY <1>1, <1>2 DEF SetInverted_a8

LEMMA InvertZr10Keeps ==
    ASSUME PortsInv, NEW f, SetInverted_zr10(f) PROVE PortsInv' /\ mishaps \subseteq mishaps'
<1>0. maker = "zr10" /\ maker' = maker /\ zoom_crop = 1 /\ zoom_crop' = 1 /\ UNCHANGED media_zoom
  BY DEF SetInverted_zr10, Order, PortsInv
<1>1. CASE view' = Configured(3, zoom_crop, f) /\ flipped' = f /\ media_inverted' = f /\ UNCHANGED mishaps
  <2>1. \A c \in Channels : view'[c] = [crop |-> 1, flip |-> media_inverted']
    BY <1>0, <1>1, AllPorts
  <2> QED BY <1>0, <1>1, <2>1 DEF PortsInv, PortsHonest
<1>2. ASSUME NEW n \in 0 .. 2, TurnedBack(n, f), UNCHANGED <<flipped, media_inverted>>
      PROVE  PortsInv' /\ mishaps \subseteq mishaps'
  <2>1. PICK wont \in SUBSET {ScalerPorts[i] : i \in 1 .. n} :
            /\ view' = [c \in Channels |->
                          IF c \in wont THEN [crop |-> zoom_crop, flip |-> f] ELSE view[c]]
            /\ mishaps' = mishaps \cup (IF wont = {} THEN {"port"} ELSE {"port", "rollback"})
    BY <1>2 DEF TurnedBack
  <2>2. CASE "rollback" \in mishaps'
    BY <1>0, <1>2, <2>1, <2>2 DEF PortsInv, PortsHonest
  <2>3. CASE "rollback" \notin mishaps'
    <3>1. wont = {} /\ "rollback" \notin mishaps
      BY <2>1, <2>3
    <3>2. \A c \in Channels : view[c] = [crop |-> 1, flip |-> media_inverted]
      BY <1>0, <3>1 DEF PortsInv, PortsHonest
    <3>3. \A c \in Channels : view'[c] = view[c]
      BY <2>1, <3>1
    <3>4. \A c \in Channels : view'[c] = [crop |-> 1, flip |-> media_inverted']
      BY <1>2, <3>2, <3>3
    <3> QED BY <1>0, <1>2, <2>1, <3>4 DEF PortsInv, PortsHonest
  <2> QED BY <2>2, <2>3
<1> QED BY <1>1, <1>2 DEF SetInverted_zr10

LEMMA SigmaStep == SigmaInv /\ [SigmaNext]_sigmaVars => SigmaInv'
<1> SUFFICES ASSUME SigmaInv, [SigmaNext]_sigmaVars PROVE SigmaInv'
  OBVIOUS
<1>0. TapeInv /\ ImageInv /\ PortsInv
  BY DEF SigmaInv
<1>1. CASE \/ TakePhoto \/ Look \/ WaitFrames \/ SigmaClose \/ ThreadEnds \/ PollFails \/ UNCHANGED sigmaVars
  <2>1. UNCHANGED <<maker, tuning, taped, looks, mishaps>>
    BY <1>1 DEF TakePhoto, Order, Look, capture_jpeg_a8, capture_jpeg_zr10, LookFor, WaitFrames, SigmaClose,
                ThreadEnds, PollFails, sigmaVars, tuning, taped, looks
  <2> QED BY <1>0, <2>1, TapeFrame, ImageFrame, PortsFrame DEF SigmaInv
<1>2. CASE Cleaned
  <2>1. UNCHANGED <<maker, tuning, looks, mishaps, follows, recording_wait_keyframe>> /\ tape' = "none" /\ taping' = FALSE
    BY <1>2 DEF Cleaned
  <2>2. TapeInv'
    BY <1>0, <2>1 DEF TapeInv, TapeDecodable
  <2> QED BY <1>0, <2>1, <2>2, ImageFrame, PortsFrame DEF SigmaInv
<1>3. CASE read_stream \/ venc_get
  <2>1. /\ UNCHANGED <<maker, tuning, looks, taping, recording_wait_keyframe, tape>>
        /\ follows' = FALSE /\ mishaps' = mishaps \cup {"picture"}
    BY <1>3 DEF read_stream, venc_get, LoseFrame
  <2>2. TapeInv'
    BY <1>0, <2>1 DEF TapeInv, TapeDecodable
  <2>3. mishaps \subseteq mishaps'
    BY <2>1
  <2> QED BY <1>0, <2>1, <2>2, <2>3, ImageFrame, PortsFrame DEF SigmaInv
<1>4. ASSUME NEW c \in {"main", "sub"}, ViewedFrame(c) PROVE SigmaInv'
  <2>1. ImageInv' /\ mishaps \subseteq mishaps'
    BY <1>0, <1>4, TuningKeeps
  <2>2. UNCHANGED <<maker, taped, looks>>
    BY <1>4 DEF ViewedFrame
  <2> QED BY <1>0, <2>1, <2>2, TapeFrame, PortsFrame DEF SigmaInv
<1>5. ASSUME NEW b \in BOOLEAN, RecordFrame(b) PROVE SigmaInv'
  <2>1. UNCHANGED <<maker, tuning, looks, mishaps>>
    BY <1>5 DEF RecordFrame
  <2> QED BY <1>0, <1>5, <2>1, RecordKeeps, ImageFrame, PortsFrame DEF SigmaInv
<1>6. ASSUME NEW b \in BOOLEAN, set_recording(b) PROVE SigmaInv'
  <2>1. UNCHANGED <<maker, tuning, looks, mishaps>>
    BY <1>6 DEF set_recording, Order
  <2> QED BY <1>0, <1>6, <2>1, StartStopKeeps, ImageFrame, PortsFrame DEF SigmaInv
<1>7. ASSUME NEW f \in BOOLEAN, SetInverted_a8(f) \/ SetInverted_zr10(f) PROVE SigmaInv'
  <2>1. PortsInv' /\ mishaps \subseteq mishaps'
    BY <1>0, <1>7, InvertA8Keeps, InvertZr10Keeps
  <2>2. UNCHANGED <<maker, tuning, taped>>
    BY <1>7 DEF SetInverted_a8, SetInverted_zr10, Order
  <2> QED BY <1>0, <2>1, <2>2, TapeFrame, ImageFrame DEF SigmaInv
<1>8. ASSUME NEW z \in Crops, SetZoom_a8(z) \/ SetZoom_zr10(z) PROVE SigmaInv'
  <2>1. PortsInv' /\ mishaps \subseteq mishaps'
    BY <1>0, <1>8, ZoomA8Keeps, ZoomZr10Keeps
  <2>2. UNCHANGED <<maker, tuning, taped>>
    BY <1>8 DEF SetZoom_a8, SetZoom_zr10, Order
  <2> QED BY <1>0, <2>1, <2>2, TapeFrame, ImageFrame DEF SigmaInv
<1>9. ASSUME NEW c \in Images, ApplyImage(c) PROVE SigmaInv'
  <2>1. ImageInv' /\ mishaps \subseteq mishaps'
    BY <1>0, <1>9, ApplyKeeps
  <2>2. UNCHANGED <<maker, taped, looks>>
    BY <1>9 DEF ApplyImage, Order
  <2> QED BY <1>0, <2>1, <2>2, TapeFrame, PortsFrame DEF SigmaInv
<1> QED BY <1>1, <1>2, <1>3, <1>4, <1>5, <1>6, <1>7, <1>8, <1>9 DEF SigmaNext

LEMMA SigmaAlways == SigmaSpec => []SigmaInv
BY SigmaInitially, SigmaStep, PTL DEF SigmaSpec

\* A recording can be decoded from its first picture to its last unless the
\* encoder's output itself was lost, and a file is open exactly while the media
\* says that it records (consume_frame, ca_media_impl_set_recording).
THEOREM TapesStayDecodable == SigmaSpec => []TapeDecodable
BY SigmaAlways, PTL DEF SigmaInv, TapeInv

\* What the media report is what the image processor and the scaler ports are
\* set to, whatever fails, until setting one back fails too
\* (ca_media_impl_apply_image, ca_media_impl_set_zoom, ca_media_impl_set_inverted).
THEOREM SigmaStaysHonest == SigmaSpec => []SigmaHonest
<1>1. SigmaInv => SigmaHonest
  BY DEF SigmaInv, ImageInv, PortsInv, SigmaHonest
<1> QED BY <1>1, SigmaAlways, PTL

-----------------------------------------------------------------------------
\* Focus and zoom motors (Mt11Focus).

\* The lens is no further from the counted positions than the batches missed.
Tracked(m) == Abs(m.zoomOff) + Abs(m.focusOff) <= BatchSteps * m.missed
MotorRecords == [zoom : Int, focus : Int, row : Rows, zoomOff : Int, focusOff : Int, missed : Nat]
Motors == {m \in MotorRecords : Tracked(m)}
SearchPcs == {"none", "wait", "search", "unlock", "report", "ended"}
Passes == {"", "coarse", "fine", "set", "found", "failed"}
Searches == [pc : SearchPcs, initial : Int, pos : Int, best : Int, best0 : Int,
             have : BOOLEAN, pass : Passes]
LensCommands == {"stop", "percent", "autofocus", "close", "focus", "zoom"}
MainPcs == {"stop", "percent", "autofocus", "close", "focus", "zoom", "idle", "redirect", "join manual",
            "join auto", "spawn manual", "spawn auto", "lock", "closed"}
FocusMains == [pc : MainPcs, cmd : LensCommands \cup {"none"}, arg : Int]
Lo(m) == Table[m.row].min
Hi(m) == Table[m.row].max

\* The counted positions are where the calibration says.
Positioned(m) == m.zoom = Table[m.row].zoom /\ m.focus \in focus_range(m)

FocusTypes ==
    /\ motor \in Motors /\ peak \in Int /\ direction \in Int
    /\ lock \in {"free", "auto"}
    /\ running \in BOOLEAN /\ cancel \in BOOLEAN /\ mstarted \in BOOLEAN /\ astarted \in BOOLEAN
    /\ broken \in BOOLEAN /\ auto \in Searches /\ zoom \in Rows

\* Commands: which of them come to which place, and what they have found out
\* before they get there.
FocusCommandInv ==
    /\ focusMain \in FocusMains
    /\ focusMain.pc \in LensCommands => focusMain.cmd = focusMain.pc
    /\ focusMain.pc = "zoom" => focusMain.arg \in Rows
    /\ focusMain.pc = "join manual" => focusMain.cmd \in LensCommands \ {"zoom"}
    /\ focusMain.pc = "join auto" => focusMain.cmd \in {"percent", "autofocus", "close"}
    /\ focusMain.pc = "redirect" => mstarted
    /\ focusMain.pc = "spawn auto" => ~astarted
    /\ focusMain.pc \in {"join manual", "join auto"} /\ focusMain.cmd # "focus" => direction = 0

\* A thread that was not started does not exist, and leaves no direction.
FocusThreadInv ==
    /\ ~mstarted => manual = "none"
    /\ ~mstarted /\ focusMain.pc # "spawn manual" => direction = 0
    /\ ~astarted => auto.pc = "none"
    /\ lock = "auto" <=> auto.pc \in {"search", "unlock"}

\* b is as near to the peak as the search has come, up to position to: nearer
\* than both ends, and within a step of a peak that lies between them.
Near(b, lo, to) ==
    /\ Score(lo) <= Score(b) /\ Score(to) <= Score(b)
    /\ lo <= Sharpest /\ Sharpest <= to => 0 - CoarseStep <= Score(b)
CoarseOK(a, lo, hi) ==
    \/ a.pos = lo /\ ~a.have
    \/ a.have /\ \E prev \in lo .. hi : prev < a.pos /\ a.pos - prev <= CoarseStep /\ Near(a.best, lo, prev)
FineOK(a, lo, hi) ==
    LET first == Clamp(a.best0 - CoarseStep, lo, hi) IN
    /\ a.best0 \in lo .. hi /\ Near(a.best0, lo, hi)
    /\ first <= a.pos /\ a.pos <= Clamp(a.best0 + CoarseStep, lo, hi)
    /\ \/ a.pos = first /\ ~a.have
       \/ a.have /\ \A x \in first .. a.pos - 1 : Score(x) <= Score(a.best)
SearchOK(a, lo, hi) ==
    /\ a.initial \in lo .. hi /\ a.pos \in lo .. hi /\ a.best \in lo .. hi
    /\ a.pass \in {"coarse", "fine", "set"}
    /\ a.pass = "coarse" => CoarseOK(a, lo, hi)
    /\ a.pass = "fine" => FineOK(a, lo, hi)
    /\ a.pass = "set" => \A x \in lo .. hi : Score(x) <= Score(a.best)
FocusSearchInv ==
    /\ auto.pc = "wait" => ~auto.have /\ auto.pass = ""
    /\ auto.pc = "search" => SearchOK(auto, Lo(motor), Hi(motor))
    /\ SearchFindsPeak

FocusInv ==
    /\ FocusTypes
    /\ ~broken => Positioned(motor)
    /\ FocusCommandInv
    /\ FocusThreadInv
    /\ FocusSearchInv

-----------------------------------------------------------------------------
\* The stepper driver.

LEMMA RowFields ==
    ASSUME NEW r \in Rows
    PROVE  /\ Table[r].zoom \in Int /\ Table[r].focus \in Int /\ Table[r].min \in Int /\ Table[r].max \in Int
           /\ Table[r].min <= Table[r].focus /\ Table[r].focus <= Table[r].max
           /\ Table[r].min <= Table[r].max
<1>1. Table[r] \in [zoom : Int, focus : Int, min : Int, max : Int]
  <2>1. Table \in Seq([zoom : Int, focus : Int, min : Int, max : Int])
    BY FocusAssumption
  <2>2. DOMAIN Table = 1 .. Len(Table)
    BY <2>1, LenProperties
  <2> QED BY <2>1, <2>2, ElementOfSeq DEF Rows
<1>2. Table[r].min <= Table[r].focus /\ Table[r].focus <= Table[r].max
  BY FocusAssumption
<1> QED BY <1>1, <1>2, SMT

LEMMA ClampIn ==
    ASSUME NEW v \in Int, NEW lo \in Int, NEW hi \in Int, lo <= hi
    PROVE  Clamp(v, lo, hi) \in lo .. hi
BY SMT DEF Clamp

LEMMA AbsInt == \A x \in Int : Abs(x) \in Nat
BY SMT DEF Abs

\* One batch that failed.
LEMMA FailedIn ==
    ASSUME NEW p \in Int, NEW goal \in Int, NEW s \in Failed(p, goal)
    PROVE  /\ s.at \in Int /\ s.slip \in Int /\ Abs(s.slip) <= BatchSteps
           /\ \A lo, hi \in Int : p \in lo .. hi /\ goal \in lo .. hi => s.at \in lo .. hi
<1>1. BatchSteps \in Nat /\ BatchSteps > 0
  BY FocusAssumption, SMT
<1>2. /\ s.at = p \/ s.at = Nearer(p, goal)
      /\ s.slip = 0 \/ s.slip = p - Nearer(p, goal)
  BY DEF Failed
<1>3. /\ Nearer(p, goal) \in Int /\ Abs(0) <= BatchSteps
      /\ Abs(p - Nearer(p, goal)) <= BatchSteps
  BY <1>1, SMT DEF Nearer, Clamp, Abs
<1>4. \A lo, hi \in Int : p \in lo .. hi /\ goal \in lo .. hi => Nearer(p, goal) \in lo .. hi
  BY <1>1, SMT DEF Nearer, Clamp
<1>5. s.at \in Int /\ s.slip \in Int
  BY <1>2, <1>3, SMT
<1> QED BY <1>2, <1>3, <1>4, <1>5

LEMMA MoveIn ==
    ASSUME NEW from \in Int, NEW goal \in Int, NEW fault \in BOOLEAN,
           NEW s \in move_to(from, goal, fault)
    PROVE  /\ s.at \in Int /\ s.slip \in Int /\ Abs(s.slip) <= BatchSteps
           /\ \A lo, hi \in Int : from \in lo .. hi /\ goal \in lo .. hi => s.at \in lo .. hi
           /\ ~fault => s.at = goal /\ s.slip = 0
<1>1. CASE ~fault
  <2>1. s.at = goal /\ s.slip = 0
    BY <1>1 DEF move_to
  <2>2. Abs(0) <= BatchSteps
    BY FocusAssumption, SMT DEF Abs
  <2> QED BY <2>1, <2>2
<1>2. CASE fault
  <2>1. PICK p \in Stages(from, goal) : s \in Failed(p, goal)
    BY <1>2 DEF move_to
  <2>2. p \in Between(from, goal)
    BY DEF Stages
  <2>3. p \in Int /\ \A lo, hi \in Int : from \in lo .. hi /\ goal \in lo .. hi => p \in lo .. hi
    BY <2>2, SMT DEF Between
  <2> QED BY <1>2, <2>1, <2>3, FailedIn
<1> QED BY <1>1, <1>2

\* A batch counted and not made adds at most a batch to what the lens is off.
LEMMA SlipCounts ==
    ASSUME NEW off \in Int, NEW other \in Int, NEW slip \in Int, NEW n \in Nat,
           Abs(off) + Abs(other) <= BatchSteps * n, Abs(slip) <= BatchSteps
    PROVE  Abs(off + slip) + Abs(other) <= BatchSteps * (n + IF slip = 0 THEN 0 ELSE 1)
<1>1. BatchSteps \in Nat
  BY FocusAssumption
<1>2. BatchSteps * (n + 1) = BatchSteps * n + BatchSteps /\ BatchSteps * n \in Int
  BY <1>1, SMT
<1>3. CASE slip = 0
  BY <1>3, SMT
<1>4. CASE slip # 0
  <2> DEFINE b == BatchSteps * n
             c == BatchSteps * (n + 1)
  <2>1. b \in Int /\ c = b + BatchSteps /\ Abs(off) + Abs(other) <= b
    BY <1>2
  <2> HIDE DEF b, c
  <2>2. Abs(off + slip) + Abs(other) <= c
    BY <1>1, <2>1, SMT DEF Abs
  <2> QED BY <1>4, <2>2 DEF c
<1> QED BY <1>3, <1>4

LEMMA MotorFields ==
    ASSUME NEW m \in Motors
    PROVE  /\ m \in MotorRecords /\ Tracked(m) /\ m.zoom \in Int /\ m.focus \in Int /\ m.row \in Rows
           /\ m.zoomOff \in Int /\ m.focusOff \in Int /\ m.missed \in Nat
BY DEF Motors, MotorRecords

LEMMA FocusMoves ==
    ASSUME NEW m \in Motors, NEW p \in Int, NEW fault \in BOOLEAN, NEW m2 \in move_focus_to(m, p, fault)
    PROVE  /\ m2 \in Motors /\ m2.zoom = m.zoom /\ m2.row = m.row
           /\ \A lo, hi \in Int : m.focus \in lo .. hi /\ p \in lo .. hi => m2.focus \in lo .. hi
           /\ ~fault => m2.focus = p /\ m2.focusOff = m.focusOff
<1>1. PICK s \in move_to(m.focus, p, fault) :
        m2 = [m EXCEPT !.focus = s.at, !.focusOff = @ + s.slip, !.missed = Counted(m, s)]
  BY DEF move_focus_to
<1>2. /\ m \in MotorRecords /\ m.focus \in Int /\ m.zoomOff \in Int /\ m.focusOff \in Int /\ m.missed \in Nat
      /\ Tracked(m)
  BY MotorFields
<1>3. /\ s.at \in Int /\ s.slip \in Int /\ Abs(s.slip) <= BatchSteps
      /\ \A lo, hi \in Int : m.focus \in lo .. hi /\ p \in lo .. hi => s.at \in lo .. hi
      /\ ~fault => s.at = p /\ s.slip = 0
  BY <1>2, MoveIn
<1>4. /\ m2.zoom = m.zoom /\ m2.row = m.row /\ m2.focus = s.at
      /\ m2.zoomOff = m.zoomOff /\ m2.focusOff = m.focusOff + s.slip /\ m2.missed = Counted(m, s)
  BY <1>1, <1>2 DEF MotorRecords
<1>5. m.focusOff + s.slip \in Int /\ Counted(m, s) \in Nat /\ (s.slip = 0 => m.focusOff + s.slip = m.focusOff)
  BY <1>2, <1>3, SMT DEF Counted
<1>6. m2 \in MotorRecords
  BY <1>1, <1>2, <1>3, <1>5 DEF MotorRecords
<1>7. Abs(m.focusOff + s.slip) + Abs(m.zoomOff) <= BatchSteps * Counted(m, s)
  <2>1. Abs(m.focusOff) \in Int /\ Abs(m.zoomOff) \in Int
    BY <1>2, AbsInt
  <2>2. Abs(m.focusOff) + Abs(m.zoomOff) <= BatchSteps * m.missed
    BY <1>2, <2>1, SMT DEF Tracked
  <2> QED BY <1>2, <1>3, <2>2, SlipCounts DEF Counted
<1>8. Tracked(m2)
  <2>1. Abs(m.focusOff + s.slip) \in Int /\ Abs(m.zoomOff) \in Int
    BY <1>2, <1>5, AbsInt
  <2> QED BY <1>4, <1>7, <2>1, SMT DEF Tracked
<1> QED BY <1>3, <1>4, <1>5, <1>6, <1>8 DEF Motors

LEMMA ZoomMoves ==
    ASSUME NEW m \in Motors, NEW p \in Int, NEW fault \in BOOLEAN, NEW m2 \in move_zoom_to(m, p, fault)
    PROVE  /\ m2 \in Motors /\ m2.focus = m.focus /\ m2.row = m.row
           /\ ~fault => m2.zoom = p
<1>1. PICK s \in move_to(m.zoom, p, fault) :
        m2 = [m EXCEPT !.zoom = s.at, !.zoomOff = @ + s.slip, !.missed = Counted(m, s)]
  BY DEF move_zoom_to
<1>2. /\ m \in MotorRecords /\ m.zoom \in Int /\ m.zoomOff \in Int /\ m.focusOff \in Int /\ m.missed \in Nat
      /\ Tracked(m)
  BY MotorFields
<1>3. /\ s.at \in Int /\ s.slip \in Int /\ Abs(s.slip) <= BatchSteps
      /\ ~fault => s.at = p /\ s.slip = 0
  BY <1>2, MoveIn
<1>4. /\ m2.focus = m.focus /\ m2.row = m.row /\ m2.zoom = s.at
      /\ m2.focusOff = m.focusOff /\ m2.zoomOff = m.zoomOff + s.slip /\ m2.missed = Counted(m, s)
  BY <1>1, <1>2 DEF MotorRecords
<1>5. m.zoomOff + s.slip \in Int /\ Counted(m, s) \in Nat
  BY <1>2, <1>3, SMT DEF Counted
<1>6. m2 \in MotorRecords
  BY <1>1, <1>2, <1>3, <1>5 DEF MotorRecords
<1>7. Abs(m.zoomOff + s.slip) + Abs(m.focusOff) <= BatchSteps * Counted(m, s)
  BY <1>2, <1>3, SlipCounts DEF Counted, Tracked
<1>8. Tracked(m2)
  BY <1>4, <1>7 DEF Tracked
<1> QED BY <1>3, <1>4, <1>6, <1>8 DEF Motors

\* Within the range, a move that fails on its way stays calibrated too.
LEMMA FocusMovesWithin ==
    ASSUME NEW m \in Motors, NEW p \in focus_range(m), NEW fault \in BOOLEAN,
           NEW m2 \in set_focus_position(m, p, fault), Positioned(m)
    PROVE  Positioned(m2)
<1>1. m.row \in Rows /\ m.focus \in Int
  BY MotorFields
<1>2. p \in Int /\ Table[m.row].min \in Int /\ Table[m.row].max \in Int
  BY <1>1, RowFields, SMT DEF focus_range
<1>3. /\ m2.zoom = m.zoom /\ m2.row = m.row
      /\ \A lo, hi \in Int : m.focus \in lo .. hi /\ p \in lo .. hi => m2.focus \in lo .. hi
  BY <1>2, FocusMoves DEF set_focus_position
<1>4. m2.focus \in Table[m.row].min .. Table[m.row].max
  BY <1>1, <1>2, <1>3 DEF Positioned, focus_range
<1> QED BY <1>3, <1>4 DEF Positioned, focus_range

LEMMA FocusArrives ==
    ASSUME NEW m \in Motors, NEW p \in Int, NEW m2 \in set_focus_position(m, p, FALSE)
    PROVE  /\ m2 \in Motors /\ m2.zoom = m.zoom /\ m2.row = m.row
           /\ m2.focus = p /\ m2.focusOff = m.focusOff
<1>1. FALSE \in BOOLEAN /\ m2 \in move_focus_to(m, p, FALSE)
  BY DEF set_focus_position
<1> QED BY <1>1, FocusMoves

LEMMA ShiftInt == \A x, y, z \in Int : x + (y - z) \in Int
BY SMT

LEMMA FollowIn ==
    ASSUME NEW m \in Motors, NEW row \in Rows
    PROVE  Follow(m, row) \in Table[row].min .. Table[row].max /\ Follow(m, row) \in Int
<1>1. m.row \in Rows /\ m.focus \in Int
  BY MotorFields
<1>2. m.focus + (Table[row].focus - Table[m.row].focus) \in Int
  BY <1>1, RowFields, ShiftInt
<1>3. \A v \in Int : Clamp(v, Table[row].min, Table[row].max) \in Table[row].min .. Table[row].max
  BY RowFields, ClampIn
<1>4. Follow(m, row) \in Table[row].min .. Table[row].max
  BY <1>2, <1>3 DEF Follow
<1>5. Table[row].min \in Int /\ Table[row].max \in Int
  BY RowFields
<1> QED BY <1>4, <1>5, SMT

LEMMA RowSet ==
    ASSUME NEW m \in Motors, NEW row \in Rows
    PROVE  /\ [m EXCEPT !.row = row] \in Motors /\ [m EXCEPT !.row = row].row = row
           /\ [m EXCEPT !.row = row].zoom = m.zoom /\ [m EXCEPT !.row = row].focus = m.focus
<1> DEFINE n == [m EXCEPT !.row = row]
<1>1. m \in MotorRecords /\ Tracked(m)
  BY MotorFields
<1>2. /\ n \in MotorRecords /\ n.row = row /\ n.zoom = m.zoom /\ n.focus = m.focus
      /\ n.zoomOff = m.zoomOff /\ n.focusOff = m.focusOff /\ n.missed = m.missed
  BY <1>1 DEF MotorRecords
<1>3. Tracked(n)
  BY <1>1, <1>2 DEF Tracked
<1> QED BY <1>2, <1>3 DEF Motors

\* The zoom arrived and the focus moved after it.
LEMMA FocusFollows ==
    ASSUME NEW m \in Motors, NEW row \in Rows, NEW fault \in BOOLEAN,
           NEW m2, m2 \in UNION {move_focus_to(z, Follow(m, row), fault) : z \in move_zoom_to(m, Table[row].zoom, FALSE)}
    PROVE  m2 \in Motors /\ m2.zoom = Table[row].zoom /\ (~fault => m2.focus = Follow(m, row))
<1>1. PICK z \in move_zoom_to(m, Table[row].zoom, FALSE) : m2 \in move_focus_to(z, Follow(m, row), fault)
  OBVIOUS
<1>2. Table[row].zoom \in Int /\ Follow(m, row) \in Int /\ FALSE \in BOOLEAN
  BY RowFields, FollowIn
<1>3. z \in Motors /\ z.zoom = Table[row].zoom
  BY <1>2, ZoomMoves
<1> QED BY <1>1, <1>2, <1>3, FocusMoves

LEMMA ZoomArrives ==
    ASSUME NEW m \in Motors, NEW row \in Rows, NEW m2 \in focus_set_zoom(m, row, "")
    PROVE  m2 \in Motors /\ Positioned(m2)
<1>1. FALSE \in BOOLEAN /\ ("" = "zoom") = FALSE /\ ("" = "focus") = FALSE
  OBVIOUS
<1>2. PICK n \in UNION {move_focus_to(z, Follow(m, row), FALSE) : z \in move_zoom_to(m, Table[row].zoom, FALSE)} :
        m2 = [n EXCEPT !.row = row]
  BY <1>1 DEF focus_set_zoom
<1>3. n \in Motors /\ n.zoom = Table[row].zoom /\ n.focus = Follow(m, row)
  BY <1>1, FocusFollows
<1>4. m2 \in Motors /\ m2.row = row /\ m2.zoom = Table[row].zoom /\ m2.focus = Follow(m, row)
  BY <1>2, <1>3, RowSet
<1>5. Positioned(m2)
  BY <1>4, FollowIn DEF Positioned, focus_range
<1> QED BY <1>4, <1>5

LEMMA ZoomStopsShort ==
    ASSUME NEW m \in Motors, NEW row \in Rows,
           NEW m2, m2 \in focus_set_zoom(m, row, "zoom") \/ m2 \in focus_set_zoom(m, row, "focus")
    PROVE  m2 \in Motors
<1>0. TRUE \in BOOLEAN /\ ("focus" = "zoom") = FALSE /\ ("focus" = "focus") = TRUE
  OBVIOUS
<1>1. CASE m2 \in focus_set_zoom(m, row, "zoom")
  <2>1. m2 \in move_zoom_to(m, Table[row].zoom, TRUE)
    BY <1>1 DEF focus_set_zoom
  <2>2. Table[row].zoom \in Int
    BY RowFields
  <2> QED BY <1>0, <2>1, <2>2, ZoomMoves
<1>2. CASE m2 \in focus_set_zoom(m, row, "focus")
  <2>1. m2 \in UNION {move_focus_to(z, Follow(m, row), TRUE) : z \in move_zoom_to(m, Table[row].zoom, FALSE)}
    BY <1>0, <1>2 DEF focus_set_zoom
  <2> QED BY <1>0, <2>1, FocusFollows
<1> QED BY <1>1, <1>2

-----------------------------------------------------------------------------
\* The search.  A sample never makes the best worse.

LEMMA ScoreInt == ASSUME Sharpest \in Int, NEW p \in Int PROVE Score(p) \in Int
BY SMT DEF Score

LEMMA SearchSet ==
    \A r \in Searches :
        /\ \A i \in Int : [r EXCEPT !.pos = i] \in Searches /\ [r EXCEPT !.best0 = i] \in Searches
                          /\ [r EXCEPT !.best = i] \in Searches /\ [r EXCEPT !.initial = i] \in Searches
        /\ \A h \in BOOLEAN : [r EXCEPT !.have = h] \in Searches
        /\ \A w \in Passes : [r EXCEPT !.pass = w] \in Searches
        /\ \A w \in SearchPcs : [r EXCEPT !.pc = w] \in Searches
BY SMT DEF Searches

LEMMA SampledBetter ==
    ASSUME Sharpest \in Int, NEW a \in Searches
    PROVE  /\ Sampled(a) \in Searches /\ Sampled(a).have
           /\ Sampled(a).pc = a.pc /\ Sampled(a).pass = a.pass /\ Sampled(a).pos = a.pos
           /\ Sampled(a).initial = a.initial /\ Sampled(a).best0 = a.best0
           /\ Sampled(a).best \in {a.pos, a.best}
           /\ Score(a.pos) <= Score(Sampled(a).best)
           /\ a.have => Score(a.best) <= Score(Sampled(a).best)
<1>0. a.pos \in Int /\ a.best \in Int /\ a.have \in BOOLEAN
  BY DEF Searches
<1>1. Score(a.pos) \in Int /\ Score(a.best) \in Int
  BY <1>0, ScoreInt
<1>2. CASE better(a.pos, a)
  <2>1. Sampled(a) = [[a EXCEPT !.best = a.pos] EXCEPT !.have = TRUE]
    BY <1>2 DEF Sampled
  <2>2. \A b \in BOOLEAN : [[a EXCEPT !.best = a.pos] EXCEPT !.have = b] \in Searches
    <3>1. [a EXCEPT !.best = a.pos] \in Searches
      BY <1>0, SMT DEF Searches
    <3>2. \A s \in Searches, b \in BOOLEAN : [s EXCEPT !.have = b] \in Searches
      BY SMT DEF Searches
    <3> QED BY <3>1, <3>2
  <2>3. /\ Sampled(a).pc = a.pc /\ Sampled(a).pass = a.pass /\ Sampled(a).pos = a.pos
        /\ Sampled(a).initial = a.initial /\ Sampled(a).best0 = a.best0 /\ Sampled(a).best = a.pos /\ Sampled(a).have = TRUE
    BY <2>1, SMT DEF Searches
  <2>4. a.have => Score(a.best) <= Score(a.pos)
    BY <1>1, <1>2, SMT DEF better
  <2>5. Score(a.pos) <= Score(a.pos)
    BY <1>1, SMT
  <2>6. Sampled(a) \in Searches
    BY <2>1, <2>2
  <2> QED BY <2>3, <2>4, <2>5, <2>6
<1>3. CASE ~better(a.pos, a)
  <2>1. Sampled(a) = a
    BY <1>3 DEF Sampled
  <2>2. a.have /\ ~(Score(a.pos) > Score(a.best))
    BY <1>3 DEF better
  <2>3. Score(a.pos) <= Score(a.best) /\ Score(a.best) <= Score(a.best)
    BY <1>1, <2>2, SMT
  <2> QED BY <2>1, <2>2, <2>3
<1> QED BY <1>2, <1>3

\* Moving on from position p to position q, at most a step further.
LEMMA NearFurther ==
    ASSUME Sharpest \in Int, NEW lo \in Int, NEW p \in Int, NEW q \in Int, NEW b \in Int, NEW c \in Int,
           Near(b, lo, p), q - p <= CoarseStep, p < q, lo <= p,
           Score(b) <= Score(c), Score(q) <= Score(c)
    PROVE  Near(c, lo, q)
BY FocusAssumption, SMT DEF Near, Score

LEMMA NearFirst ==
    ASSUME Sharpest \in Int, NEW lo \in Int, NEW c \in Int, Score(lo) <= Score(c)
    PROVE  Near(c, lo, lo)
BY FocusAssumption, SMT DEF Near, Score

\* The window around the coarse best holds the best position of the range.
LEMMA WindowHoldsPeak ==
    ASSUME Sharpest \in Int, NEW lo \in Int, NEW hi \in Int, NEW b \in lo .. hi, Near(b, lo, hi),
           NEW best \in lo .. hi,
           \A x \in Clamp(b - CoarseStep, lo, hi) .. Clamp(b + CoarseStep, lo, hi) : Score(x) <= Score(best)
    PROVE  \A x \in lo .. hi : Score(x) <= Score(best)
<1> DEFINE q == Clamp(Sharpest, lo, hi)
<1>1. b \in Int /\ best \in Int /\ lo <= b /\ b <= hi /\ CoarseStep \in Nat
  BY FocusAssumption, SMT
<1>2. q \in lo .. hi /\ q \in Int
  BY <1>1, SMT DEF Clamp
<1>3. q - CoarseStep <= b /\ b <= q + CoarseStep
  BY <1>1, SMT DEF Clamp, Near, Score
<1>4. q \in Clamp(b - CoarseStep, lo, hi) .. Clamp(b + CoarseStep, lo, hi)
  <2> HIDE DEF q
  <2> QED BY <1>1, <1>2, <1>3, SMT DEF Clamp
<1>5. Score(q) <= Score(best)
  BY <1>4
<1>6. \A x \in lo .. hi : Score(x) <= Score(q)
  BY <1>1, SMT DEF Score, Clamp
<1>7. TAKE x \in lo .. hi
<1>8. x \in Int /\ Score(x) \in Int /\ Score(q) \in Int /\ Score(best) \in Int
  BY <1>1, <1>2, ScoreInt
<1> QED BY <1>5, <1>6, <1>8, SMT

\* One sample and the step that follows it keep what the search knows.
LEMMA SearchGoesOn ==
    ASSUME Sharpest \in Int, NEW a \in Searches, NEW lo \in Int, NEW hi \in Int, lo <= hi,
           SearchOK(a, lo, hi), a.pass # "set",
           NEW b, b = (IF Sampled(a).pass = "coarse" THEN [Sampled(a) EXCEPT !.best0 = Sampled(a).best] ELSE Sampled(a))
    PROVE  /\ Advance(b, lo, hi) \in Searches /\ Advance(b, lo, hi).pc = a.pc
           /\ SearchOK(Advance(b, lo, hi), lo, hi)
<1> DEFINE s == Sampled(a)
           n == Advance(b, lo, hi)
<1>1. /\ s \in Searches /\ s.have /\ s.pc = a.pc /\ s.pass = a.pass /\ s.pos = a.pos
      /\ s.initial = a.initial /\ s.best0 = a.best0 /\ s.best \in {a.pos, a.best}
      /\ Score(a.pos) <= Score(s.best) /\ (a.have => Score(a.best) <= Score(s.best))
  BY SampledBetter
<1> HIDE DEF s
<1>2. /\ a.initial \in lo .. hi /\ a.pos \in lo .. hi /\ a.best \in lo .. hi
      /\ a.pass \in {"coarse", "fine"}
  BY DEF SearchOK
<1>3. s.best \in lo .. hi
  BY <1>1, <1>2
<1>4. a.pos \in Int /\ a.best \in Int /\ s.best \in Int /\ a.best0 \in Int /\ CoarseStep \in Nat /\ CoarseStep > 0
      /\ lo <= a.pos /\ a.pos <= hi
  BY <1>1, <1>2, FocusAssumption, SMT DEF Searches
<1>5. CASE a.pass = "coarse"
  <2>1. b = [s EXCEPT !.best0 = s.best]
    BY <1>1, <1>5 DEF s
  <2>2. /\ b \in Searches /\ b.have /\ b.pc = a.pc /\ b.pass = "coarse" /\ b.pos = a.pos
        /\ b.initial = a.initial /\ b.best = s.best /\ b.best0 = s.best
    <3>1. b \in Searches
      BY <1>1, <1>4, <2>1, SearchSet
    <3> QED BY <1>1, <1>5, <2>1, <3>1, SMT DEF Searches
  <2>3. Near(s.best, lo, a.pos)
    <3>1. CASE a.pos = lo /\ ~a.have
      BY <1>1, <1>4, <3>1, NearFirst
    <3>2. CASE a.have /\ \E prev \in lo .. hi : prev < a.pos /\ a.pos - prev <= CoarseStep /\ Near(a.best, lo, prev)
      <4>1. PICK prev \in lo .. hi : prev < a.pos /\ a.pos - prev <= CoarseStep /\ Near(a.best, lo, prev)
        BY <3>2
      <4>2. prev \in Int /\ lo <= prev
        BY SMT
      <4> QED BY <1>1, <1>4, <3>2, <4>1, <4>2, NearFurther
    <3> QED BY <1>5, <3>1, <3>2 DEF SearchOK, CoarseOK
  <2>4. CASE a.pos # hi
    <3> DEFINE q == IF hi - a.pos <= CoarseStep THEN hi ELSE a.pos + CoarseStep
    <3>1. n = [b EXCEPT !.pos = q]
      BY <2>2, <2>4 DEF Advance
    <3>2. q \in lo .. hi /\ q \in Int /\ a.pos < q /\ q - a.pos <= CoarseStep
      BY <1>4, <2>4, SMT
    <3> HIDE DEF q
    <3>3. /\ n \in Searches /\ n.have /\ n.pc = a.pc /\ n.pass = "coarse" /\ n.pos = q
          /\ n.initial = a.initial /\ n.best = s.best
      BY <2>2, <3>1, <3>2, SMT DEF Searches
    <3> HIDE DEF n
    <3>4. CoarseOK(n, lo, hi)
      BY <1>1, <1>2, <2>3, <3>2, <3>3 DEF CoarseOK
    <3> QED BY <1>2, <1>3, <3>2, <3>3, <3>4 DEF SearchOK, n
  <2>5. CASE a.pos = hi
    <3> DEFINE q == Clamp(s.best - CoarseStep, lo, hi)
    <3>1. n = [[[b EXCEPT !.have = FALSE] EXCEPT !.pass = "fine"] EXCEPT !.pos = q]
      BY <2>2, <2>5 DEF Advance, fine_pass_forgets
    <3>2. q \in lo .. hi /\ q \in Int /\ q <= Clamp(s.best + CoarseStep, lo, hi)
      BY <1>3, <1>4, SMT DEF Clamp
    <3>3. ~n.have /\ n.pc = a.pc /\ n.pass = "fine" /\ n.pos = q
          /\ n.initial = a.initial /\ n.best = s.best /\ n.best0 = s.best
      <4> HIDE DEF q, n
      <4> QED BY <2>2, <3>1, SMT DEF Searches
    <3>4. n \in Searches
      <4> HIDE DEF q, n
      <4>2. "fine" \in Passes
        BY DEF Passes
      <4> QED BY <2>2, <3>1, <3>2, <4>2, SearchSet
    <3>5. FineOK(n, lo, hi)
      <4> HIDE DEF n
      <4>1. q <= q
        BY <3>2, SMT
      <4> QED BY <1>3, <2>3, <2>5, <3>2, <3>3, <4>1 DEF FineOK
    <3> HIDE DEF q
    <3> QED BY <1>2, <1>3, <3>2, <3>3, <3>4, <3>5 DEF SearchOK
  <2> QED BY <2>4, <2>5
<1>6. CASE a.pass = "fine"
  <2>1. b = s
    BY <1>1, <1>6 DEF s
  <2> DEFINE first == Clamp(a.best0 - CoarseStep, lo, hi)
             last == Clamp(a.best0 + CoarseStep, lo, hi)
  <2>2. /\ a.best0 \in lo .. hi /\ Near(a.best0, lo, hi) /\ first <= a.pos /\ a.pos <= last
        /\ \/ a.pos = first /\ ~a.have
           \/ a.have /\ \A x \in first .. a.pos - 1 : Score(x) <= Score(a.best)
    BY <1>6 DEF SearchOK, FineOK
  <2>3. first \in Int /\ last \in Int /\ last <= hi
    BY <1>4, <2>2, SMT DEF Clamp
  <2>4. \A x \in first .. a.pos : Score(x) <= Score(s.best)
    <3> HIDE DEF first, last
    <3> TAKE x \in first .. a.pos
    <3>1. x \in Int /\ first <= x /\ x <= a.pos
      BY <1>4, <2>3, SMT
    <3>2. Score(x) \in Int /\ Score(a.best) \in Int /\ Score(s.best) \in Int /\ Score(a.pos) \in Int
      BY <1>4, <3>1, ScoreInt
    <3>3. CASE x = a.pos
      BY <1>1, <3>3
    <3>4. CASE x # a.pos
      <4>1. x \in first .. a.pos - 1
        BY <1>4, <2>3, <3>1, <3>4, SMT
      <4>2. a.have /\ Score(x) <= Score(a.best)
        BY <2>2, <3>1, <3>4, <4>1, <1>4, SMT
      <4> QED BY <1>1, <3>2, <4>2, SMT
    <3> QED BY <3>3, <3>4
  <2>5. CASE a.pos < last
    <3>1. n = [s EXCEPT !.pos = a.pos + 1]
      BY <1>1, <1>6, <2>1, <2>5 DEF Advance
    <3>2. a.pos + 1 \in Int /\ a.pos + 1 \in lo .. hi /\ first <= a.pos + 1 /\ a.pos + 1 <= last /\ (a.pos + 1) - 1 = a.pos
      <4> HIDE DEF first, last
      <4> QED BY <1>4, <2>2, <2>3, <2>5, SMT
    <3>3. /\ n \in Searches /\ n.have /\ n.pc = a.pc /\ n.pass = "fine" /\ n.pos = a.pos + 1
          /\ n.initial = a.initial /\ n.best = s.best /\ n.best0 = a.best0
      <4> HIDE DEF n
      <4>1. n \in Searches
        BY <1>1, <3>1, <3>2, SearchSet
      <4> QED BY <1>1, <1>6, <3>1, <4>1, SMT DEF Searches
    <3>4. FineOK(n, lo, hi)
      <4> HIDE DEF n
      <4> QED BY <1>1, <2>2, <2>4, <3>2, <3>3 DEF FineOK
    <3> HIDE DEF n, first, last
    <3>5. SearchOK(n, lo, hi)
      BY <1>2, <1>3, <3>2, <3>3, <3>4 DEF SearchOK
    <3> QED BY <3>3, <3>5 DEF n
  <2>6. CASE ~(a.pos < last)
    <3>1. n = [s EXCEPT !.pass = "set"]
      BY <1>1, <1>6, <2>1, <2>6 DEF Advance
    <3>2. a.pos = last
      <4> HIDE DEF first, last
      <4> QED BY <1>4, <2>2, <2>3, <2>6, SMT
    <3>3. /\ n \in Searches /\ n.pc = a.pc /\ n.pass = "set" /\ n.pos = a.pos
          /\ n.initial = a.initial /\ n.best = s.best
      <4> HIDE DEF n
      <4>1. n \in Searches
        BY <1>1, <3>1, SearchSet DEF Passes
      <4> QED BY <1>1, <3>1, <4>1, SMT DEF Searches
    <3>4. \A x \in lo .. hi : Score(x) <= Score(s.best)
      BY <1>3, <2>2, <2>4, <3>2, WindowHoldsPeak
    <3> HIDE DEF n, first, last
    <3>5. SearchOK(n, lo, hi)
      BY <1>2, <1>3, <3>3, <3>4 DEF SearchOK
    <3> QED BY <3>3, <3>5 DEF n
  <2> QED BY <2>5, <2>6
<1> QED BY <1>2, <1>5, <1>6

-----------------------------------------------------------------------------
\* The steps of the threads.

LEMMA NoSearchTyped ==
    NoSearch \in Searches /\ NoSearch.pc = "none" /\ NoSearch.pass = "" /\ ~NoSearch.have
<1>1. \A i \in Int, b \in BOOLEAN, w \in SearchPcs, p \in Passes :
        [pc |-> w, initial |-> i, pos |-> i, best |-> i, best0 |-> i, have |-> b, pass |-> p] \in Searches
  BY SMT DEF Searches
<1>2. 0 \in Int /\ FALSE \in BOOLEAN /\ "none" \in SearchPcs /\ "" \in Passes
  BY DEF SearchPcs, Passes
<1>3. NoSearch \in Searches
  BY <1>1, <1>2 DEF NoSearch
<1> QED BY <1>3 DEF NoSearch

LEMMA FocusInitially == FocusInit => FocusInv
<1> SUFFICES ASSUME FocusInit PROVE FocusInv
  OBVIOUS
<1>1. 1 \in Rows
  <2>1. Table \in Seq([zoom : Int, focus : Int, min : Int, max : Int]) /\ Len(Table) > 0
    BY FocusAssumption
  <2>2. DOMAIN Table = 1 .. Len(Table) /\ Len(Table) \in Nat
    BY <2>1, LenProperties
  <2> QED BY <2>1, <2>2, SMT DEF Rows
<1>2. /\ motor.zoom = Table[1].zoom /\ motor.focus = Table[1].focus /\ motor.row = 1
      /\ motor.zoomOff = 0 /\ motor.focusOff = 0 /\ motor.missed = 0
      /\ motor = [zoom |-> Table[1].zoom, focus |-> Table[1].focus, row |-> 1,
                  zoomOff |-> 0, focusOff |-> 0, missed |-> 0]
  BY DEF FocusInit
<1>3. /\ Table[1].zoom \in Int /\ Table[1].focus \in Int /\ Table[1].focus \in Table[1].min .. Table[1].max
  BY <1>1, RowFields, SMT
<1>4. motor \in Motors /\ Positioned(motor)
  <2>1. motor \in MotorRecords
    BY <1>1, <1>2, <1>3 DEF MotorRecords
  <2>2. Abs(0) + Abs(0) <= BatchSteps * 0
    BY FocusAssumption, SMT DEF Abs
  <2> QED BY <1>2, <1>3, <2>1, <2>2 DEF Motors, Tracked, Positioned, focus_range
<1>5. auto = NoSearch /\ auto \in Searches /\ auto.pc = "none" /\ auto.pass = ""
  BY NoSearchTyped DEF FocusInit
<1>6. focusMain \in FocusMains /\ focusMain.pc = "idle"
  BY DEF FocusInit, FocusIdle, FocusMains, MainPcs
<1>7. peak \in Int
  BY FocusAssumption DEF FocusInit
<1>8. FocusTypes
  <2>1. /\ direction = 0 /\ lock = "free" /\ zoom = 1
        /\ running = FALSE /\ cancel = FALSE /\ mstarted = FALSE /\ astarted = FALSE /\ broken = FALSE
    BY DEF FocusInit
  <2>2. 0 \in Int
    OBVIOUS
  <2> QED BY <1>1, <1>4, <1>5, <1>7, <2>1, <2>2 DEF FocusTypes
<1>9. FocusCommandInv
  BY <1>6 DEF FocusCommandInv, LensCommands
<1>10. FocusThreadInv
  BY <1>5 DEF FocusInit, FocusThreadInv
<1>11. FocusSearchInv
  BY <1>5 DEF FocusSearchInv, SearchFindsPeak
<1> QED BY <1>4, <1>8, <1>9, <1>10, <1>11 DEF FocusInv

\* A search that nobody disturbs knows what it knew.
LEMMA SearchFrame == FocusSearchInv /\ UNCHANGED <<motor, peak, auto>> => FocusSearchInv'
BY DEF FocusSearchInv, SearchOK, CoarseOK, FineOK, Near, Score, Sharpest, SearchFindsPeak, focus_range, Lo, Hi

LEMMA NoSearchFrame ==
    ASSUME FocusSearchInv, auto.pc \notin {"search", "unlock"}, UNCHANGED auto
    PROVE  FocusSearchInv'
BY DEF FocusSearchInv, SearchFindsPeak

LEMMA GotoMain ==
    ASSUME focusMain \in FocusMains, NEW p \in MainPcs, FocusGoto(p)
    PROVE  focusMain' \in FocusMains /\ focusMain'.pc = p /\ focusMain'.cmd = focusMain.cmd /\ focusMain'.arg = focusMain.arg
BY SMT DEF FocusGoto, FocusMains

LEMMA DoneMain == Done => focusMain' \in FocusMains /\ focusMain'.pc = "idle" /\ focusMain'.cmd = "none"
BY DEF Done, FocusIdle, FocusMains, MainPcs

\* Steps of the event loop that leave lens, lock and search alone.
LEMMA CommandKeeps ==
    ASSUME FocusInv, NEW cmd \in LensCommands, NEW arg \in Int, cmd = "zoom" => arg \in Rows, FocusCommand(cmd, arg)
    PROVE  FocusInv'
<1>1. /\ focusMain' = [pc |-> cmd, cmd |-> cmd, arg |-> arg] /\ focusMain.pc = "idle"
      /\ UNCHANGED <<motor, peak, lock, flags, threads, zoom, broken>>
  BY DEF FocusCommand, FocusAt
<1>2. focusMain' \in FocusMains /\ focusMain'.pc = cmd /\ focusMain'.cmd = cmd /\ focusMain'.arg = arg
  <2>1. cmd \in MainPcs /\ cmd \in LensCommands \cup {"none"}
    BY DEF MainPcs, LensCommands
  <2> QED BY <1>1, <2>1 DEF FocusMains
<1>3. FocusCommandInv'
  BY <1>2 DEF FocusCommandInv, LensCommands
<1>4. FocusThreadInv'
  BY <1>1, <1>2 DEF FocusInv, FocusThreadInv, flags, threads
<1>5. FocusTypes' /\ (~broken' => Positioned(motor'))
  BY <1>1 DEF FocusInv, FocusTypes, flags, threads, Positioned, focus_range
<1>6. FocusSearchInv'
  BY <1>1, SearchFrame DEF FocusInv, threads
<1> QED BY <1>3, <1>4, <1>5, <1>6 DEF FocusInv

LEMMA StopManualKeeps == ASSUME FocusInv, StopManual PROVE FocusInv'
<1>1. /\ direction' = 0 /\ UNCHANGED <<motor, peak, lock, running, threads, zoom, broken>>
      /\ cancel' = TRUE \/ cancel' = cancel
  BY DEF StopManual
<1>2. focusMain \in FocusMains /\ focusMain.pc \in {"stop", "percent", "close"} /\ focusMain.cmd = focusMain.pc
  BY DEF StopManual, FocusInv, FocusCommandInv, LensCommands
<1>3. /\ focusMain' \in FocusMains /\ focusMain'.cmd = focusMain.cmd
      /\ focusMain'.pc = IF focusMain.pc = "close" THEN "join auto" ELSE "join manual"
  BY <1>2, GotoMain DEF StopManual, FocusAt, MainPcs
<1>4. FocusCommandInv'
  BY <1>1, <1>2, <1>3 DEF FocusCommandInv, LensCommands
<1>5. FocusThreadInv'
  BY <1>1, <1>3 DEF FocusInv, FocusThreadInv, threads
<1>6. FocusTypes' /\ (~broken' => Positioned(motor'))
  <2>1. cancel' \in BOOLEAN
    BY <1>1 DEF FocusInv, FocusTypes
  <2>2. direction' \in Int
    BY <1>1
  <2> QED BY <1>1, <2>1, <2>2 DEF FocusInv, FocusTypes, threads, Positioned, focus_range
<1>7. FocusSearchInv'
  BY <1>1, SearchFrame DEF FocusInv, threads
<1> QED BY <1>4, <1>5, <1>6, <1>7 DEF FocusInv

LEMMA ChooseKeeps == ASSUME FocusInv, ManualFocus \/ Autofocus PROVE FocusInv'
<1>1. UNCHANGED <<motor, peak, lock, flags, threads, zoom, broken>>
  BY DEF ManualFocus, Autofocus
<1>2. focusMain \in FocusMains /\ focusMain.pc \in {"focus", "autofocus"} /\ focusMain.cmd = focusMain.pc
  BY DEF ManualFocus, Autofocus, FocusAt, FocusInv, FocusCommandInv, LensCommands
<1>3. \/ focusMain' \in FocusMains /\ focusMain'.pc = "idle"
      \/ /\ focusMain' \in FocusMains /\ focusMain'.cmd = focusMain.cmd
         /\ \/ focusMain'.pc = "redirect" /\ mstarted
            \/ focusMain'.pc = "join manual" /\ (focusMain.cmd # "focus" => direction = 0)
            \/ focusMain'.pc = "spawn manual"
  <2>1. CASE ManualFocus
    <3>1. Done \/ (FocusGoto("redirect") /\ mstarted) \/ FocusGoto("join manual") \/ FocusGoto("spawn manual")
      BY <2>1 DEF ManualFocus
    <3>2. focusMain.cmd = "focus"
      BY <2>1, <1>2 DEF ManualFocus, FocusAt
    <3> QED BY <1>2, <3>1, <3>2, GotoMain, DoneMain DEF MainPcs
  <2>2. CASE Autofocus
    BY <1>2, <2>2, GotoMain, DoneMain DEF Autofocus, MainPcs
  <2> QED BY <2>1, <2>2
<1>4. FocusCommandInv'
  BY <1>1, <1>2, <1>3 DEF FocusCommandInv, LensCommands, flags, threads
<1>5. FocusThreadInv'
  BY <1>1, <1>2, <1>3 DEF FocusInv, FocusThreadInv, flags, threads
<1>6. FocusTypes' /\ (~broken' => Positioned(motor'))
  BY <1>1 DEF FocusInv, FocusTypes, flags, threads, Positioned, focus_range
<1>7. FocusSearchInv'
  BY <1>1, SearchFrame DEF FocusInv, threads
<1> QED BY <1>4, <1>5, <1>6, <1>7 DEF FocusInv

LEMMA RedirectKeeps == ASSUME FocusInv, Redirect PROVE FocusInv'
<1>1. direction' = focusMain.arg /\ Done /\ mstarted /\ UNCHANGED <<motor, peak, lock, running, cancel, threads, zoom, broken>>
  BY DEF Redirect, FocusAt, FocusInv, FocusCommandInv
<1>2. focusMain' \in FocusMains /\ focusMain'.pc = "idle"
  BY <1>1, DoneMain
<1>3. focusMain.arg \in Int
  BY DEF FocusInv, FocusCommandInv, FocusMains
<1>4. FocusCommandInv'
  BY <1>2 DEF FocusCommandInv, LensCommands
<1>5. FocusThreadInv'
  BY <1>1, <1>2 DEF FocusInv, FocusThreadInv, threads
<1>6. FocusTypes' /\ (~broken' => Positioned(motor'))
  BY <1>1, <1>3 DEF FocusInv, FocusTypes, threads, Positioned, focus_range
<1>7. FocusSearchInv'
  BY <1>1, SearchFrame DEF FocusInv, threads
<1> QED BY <1>4, <1>5, <1>6, <1>7 DEF FocusInv

LEMMA JoinManualKeeps == ASSUME FocusInv, JoinManual PROVE FocusInv'
<1>1. /\ manual' = "none" /\ mstarted' = FALSE
      /\ UNCHANGED <<motor, peak, lock, direction, cancel, auto, astarted, zoom, broken>>
      /\ running' = (running \/ focusMain.cmd = "autofocus")
  BY DEF JoinManual
<1>2. /\ focusMain \in FocusMains /\ focusMain.pc = "join manual" /\ focusMain.cmd \in LensCommands \ {"zoom"}
      /\ focusMain.cmd # "focus" => direction = 0
  BY DEF JoinManual, FocusAt, FocusInv, FocusCommandInv
<1>3. \/ focusMain' \in FocusMains /\ focusMain'.pc = "idle" /\ direction = 0
      \/ /\ focusMain' \in FocusMains /\ focusMain'.cmd = focusMain.cmd
         /\ \/ focusMain'.pc = "spawn manual"
            \/ focusMain'.pc = "join auto" /\ direction = 0 /\ focusMain.cmd \in {"percent", "autofocus"}
            \/ focusMain'.pc = "closed" /\ direction = 0
  <2>1. AfterJoinManual
    BY DEF JoinManual
  <2>2. \/ Done /\ focusMain.cmd # "focus"
        \/ FocusGoto("spawn manual")
        \/ FocusGoto("join auto") /\ focusMain.cmd \in {"percent", "autofocus"}
        \/ FocusGoto("closed") /\ focusMain.cmd # "focus"
    BY <2>1 DEF AfterJoinManual
  <2> QED BY <1>2, <2>2, GotoMain, DoneMain DEF MainPcs
<1>4. FocusCommandInv'
  BY <1>1, <1>2, <1>3 DEF FocusCommandInv, LensCommands
<1>5. FocusThreadInv'
  BY <1>1, <1>2, <1>3 DEF FocusInv, FocusThreadInv
<1>6. FocusTypes' /\ (~broken' => Positioned(motor'))
  BY <1>1 DEF FocusInv, FocusTypes, Positioned, focus_range
<1>7. FocusSearchInv'
  BY <1>1, SearchFrame DEF FocusInv
<1> QED BY <1>4, <1>5, <1>6, <1>7 DEF FocusInv

LEMMA JoinAutoKeeps == ASSUME FocusInv, JoinAuto PROVE FocusInv'
<1>1. /\ auto' = NoSearch /\ astarted' = FALSE
      /\ UNCHANGED <<motor, peak, lock, direction, running, manual, mstarted, zoom, broken>>
      /\ cancel' = FALSE \/ cancel' = cancel
      /\ auto.pc \in {"none", "ended"}
  BY DEF JoinAuto, FocusInv, FocusThreadInv
<1>2. /\ focusMain \in FocusMains /\ focusMain.pc = "join auto"
      /\ focusMain.cmd \in {"percent", "autofocus", "close"} /\ direction = 0
  BY DEF JoinAuto, FocusAt, FocusInv, FocusCommandInv
<1>3. /\ focusMain' \in FocusMains /\ focusMain'.cmd = focusMain.cmd
      /\ focusMain'.pc \in {"lock", "spawn auto", "join manual"}
  <2>1. FocusGoto("lock") \/ FocusGoto("spawn auto") \/ FocusGoto("join manual")
    BY DEF JoinAuto, AfterJoinAuto
  <2> QED BY <1>2, <2>1, GotoMain DEF MainPcs
<1>4. FocusCommandInv'
  BY <1>1, <1>2, <1>3 DEF FocusCommandInv, LensCommands
<1>a. auto' \in Searches /\ auto'.pc = "none" /\ auto'.pass = ""
  BY <1>1, NoSearchTyped
<1>5. FocusThreadInv'
  BY <1>1, <1>2, <1>3, <1>a DEF FocusInv, FocusThreadInv
<1>6. FocusTypes' /\ (~broken' => Positioned(motor'))
  BY <1>1, <1>a DEF FocusInv, FocusTypes, Positioned, focus_range
<1>7. FocusSearchInv'
  BY <1>a DEF FocusSearchInv, SearchFindsPeak
<1> QED BY <1>4, <1>5, <1>6, <1>7 DEF FocusInv

LEMMA SpawnManualKeeps == ASSUME FocusInv, SpawnManual PROVE FocusInv'
<1>1. /\ UNCHANGED <<motor, peak, lock, running, cancel, auto, astarted, zoom, broken>>
      /\ Done /\ focusMain.arg \in Int
  BY DEF SpawnManual, FocusInv, FocusCommandInv, FocusMains
<1>2. \/ direction' = focusMain.arg /\ mstarted' = TRUE
      \/ direction' = 0 /\ UNCHANGED <<manual, mstarted>>
  BY DEF SpawnManual
<1>3. focusMain' \in FocusMains /\ focusMain'.pc = "idle"
  BY <1>1, DoneMain
<1>4. FocusCommandInv'
  BY <1>3 DEF FocusCommandInv, LensCommands
<1>5. FocusThreadInv'
  BY <1>1, <1>2, <1>3 DEF FocusInv, FocusThreadInv
<1>6. FocusTypes' /\ (~broken' => Positioned(motor'))
  <2>1. direction' \in Int
    BY <1>1, <1>2
  <2>2. mstarted' \in BOOLEAN
    BY <1>2 DEF FocusInv, FocusTypes
  <2> QED BY <1>1, <2>1, <2>2 DEF FocusInv, FocusTypes, Positioned, focus_range
<1>7. FocusSearchInv'
  BY <1>1, SearchFrame DEF FocusInv
<1> QED BY <1>4, <1>5, <1>6, <1>7 DEF FocusInv

LEMMA SpawnAutoKeeps == ASSUME FocusInv, SpawnAuto PROVE FocusInv'
<1>1. /\ UNCHANGED <<motor, peak, lock, direction, cancel, manual, mstarted, zoom, broken>> /\ Done
      /\ ~astarted /\ focusMain.pc = "spawn auto"
  BY DEF SpawnAuto, FocusAt, FocusInv, FocusCommandInv
<1>2. \/ auto' = [NoSearch EXCEPT !.pc = "wait"] /\ astarted' = TRUE /\ UNCHANGED running
      \/ running' = FALSE /\ UNCHANGED <<auto, astarted>>
  BY DEF SpawnAuto
<1>3. focusMain' \in FocusMains /\ focusMain'.pc = "idle"
  BY <1>1, DoneMain
<1>4. FocusCommandInv'
  BY <1>3 DEF FocusCommandInv, LensCommands
<1>a. auto.pc = "none" /\ lock = "free" /\ auto \in Searches
  BY <1>1 DEF FocusInv, FocusThreadInv, FocusTypes
<1>b. auto' \in Searches /\ ((auto'.pc = "none" /\ astarted' = astarted) \/ (auto'.pc = "wait" /\ ~auto'.have /\ auto'.pass = "" /\ astarted'))
  <2>1. CASE auto' = [NoSearch EXCEPT !.pc = "wait"] /\ astarted' = TRUE
    <3>1. auto' \in Searches
      BY <2>1, NoSearchTyped, SearchSet DEF SearchPcs
    <3>2. auto'.pc = "wait" /\ auto'.pass = ""
      BY <2>1 DEF NoSearch
    <3>3. ~auto'.have
      BY <2>1 DEF NoSearch
    <3> QED BY <2>1, <3>1, <3>2, <3>3
  <2>2. CASE UNCHANGED <<auto, astarted>>
    BY <1>a, <2>2
  <2> QED BY <1>2, <2>1, <2>2
<1>5. FocusThreadInv'
  BY <1>1, <1>3, <1>a, <1>b DEF FocusInv, FocusThreadInv
<1>6. FocusTypes' /\ (~broken' => Positioned(motor'))
  <2>1. running' \in BOOLEAN /\ astarted' \in BOOLEAN
    BY <1>2 DEF FocusInv, FocusTypes
  <2> QED BY <1>1, <1>b, <2>1 DEF FocusInv, FocusTypes, Positioned, focus_range
<1>7. FocusSearchInv'
  BY <1>a, <1>b DEF FocusSearchInv, SearchFindsPeak
<1> QED BY <1>4, <1>5, <1>6, <1>7 DEF FocusInv

-----------------------------------------------------------------------------
\* Whoever finds the lock free moves a lens that no search holds.
LEMMA FreeMove ==
    ASSUME FocusInv, lock = "free", UNCHANGED <<peak, lock, auto, astarted, running, cancel, mstarted>>,
           motor' \in Motors, broken' \in BOOLEAN, ~broken' => Positioned(motor'), zoom' \in Rows,
           direction' = direction
    PROVE  FocusTypes' /\ (~broken' => Positioned(motor')) /\ FocusSearchInv'
<1>1. auto.pc \notin {"search", "unlock"}
  BY DEF FocusInv, FocusThreadInv
<1>2. FocusSearchInv'
  BY <1>1, NoSearchFrame DEF FocusInv
<1> QED BY <1>2 DEF FocusInv, FocusTypes, Positioned, focus_range

LEMMA FocusPercentKeeps == ASSUME FocusInv, FocusPercent PROVE FocusInv'
<1>1. lock = "free" /\ Done /\ UNCHANGED <<peak, lock, flags, threads, zoom, broken>>
  BY DEF FocusPercent
<1>2. PICK p \in focus_range(motor), fault \in BOOLEAN : motor' \in set_focus_position(motor, p, fault)
  BY DEF FocusPercent
<1>3. motor \in Motors /\ p \in Int
  <2>1. motor \in Motors /\ motor.row \in Rows
    BY MotorFields DEF FocusInv, FocusTypes
  <2>2. Table[motor.row].min \in Int /\ Table[motor.row].max \in Int
    BY <2>1, RowFields
  <2> QED BY <2>1, <2>2, SMT DEF focus_range
<1>4. motor' \in Motors
  BY <1>2, <1>3, FocusMoves DEF set_focus_position
<1>5. ~broken' => Positioned(motor')
  BY <1>1, <1>2, <1>3, FocusMovesWithin DEF FocusInv
<1>6. focusMain' \in FocusMains /\ focusMain'.pc = "idle"
  BY <1>1, DoneMain
<1>7. FocusCommandInv'
  BY <1>6 DEF FocusCommandInv, LensCommands
<1>8. focusMain.pc = "lock"
  BY DEF FocusPercent, FocusAt
<1>9. FocusThreadInv'
  BY <1>1, <1>6, <1>8 DEF FocusInv, FocusThreadInv, flags, threads
<1>10. broken' \in BOOLEAN /\ zoom' \in Rows
  BY <1>1 DEF FocusInv, FocusTypes
<1> QED BY <1>1, <1>4, <1>5, <1>7, <1>9, <1>10, FreeMove DEF FocusInv, flags, threads

LEMMA SetZoomKeeps == ASSUME FocusInv, FocusSetZoom PROVE FocusInv'
<1>1. lock = "free" /\ Done /\ focusMain.pc = "zoom" /\ UNCHANGED <<peak, lock, flags, threads>>
  BY DEF FocusSetZoom, SetZoomUnlocked, FocusAt
<1>2. motor \in Motors /\ focusMain.arg \in Rows /\ zoom \in Rows
  BY <1>1 DEF FocusInv, FocusTypes, FocusCommandInv
<1>3. motor' \in Motors /\ broken' \in BOOLEAN /\ zoom' \in Rows /\ (~broken' => Positioned(motor'))
  <2>1. CASE motor' \in focus_set_zoom(motor, focusMain.arg, "") /\ zoom' = focusMain.arg /\ broken' = FALSE
    BY <1>2, <2>1, ZoomArrives
  <2>2. CASE /\ \E where \in {"zoom", "focus"} : motor' \in focus_set_zoom(motor, focusMain.arg, where)
             /\ broken' = TRUE /\ zoom' = zoom
    BY <1>2, <2>2, ZoomStopsShort
  <2>3. CASE /\ \E m \in focus_set_zoom(motor, focusMain.arg, "") : motor' \in focus_set_zoom(m, zoom, "") \cup {m}
             /\ broken' = FALSE /\ zoom' = zoom
    <3>1. PICK m \in focus_set_zoom(motor, focusMain.arg, "") : motor' \in focus_set_zoom(m, zoom, "") \cup {m}
      BY <2>3
    <3>2. m \in Motors /\ Positioned(m)
      BY <1>2, ZoomArrives
    <3>3. motor' \in Motors /\ Positioned(motor')
      BY <1>2, <3>1, <3>2, ZoomArrives
    <3> QED BY <1>2, <2>3, <3>3
  <2>4. CASE /\ \E m \in focus_set_zoom(motor, focusMain.arg, ""), where \in {"zoom", "focus"} :
                    motor' \in focus_set_zoom(m, zoom, where)
             /\ broken' = TRUE /\ zoom' = zoom
    <3>1. PICK m \in focus_set_zoom(motor, focusMain.arg, ""), where \in {"zoom", "focus"} :
                motor' \in focus_set_zoom(m, zoom, where)
      BY <2>4
    <3>2. m \in Motors
      BY <1>2, ZoomArrives
    <3>3. motor' \in Motors
      BY <1>2, <3>1, <3>2, ZoomStopsShort
    <3> QED BY <1>2, <2>4, <3>3
  <2> QED BY <2>1, <2>2, <2>3, <2>4 DEF FocusSetZoom, SetZoomUnlocked
<1>6. focusMain' \in FocusMains /\ focusMain'.pc = "idle"
  BY <1>1, DoneMain
<1>7. FocusCommandInv'
  BY <1>6 DEF FocusCommandInv, LensCommands
<1>9. FocusThreadInv'
  BY <1>1, <1>6 DEF FocusInv, FocusThreadInv, flags, threads
<1> QED BY <1>1, <1>3, <1>7, <1>9, FreeMove DEF FocusInv, flags, threads

LEMMA ManualTestKeeps == ASSUME FocusInv, ManualTest \/ ManualGivesUp PROVE FocusInv'
<1>1. /\ UNCHANGED <<motor, peak, lock, running, cancel, focusMain, auto, mstarted, astarted, zoom, broken>>
      /\ manual # "none" /\ direction' \in {direction, 0}
  BY DEF ManualTest, ManualGivesUp, flags
<1>2. mstarted
  BY <1>1 DEF FocusInv, FocusThreadInv
<1>3. FocusCommandInv'
  BY <1>1 DEF FocusInv, FocusCommandInv
<1>4. FocusThreadInv'
  BY <1>1, <1>2 DEF FocusInv, FocusThreadInv
<1>5. FocusTypes' /\ (~broken' => Positioned(motor'))
  <2>1. direction' \in Int
    BY <1>1, SMT DEF FocusInv, FocusTypes
  <2> QED BY <1>1, <2>1 DEF FocusInv, FocusTypes, Positioned, focus_range
<1>6. FocusSearchInv'
  BY <1>1, SearchFrame DEF FocusInv
<1> QED BY <1>3, <1>4, <1>5, <1>6 DEF FocusInv

LEMMA ManualMoveKeeps == ASSUME FocusInv, ManualMove PROVE FocusInv'
<1>1. /\ UNCHANGED <<peak, lock, flags, focusMain, auto, mstarted, astarted, zoom, broken>>
      /\ manual # "none" /\ lock = "free"
  BY DEF ManualMove
<1>2. mstarted
  BY <1>1 DEF FocusInv, FocusThreadInv
<1>3. FocusCommandInv'
  BY <1>1 DEF FocusInv, FocusCommandInv, flags
<1>4. FocusThreadInv'
  BY <1>1, <1>2 DEF FocusInv, FocusThreadInv, flags
<1>5. motor' = motor \/ \E p \in focus_range(motor), fault \in BOOLEAN : motor' \in set_focus_position(motor, p, fault)
  BY DEF ManualMove
<1>6. motor' \in Motors /\ (~broken' => Positioned(motor'))
  <2>0. motor \in Motors
    BY DEF FocusInv, FocusTypes
  <2>1. CASE motor' = motor
    BY <1>1, <2>0, <2>1 DEF FocusInv
  <2>2. ASSUME NEW p \in focus_range(motor), NEW fault \in BOOLEAN, motor' \in set_focus_position(motor, p, fault)
        PROVE  motor' \in Motors /\ (~broken' => Positioned(motor'))
    <3>1. motor.row \in Rows
      BY <2>0, MotorFields
    <3>2. Table[motor.row].min \in Int /\ Table[motor.row].max \in Int
      BY <3>1, RowFields
    <3>3. p \in Int
      BY <3>2, SMT DEF focus_range
    <3>4. motor' \in Motors
      BY <2>0, <2>2, <3>3, FocusMoves DEF set_focus_position
    <3> QED BY <1>1, <2>0, <2>2, <3>4, FocusMovesWithin DEF FocusInv
  <2> QED BY <1>5, <2>1, <2>2
<1>7. broken' \in BOOLEAN /\ zoom' \in Rows
  BY <1>1 DEF FocusInv, FocusTypes
<1> QED BY <1>1, <1>3, <1>4, <1>6, <1>7, FreeMove DEF FocusInv, flags

-----------------------------------------------------------------------------
\* The autofocus thread.

\* What its steps leave alone.
OthersKept == UNCHANGED <<peak, direction, cancel, focusMain, manual, mstarted, astarted, zoom, broken>>

LEMMA AutoFrame ==
    ASSUME FocusInv, OthersKept, auto' \in Searches, auto.pc # "none",
           motor' \in Motors, ~broken => Positioned(motor'),
           running' \in BOOLEAN, lock' \in {"free", "auto"},
           lock' = "auto" <=> auto'.pc \in {"search", "unlock"},
           FocusSearchInv'
    PROVE  FocusInv'
<1>1. astarted
  BY DEF FocusInv, FocusThreadInv
<1>2. FocusTypes'
  BY DEF FocusInv, FocusTypes, OthersKept
<1>3. FocusCommandInv'
  BY DEF FocusInv, FocusCommandInv, OthersKept
<1>4. FocusThreadInv'
  BY <1>1 DEF FocusInv, FocusThreadInv, OthersKept
<1> QED BY <1>2, <1>3, <1>4 DEF FocusInv, OthersKept

LEMMA SearchPrimed ==
    ASSUME peak' = peak, motor'.row = motor.row, motor'.focusOff = motor.focusOff,
           SearchOK(auto', Lo(motor), Hi(motor))
    PROVE  SearchOK(auto, Lo(motor), Hi(motor))'
BY DEF SearchOK, CoarseOK, FineOK, Near, Score, Sharpest, Lo, Hi

LEMMA AutoLockKeeps == ASSUME FocusInv, AutoLock PROVE FocusInv'
<1> DEFINE lo == Lo(motor)
           hi == Hi(motor)
<1>1. /\ OthersKept /\ UNCHANGED <<motor, running>> /\ auto.pc = "wait" /\ lock' = "auto"
      /\ auto' = IF Usable(lo, hi)
                 THEN [auto EXCEPT !.pc = "search", !.initial = motor.focus, !.pos = lo,
                                   !.best = motor.focus, !.pass = "coarse"]
                 ELSE [auto EXCEPT !.pc = "unlock"]
  BY DEF AutoLock, OthersKept, flags, Lo, Hi
<1>2. /\ auto \in Searches /\ ~auto.have /\ auto.pass = "" /\ motor \in Motors /\ (~broken => Positioned(motor)) /\ running \in BOOLEAN
      /\ motor.row \in Rows /\ motor.focus \in Int
  BY <1>1, MotorFields DEF FocusInv, FocusTypes, FocusSearchInv
<1>a. auto \in Searches
  BY <1>2
<1>b. auto \in Searches /\ auto.pass = ""
  BY <1>2
<1>c. auto \in Searches /\ ~auto.have
  BY <1>2
<1>3. lo \in Int /\ hi \in Int /\ lo <= hi
  BY <1>2, RowFields DEF Lo, Hi
<1> HIDE DEF lo, hi
<1>4. CASE Usable(lo, hi)
  <2>1. auto' = [[[[[auto EXCEPT !.pc = "search"] EXCEPT !.initial = motor.focus] EXCEPT !.pos = lo]
                   EXCEPT !.best = motor.focus] EXCEPT !.pass = "coarse"]
    BY <1>1, <1>4
  <2>2. auto' \in Searches
    <3>1. "search" \in SearchPcs /\ "coarse" \in Passes
      BY DEF SearchPcs, Passes
    <3> QED BY <1>2, <1>3, <2>1, <3>1, SearchSet
  <2>3. /\ auto'.pc = "search" /\ auto'.initial = motor.focus /\ auto'.pos = lo /\ auto'.best = motor.focus
        /\ auto'.pass = "coarse"
    BY <1>a, <2>1, SMT DEF Searches
  <2>4. ~auto'.have
    BY <1>c, <2>1, SMT DEF Searches
  <2>5. motor.focus \in lo .. hi
    BY <1>4 DEF Usable
  <2>6. lo \in lo .. hi
    BY <1>3, SMT
  <2>7. SearchOK(auto', lo, hi)
    BY <2>3, <2>4, <2>5, <2>6 DEF SearchOK, CoarseOK
  <2>8. SearchOK(auto, Lo(motor), Hi(motor))'
    BY <1>1, <2>7, SearchPrimed DEF OthersKept, lo, hi
  <2>9. FocusSearchInv'
    BY <2>3, <2>8 DEF FocusSearchInv, SearchFindsPeak
  <2> QED BY <1>1, <1>2, <2>2, <2>3, <2>9, AutoFrame
<1>5. CASE ~Usable(lo, hi)
  <2>1. auto' = [auto EXCEPT !.pc = "unlock"]
    BY <1>1, <1>5
  <2>2. auto' \in Searches
    BY <1>2, <2>1, SearchSet DEF SearchPcs
  <2>3. auto'.pc = "unlock" /\ auto'.pass = ""
    <3>1. \A r \in Searches : [r EXCEPT !.pc = "unlock"].pc = "unlock" /\ [r EXCEPT !.pc = "unlock"].pass = r.pass
      BY SMT DEF Searches
    <3> QED BY <1>b, <2>1, <3>1
  <2>4. FocusSearchInv'
    BY <1>2, <2>3 DEF FocusSearchInv, SearchFindsPeak
  <2> QED BY <1>1, <1>2, <2>2, <2>3, <2>4, AutoFrame
<1> QED BY <1>4, <1>5

LEMMA AutoSearching ==
    ASSUME FocusInv, auto.pc = "search"
    PROVE  /\ auto \in Searches /\ motor \in Motors /\ Sharpest \in Int /\ running \in BOOLEAN
           /\ lock = "auto" /\ (~broken => Positioned(motor))
           /\ Lo(motor) \in Int /\ Hi(motor) \in Int /\ Lo(motor) <= Hi(motor)
           /\ SearchOK(auto, Lo(motor), Hi(motor))
           /\ auto.pos \in Int /\ auto.best \in Int /\ auto.initial \in Int
<1>1. motor.row \in Rows /\ Sharpest \in Int
  <2>1. motor.row \in Rows /\ motor.focusOff \in Int /\ peak \in Int
    BY MotorFields DEF FocusInv, FocusTypes
  <2> QED BY <2>1, SMT DEF Sharpest
<1>2. Lo(motor) \in Int /\ Hi(motor) \in Int /\ Lo(motor) <= Hi(motor)
  BY <1>1, RowFields DEF Lo, Hi
<1> QED BY <1>1, <1>2 DEF FocusInv, FocusTypes, FocusThreadInv, FocusSearchInv, Searches

\* A search moves the lens only to positions of the range.
LEMMA SearchMoves ==
    ASSUME NEW m \in Motors, NEW p \in Lo(m) .. Hi(m), p \in Int, NEW m2, m2 \in set_focus_position(m, p, FALSE)
    PROVE  /\ m2 \in Motors /\ m2.row = m.row /\ m2.focus = p /\ m2.focusOff = m.focusOff
           /\ m.zoom = Table[m.row].zoom => Positioned(m2)
<1>1. m2 \in Motors /\ m2.zoom = m.zoom /\ m2.row = m.row /\ m2.focus = p /\ m2.focusOff = m.focusOff
  BY FocusArrives
<1> QED BY <1>1 DEF Positioned, focus_range, Lo, Hi

LEMMA AutoSampleKeeps == ASSUME FocusInv, AutoSample PROVE FocusInv'
<1> DEFINE lo == Lo(motor)
           hi == Hi(motor)
           a == Sampled(auto)
           b == IF a.pass = "coarse" THEN [a EXCEPT !.best0 = a.best] ELSE a
<1>1. /\ OthersKept /\ UNCHANGED <<lock, running>> /\ auto.pc = "search" /\ auto.pass # "set"
      /\ motor' \in set_focus_position(motor, auto.pos, FALSE) /\ auto' = Advance(b, lo, hi)
  BY DEF AutoSample, OthersKept, flags, Lo, Hi
<1>2. /\ auto \in Searches /\ motor \in Motors /\ Sharpest \in Int /\ running \in BOOLEAN
      /\ lock = "auto" /\ (~broken => Positioned(motor))
      /\ lo \in Int /\ hi \in Int /\ lo <= hi /\ SearchOK(auto, lo, hi) /\ auto.pos \in Int
  BY <1>1, AutoSearching
<1>3. auto.pos \in lo .. hi
  BY <1>2 DEF SearchOK
<1>4. motor' \in Motors /\ motor'.row = motor.row /\ motor'.focusOff = motor.focusOff /\ (~broken => Positioned(motor'))
  BY <1>1, <1>2, <1>3, SearchMoves DEF Positioned
<1>5. auto' \in Searches /\ auto'.pc = "search" /\ SearchOK(auto', lo, hi)
  <2> HIDE DEF lo, hi
  <2>1. \A bb : bb = b => /\ Advance(bb, lo, hi) \in Searches /\ Advance(bb, lo, hi).pc = auto.pc
                          /\ SearchOK(Advance(bb, lo, hi), lo, hi)
    BY <1>1, <1>2, SearchGoesOn
  <2> HIDE DEF b
  <2> QED BY <1>1, <2>1
<1>6. SearchOK(auto, Lo(motor), Hi(motor))'
  BY <1>1, <1>4, <1>5, SearchPrimed DEF OthersKept
<1>7. FocusSearchInv'
  BY <1>5, <1>6 DEF FocusSearchInv, SearchFindsPeak
<1> QED BY <1>1, <1>2, <1>4, <1>5, <1>7, AutoFrame

LEMMA AutoSetKeeps == ASSUME FocusInv, AutoSet PROVE FocusInv'
<1>1. /\ OthersKept /\ UNCHANGED <<lock, running>> /\ auto.pc = "search" /\ auto.pass = "set"
      /\ motor' \in set_focus_position(motor, auto.best, FALSE)
      /\ auto' = [[auto EXCEPT !.pc = "unlock"] EXCEPT !.pass = "found"]
  BY DEF AutoSet, OthersKept, flags
<1>2. /\ auto \in Searches /\ motor \in Motors /\ Sharpest \in Int /\ running \in BOOLEAN
      /\ lock = "auto" /\ (~broken => Positioned(motor))
      /\ SearchOK(auto, Lo(motor), Hi(motor)) /\ auto.best \in Int
  BY <1>1, AutoSearching
<1>3. auto.best \in Lo(motor) .. Hi(motor) /\ \A x \in Lo(motor) .. Hi(motor) : Score(x) <= Score(auto.best)
  BY <1>1, <1>2 DEF SearchOK
<1>4. /\ motor' \in Motors /\ motor'.row = motor.row /\ motor'.focus = auto.best
      /\ motor'.focusOff = motor.focusOff /\ (~broken => Positioned(motor'))
  <2>1. /\ motor' \in Motors /\ motor'.row = motor.row /\ motor'.focus = auto.best /\ motor'.focusOff = motor.focusOff
        /\ motor.zoom = Table[motor.row].zoom => Positioned(motor')
    BY <1>1, <1>2, <1>3, SearchMoves
  <2> QED BY <1>2, <2>1 DEF Positioned
<1>5. auto' \in Searches /\ auto'.pc = "unlock"
  <2>1. "unlock" \in SearchPcs /\ "found" \in Passes
    BY DEF SearchPcs, Passes
  <2>2. auto' \in Searches
    BY <1>1, <1>2, <2>1, SearchSet
  <2> QED BY <1>1, <1>2, <2>2, SMT DEF Searches
<1>6. SearchFindsPeak'
  <2>1. peak' = peak
    BY <1>1 DEF OthersKept
  <2>2. \A x \in Table[motor'.row].min .. Table[motor'.row].max : Score(x) <= Score(motor'.focus)
    BY <1>3, <1>4 DEF Lo, Hi
  <2> QED BY <1>4, <2>1, <2>2 DEF SearchFindsPeak, focus_range, Score, Sharpest
<1>7. FocusSearchInv'
  BY <1>5, <1>6 DEF FocusSearchInv
<1> QED BY <1>1, <1>2, <1>4, <1>5, <1>7, AutoFrame

LEMMA AutoFailsKeeps == ASSUME FocusInv, AutoFails PROVE FocusInv'
<1>1. /\ OthersKept /\ UNCHANGED <<lock, running>> /\ auto.pc = "search"
      /\ auto' = [[auto EXCEPT !.pc = "unlock"] EXCEPT !.pass = "failed"]
  BY DEF AutoFails, OthersKept, flags
<1>2. /\ auto \in Searches /\ motor \in Motors /\ running \in BOOLEAN
      /\ lock = "auto" /\ (~broken => Positioned(motor))
      /\ SearchOK(auto, Lo(motor), Hi(motor)) /\ auto.initial \in Int /\ auto.pos \in Int /\ auto.best \in Int
  BY <1>1, AutoSearching
<1>3. auto.initial \in Lo(motor) .. Hi(motor)
  BY <1>2 DEF SearchOK
<1>4. motor' \in Motors /\ (~broken => Positioned(motor'))
  <2>1. CASE motor' = motor
    BY <1>2, <2>1
  <2>2. ASSUME NEW p \in {auto.pos, auto.best}, NEW moved \in BOOLEAN, NEW lost \in BOOLEAN,
               NEW m \in set_focus_position(motor, p, moved),
               motor' \in set_focus_position(m, auto.initial, lost)
        PROVE  motor' \in Motors /\ (~broken => Positioned(motor'))
    <3>1. p \in Int /\ p \in Lo(motor) .. Hi(motor)
      <4>1. auto.pos \in Lo(motor) .. Hi(motor) /\ auto.best \in Lo(motor) .. Hi(motor)
        BY <1>2 DEF SearchOK
      <4> QED BY <1>2, <2>2, <4>1
    <3>2. m \in Motors /\ m.row = motor.row
      BY <1>2, <3>1, FocusMoves DEF set_focus_position
    <3>3. motor' \in Motors
      BY <1>2, <2>2, <3>1, <3>2, FocusMoves DEF set_focus_position
    <3>4. ASSUME ~broken PROVE Positioned(motor')
      <4>1. Positioned(motor) /\ p \in focus_range(motor)
        BY <1>2, <3>1, <3>4 DEF focus_range, Lo, Hi
      <4>2. Positioned(m)
        BY <1>2, <3>1, <4>1, FocusMovesWithin
      <4>3. auto.initial \in focus_range(m)
        BY <1>3, <3>2 DEF focus_range, Lo, Hi
      <4> QED BY <2>2, <3>1, <3>2, <4>2, <4>3, FocusMovesWithin
    <3> QED BY <3>3, <3>4
  <2>3. \A t \in BOOLEAN : (~t) \in BOOLEAN
    OBVIOUS
  <2>4. motor' = motor \/ \E p \in {auto.pos, auto.best}, moved \in BOOLEAN, lost \in BOOLEAN :
            \E m \in set_focus_position(motor, p, moved) : motor' \in set_focus_position(m, auto.initial, lost)
    BY <2>3 DEF AutoFails
  <2> QED BY <2>1, <2>2, <2>4
<1>5. auto' \in Searches /\ auto'.pc = "unlock" /\ auto'.pass = "failed"
  <2>1. "unlock" \in SearchPcs /\ "failed" \in Passes
    BY DEF SearchPcs, Passes
  <2>2. auto' \in Searches
    BY <1>1, <1>2, <2>1, SearchSet
  <2> QED BY <1>1, <1>2, <2>2, SMT DEF Searches
<1>7. FocusSearchInv'
  BY <1>5 DEF FocusSearchInv, SearchFindsPeak
<1> QED BY <1>1, <1>2, <1>4, <1>5, <1>7, AutoFrame

LEMMA AutoEndsKeeps == ASSUME FocusInv, AutoUnlock \/ AutoReport PROVE FocusInv'
<1>1. /\ OthersKept /\ UNCHANGED motor /\ auto.pc \in {"unlock", "report"}
      /\ \E p \in {"report", "ended"} : auto' = [auto EXCEPT !.pc = p]
  BY DEF AutoUnlock, AutoReport, OthersKept, flags
<1>2. auto \in Searches /\ motor \in Motors /\ running \in BOOLEAN /\ (~broken => Positioned(motor))
  BY DEF FocusInv, FocusTypes
<1>3. auto' \in Searches
  <2>1. {"report", "ended"} \subseteq SearchPcs
    BY DEF SearchPcs
  <2> QED BY <1>1, <1>2, <2>1, SearchSet
<1>4. auto'.pc \in {"report", "ended"}
  BY <1>1, <1>2, SMT DEF Searches
<1>5. lock' = "free"
  BY <1>2 DEF AutoUnlock, AutoReport, FocusInv, FocusThreadInv, FocusTypes
<1>6. running' \in BOOLEAN
  BY <1>2 DEF AutoUnlock, AutoReport, flags
<1>7. FocusSearchInv'
  BY <1>4 DEF FocusSearchInv, SearchFindsPeak
<1> QED BY <1>1, <1>2, <1>3, <1>4, <1>5, <1>6, <1>7, AutoFrame

-----------------------------------------------------------------------------
LEMMA FocusStep == FocusInv /\ [FocusNext]_focusVars => FocusInv'
<1> SUFFICES ASSUME FocusInv, [FocusNext]_focusVars PROVE FocusInv'
  OBVIOUS
<1>1. CASE Commands
  <2>1. FocusCommand("stop", 0) \/ FocusCommand("percent", 0) \/ FocusCommand("autofocus", 0) \/ FocusCommand("close", 0)
        => FocusInv'
    BY CommandKeeps DEF LensCommands
  <2>2. ASSUME NEW d \in {-1, 1}, FocusCommand("focus", d) PROVE FocusInv'
    BY <2>2, CommandKeeps DEF LensCommands
  <2>3. ASSUME NEW r \in Rows, FocusCommand("zoom", r) PROVE FocusInv'
    <3>1. r \in Int
      <4>1. Table \in Seq([zoom : Int, focus : Int, min : Int, max : Int])
        BY FocusAssumption
      <4>2. DOMAIN Table = 1 .. Len(Table) /\ Len(Table) \in Nat
        BY <4>1, LenProperties
      <4> QED BY <4>2, SMT DEF Rows
    <3> QED BY <2>3, <3>1, CommandKeeps DEF LensCommands
  <2> QED BY <1>1, <2>1, <2>2, <2>3 DEF Commands
<1>2. CASE MainStep
  BY <1>2, StopManualKeeps, ChooseKeeps, RedirectKeeps, JoinManualKeeps, JoinAutoKeeps, SpawnManualKeeps,
     SpawnAutoKeeps, FocusPercentKeeps, SetZoomKeeps DEF MainStep
<1>3. CASE ManualStep
  BY <1>3, ManualTestKeeps, ManualMoveKeeps DEF ManualStep
<1>4. CASE AutoStep
  BY <1>4, AutoLockKeeps, AutoSampleKeeps, AutoSetKeeps, AutoFailsKeeps, AutoEndsKeeps DEF AutoStep
<1>5. CASE UNCHANGED focusVars
  <2>1. FocusTypes' /\ (~broken' => Positioned(motor'))
    BY <1>5 DEF FocusInv, FocusTypes, focusVars, Positioned, focus_range
  <2>2. FocusCommandInv' /\ FocusThreadInv'
    BY <1>5 DEF FocusInv, FocusCommandInv, FocusThreadInv, focusVars
  <2>3. FocusSearchInv'
    BY <1>5, SearchFrame DEF FocusInv, focusVars
  <2> QED BY <2>1, <2>2, <2>3 DEF FocusInv
<1> QED BY <1>1, <1>2, <1>3, <1>4, <1>5 DEF FocusNext

LEMMA FocusAlways == FocusSpec => []FocusInv
BY FocusInitially, FocusStep, PTL DEF FocusSpec

\* While the lens is free and no zoom move has failed since the last that
\* succeeded, the counted positions are on the calibration; a stop leaves no
\* thread and no direction behind; and the lens is off the counted positions by
\* at most a batch for each batch that was counted and not made, so not at all
\* while there was none (actuator_lock, focus_direction and the joins around
\* them, and motor_step, which counts before gate_batch).
THEOREM LensStaysKnown == FocusSpec => []LensKnown
<1>1. FocusInv => Calibrated /\ StopStops
  BY DEF FocusInv, Calibrated, StopStops, Positioned, FocusThreadInv, FocusAt
<1>2. FocusInv => Reckoned
  BY MotorFields DEF FocusInv, FocusTypes, Tracked, Reckoned
<1>3. FocusInv => LensKnown
  BY <1>1, <1>2 DEF LensKnown
<1> QED BY <1>3, FocusAlways, PTL

\* A search that completes leaves the lens at the sharpest position of the row's
\* (counted) range, wherever the lens is off it, for any table and any peak, although the coarse pass samples only some
\* of the positions (ca_autofocus_search).
THEOREM SearchesFindPeak == FocusSpec => []SearchFindsPeak
<1>1. FocusInv => SearchFindsPeak
  BY DEF FocusInv, FocusSearchInv
<1> QED BY <1>1, FocusAlways, PTL

-----------------------------------------------------------------------------
\* The thermal camera (Thermal).

Payloads == [frame : Nat, part : 1 .. Parts, bad : BOOLEAN]
AnyPayload == Payloads \cup {Lost}
UrbIds == 1 .. Urbs
Devices == [frame : Nat \ {0}, part : 1 .. Parts, lost : 0 .. MaxLost]
ThreadPcs == {"test", "reap", "consume", "publish", "resubmit", "submit", "flag", "ended"}

\* Payload q comes after u, with at most n others between them.
Gap(u, q) ==
    IF q.frame = u.frame THEN (q.part - u.part) - 1
    ELSE IF q.frame = u.frame + 1 THEN ((Parts - u.part) + q.part) - 1
    ELSE ((2 * Parts - u.part) + q.part) - 1
CloseAfter(u, q, n) ==
    /\ u.frame <= q.frame /\ q.frame <= u.frame + 2
    /\ 0 <= Gap(u, q) /\ Gap(u, q) <= n

\* No more than MaxLost payloads are missing between one of E that arrived and
\* the next, or the one the device sends next.
Chain(E, n, dev) ==
    /\ \A i, j \in 0 .. n :
          i < j /\ E[i] # Lost /\ E[j] # Lost /\ (\A k \in i + 1 .. j - 1 : E[k] = Lost)
          => CloseAfter(E[i], E[j], MaxLost)
    /\ \A i \in 0 .. n :
          E[i] # Lost /\ (\A k \in i + 1 .. n : E[k] = Lost) => CloseAfter(E[i], dev, dev.lost)

\* The last payload that arrived and that the assembler or the thread has
\* (Lost if the assembler has started afresh), then those under way.
LastTaken ==
    IF thread.pc = "consume" /\ thread.payload # Lost THEN thread.payload
    ELSE IF asm.used # <<>> THEN asm.used[Len(asm.used)] ELSE Lost
UnderWay == [i \in 0 .. Len(done) |-> IF i = 0 THEN LastTaken ELSE done[i][2]]

\* What the assembler holds is the beginning of one frame: parts in rising
\* order, the last of the frame not among them.
UsedOK(used, fid) ==
    /\ used \in Seq(Payloads) /\ fid \in {-1, 0, 1}
    /\ used # <<>> =>
        /\ fid = Fid(used[1]) /\ used[Len(used)].part < Parts
        /\ \A i \in 1 .. Len(used) :
              /\ used[i].frame = used[1].frame
              /\ i <= used[i].part /\ Len(used) - i <= used[Len(used)].part - used[i].part

ThermalTypes ==
    /\ device \in Devices
    /\ flight \in Seq(UrbIds) /\ done \in Seq(UrbIds \X AnyPayload)
    /\ thread \in [pc : ThreadPcs, urb : UrbIds, payload : AnyPayload]
    /\ asm \in [fid : {-1, 0, 1}, used : Seq(Payloads)]
    /\ UsedOK(asm.used, asm.fid)
    /\ discards \in Nat
ChainOK == Chain(UnderWay, Len(done), device)
TakenOK ==
    At("consume") /\ thread.payload # Lost /\ asm.used # <<>>
    => CloseAfter(asm.used[Len(asm.used)], thread.payload, MaxLost)

Servers == [pc : {"accept", "copy", "send", "ended"}, copy : Seq(Payloads)]
FramesOK ==
    /\ shown # NoFrame => Whole(shown)
    /\ server.copy # NoFrame => Whole(server.copy)
    /\ server.pc = "send" => server.copy # NoFrame
    /\ {latest, shown} \subseteq Seq(Payloads) /\ served \in Seq(Seq(Payloads)) /\ server \in Servers
    /\ WholeFrames

\* The closing thread: past the join the capture thread is gone.
ClosingOK ==
    /\ thermalMain \in {"close fd", "server", "server stopped", "freed"} => thread.pc = "ended"
    /\ BuffersSafe

InLock == {"first", "second", "result", "unlock"}
ControlOK ==
    /\ \A c \in Callers : caller[c] \in InLock => locked
    /\ \A c, d \in Callers : caller[c] \in InLock /\ caller[d] \in InLock => c = d
    /\ \A c \in Callers : caller[c] = "second" => xu.first = c
    /\ DOMAIN caller = Callers
    /\ HalvesTogether

ThermalInv == ThermalTypes /\ ChainOK /\ TakenOK /\ FramesOK /\ ClosingOK /\ ControlOK

-----------------------------------------------------------------------------
\* Gaps.

LEMMA ThermalConstants ==
    /\ Parts \in Nat /\ Parts > 0 /\ Urbs \in Nat /\ Urbs > 0 /\ MaxLost \in Nat /\ MaxLost <= Parts
BY ThermalAssumption, SMT

\* The device sends q after d.
Sends(d, q) ==
    IF d.part = Parts THEN q.frame = d.frame + 1 /\ q.part = 1 ELSE q.frame = d.frame /\ q.part = d.part + 1

LEMMA GapNone ==
    ASSUME NEW p \in Payloads, NEW d \in Devices, Sends(p, d)
    PROVE  CloseAfter(p, d, d.lost)
<1>1. p.frame \in Nat /\ p.part \in 1 .. Parts /\ d.frame \in Nat /\ d.part \in 1 .. Parts /\ d.lost \in Nat
  BY ThermalConstants, SMT DEF Payloads, Devices
<1> QED BY <1>1, ThermalConstants, SMT DEF Sends, CloseAfter, Gap

LEMMA GapNext ==
    ASSUME NEW u \in Payloads, NEW d \in Devices, NEW e \in Devices, Sends(d, e),
           d.lost < MaxLost, e.lost = d.lost + 1, CloseAfter(u, d, d.lost)
    PROVE  CloseAfter(u, e, e.lost)
<1>1. u.frame \in Nat /\ u.part \in 1 .. Parts /\ d.frame \in Nat /\ d.part \in 1 .. Parts /\ d.lost \in Nat
      /\ e.frame \in Nat /\ e.part \in 1 .. Parts
  BY ThermalConstants, SMT DEF Payloads, Devices
<1>2. CASE d.part = Parts
  BY <1>1, <1>2, ThermalConstants, SMT DEF Sends, CloseAfter, Gap
<1>3. CASE d.part # Parts
  BY <1>1, <1>3, ThermalConstants, SMT DEF Sends, CloseAfter, Gap
<1> QED BY <1>2, <1>3

\* A payload that arrives takes the device's place.
LEMMA GapArrives ==
    ASSUME NEW u \in Payloads, NEW d \in Devices, NEW p \in Payloads, p.frame = d.frame, p.part = d.part,
           CloseAfter(u, d, d.lost)
    PROVE  CloseAfter(u, p, MaxLost)
<1>1. d.lost \in Nat /\ d.lost <= MaxLost
  BY ThermalConstants, SMT DEF Devices
<1>2. Gap(u, p) = Gap(u, d)
  BY DEF Gap
<1>3. u.frame \in Nat /\ u.part \in Int /\ d.frame \in Nat /\ d.part \in Int
  BY ThermalConstants, SMT DEF Payloads, Devices
<1>4. Gap(u, d) \in Int
  BY <1>3, ThermalConstants, SMT DEF Gap
<1> QED BY <1>1, <1>2, <1>4, ThermalConstants, SMT DEF CloseAfter

\* From a part that is not the last, the next payload of the same parity is of
\* the same frame.
LEMMA SameFrame ==
    ASSUME NEW u \in Payloads, NEW p \in Payloads, u.part < Parts, CloseAfter(u, p, MaxLost), Fid(p) = Fid(u)
    PROVE  p.frame = u.frame /\ u.part < p.part
<1>1. u.frame \in Nat /\ u.part \in 1 .. Parts /\ p.frame \in Nat /\ p.part \in 1 .. Parts
  BY SMT DEF Payloads
<1>2. p.frame # u.frame + 1
  BY <1>1, SMT DEF Fid
<1>3. p.frame # u.frame + 2
  BY <1>1, ThermalConstants, SMT DEF CloseAfter, Gap
<1>4. p.frame = u.frame
  BY <1>1, <1>2, <1>3, SMT DEF CloseAfter
<1> QED BY <1>1, <1>4, ThermalConstants, SMT DEF CloseAfter, Gap

-----------------------------------------------------------------------------
\* Chains.

LEMMA ChainArrives ==
    ASSUME NEW n \in Nat, NEW E, NEW F, NEW d \in Devices, NEW e \in Devices, NEW p \in Payloads,
           \A i \in 0 .. n : E[i] \in AnyPayload /\ F[i] = E[i],
           F[n + 1] = p, p.frame = d.frame, p.part = d.part, Sends(d, e), Chain(E, n, d)
    PROVE  Chain(F, n + 1, e)
<1>0. p # Lost
  BY ThermalConstants, SMT DEF Payloads, Lost
<1>1. ASSUME NEW i \in 0 .. n + 1, NEW j \in 0 .. n + 1, i < j, F[i] # Lost, F[j] # Lost,
             \A k \in i + 1 .. j - 1 : F[k] = Lost
      PROVE  CloseAfter(F[i], F[j], MaxLost)
  <2>1. CASE j \in 0 .. n
    <3>1. i \in 0 .. n /\ \A k \in i + 1 .. j - 1 : k \in 0 .. n
      BY <1>1, <2>1, SMT
    <3>2. F[i] = E[i] /\ F[j] = E[j] /\ \A k \in i + 1 .. j - 1 : E[k] = Lost
      BY <1>1, <2>1, <3>1
    <3> QED BY <1>1, <2>1, <3>1, <3>2 DEF Chain
  <2>2. CASE j = n + 1
    <3>1. i \in 0 .. n /\ i + 1 .. j - 1 = i + 1 .. n /\ \A k \in i + 1 .. n : k \in 0 .. n
      BY <1>1, <2>2, SMT
    <3>2. F[i] = E[i] /\ \A k \in i + 1 .. n : E[k] = Lost
      BY <1>1, <3>1
    <3>3. CloseAfter(E[i], d, d.lost) /\ E[i] \in Payloads
      BY <1>1, <3>1, <3>2 DEF Chain, AnyPayload
    <3> QED BY <2>2, <3>2, <3>3, GapArrives
  <2> QED BY <2>1, <2>2, SMT
<1>2. ASSUME NEW i \in 0 .. n + 1, F[i] # Lost, \A k \in i + 1 .. n + 1 : F[k] = Lost
      PROVE  CloseAfter(F[i], e, e.lost)
  <2>1. i = n + 1
    <3>1. CASE i \in 0 .. n
      <4>1. n + 1 \in i + 1 .. n + 1
        BY <3>1, SMT
      <4> QED BY <1>0, <1>2, <4>1
    <3> QED BY <3>1, SMT
  <2>2. Sends(p, e)
    BY DEF Sends
  <2> QED BY <2>1, <2>2, GapNone
<1> QED BY <1>1, <1>2 DEF Chain

LEMMA ChainLoses ==
    ASSUME NEW n \in Nat, NEW E, NEW F, NEW d \in Devices, NEW e \in Devices,
           \A i \in 0 .. n : E[i] \in AnyPayload /\ F[i] = E[i],
           F[n + 1] = Lost, Chain(E, n, d),
           e = d \/ (Sends(d, e) /\ d.lost < MaxLost /\ e.lost = d.lost + 1)
    PROVE  Chain(F, n + 1, e)
<1>1. ASSUME NEW i \in 0 .. n + 1, NEW j \in 0 .. n + 1, i < j, F[i] # Lost, F[j] # Lost,
             \A k \in i + 1 .. j - 1 : F[k] = Lost
      PROVE  CloseAfter(F[i], F[j], MaxLost)
  <2>1. j # n + 1
    BY <1>1
  <2>2. j \in 0 .. n /\ i \in 0 .. n /\ \A k \in i + 1 .. j - 1 : k \in 0 .. n
    BY <1>1, <2>1, SMT
  <2>3. F[i] = E[i] /\ F[j] = E[j] /\ \A k \in i + 1 .. j - 1 : E[k] = Lost
    BY <1>1, <2>2
  <2> QED BY <1>1, <2>2, <2>3 DEF Chain
<1>2. ASSUME NEW i \in 0 .. n + 1, F[i] # Lost, \A k \in i + 1 .. n + 1 : F[k] = Lost
      PROVE  CloseAfter(F[i], e, e.lost)
  <2>1. i # n + 1
    BY <1>2
  <2>2. i \in 0 .. n /\ \A k \in i + 1 .. n : k \in 0 .. n /\ k \in i + 1 .. n + 1
    BY <2>1, SMT
  <2>3. F[i] = E[i] /\ \A k \in i + 1 .. n : E[k] = Lost
    BY <1>2, <2>2
  <2>4. CloseAfter(E[i], d, d.lost) /\ E[i] \in Payloads
    BY <1>2, <2>2, <2>3 DEF Chain, AnyPayload
  <2> QED BY <2>3, <2>4, GapNext
<1> QED BY <1>1, <1>2 DEF Chain

\* The first payload under way becomes the last one taken, if it arrived.
LEMMA ChainTaken ==
    ASSUME NEW n \in Nat, n > 0, NEW E, NEW F, NEW d, Chain(E, n, d),
           F[0] = (IF E[1] # Lost THEN E[1] ELSE E[0]),
           \A i \in 1 .. n - 1 : F[i] = E[i + 1]
    PROVE  Chain(F, n - 1, d)
<1> DEFINE s(i) == IF i = 0 /\ E[1] = Lost THEN 0 ELSE i + 1
<1>0. \A i \in 0 .. n - 1 :
        /\ s(i) \in 0 .. n /\ F[i] = E[s(i)] /\ s(i) \in i .. i + 1
        /\ (i # 0 => s(i) = i + 1) /\ (s(i) = 0 => E[1] = Lost)
  BY SMT
<1> HIDE DEF s
<1>1. ASSUME NEW i \in 0 .. n - 1, NEW m \in Int, i < m, m <= n, \A k \in i + 1 .. m - 1 : F[k] = Lost
      PROVE  \A k \in s(i) + 1 .. m : E[k] = Lost
  <2> TAKE k \in s(i) + 1 .. m
  <2>0. s(i) \in 0 .. n /\ s(i) \in i .. i + 1 /\ (i # 0 => s(i) = i + 1)
    BY <1>0
  <2>1. CASE k = 1
    <3>1. s(i) = 0
      BY <2>0, <2>1, SMT
    <3> QED BY <1>0, <2>1, <3>1
  <2>2. CASE k # 1
    <3>1. k - 1 \in i + 1 .. m - 1 /\ k - 1 \in 1 .. n - 1 /\ (k - 1) + 1 = k
      BY <1>1, <2>0, <2>2, SMT
    <3>2. F[k - 1] = Lost /\ F[k - 1] = E[(k - 1) + 1]
      BY <1>1, <3>1
    <3> QED BY <3>1, <3>2
  <2> QED BY <2>1, <2>2
<1>2. ASSUME NEW i \in 0 .. n - 1, NEW j \in 0 .. n - 1, i < j, F[i] # Lost, F[j] # Lost,
             \A k \in i + 1 .. j - 1 : F[k] = Lost
      PROVE  CloseAfter(F[i], F[j], MaxLost)
  <2>1. s(j) = j + 1 /\ s(i) < s(j) /\ s(i) \in 0 .. n /\ s(j) \in 0 .. n /\ F[i] = E[s(i)] /\ F[j] = E[s(j)]
    <3>1. j # 0
      BY <1>2, SMT
    <3>2. s(j) = j + 1 /\ s(i) \in i .. i + 1
      BY <1>0, <3>1
    <3>3. s(i) < s(j)
      BY <1>2, <3>2, SMT
    <3> QED BY <1>0, <3>2, <3>3
  <2>2. \A k \in s(i) + 1 .. j : E[k] = Lost
    <3>1. j \in Int /\ j <= n
      BY SMT
    <3> QED BY <1>1, <1>2, <3>1
  <2>3. \A k \in s(i) + 1 .. s(j) - 1 : E[k] = Lost
    <3>1. s(j) - 1 = j
      BY <2>1, SMT
    <3> QED BY <2>2, <3>1
  <2> QED BY <1>2, <2>1, <2>3 DEF Chain
<1>3. ASSUME NEW i \in 0 .. n - 1, F[i] # Lost, \A k \in i + 1 .. n - 1 : F[k] = Lost
      PROVE  CloseAfter(F[i], d, d.lost)
  <2>1. s(i) \in 0 .. n /\ F[i] = E[s(i)]
    BY <1>0
  <2>2. \A k \in s(i) + 1 .. n : E[k] = Lost
    BY <1>1, <1>3, SMT
  <2> QED BY <1>3, <2>1, <2>2 DEF Chain
<1> QED BY <1>2, <1>3 DEF Chain

LEMMA ChainForgets ==
    ASSUME NEW n \in Nat, NEW E, NEW F, NEW d, Chain(E, n, d), F[0] \in {E[0], Lost},
           \A i \in 1 .. n : F[i] = E[i]
    PROVE  Chain(F, n, d)
<1>1. \A i \in 0 .. n : F[i] = E[i] \/ F[i] = Lost
  BY SMT
<1>2. \A i \in 0 .. n : \A k \in i + 1 .. n : F[k] = E[k]
  BY SMT
<1>3. ASSUME NEW i \in 0 .. n, NEW j \in 0 .. n, i < j, F[i] # Lost, F[j] # Lost,
             \A k \in i + 1 .. j - 1 : F[k] = Lost
      PROVE  CloseAfter(F[i], F[j], MaxLost)
  <2>1. \A k \in i + 1 .. j - 1 : k \in i + 1 .. n
    BY SMT
  <2>2. \A k \in i + 1 .. j - 1 : E[k] = Lost
    BY <1>2, <1>3, <2>1
  <2>3. F[i] = E[i] /\ F[j] = E[j]
    BY <1>1, <1>3
  <2> QED BY <1>3, <2>2, <2>3 DEF Chain
<1>4. ASSUME NEW i \in 0 .. n, F[i] # Lost, \A k \in i + 1 .. n : F[k] = Lost
      PROVE  CloseAfter(F[i], d, d.lost)
  BY <1>1, <1>2, <1>4 DEF Chain
<1> QED BY <1>3, <1>4 DEF Chain

-----------------------------------------------------------------------------
\* The assembler.

Assemblers == [fid : {-1, 0, 1}, used : Seq(Payloads)]
Assembler(fid, used) == [fid |-> fid, used |-> used]

\* Parts of one frame in rising order.
Rising(used) ==
    \A i \in 1 .. Len(used) :
        /\ used[i].frame = used[1].frame
        /\ i <= used[i].part /\ Len(used) - i <= used[Len(used)].part - used[i].part

LEMMA UsedIsRising ==
    \A used, fid : UsedOK(used, fid) <=>
        /\ used \in Seq(Payloads) /\ fid \in {-1, 0, 1}
        /\ used # <<>> => fid = Fid(used[1]) /\ used[Len(used)].part < Parts /\ Rising(used)
BY DEF UsedOK, Rising

LEMMA PayloadTypes ==
    \A p \in Payloads : /\ p.frame \in Nat /\ p.part \in 1 .. Parts /\ p.part \in Int /\ p.part <= Parts
                        /\ Fid(p) \in {0, 1} /\ p # Lost
<1> TAKE p \in Payloads
<1>1. p.frame \in Nat /\ p.part \in 1 .. Parts
  BY SMT DEF Payloads
<1>2. Fid(p) \in {0, 1}
  BY <1>1, SMT DEF Fid
<1>3. p # Lost
  BY ThermalConstants, SMT DEF Payloads, Lost
<1> QED BY <1>1, <1>2, <1>3, ThermalConstants, SMT

LEMMA SeqPayload ==
    \A s \in Seq(Payloads) : /\ Len(s) \in Nat /\ (s # <<>> => Len(s) > 0)
                             /\ \A i \in 1 .. Len(s) : s[i] \in Payloads
<1> TAKE s \in Seq(Payloads)
<1>1. Len(s) \in Nat /\ (s # <<>> => Len(s) > 0)
  BY LenProperties, EmptySeq, SMT
<1> QED BY <1>1, ElementOfSeq

LEMMA RisingOne ==
    ASSUME NEW p \in Payloads
    PROVE  <<p>> \in Seq(Payloads) /\ Len(<<p>>) = 1 /\ <<p>>[1] = p /\ Rising(<<p>>)
<1>1. <<p>> \in Seq(Payloads) /\ Len(<<p>>) = 1 /\ <<p>>[1] = p
  BY SMT
<1>2. p.part \in 1 .. Parts
  BY PayloadTypes
<1> DEFINE w == <<p>>
<1>3. w \in Seq(Payloads) /\ Len(w) = 1 /\ w[1] = p
  BY <1>1
<1> HIDE DEF w
<1>4. Rising(w)
  BY <1>2, <1>3, ThermalConstants, SMT DEF Rising
<1> QED BY <1>1, <1>4 DEF w

LEMMA RisingMore ==
    ASSUME NEW u \in Seq(Payloads), u # <<>>, Rising(u), NEW p \in Payloads,
           p.frame = u[Len(u)].frame, u[Len(u)].part < p.part
    PROVE  /\ Append(u, p) \in Seq(Payloads) /\ Len(Append(u, p)) = Len(u) + 1
           /\ Append(u, p)[Len(u) + 1] = p /\ Append(u, p)[1] = u[1] /\ Rising(Append(u, p))
<1> DEFINE w == Append(u, p)
           n == Len(u)
<1>1. n \in Nat /\ n > 0 /\ \A i \in 1 .. n : u[i] \in Payloads
  BY SeqPayload
<1>2. w \in Seq(Payloads) /\ Len(w) = n + 1 /\ w[n + 1] = p /\ \A i \in 1 .. n : w[i] = u[i]
  BY AppendProperties
<1>3. \A i \in 1 .. n : u[i].frame = u[1].frame /\ i <= u[i].part /\ n - i <= u[n].part - u[i].part
  BY DEF Rising
<1>4. \A i \in 1 .. n : u[i].part \in Int
  BY <1>1, PayloadTypes
<1>5. p.part \in Int /\ 1 \in 1 .. n /\ n \in 1 .. n
  BY <1>1, PayloadTypes, SMT
<1>6. w[1] = u[1] /\ p.frame = u[1].frame /\ u[n].part < p.part
  BY <1>2, <1>3, <1>5
<1> HIDE DEF w, n
<1>7. ASSUME NEW i \in 1 .. n + 1
      PROVE  w[i].frame = w[1].frame /\ i <= w[i].part /\ (n + 1) - i <= w[n + 1].part - w[i].part
  <2>1. CASE i \in 1 .. n
    <3>1. w[i] = u[i]
      BY <1>2, <2>1
    <3>2. n - i <= u[n].part - u[i].part /\ u[i].part \in Int /\ u[n].part \in Int /\ i <= u[i].part
      BY <1>3, <1>4, <1>5, <2>1
    <3>3. u[i].frame = u[1].frame
      BY <1>3, <2>1
    <3>4. (n + 1) - i <= p.part - u[i].part
      BY <1>1, <1>5, <1>6, <3>2, SMT
    <3> QED BY <1>2, <1>6, <3>1, <3>2, <3>3, <3>4
  <2>2. CASE i = n + 1
    <3>1. n <= u[n].part /\ u[n].part \in Int
      BY <1>3, <1>4, <1>5
    <3>2. n + 1 <= p.part
      BY <1>1, <1>5, <1>6, <3>1, SMT
    <3>3. (n + 1) - i <= p.part - p.part
      BY <1>1, <1>5, <2>2, SMT
    <3> QED BY <1>2, <1>6, <2>2, <3>2, <3>3
  <2> QED BY <1>1, <2>1, <2>2, SMT
<1>8. Rising(w)
  BY <1>2, <1>7 DEF Rising
<1> QED BY <1>2, <1>6, <1>8 DEF w, n

\* Parts payloads of one frame in rising order, the last of them last, are the frame.
LEMMA RisingWhole ==
    ASSUME NEW w \in Seq(Payloads), Rising(w), Len(w) = Parts, w[Parts].part = Parts
    PROVE  Whole(w)
<1>1. \A i \in 1 .. Parts : w[i].part \in Int
  BY SeqPayload, PayloadTypes
<1>2. ASSUME NEW i \in 1 .. Parts
      PROVE  w[i].frame = w[1].frame /\ w[i].part = i
  <2>1. w[i].frame = w[1].frame /\ i <= w[i].part /\ Parts - i <= Parts - w[i].part
    BY DEF Rising
  <2> QED BY <1>1, <2>1, ThermalConstants, SMT
<1> QED BY <1>2 DEF Whole

LEMMA Assembles ==
    ASSUME NEW a \in Assemblers, UsedOK(a.used, a.fid), NEW p \in Payloads,
           a.used # <<>> => CloseAfter(a.used[Len(a.used)], p, MaxLost)
    PROVE  /\ settled(a, p) \in Assemblers /\ UsedOK(settled(a, p).used, settled(a, p).fid)
           /\ settled(a, p).used # <<>> => settled(a, p).used[Len(settled(a, p).used)] = p
           /\ delivers(a, p) \in Seq(Payloads)
           /\ delivers(a, p) # NoFrame => Whole(delivers(a, p))
<1> DEFINE used == IF a.fid # -1 /\ Fid(p) # a.fid THEN <<>> ELSE a.used
           w == Append(used, p)
<1>0. a.used \in Seq(Payloads) /\ a.fid \in {-1, 0, 1} /\ <<>> \in Seq(Payloads)
  BY SMT DEF Assemblers
<1>1. Fid(p) \in {0, 1} /\ p.part \in 1 .. Parts
  BY PayloadTypes
<1>2. \A f \in {-1, 0, 1}, u \in Seq(Payloads) :
        Assembler(f, u) \in Assemblers /\ Assembler(f, u).fid = f /\ Assembler(f, u).used = u
  BY DEF Assemblers, Assembler
<1>21. ASSUME NEW f \in {-1, 0, 1}
       PROVE  Assembler(f, <<>>) \in Assemblers /\ Assembler(f, <<>>).fid = f /\ Assembler(f, <<>>).used = <<>>
  <2> DEFINE u == <<>>
  <2>1. u \in Seq(Payloads)
    BY <1>0
  <2> HIDE DEF u
  <2>2. Assembler(f, u) \in Assemblers /\ Assembler(f, u).fid = f /\ Assembler(f, u).used = u
    BY <1>2, <2>1
  <2> QED BY <2>2 DEF u
<1>3. a = Assembler(a.fid, a.used)
  BY DEF Assemblers, Assembler
<1>4. UsedOK(<<>>, a.fid) /\ UsedOK(<<>>, Fid(p))
  BY <1>0, <1>1, UsedIsRising
<1>5. Len(a.used) # Parts
  <2>1. CASE a.used = <<>>
    BY <2>1, ThermalConstants, SMT
  <2>2. CASE a.used # <<>>
    <3> DEFINE n == Len(a.used)
    <3>1. a.used[n].part < Parts /\ Rising(a.used) /\ n \in Nat /\ n > 0
      BY <1>0, <2>2, UsedIsRising, SeqPayload
    <3>2. n \in 1 .. n
      BY <3>1, SMT
    <3>3. n <= a.used[n].part /\ a.used[n].part \in Int
      BY <1>0, <3>1, <3>2, SeqPayload, PayloadTypes DEF Rising
    <3> HIDE DEF n
    <3>4. n # Parts
      BY <3>1, <3>3, ThermalConstants, SMT
    <3> QED BY <3>4 DEF n
  <2> QED BY <2>1, <2>2
<1>6. /\ w \in Seq(Payloads) /\ Rising(w) /\ w # <<>> /\ Len(w) \in Nat /\ w[Len(w)] = p
      /\ Fid(w[1]) = Fid(p) /\ Len(used) # Parts
  <2>1. CASE used = <<>>
    <3>0. Append(<<>>, p) = <<p>>
      BY SMT
    <3>1. w = <<p>>
      BY <2>1, <3>0
    <3>2. Len(used) # Parts
      BY <2>1, ThermalConstants, SMT
    <3> HIDE DEF w, used
    <3>3. w \in Seq(Payloads) /\ Len(w) = 1 /\ w[1] = p /\ Rising(w)
      BY <3>1, RisingOne
    <3>4. 1 # 0 /\ 1 \in Nat /\ Len(<<>>) = 0
      BY SMT
    <3>5. w # <<>> /\ Len(w) \in Nat
      BY <3>3, <3>4
    <3> QED BY <3>2, <3>3, <3>5
  <2>2. CASE used # <<>>
    <3> DEFINE n == Len(a.used)
               last == a.used[n]
    <3>1. used = a.used /\ a.used # <<>> /\ (a.fid = -1 \/ Fid(p) = a.fid)
      BY <2>2
    <3>2. a.fid = Fid(a.used[1]) /\ last.part < Parts /\ Rising(a.used)
      BY <3>1, UsedIsRising
    <3>3. n \in Nat /\ n > 0 /\ \A i \in 1 .. n : a.used[i] \in Payloads
      BY <1>0, <3>1, SeqPayload
    <3>4. 1 \in 1 .. n /\ n \in 1 .. n
      BY <3>3, SMT
    <3>5. last \in Payloads /\ a.used[1] \in Payloads /\ last.frame = a.used[1].frame
      BY <3>2, <3>3, <3>4 DEF Rising
    <3>6. Fid(a.used[1]) = Fid(last) /\ Fid(last) # -1
      <4>1. Fid(a.used[1]) = Fid(last)
        BY <3>5 DEF Fid
      <4>2. Fid(last) \in {0, 1}
        BY <3>5, PayloadTypes
      <4> QED BY <4>1, <4>2, SMT
    <3>7. Fid(p) = Fid(last)
      BY <3>1, <3>2, <3>6
    <3>8. p.frame = last.frame /\ last.part < p.part
      BY <3>1, <3>2, <3>5, <3>7, SameFrame
    <3>9. /\ Append(a.used, p) \in Seq(Payloads) /\ Len(Append(a.used, p)) = n + 1
          /\ Append(a.used, p)[n + 1] = p /\ Append(a.used, p)[1] = a.used[1] /\ Rising(Append(a.used, p))
      BY <1>0, <3>1, <3>2, <3>8, RisingMore
    <3>10. w = Append(a.used, p)
      BY <3>1
    <3>11. n + 1 \in Nat /\ n + 1 # 0
      BY <3>3, SMT
    <3>12. w # <<>>
      BY <3>9, <3>10, <3>11, EmptySeq
    <3> HIDE DEF w, used, n, last
    <3>13. Len(w) = n + 1 /\ w[n + 1] = p /\ w[1] = a.used[1]
      BY <3>9, <3>10 DEF n
    <3> QED BY <1>5, <3>1, <3>6, <3>7, <3>9, <3>10, <3>11, <3>12, <3>13
  <2> QED BY <2>1, <2>2
<1>7. CASE p.bad
  <2>1. settled(a, p) = Assembler(a.fid, <<>>) /\ delivers(a, p) = <<>>
    BY <1>3, <1>7 DEF settled, consume, delivers, NoFrame, Assembler
  <2>2. settled(a, p) \in Assemblers /\ settled(a, p).used = <<>> /\ settled(a, p).fid = a.fid
    BY <1>0, <1>21, <2>1
  <2> QED BY <1>0, <1>4, <2>1, <2>2 DEF NoFrame
<1>8. CASE ~p.bad
  <2>1. consume(a, p) = Assembler(Fid(p), w)
    BY <1>6, <1>8 DEF consume, Assembler
  <2>2. delivers(a, p) = IF LastPart(p) THEN Deliverable(w) ELSE NoFrame
    BY <1>5, <1>8, <2>1 DEF delivers, Deliverable, Assembler
  <2> HIDE DEF w, used
  <2>3. settled(a, p) = IF LastPart(p) THEN Assembler(Fid(p), <<>>) ELSE Assembler(Fid(p), w)
    BY <1>8, <2>1 DEF settled, Assembler
  <2>4. CASE LastPart(p)
    <3>1. settled(a, p) \in Assemblers /\ settled(a, p).used = <<>> /\ settled(a, p).fid = Fid(p)
      <4>1. settled(a, p) = Assembler(Fid(p), <<>>) /\ Fid(p) \in {-1, 0, 1}
        BY <1>1, <2>3, <2>4
      <4> QED BY <1>21, <4>1
    <3>2. delivers(a, p) = IF Len(w) = Parts THEN w ELSE NoFrame
      BY <2>2, <2>4 DEF Deliverable
    <3>3. Len(w) = Parts => Whole(w)
      BY <1>6, <2>4, RisingWhole DEF LastPart
    <3> QED BY <1>0, <1>4, <1>6, <3>1, <3>2, <3>3 DEF NoFrame
  <2>5. CASE ~LastPart(p)
    <3>1. settled(a, p) \in Assemblers /\ settled(a, p).used = w /\ settled(a, p).fid = Fid(p)
      BY <1>1, <1>2, <1>6, <2>3, <2>5
    <3>2. p.part < Parts
      BY <1>1, <2>5, ThermalConstants, SMT DEF LastPart
    <3>3. UsedOK(w, Fid(p))
      BY <1>1, <1>6, <3>2, UsedIsRising
    <3> QED BY <1>0, <1>6, <2>2, <2>5, <3>1, <3>3 DEF NoFrame
  <2> QED BY <2>4, <2>5
<1> QED BY <1>7, <1>8

-----------------------------------------------------------------------------
\* The stream of payloads.

StreamOK == ThermalTypes /\ ChainOK /\ TakenOK

LEMMA DoneTypes ==
    \A d \in Seq(UrbIds \X AnyPayload) :
        /\ Len(d) \in Nat
        /\ \A i \in 1 .. Len(d) : d[i] \in UrbIds \X AnyPayload /\ d[i][1] \in UrbIds /\ d[i][2] \in AnyPayload
        /\ \A u \in UrbIds, x \in AnyPayload :
              LET e == Append(d, <<u, x>>) IN
              /\ e \in Seq(UrbIds \X AnyPayload) /\ Len(e) = Len(d) + 1 /\ e[Len(d) + 1][2] = x
              /\ \A i \in 1 .. Len(d) : e[i] = d[i]
<1> TAKE d \in Seq(UrbIds \X AnyPayload)
<1>1. Len(d) \in Nat
  BY LenProperties
<1>2. \A i \in 1 .. Len(d) : d[i] \in UrbIds \X AnyPayload
  BY ElementOfSeq
<1>3. \A z \in UrbIds \X AnyPayload : z[1] \in UrbIds /\ z[2] \in AnyPayload
  OBVIOUS
<1>4. ASSUME NEW u \in UrbIds, NEW x \in AnyPayload
      PROVE  LET e == Append(d, <<u, x>>) IN
              /\ e \in Seq(UrbIds \X AnyPayload) /\ Len(e) = Len(d) + 1 /\ e[Len(d) + 1][2] = x
              /\ \A i \in 1 .. Len(d) : e[i] = d[i]
  <2>1. <<u, x>> \in UrbIds \X AnyPayload /\ <<u, x>>[2] = x
    OBVIOUS
  <2> DEFINE z == <<u, x>>
  <2>2. z \in UrbIds \X AnyPayload /\ z[2] = x
    BY <2>1
  <2> HIDE DEF z
  <2>3. /\ Append(d, z) \in Seq(UrbIds \X AnyPayload) /\ Len(Append(d, z)) = Len(d) + 1
        /\ Append(d, z)[Len(d) + 1] = z /\ \A i \in 1 .. Len(d) : Append(d, z)[i] = d[i]
    BY <2>2, AppendProperties
  <2>4. Append(d, z)[Len(d) + 1][2] = x
    BY <2>2, <2>3
  <2> QED BY <2>3, <2>4 DEF z
<1> QED BY <1>1, <1>2, <1>3, <1>4

LEMMA LastTakenType ==
    ASSUME ThermalTypes
    PROVE  LastTaken \in AnyPayload
<1>1. thread.payload \in AnyPayload
  BY DEF ThermalTypes
<1>2. asm.used # <<>> => asm.used[Len(asm.used)] \in Payloads
  <2>1. asm.used \in Seq(Payloads)
    BY DEF ThermalTypes, UsedOK
  <2> SUFFICES ASSUME asm.used # <<>> PROVE asm.used[Len(asm.used)] \in Payloads
    OBVIOUS
  <2>2. Len(asm.used) \in 1 .. Len(asm.used)
    BY <2>1, SeqPayload, SMT
  <2> QED BY <2>1, <2>2, SeqPayload
<1> QED BY <1>1, <1>2 DEF LastTaken, AnyPayload

UnderWayOK ==
    /\ Len(done) \in Nat /\ UnderWay[0] = LastTaken
    /\ \A i \in 0 .. Len(done) : UnderWay[i] \in AnyPayload
    /\ \A i \in 1 .. Len(done) : UnderWay[i] = done[i][2]
LEMMA UnderWayTypes == ThermalTypes => UnderWayOK
<1> SUFFICES ASSUME ThermalTypes PROVE UnderWayOK
  OBVIOUS
<1>1. Len(done) \in Nat /\ \A i \in 1 .. Len(done) : done[i][2] \in AnyPayload
  BY DoneTypes DEF ThermalTypes
<1>2. \A i \in 0 .. Len(done) : UnderWay[i] = IF i = 0 THEN LastTaken ELSE done[i][2]
  BY DEF UnderWay
<1>3. 0 \in 0 .. Len(done) /\ \A i \in 1 .. Len(done) : i \in 0 .. Len(done) /\ i # 0
  BY <1>1, SMT
<1>4. \A i \in 0 .. Len(done) : i = 0 \/ i \in 1 .. Len(done)
  BY <1>1, SMT
<1>5. LastTaken \in AnyPayload
  BY LastTakenType
<1> QED BY <1>1, <1>2, <1>3, <1>4, <1>5 DEF UnderWayOK

\* A step that neither completes, reaps nor assembles.
LEMMA StreamKept ==
    ASSUME ChainOK, UNCHANGED <<device, done, asm>>,
           thread' = thread \/ (thread.pc # "consume" /\ thread'.pc # "consume")
    PROVE  ChainOK'
<1>1. LastTaken' = LastTaken
  BY DEF LastTaken
<1>2. UnderWay' = UnderWay
  BY <1>1 DEF UnderWay
<1> QED BY <1>2 DEF ChainOK

LEMMA ThreadGoes ==
    ASSUME NEW t \in [pc : ThreadPcs, urb : UrbIds, payload : AnyPayload], NEW pc \in ThreadPcs
    PROVE  /\ [t EXCEPT !.pc = pc] \in [pc : ThreadPcs, urb : UrbIds, payload : AnyPayload]
           /\ [t EXCEPT !.pc = pc].pc = pc
OBVIOUS

\* A transfer completes, or is discarded: one more under way.
LEMMA StreamCompletes ==
    ASSUME ThermalTypes, ThermalTypes', ChainOK, NEW u \in UrbIds, NEW x \in AnyPayload,
           done' = Append(done, <<u, x>>), UNCHANGED <<asm, thread>>,
           \/ x \in Payloads /\ x.frame = device.frame /\ x.part = device.part /\ Sends(device, device')
           \/ x = Lost /\ (device' = device
                           \/ (Sends(device, device') /\ device.lost < MaxLost /\ device'.lost = device.lost + 1))
    PROVE  ChainOK'
<1> DEFINE E == UnderWay
           F == UnderWay'
           n == Len(done)
<1>1. n \in Nat /\ E[0] = LastTaken /\ \A i \in 0 .. n : E[i] \in AnyPayload
  BY UnderWayTypes DEF UnderWayOK
<1>2. \A i \in 1 .. n : E[i] = done[i][2]
  BY UnderWayTypes DEF UnderWayOK
<1>3. Len(done') = n + 1 /\ done'[n + 1][2] = x /\ \A i \in 1 .. n : done'[i] = done[i]
  BY DoneTypes DEF ThermalTypes
<1>4. F[0] = LastTaken' /\ \A i \in 1 .. Len(done') : F[i] = done'[i][2]
  <2>1. UnderWayOK'
    BY UnderWayTypes, PTL
  <2> QED BY <2>1 DEF UnderWayOK
<1>5. LastTaken' = LastTaken
  BY DEF LastTaken
<1>6. \A i \in 0 .. n : F[i] = E[i]
  <2>1. \A i \in 1 .. n : i \in 1 .. n + 1
    BY <1>1, SMT
  <2>2. \A i \in 1 .. n : F[i] = E[i]
    BY <1>2, <1>3, <1>4, <2>1
  <2>3. \A i \in 0 .. n : i = 0 \/ i \in 1 .. n
    BY <1>1, SMT
  <2> QED BY <1>1, <1>4, <1>5, <2>2, <2>3
<1>7. F[n + 1] = x
  <2>1. n + 1 \in 1 .. n + 1
    BY <1>1, SMT
  <2> QED BY <1>3, <1>4, <2>1
<1>8. Chain(E, n, device) /\ device \in Devices /\ device' \in Devices
  BY DEF ChainOK, ThermalTypes
<1> HIDE DEF E, F, n
<1>9. Chain(F, n + 1, device')
  BY <1>1, <1>6, <1>7, <1>8, ChainArrives, ChainLoses
<1> QED BY <1>3, <1>9 DEF E, F, n, ChainOK

Threads == [pc : ThreadPcs, urb : UrbIds, payload : AnyPayload]

LEMMA DeviceSet ==
    /\ \A d \in Devices, x \in Nat \ {0} : LET e == [d EXCEPT !.frame = x] IN
          e \in Devices /\ e.frame = x /\ e.part = d.part /\ e.lost = d.lost
    /\ \A d \in Devices, x \in 1 .. Parts : LET e == [d EXCEPT !.part = x] IN
          e \in Devices /\ e.frame = d.frame /\ e.part = x /\ e.lost = d.lost
    /\ \A d \in Devices, x \in 0 .. MaxLost : LET e == [d EXCEPT !.lost = x] IN
          e \in Devices /\ e.frame = d.frame /\ e.part = d.part /\ e.lost = x
BY SMT DEF Devices

LEMMA SendsNext ==
    ASSUME NEW d \in Devices, NEW lost \in 0 .. MaxLost
    PROVE  LET e == [(IF d.part = Parts THEN [d EXCEPT !.frame = @ + 1, !.part = 1] ELSE [d EXCEPT !.part = @ + 1])
                     EXCEPT !.lost = lost]
           IN e \in Devices /\ Sends(d, e) /\ e.lost = lost
<1>1. d.frame \in Nat \ {0} /\ d.part \in 1 .. Parts
  BY DEF Devices
<1>2. CASE d.part = Parts
  <2> DEFINE f == [d EXCEPT !.frame = d.frame + 1]
             g == [f EXCEPT !.part = 1]
             e == [g EXCEPT !.lost = lost]
  <2>1. d.frame + 1 \in Nat \ {0} /\ 1 \in 1 .. Parts
    BY <1>1, ThermalConstants, SMT
  <2>2. f \in Devices /\ f.frame = d.frame + 1
    BY <2>1, DeviceSet
  <2>3. g = [d EXCEPT !.frame = @ + 1, !.part = 1]
    BY DEF Devices
  <2> HIDE DEF f
  <2>4. g \in Devices /\ g.frame = d.frame + 1 /\ g.part = 1
    BY <2>1, <2>2, DeviceSet
  <2> HIDE DEF g
  <2>5. e \in Devices /\ e.frame = d.frame + 1 /\ e.part = 1 /\ e.lost = lost
    BY <2>4, DeviceSet
  <2>6. e = [[d EXCEPT !.frame = @ + 1, !.part = 1] EXCEPT !.lost = lost]
    BY <2>3
  <2> HIDE DEF e
  <2>7. Sends(d, e)
    BY <1>2, <2>5 DEF Sends
  <2> QED BY <1>2, <2>5, <2>6, <2>7
<1>3. CASE d.part # Parts
  <2> DEFINE f == [d EXCEPT !.part = d.part + 1]
             e == [f EXCEPT !.lost = lost]
  <2>1. d.part + 1 \in 1 .. Parts
    BY <1>1, <1>3, ThermalConstants, SMT
  <2>2. f \in Devices /\ f.frame = d.frame /\ f.part = d.part + 1
    BY <2>1, DeviceSet
  <2>3. f = [d EXCEPT !.part = @ + 1]
    BY DEF Devices
  <2> HIDE DEF f
  <2>4. e \in Devices /\ e.frame = d.frame /\ e.part = d.part + 1 /\ e.lost = lost
    BY <2>2, DeviceSet
  <2>5. e = [[d EXCEPT !.part = @ + 1] EXCEPT !.lost = lost]
    BY <2>3
  <2> HIDE DEF e
  <2>6. Sends(d, e)
    BY <1>3, <2>4 DEF Sends
  <2> QED BY <1>3, <2>4, <2>5, <2>6
<1> QED BY <1>2, <1>3

LEMMA FlightTypes ==
    ASSUME NEW f \in Seq(UrbIds)
    PROVE  /\ f # <<>> => Head(f) \in UrbIds /\ Tail(f) \in Seq(UrbIds)
           /\ \A u \in UrbIds : Append(f, u) \in Seq(UrbIds)
           /\ \A k \in 1 .. Len(f) : SubSeq(f, 1, k - 1) \o SubSeq(f, k + 1, Len(f)) \in Seq(UrbIds)
<1>1. f # <<>> => Head(f) \in UrbIds /\ Tail(f) \in Seq(UrbIds)
  BY HeadTailProperties
<1>2. \A u \in UrbIds : Append(f, u) \in Seq(UrbIds)
  BY AppendProperties
<1>3. ASSUME NEW k \in 1 .. Len(f)
      PROVE  SubSeq(f, 1, k - 1) \o SubSeq(f, k + 1, Len(f)) \in Seq(UrbIds)
  <2>1. Len(f) \in Nat /\ \A i \in 1 .. Len(f) : f[i] \in UrbIds
    BY LenProperties, ElementOfSeq
  <2>2. k \in Int /\ k - 1 \in Int /\ k + 1 \in Int /\ Len(f) \in Int /\ 1 \in Int
    BY <2>1, SMT
  <2>3. \A i \in 1 .. k - 1 : f[i] \in UrbIds
    BY <2>1, SMT
  <2>4. \A i \in k + 1 .. Len(f) : f[i] \in UrbIds
    BY <2>1, SMT
  <2>5. SubSeq(f, 1, k - 1) \in Seq(UrbIds)
    BY <2>1, <2>2, <2>3, SubSeqProperties, SMT
  <2>6. SubSeq(f, k + 1, Len(f)) \in Seq(UrbIds)
    BY <2>1, <2>2, <2>4, SubSeqProperties, SMT
  <2> QED BY <2>5, <2>6, ConcatProperties
<1> QED BY <1>1, <1>2, <1>3

LEMMA CompleteStream == StreamOK /\ Complete => StreamOK'
<1> SUFFICES ASSUME StreamOK, Complete PROVE StreamOK'
  OBVIOUS
<1>1. ThermalTypes /\ ChainOK /\ TakenOK
  BY DEF StreamOK
<1>2. device \in Devices /\ flight \in Seq(UrbIds) /\ done \in Seq(UrbIds \X AnyPayload)
  BY <1>1 DEF ThermalTypes
<1>3. device.frame \in Nat /\ device.part \in 1 .. Parts /\ device.lost \in 0 .. MaxLost
  BY <1>2 DEF Devices
<1>4. /\ flight # <<>> /\ flight' = Tail(flight) /\ UNCHANGED <<asm, thread, thermalMain, discards>>
  BY DEF Complete, ctl, closing, out
<1>5. Head(flight) \in UrbIds /\ flight' \in Seq(UrbIds)
  BY <1>2, <1>4, FlightTypes
<1>6. PICK x \in AnyPayload :
        /\ done' = Append(done, <<Head(flight), x>>) /\ device' \in Devices
        /\ \/ x \in Payloads /\ x.frame = device.frame /\ x.part = device.part /\ Sends(device, device')
           \/ x = Lost /\ Sends(device, device') /\ device.lost < MaxLost /\ device'.lost = device.lost + 1
  <2>1. ASSUME NEW bad \in BOOLEAN, bad => device.lost < MaxLost,
               done' = Append(done, <<Head(flight), [frame |-> device.frame, part |-> device.part, bad |-> bad]>>),
               device' = [NextPayload EXCEPT !.lost = IF bad THEN @ + 1 ELSE 0]
        PROVE  \E x \in AnyPayload :
                 /\ done' = Append(done, <<Head(flight), x>>) /\ device' \in Devices
                 /\ x \in Payloads /\ x.frame = device.frame /\ x.part = device.part /\ Sends(device, device')
    <3> DEFINE x == [frame |-> device.frame, part |-> device.part, bad |-> bad]
               lost == IF bad THEN device.lost + 1 ELSE 0
    <3>1. x \in Payloads /\ x.frame = device.frame /\ x.part = device.part
      BY <1>3 DEF Payloads
    <3>2. lost \in 0 .. MaxLost
      BY <1>3, <2>1, ThermalConstants, SMT
    <3>3. device' = [NextPayload EXCEPT !.lost = lost]
      BY <1>2, <2>1 DEF NextPayload, Devices
    <3>4. device' \in Devices /\ Sends(device, device')
      <4> HIDE DEF lost
      <4> QED BY <1>2, <3>2, <3>3, SendsNext DEF NextPayload
    <3> QED BY <2>1, <3>1, <3>4 DEF AnyPayload
  <2>2. ASSUME device.lost < MaxLost, done' = Append(done, <<Head(flight), Lost>>),
               device' = [NextPayload EXCEPT !.lost = @ + 1]
        PROVE  /\ Lost \in AnyPayload /\ device' \in Devices /\ Sends(device, device')
               /\ device'.lost = device.lost + 1
    <3> DEFINE lost == device.lost + 1
    <3>2. lost \in 0 .. MaxLost
      BY <1>3, <2>2, ThermalConstants, SMT
    <3>3. device' = [NextPayload EXCEPT !.lost = lost]
      BY <1>2, <2>2 DEF NextPayload, Devices
    <3> HIDE DEF lost
    <3>4. device' \in Devices /\ Sends(device, device') /\ device'.lost = lost
      BY <1>2, <3>2, <3>3, SendsNext DEF NextPayload
    <3> QED BY <3>4 DEF AnyPayload, lost
  <2> QED BY <2>1, <2>2 DEF Complete
<1>7. done' \in Seq(UrbIds \X AnyPayload)
  BY <1>2, <1>5, <1>6, DoneTypes
<1>8. ThermalTypes'
  BY <1>1, <1>4, <1>5, <1>6, <1>7 DEF ThermalTypes
<1>9. ChainOK'
  BY <1>1, <1>4, <1>5, <1>6, <1>8, StreamCompletes
<1>10. TakenOK'
  BY <1>1, <1>4 DEF TakenOK, At
<1> QED BY <1>8, <1>9, <1>10 DEF StreamOK

LEMMA DiscardStream == StreamOK /\ Discard => StreamOK'
<1> SUFFICES ASSUME StreamOK, Discard PROVE StreamOK'
  OBVIOUS
<1>1. ThermalTypes /\ ChainOK /\ TakenOK
  BY DEF StreamOK
<1>2. flight \in Seq(UrbIds) /\ done \in Seq(UrbIds \X AnyPayload) /\ discards \in Nat
  BY <1>1 DEF ThermalTypes
<1>3. UNCHANGED <<device, asm, thread>> /\ discards' = discards + 1 /\ discards < Urbs
  BY DEF Discard
<1>4. TakenOK'
  BY <1>1, <1>3 DEF TakenOK, At
<1>5. discards' \in Nat /\ discards' \in UrbIds
  BY <1>2, <1>3, ThermalConstants, SMT DEF UrbIds
<1>6. CASE UNCHANGED <<flight, done>>
  <2>1. ThermalTypes'
    BY <1>1, <1>3, <1>5, <1>6 DEF ThermalTypes
  <2>2. ChainOK'
    BY <1>1, <1>3, <1>6, StreamKept
  <2> QED BY <1>4, <2>1, <2>2 DEF StreamOK
<1>7. ASSUME NEW k \in 1 .. Len(flight),
             flight' = SubSeq(flight, 1, k - 1) \o SubSeq(flight, k + 1, Len(flight)),
             done' = Append(done, <<discards', Lost>>)
      PROVE  StreamOK'
  <2>1. Lost \in AnyPayload
    BY DEF AnyPayload
  <2>2. flight' \in Seq(UrbIds)
    BY <1>2, <1>7, FlightTypes
  <2>3. done' \in Seq(UrbIds \X AnyPayload)
    BY <1>2, <1>5, <1>7, <2>1, DoneTypes
  <2>4. ThermalTypes'
    BY <1>1, <1>3, <1>5, <2>2, <2>3 DEF ThermalTypes
  <2>5. ChainOK'
    BY <1>1, <1>3, <1>5, <1>7, <2>1, <2>4, StreamCompletes
  <2> QED BY <1>4, <2>4, <2>5 DEF StreamOK
<1> QED BY <1>6, <1>7 DEF Discard

LEMMA ReapStream == StreamOK /\ Reap => StreamOK'
<1> SUFFICES ASSUME StreamOK, Reap PROVE StreamOK'
  OBVIOUS
<1>1. ThermalTypes /\ ChainOK /\ TakenOK
  BY DEF StreamOK
<1>2. /\ thread.pc = "reap" /\ done # <<>> /\ done' = Tail(done)
      /\ thread' = [pc |-> "consume", urb |-> Head(done)[1], payload |-> Head(done)[2]]
      /\ UNCHANGED <<device, flight, asm, discards>>
  BY DEF Reap, At, closing
<1>3. done \in Seq(UrbIds \X AnyPayload) /\ device \in Devices
  BY <1>1 DEF ThermalTypes
<1> DEFINE E == UnderWay
           F == UnderWay'
           n == Len(done)
           x == done[1][2]
<1>4. n \in Nat /\ n > 0 /\ Head(done) = done[1]
  BY <1>2, <1>3, LenProperties, EmptySeq, HeadTailProperties
<1>5. done' \in Seq(UrbIds \X AnyPayload) /\ Len(done') = n - 1 /\ \A i \in 1 .. n - 1 : done'[i] = done[i + 1]
  BY <1>2, <1>3, HeadTailProperties
<1>6. 1 \in 1 .. n /\ done[1][1] \in UrbIds /\ x \in AnyPayload
  <2>1. 1 \in 1 .. n
    BY <1>4, SMT
  <2> QED BY <1>3, <2>1, DoneTypes
<1>7. thread' \in Threads /\ thread'.pc = "consume" /\ thread'.payload = x
  BY <1>2, <1>4, <1>6 DEF Threads, ThreadPcs
<1>8. ThermalTypes'
  BY <1>1, <1>2, <1>5, <1>7 DEF ThermalTypes, Threads
<1>9. E[0] = LastTaken /\ \A i \in 1 .. n : E[i] = done[i][2]
  BY <1>1, UnderWayTypes DEF UnderWayOK
<1>10. F[0] = LastTaken' /\ \A i \in 1 .. Len(done') : F[i] = done'[i][2]
  <2>1. UnderWayOK'
    BY <1>8, UnderWayTypes, PTL
  <2> QED BY <2>1 DEF UnderWayOK
<1>11. E[1] = x
  BY <1>6, <1>9
<1>12. F[0] = (IF E[1] # Lost THEN E[1] ELSE E[0])
  <2>1. LastTaken = IF asm.used # <<>> THEN asm.used[Len(asm.used)] ELSE Lost
    BY <1>2 DEF LastTaken
  <2>2. LastTaken' = IF x # Lost THEN x ELSE LastTaken
    BY <1>2, <1>7, <2>1 DEF LastTaken
  <2> QED BY <1>9, <1>10, <1>11, <2>2
<1>13. \A i \in 1 .. n - 1 : F[i] = E[i + 1]
  <2>1. \A i \in 1 .. n - 1 : i + 1 \in 1 .. n
    BY <1>4, SMT
  <2> QED BY <1>5, <1>9, <1>10, <2>1
<1>14. Chain(E, n, device)
  BY <1>1 DEF ChainOK
<1>15. Chain(F, n - 1, device')
  <2> HIDE DEF E, F, n, x
  <2> QED BY <1>2, <1>4, <1>12, <1>13, <1>14, ChainTaken
<1>16. ChainOK'
  BY <1>5, <1>15 DEF ChainOK
<1>17. TakenOK'
  <2> SUFFICES ASSUME x # Lost, asm.used # <<>>
               PROVE  CloseAfter(asm.used[Len(asm.used)], x, MaxLost)
    BY <1>2, <1>7 DEF TakenOK, At
  <2>1. E[0] = asm.used[Len(asm.used)]
    BY <1>2, <1>9 DEF LastTaken
  <2>2. E[0] # Lost
    <3>1. asm.used \in Seq(Payloads)
      BY <1>1 DEF ThermalTypes, UsedOK
    <3>2. Len(asm.used) \in 1 .. Len(asm.used)
      BY <3>1, SeqPayload, SMT
    <3>3. asm.used[Len(asm.used)] \in Payloads
      BY <3>1, <3>2, SeqPayload
    <3> QED BY <2>1, <3>3, PayloadTypes
  <2>3. 0 \in 0 .. n /\ 1 \in 0 .. n /\ 0 < 1 /\ \A k \in 0 + 1 .. 1 - 1 : E[k] = Lost
    BY <1>4, SMT
  <2> HIDE DEF E, F, n, x
  <2>4. CloseAfter(E[0], E[1], MaxLost)
    BY <1>11, <1>14, <2>2, <2>3 DEF Chain
  <2> QED BY <1>11, <2>1, <2>4
<1> QED BY <1>8, <1>16, <1>17 DEF StreamOK

LEMMA ConsumeStream == StreamOK /\ FramesOK /\ Consume => StreamOK' /\ FramesOK'
<1> SUFFICES ASSUME StreamOK, FramesOK, Consume PROVE StreamOK' /\ FramesOK'
  OBVIOUS
<1>1. ThermalTypes /\ ChainOK /\ TakenOK
  BY DEF StreamOK
<1> DEFINE p == thread.payload
           frame == IF p # Lost THEN delivers(asm, p) ELSE NoFrame
           n == Len(done)
           E == UnderWay
           F == UnderWay'
<1>2. /\ thread.pc = "consume"
      /\ asm' = (IF p # Lost THEN settled(asm, p) ELSE asm)
      /\ latest' = (IF frame # NoFrame THEN frame ELSE latest)
      /\ thread' = [thread EXCEPT !.pc = IF frame # NoFrame THEN "publish" ELSE "resubmit"]
      /\ UNCHANGED <<device, flight, done, discards, shown, server, served, files>>
  BY DEF Consume, At, Goto, closing
<1>3. asm \in Assemblers /\ UsedOK(asm.used, asm.fid) /\ p \in AnyPayload /\ thread \in Threads
  BY <1>1 DEF ThermalTypes, Assemblers, Threads
<1>4. thread' \in Threads /\ thread'.pc # "consume"
  <2> DEFINE pc == IF frame # NoFrame THEN "publish" ELSE "resubmit"
  <2>1. pc \in ThreadPcs /\ pc # "consume"
    BY DEF ThreadPcs
  <2>2. thread' = [thread EXCEPT !.pc = pc]
    BY <1>2
  <2> HIDE DEF pc
  <2> QED BY <1>3, <2>1, <2>2, ThreadGoes DEF Threads
<1>5. p # Lost => p \in Payloads /\ (asm.used # <<>> => CloseAfter(asm.used[Len(asm.used)], p, MaxLost))
  BY <1>1, <1>2, <1>3 DEF AnyPayload, TakenOK, At
<1>6. asm' \in Assemblers /\ UsedOK(asm'.used, asm'.fid)
  BY <1>2, <1>3, <1>5, Assembles
<1>7. ThermalTypes'
  BY <1>1, <1>2, <1>4, <1>6 DEF ThermalTypes, Assemblers, Threads
<1>8. LastTaken' \in {LastTaken, Lost}
  <2>1. LastTaken' = IF asm'.used # <<>> THEN asm'.used[Len(asm'.used)] ELSE Lost
    BY <1>4 DEF LastTaken
  <2>2. CASE p = Lost
    BY <1>2, <2>1, <2>2 DEF LastTaken
  <2>3. CASE p # Lost
    <3>1. LastTaken = p
      BY <1>2, <2>3 DEF LastTaken
    <3>2. asm'.used # <<>> => asm'.used[Len(asm'.used)] = p
      BY <1>2, <1>3, <1>5, <2>3, Assembles
    <3> QED BY <2>1, <3>1, <3>2
  <2> QED BY <2>2, <2>3
<1>9. n \in Nat /\ E[0] = LastTaken /\ F[0] = LastTaken' /\ \A i \in 1 .. n : F[i] = E[i]
  <2>1. UnderWayOK
    BY <1>1, UnderWayTypes
  <2>2. UnderWayOK'
    BY <1>7, UnderWayTypes, PTL
  <2> QED BY <1>2, <2>1, <2>2 DEF UnderWayOK
<1>10. ChainOK'
  <2>1. Chain(E, n, device)
    BY <1>1 DEF ChainOK
  <2>2. F[0] \in {E[0], Lost}
    BY <1>8, <1>9
  <2>3. Chain(F, n, device)
    <3> HIDE DEF E, F, n
    <3> QED BY <1>9, <2>1, <2>2, ChainForgets
  <2> QED BY <1>2, <2>3 DEF ChainOK
<1>11. TakenOK'
  BY <1>4 DEF TakenOK, At
<1>12. frame \in Seq(Payloads) /\ (frame # NoFrame => Whole(frame))
  <2>1. NoFrame \in Seq(Payloads)
    BY EmptySeq DEF NoFrame
  <2> QED BY <1>3, <1>5, <2>1, Assembles
<1>13. FramesOK'
  <2> HIDE DEF frame
  <2> QED BY <1>2, <1>12 DEF FramesOK, WholeFrames
<1> QED BY <1>7, <1>10, <1>11, <1>13 DEF StreamOK

-----------------------------------------------------------------------------
\* What becomes of a frame.

FrameVars == <<latest, shown, server, served, files>>

LEMMA FramesKept == FramesOK /\ UNCHANGED FrameVars => FramesOK'
BY DEF FramesOK, WholeFrames, FrameVars

LEMMA PublishFrames == FramesOK /\ Publish => FramesOK'
BY DEF FramesOK, WholeFrames, Publish

LEMMA CopyFrames == FramesOK /\ Copy => FramesOK'
<1> SUFFICES ASSUME FramesOK, Copy PROVE FramesOK'
  OBVIOUS
<1>1. server' = [pc |-> IF shown = NoFrame THEN "accept" ELSE "send", copy |-> shown]
      /\ UNCHANGED <<latest, shown, served, files>>
  BY DEF Copy
<1>2. server'.copy = shown /\ (server'.pc = "send" => shown # NoFrame) /\ server' \in Servers
  <2>1. shown \in Seq(Payloads)
    BY DEF FramesOK
  <2> QED BY <1>1, <2>1 DEF Servers
<1> QED BY <1>1, <1>2 DEF FramesOK, WholeFrames

LEMMA SendFrames == FramesOK /\ Send => FramesOK'
<1> SUFFICES ASSUME FramesOK, Send PROVE FramesOK'
  OBVIOUS
<1>1. /\ server.pc = "send" /\ server' = [pc |-> "accept", copy |-> NoFrame]
      /\ served' = Append(served, server.copy) \/ served' = served
      /\ UNCHANGED <<latest, shown, files>>
  BY DEF Send
<1>2. server'.copy = NoFrame /\ server'.pc = "accept" /\ server' \in Servers
  <2>1. NoFrame \in Seq(Payloads)
    BY EmptySeq DEF NoFrame
  <2> QED BY <1>1, <2>1 DEF Servers
<1>3. server.copy \in Seq(Payloads) /\ Whole(server.copy) /\ served \in Seq(Seq(Payloads))
  BY <1>1 DEF FramesOK, Servers
<1>4. served' \in Seq(Seq(Payloads)) /\ \A i \in 1 .. Len(served') : Whole(served'[i])
  <2>1. CASE served' = served
    BY <1>3, <2>1 DEF FramesOK, WholeFrames
  <2>2. CASE served' = Append(served, server.copy)
    <3>1. /\ served' \in Seq(Seq(Payloads)) /\ Len(served') = Len(served) + 1
          /\ served'[Len(served) + 1] = server.copy /\ \A i \in 1 .. Len(served) : served'[i] = served[i]
      BY <1>3, <2>2, AppendProperties
    <3>2. Len(served) \in Nat
      BY <1>3, LenProperties
    <3>3. \A i \in 1 .. Len(served') : i \in 1 .. Len(served) \/ i = Len(served) + 1
      BY <3>1, <3>2, SMT
    <3> QED BY <1>3, <3>1, <3>3 DEF FramesOK, WholeFrames
  <2> QED BY <1>1, <2>1, <2>2
<1> QED BY <1>1, <1>2, <1>4 DEF FramesOK, WholeFrames

LEMMA CaptureFrames == FramesOK /\ CaptureRaw => FramesOK'
<1> SUFFICES ASSUME FramesOK, CaptureRaw PROVE FramesOK'
  OBVIOUS
<1>1. latest # NoFrame /\ Whole(latest) /\ UNCHANGED <<latest, shown, server, served>>
  BY DEF CaptureRaw, FramesOK, WholeFrames
<1>2. \A f \in files : Whole(f.pixels) /\ f.name[1] = f.pixels[1].frame
  BY DEF FramesOK, WholeFrames
<1>3. \A f \in files' : Whole(f.pixels) /\ f.name[1] = f.pixels[1].frame
  <2>1. CASE files' = files
    BY <1>2, <2>1
  <2>2. ASSUME NEW attempt \in 0 .. 1,
               files' = files \cup {[name |-> <<latest[1].frame, attempt>>, pixels |-> latest]}
        PROVE  \A f \in files' : Whole(f.pixels) /\ f.name[1] = f.pixels[1].frame
    <3> DEFINE g == [name |-> <<latest[1].frame, attempt>>, pixels |-> latest]
    <3>1. g.pixels = latest /\ g.name[1] = latest[1].frame
      OBVIOUS
    <3> HIDE DEF g
    <3> QED BY <1>1, <1>2, <2>2, <3>1 DEF g
  <2> QED BY <2>1, <2>2 DEF CaptureRaw
<1> QED BY <1>1, <1>3 DEF FramesOK, WholeFrames

-----------------------------------------------------------------------------
\* The other steps leave the stream and the frames alone.

LEMMA StreamQuiet ==
    ASSUME StreamOK, UNCHANGED <<device, done, asm>>,
           thread' = thread \/ (thread' \in Threads /\ thread.pc # "consume" /\ thread'.pc # "consume"),
           flight' \in Seq(UrbIds), discards' \in Nat
    PROVE  StreamOK'
<1>1. ThermalTypes /\ ChainOK /\ TakenOK
  BY DEF StreamOK
<1>2. ThermalTypes'
  BY <1>1 DEF ThermalTypes, Threads
<1>3. ChainOK'
  BY <1>1, StreamKept
<1>4. TakenOK'
  BY <1>1 DEF TakenOK, At
<1> QED BY <1>2, <1>3, <1>4 DEF StreamOK

QuietThread == Test \/ Publish \/ Resubmit \/ Submit \/ Flag
QuietClosing == CloseThermal \/ AllDiscarded \/ JoinThermal \/ CloseFd \/ CloseServer \/ JoinServer

LEMMA QuietThreadStream == StreamOK /\ QuietThread => StreamOK'
<1> SUFFICES ASSUME StreamOK, QuietThread PROVE StreamOK'
  OBVIOUS
<1>1. thread \in Threads /\ flight \in Seq(UrbIds) /\ discards \in Nat /\ thread.urb \in UrbIds
  BY DEF StreamOK, ThermalTypes, Threads
<1>2. UNCHANGED <<device, done, asm, discards>> /\ thread.pc # "consume"
  BY DEF QuietThread, Test, Publish, Resubmit, Submit, Flag, At, closing
<1>3. flight' = flight \/ flight' = Append(flight, thread.urb)
  BY DEF QuietThread, Test, Publish, Resubmit, Submit, Flag
<1>4. flight' \in Seq(UrbIds)
  BY <1>1, <1>3, FlightTypes
<1>5. \E pc \in ThreadPcs \ {"consume"} : thread' = [thread EXCEPT !.pc = pc]
  BY DEF QuietThread, Test, Publish, Resubmit, Submit, Flag, Goto, ThreadPcs
<1>6. thread' \in Threads /\ thread'.pc # "consume"
  BY <1>1, <1>5, ThreadGoes DEF Threads
<1> QED BY <1>1, <1>2, <1>4, <1>6, StreamQuiet

LEMMA QuietClosingStream == StreamOK /\ QuietClosing => StreamOK'
<1> SUFFICES ASSUME StreamOK, QuietClosing PROVE StreamOK'
  OBVIOUS
<1>1. flight \in Seq(UrbIds) /\ discards \in Nat
  BY DEF StreamOK, ThermalTypes
<1>2. UNCHANGED <<device, done, asm, thread, discards>>
  BY DEF QuietClosing, CloseThermal, AllDiscarded, JoinThermal, CloseFd, CloseServer, JoinServer, usb
<1>3. flight' = flight \/ flight' = <<>>
  BY DEF QuietClosing, CloseThermal, AllDiscarded, JoinThermal, CloseFd, CloseServer, JoinServer, usb
<1>4. flight' \in Seq(UrbIds)
  BY <1>1, <1>3, EmptySeq
<1> QED BY <1>1, <1>2, <1>4, StreamQuiet

LEMMA QuietStream == StreamOK /\ UNCHANGED <<usb, discards>> => StreamOK'
<1> SUFFICES ASSUME StreamOK, UNCHANGED <<usb, discards>> PROVE StreamOK'
  OBVIOUS
<1>1. flight \in Seq(UrbIds) /\ discards \in Nat
  BY DEF StreamOK, ThermalTypes
<1>2. UNCHANGED <<device, done, asm, thread, flight, discards>>
  BY DEF usb
<1> QED BY <1>1, <1>2, StreamQuiet

\* One lemma for the stream and the frames.
LEMMA FramesStep == StreamOK /\ FramesOK /\ [ThermalNext]_thermalVars => StreamOK' /\ FramesOK'
<1> SUFFICES ASSUME StreamOK, FramesOK, [ThermalNext]_thermalVars PROVE StreamOK' /\ FramesOK'
  OBVIOUS
<1>1. CASE Complete
  BY <1>1, CompleteStream, FramesKept DEF Complete, out, FrameVars
<1>2. CASE Reap
  BY <1>2, ReapStream, FramesKept DEF Reap, out, FrameVars
<1>3. CASE Consume
  BY <1>3, ConsumeStream
<1>4. CASE Publish
  BY <1>4, PublishFrames, QuietThreadStream DEF QuietThread
<1>5. CASE Test \/ Resubmit \/ Submit \/ Flag
  <2>1. UNCHANGED FrameVars
    BY <1>5 DEF Test, Resubmit, Submit, Flag, out, FrameVars
  <2> QED BY <1>5, <2>1, FramesKept, QuietThreadStream DEF QuietThread
<1>6. CASE Accept \/ AcceptFails
  <2>1. UNCHANGED <<usb, discards, latest, shown, served, files>>
    BY <1>6 DEF Accept, AcceptFails, closing
  <2>2. server'.copy = server.copy /\ server'.pc # "send" /\ server' \in Servers
    <3>1. server \in Servers
      BY DEF FramesOK
    <3>2. \E pc \in {"copy", "ended"} : server' = [server EXCEPT !.pc = pc]
      BY <1>6 DEF Accept, AcceptFails
    <3> QED BY <3>1, <3>2 DEF Servers
  <2>3. FramesOK'
    BY <2>1, <2>2 DEF FramesOK, WholeFrames
  <2> QED BY <2>1, <2>3, QuietStream
<1>7. CASE Copy
  BY <1>7, CopyFrames, QuietStream DEF Copy, closing
<1>8. CASE Send
  BY <1>8, SendFrames, QuietStream DEF Send, closing
<1>9. CASE CaptureRaw
  BY <1>9, CaptureFrames, QuietStream DEF CaptureRaw, closing
<1>10. CASE Discard
  BY <1>10, DiscardStream, FramesKept DEF Discard, out, FrameVars
<1>11. CASE QuietClosing
  <2>1. UNCHANGED FrameVars
    BY <1>11 DEF QuietClosing, CloseThermal, AllDiscarded, JoinThermal, CloseFd, CloseServer, JoinServer, out, FrameVars
  <2> QED BY <1>11, <2>1, FramesKept, QuietClosingStream
<1>12. CASE Controls \/ UNCHANGED thermalVars
  <2>1. UNCHANGED <<usb, discards>>
    BY <1>12 DEF Controls, Lock, First, Second, Result, Unlock, thermalVars, closing
  <2>2. UNCHANGED FrameVars
    BY <1>12 DEF Controls, Lock, First, Second, Result, Unlock, thermalVars, out, FrameVars
  <2> QED BY <2>1, <2>2, FramesKept, QuietStream
<1> QED
  BY <1>1, <1>2, <1>3, <1>4, <1>5, <1>6, <1>7, <1>8, <1>9, <1>10, <1>11, <1>12
     DEF ThermalNext, ThermalThread, ServerThread, Closing, QuietClosing

-----------------------------------------------------------------------------
\* Closing, and the two-stage commands.

LEMMA ClosingStep == ClosingOK /\ [ThermalNext]_thermalVars => ClosingOK'
<1> SUFFICES ASSUME ClosingOK, [ThermalNext]_thermalVars PROVE ClosingOK'
  OBVIOUS
<1>1. CASE Complete
  BY <1>1 DEF Complete, ClosingOK, BuffersSafe, closing
<1>2. CASE ThermalThread
  <2>1. UNCHANGED thermalMain /\ thread.pc # "ended"
    BY <1>2 DEF ThermalThread, Test, Reap, Consume, Publish, Resubmit, Submit, Flag, At, closing
  <2> QED BY <2>1 DEF ClosingOK, BuffersSafe
<1>3. CASE ServerThread \/ CaptureRaw \/ Controls \/ UNCHANGED thermalVars
  <2>1. UNCHANGED <<usb, closing>>
    BY <1>3 DEF ServerThread, Accept, AcceptFails, Copy, Send, CaptureRaw, Controls, Lock, First, Second, Result,
                Unlock, thermalVars
  <2>2. UNCHANGED <<thread, flight, thermalMain>>
    BY <2>1 DEF usb, closing
  <2> QED BY <2>2 DEF ClosingOK, BuffersSafe
<1>4. CASE CloseThermal \/ Discard \/ AllDiscarded
  <2>1. thermalMain' \in {"discard", "join"}
    BY <1>4 DEF CloseThermal, Discard, AllDiscarded
  <2> QED BY <2>1 DEF ClosingOK, BuffersSafe
<1>5. CASE JoinThermal
  BY <1>5 DEF JoinThermal, ClosingOK, BuffersSafe, usb, At
<1>6. CASE CloseFd
  BY <1>6 DEF CloseFd, ClosingOK, BuffersSafe
<1>7. CASE CloseServer \/ JoinServer
  BY <1>7 DEF CloseServer, JoinServer, ClosingOK, BuffersSafe, usb
<1> QED BY <1>1, <1>2, <1>3, <1>4, <1>5, <1>6, <1>7 DEF ThermalNext, Closing

LEMMA ControlStep == ControlOK /\ [ThermalNext]_thermalVars => ControlOK'
<1> SUFFICES ASSUME ControlOK, [ThermalNext]_thermalVars PROVE ControlOK'
  OBVIOUS
<1>0. DOMAIN caller = Callers
  BY DEF ControlOK
<1>1. CASE UNCHANGED ctl
  <2>1. UNCHANGED <<caller, locked, xu, mixed>>
    BY <1>1 DEF ctl
  <2> QED BY <2>1 DEF ControlOK, HalvesTogether
<1>2. ASSUME NEW c \in Callers, Lock(c)
      PROVE  ControlOK'
  <2>1. \A d \in Callers : caller[d] \notin InLock
    BY <1>2 DEF Lock, ControlOK
  <2>2. caller' = [caller EXCEPT ![c] = "first"] /\ locked' = TRUE /\ UNCHANGED <<xu, mixed>>
    BY <1>2 DEF Lock
  <2>3. \A d \in Callers : caller'[d] = IF d = c THEN "first" ELSE caller[d]
    BY <1>0, <2>2
  <2>4. DOMAIN caller' = Callers
    BY <1>0, <2>2
  <2> QED BY <2>1, <2>2, <2>3, <2>4 DEF ControlOK, HalvesTogether, InLock
<1>3. ASSUME NEW c \in Callers, First(c)
      PROVE  ControlOK'
  <2>1. caller[c] = "first" /\ locked' = locked /\ mixed' = mixed
    BY <1>3 DEF First
  <2>2. \A d \in Callers : d # c => caller[d] \notin InLock
    BY <2>1 DEF ControlOK, InLock
  <2>3. locked
    BY <2>1 DEF ControlOK, InLock
  <2>4. PICK pc \in {"second", "unlock"} :
           caller' = [caller EXCEPT ![c] = pc] /\ (pc = "second" => xu'.first = c)
    BY <1>3 DEF First
  <2>5. DOMAIN caller' = Callers /\ \A d \in Callers : caller'[d] = IF d = c THEN pc ELSE caller[d]
    BY <1>0, <2>4
  <2>6. \A d \in Callers : caller'[d] \in InLock => d = c
    BY <2>2, <2>5
  <2>7. \A d \in Callers : caller'[d] = "second" => xu'.first = d
    BY <2>4, <2>5, <2>6 DEF InLock
  <2> QED BY <2>1, <2>3, <2>5, <2>6, <2>7 DEF ControlOK, HalvesTogether
<1>4. ASSUME NEW c \in Callers, Second(c) \/ Result(c)
      PROVE  ControlOK'
  <2>1. caller[c] \in {"second", "result"} /\ locked' = locked
    BY <1>4 DEF Second, Result
  <2>2. \A d \in Callers : d # c => caller[d] \notin InLock
    BY <2>1 DEF ControlOK, InLock
  <2>3. locked
    BY <2>1 DEF ControlOK, InLock
  <2>4. PICK pc \in {"result", "unlock"} : caller' = [caller EXCEPT ![c] = pc]
    BY <1>4 DEF Second, Result
  <2>5. ~mixed'
    <3>1. ~mixed /\ (caller[c] = "second" => xu.first = c)
      BY DEF ControlOK, HalvesTogether
    <3> QED BY <1>4, <3>1 DEF Second, Result
  <2>6. DOMAIN caller' = Callers /\ \A d \in Callers : caller'[d] = IF d = c THEN pc ELSE caller[d]
    BY <1>0, <2>4
  <2>7. \A d \in Callers : (caller'[d] \in InLock => d = c) /\ caller'[d] # "second"
    BY <2>2, <2>6 DEF InLock
  <2> QED BY <2>1, <2>3, <2>5, <2>6, <2>7 DEF ControlOK, HalvesTogether
<1>5. ASSUME NEW c \in Callers, Unlock(c)
      PROVE  ControlOK'
  <2>1. caller[c] = "unlock" /\ UNCHANGED <<xu, mixed>> /\ caller' = [caller EXCEPT ![c] = "idle"]
    BY <1>5 DEF Unlock
  <2>2. \A d \in Callers : d # c => caller[d] \notin InLock
    BY <2>1 DEF ControlOK, InLock
  <2>3. DOMAIN caller' = Callers /\ \A d \in Callers : caller'[d] = IF d = c THEN "idle" ELSE caller[d]
    BY <1>0, <2>1
  <2>4. \A d \in Callers : caller'[d] \notin InLock /\ caller'[d] # "second"
    BY <2>2, <2>3 DEF InLock
  <2> QED BY <2>1, <2>3, <2>4 DEF ControlOK, HalvesTogether
<1>6. CASE Complete \/ ThermalThread \/ ServerThread \/ CaptureRaw \/ Closing \/ UNCHANGED thermalVars
  <2>1. UNCHANGED ctl
    BY <1>6 DEF Complete, ThermalThread, Test, Reap, Consume, Publish, Resubmit, Submit, Flag, ServerThread, Accept,
                AcceptFails, Copy, Send, CaptureRaw, Closing, CloseThermal, Discard, AllDiscarded, JoinThermal, CloseFd,
                CloseServer, JoinServer, thermalVars
  <2> QED BY <1>1, <2>1
<1> QED BY <1>2, <1>3, <1>4, <1>5, <1>6 DEF ThermalNext, Controls

-----------------------------------------------------------------------------
LEMMA ThermalStarts == ThermalInit => ThermalInv
<1> SUFFICES ASSUME ThermalInit PROVE ThermalInv
  OBVIOUS
<1>1. /\ device \in {[frame |-> 1, part |-> 1, lost |-> 0], [frame |-> MaxFrames + 1, part |-> 1, lost |-> 0]}
      /\ flight = [i \in 1 .. Urbs |-> i] /\ done = <<>> /\ asm = [fid |-> -1, used |-> <<>>]
      /\ thread = [pc |-> "test", urb |-> 1, payload |-> Lost]
      /\ latest = NoFrame /\ shown = NoFrame /\ served = <<>> /\ files = {}
      /\ server = [pc |-> "accept", copy |-> NoFrame]
      /\ thermalMain = "run" /\ discards = 0 /\ locked = FALSE /\ mixed = FALSE
      /\ \/ caller = [c \in Callers |-> "absent"]
         \/ caller = [c \in Callers |-> "idle"]
  BY DEF ThermalInit
<1>2. device \in Devices
  <2>1. 1 \in Nat \ {0} /\ MaxFrames + 1 \in Nat \ {0} /\ 1 \in 1 .. Parts /\ 0 \in 0 .. MaxLost
    BY ThermalAssumption, ThermalConstants, SMT
  <2> QED BY <1>1, <2>1 DEF Devices
<1>3. flight \in Seq(UrbIds)
  <2>1. \A i \in 1 .. Urbs : i \in UrbIds
    BY DEF UrbIds
  <2> QED BY <1>1, <2>1, ThermalConstants, IsASeq
<1>4. done \in Seq(UrbIds \X AnyPayload) /\ <<>> \in Seq(Payloads) /\ Len(done) = 0
  BY <1>1, EmptySeq
<1>5. thread \in [pc : ThreadPcs, urb : UrbIds, payload : AnyPayload] /\ thread.pc = "test"
  <2>1. 1 \in UrbIds
    BY ThermalConstants, SMT DEF UrbIds
  <2> QED BY <1>1, <2>1 DEF ThreadPcs, AnyPayload
<1>6. asm \in Assemblers /\ asm.used = <<>> /\ asm.fid = -1
  BY <1>1, <1>4 DEF Assemblers
<1>7. UsedOK(asm.used, asm.fid)
  BY <1>4, <1>6, UsedIsRising
<1>8. ThermalTypes
  BY <1>1, <1>2, <1>3, <1>4, <1>5, <1>6, <1>7 DEF ThermalTypes, Assemblers
<1>9. ChainOK
  <2>1. LastTaken = Lost
    BY <1>5, <1>6 DEF LastTaken
  <2>2. \A i \in 0 .. 0 : UnderWay[i] = Lost
    <3>1. UnderWayOK
      BY <1>8, UnderWayTypes
    <3>2. \A i \in 0 .. 0 : i = 0
      BY SMT
    <3> QED BY <2>1, <3>1, <3>2 DEF UnderWayOK
  <2> QED BY <1>4, <2>2 DEF ChainOK, Chain
<1>10. TakenOK
  BY <1>5 DEF TakenOK, At
<1>11. FramesOK
  <2>1. server.pc = "accept" /\ server.copy = NoFrame /\ server \in Servers
    BY <1>1, <1>4 DEF Servers, NoFrame
  <2>2. served \in Seq(Seq(Payloads)) /\ \A i \in 1 .. Len(served) : FALSE
    BY <1>1, EmptySeq, SMT
  <2> QED BY <1>1, <1>4, <2>1, <2>2 DEF FramesOK, WholeFrames, NoFrame
<1>12. ClosingOK
  BY <1>1 DEF ClosingOK, BuffersSafe
<1>13. ControlOK
  <2>1. DOMAIN caller = Callers /\ \A c \in Callers : caller[c] \notin InLock /\ caller[c] # "second"
    BY <1>1 DEF InLock
  <2> QED BY <1>1, <2>1 DEF ControlOK, HalvesTogether
<1> QED BY <1>8, <1>9, <1>10, <1>11, <1>12, <1>13 DEF ThermalInv

\* Every frame kept, served or captured is whole and of one exposure although
\* payloads are lost or bad and the assembler tells frames apart by one bit; no
\* transfer remains when the buffers are freed; two-stage commands never mix
\* (the assembler, ca_mt11_thermal_close and control_lock of thermal.c).
THEOREM ThermalStaysWhole == ThermalSpec => []ThermalWhole
<1>1. ThermalInit => ThermalInv
  BY ThermalStarts
<1>2. ThermalInv /\ [ThermalNext]_thermalVars => ThermalInv'
  BY FramesStep, ClosingStep, ControlStep DEF ThermalInv, StreamOK
<1>3. ThermalInv => ThermalWhole
  BY DEF ThermalInv, FramesOK, ClosingOK, ControlOK, ThermalWhole
<1> QED BY <1>1, <1>2, <1>3, PTL DEF ThermalSpec

-----------------------------------------------------------------------------
\* How the applications and cameras come up and go down (BringUp).  First
\* what is shown of each opening and its clean-up apart from any run.

\* A sequence of steps, whatever the steps are.
IsSeq(p) == \E S : p \in Seq(S)

\* A step that starts a thread, and the names the threads have.
Starts(s) == s.kind \in {"spawn", "mayspawn", "worker"}
ThreadNames == {R("capture"), R("thermal"), R("focus"), R("isp_thread"), R("exposure")} \cup Workers

\* A step the opening does not go on without.
Must(s) == s.kind \notin {"may", "mayspawn"}
\* A whole part leaves resource q held, and note n made.
Gives(p, q) == \E i \in 1 .. Len(p) : Must(p[i]) /\ q \in p[i].res
Notes(p, n) == \E i \in 1 .. Len(p) : Must(p[i]) /\ n \in p[i].notes

\* In target t, resource r stands on resource q.
Uses(t, r, q) == <<r, q>> \in StandsOn(t)

\* The note the clean-up looks at before it gives a resource back.
Note_a8(a, i) ==
    CASE a = "recv" -> <<"chn", i>>
      [] a \in {"mjpg", "mjpg_device"} -> R("jpeg")
      [] a = "venc_device" -> R("VENC")
      [] a \in {"isp_scl", "vif_isp"} -> R("BOUND")
      [] a \in {"scl_run", "scl_channel", "scl_device"} -> R("SCL")
      [] a \in {"isp_port", "isp_run", "isp_channel", "isp_device"} -> R("ISP")
      [] a \in {"vif_port", "vif_device", "vif_group"} -> R("VIF")
      [] a = "sensor" -> R("SENSOR")
      [] a \in {"sys", "libs"} -> R("SYS")
      [] OTHER -> <<a, i>>
Note_ax(a, i) ==
    CASE a = "stream" -> R("stream_on")
      [] a = "dev" -> R("dev_enabled")
      [] a = "vin_run" -> R("vin_started")
      [] a \in {"ae", "awb", "ae_sensor", "isp"} -> R("isp_open")
      [] a \in {"sensor", "clock", "vin_pipe"} -> R("created")
      [] a \in {"vin", "mipi", "raw_pool", "pool", "output"} -> always
      [] OTHER -> <<a, i>>
NoteOf(t, r) ==
    CASE t = "a8" -> Note_a8(r[1], r[2])
      [] t = "mt11" -> IF r = R("sys") THEN R("sys_started") ELSE r
      [] t = "ax" -> Note_ax(r[1], r[2])
      [] t = "app" -> IF r = R("ready") THEN always ELSE r
      [] t = "zr10" -> r

\* Resource r of target t is given back by its own note.
Has(p, u) == \E i \in 1 .. Len(p) : p[i] = u
GivesBack(t, r) == \E act \in {"free", "join"} : Has(CloseSteps(t), Undo(act, r, NoteOf(t, r)))

\* A part of an opening that may run once A is held and N is noted: what a
\* step acquires stands on what is there by then, and the clean-up gives it
\* back by a note that is made by then; nothing that needs undoing is held
\* where the opening returns without a clean-up.
Fits(t, p, A, N) == \A i \in 1 .. Len(p) :
    /\ Starts(p[i]) => p[i].res \subseteq ThreadNames
    /\ p[i].kind = "exit" => /\ A \subseteq Leftover(t)
                             /\ \A j \in 1 .. i - 1 : p[j].res \subseteq Leftover(t)
    /\ \A r \in p[i].res :
          /\ \A q : Uses(t, r, q) => q \in A \/ \E j \in 1 .. i - 1 : Must(p[j]) /\ q \in p[j].res
          /\ \/ r \in Leftover(t)
             \/ /\ GivesBack(t, r)
                /\ \/ NoteOf(t, r) \in N \cup {always} \cup p[i].notes
                   \/ \E j \in 1 .. i - 1 : Must(p[j]) /\ NoteOf(t, r) \in p[j].notes

\* The position of a name in the clean-up of its target; 0 for the names the
\* clean-up does not touch.
Turn_a8(a, i, n) ==
    CASE a = "stop" -> 1 [] a = "capture" -> 2 [] a = "live" -> 3 [] a = "proxy" -> 4
      [] a = "rtsp" -> 5
      [] a = "fd" -> 4 * i + 2 [] a = "recv" -> 4 * i + 3
      [] a = "bind" -> 4 * i + 4 [] a = "chn" -> 4 * i + 5
      [] a = "mjpg_bind" -> 4 * n + 6 [] a = "mjpg" -> 4 * n + 7
      [] a = "mjpg_device" -> 4 * n + 8 [] a = "venc_device" -> 4 * n + 9
      [] a = "port" -> 4 * n + 9 + i
      [] a = "isp_scl" -> 5 * n + 10 [] a = "vif_isp" -> 5 * n + 11
      [] a = "scl_run" -> 5 * n + 12 [] a = "scl_channel" -> 5 * n + 13
      [] a = "scl_device" -> 5 * n + 14 [] a = "isp_port" -> 5 * n + 15
      [] a = "isp_run" -> 5 * n + 16 [] a = "isp_channel" -> 5 * n + 17
      [] a = "isp_device" -> 5 * n + 18 [] a = "vif_port" -> 5 * n + 19
      [] a = "vif_device" -> 5 * n + 20 [] a = "vif_group" -> 5 * n + 21
      [] a = "sensor" -> 5 * n + 22 [] a = "sys" -> 5 * n + 23
      [] a = "libs" -> 5 * n + 24 [] OTHER -> 0
Turn_zr10(a, i, n) ==
    CASE a = "stop" -> 1 [] a = "capture" -> 2 [] a = "live" -> 3 [] a = "proxy" -> 4
      [] a = "rtsp" -> 5
      [] a = "recv" -> 5 * (n - i) + 6 [] a = "fd" -> 5 * (n - i) + 7
      [] a = "bind" -> 5 * (n - i) + 8 [] a = "chn" -> 5 * (n - i) + 9
      [] a = "port" -> 5 * (n - i) + 10
      [] a = "front" -> 5 * n + 6 [] a = "vpe_run" -> 5 * n + 7
      [] a = "vpe" -> 5 * n + 8 [] a = "vif_port" -> 5 * n + 9
      [] a = "vif_device" -> 5 * n + 10 [] a = "sensor" -> 5 * n + 11
      [] a = "sys" -> 5 * n + 12 [] a = "libs" -> 5 * n + 13
      [] a = "lock" -> 5 * n + 14 [] OTHER -> 0
Turn_mt11(a, i, n) ==
    CASE a = "cancel" -> 1 [] a = "focus" -> 2 [] a = "lens" -> 3
      [] a = "thermal_stop" -> 4 [] a = "thermal" -> 5 [] a = "raw_server" -> 6
      [] a = "raw_file" -> 7 [] a = "latest" -> 8 [] a = "stop" -> 9
      [] a = "capture" -> 10 [] a = "live" -> 11 [] a = "proxy" -> 12
      [] a = "rtsp" -> 13
      [] a = "recv" -> 13 + (n + 1 - i) [] a = "bind" -> n + 13 + (n + 1 - i)
      [] a = "chn" -> 2 * n + 13 + (n + 1 - i)
      [] a = "scene" -> 3 * n + 14 [] a = "thermal_vpss" -> 3 * n + 15
      [] a = "vpss" -> 3 * n + 15 + (3 - i) [] a = "vi_vpss" -> 3 * n + 17 + (3 - i)
      [] a = "vi" -> 3 * n + 19 + (3 - i) [] a = "sys" -> 3 * n + 22 [] OTHER -> 0
Turn_ax(a, i, n) ==
    CASE a = "encode" -> i
      [] a = "stop" -> n + 1 [] a = "exposure" -> n + 2
      [] a = "recv" -> n + 2 * i + 1 [] a = "chn" -> n + 2 * i + 2
      [] a = "stream" -> 3 * n + 3 [] a = "dev" -> 3 * n + 4
      [] a = "vin_run" -> 3 * n + 5 [] a = "isp_thread" -> 3 * n + 6
      [] a = "ae" -> 3 * n + 7 [] a = "awb" -> 3 * n + 8
      [] a = "ae_sensor" -> 3 * n + 9 [] a = "isp" -> 3 * n + 10
      [] a = "sensor" -> 3 * n + 11 [] a = "clock" -> 3 * n + 12
      [] a = "vin_pipe" -> 3 * n + 13 [] a = "vin" -> 3 * n + 14
      [] a = "mipi" -> 3 * n + 15 [] a = "raw_pool" -> 3 * n + 16
      [] a = "pool" -> 3 * n + 17 [] a = "output" -> 3 * n + 18 [] OTHER -> 0
Turn_app(a, i, n) ==
    CASE a = "ready" -> 1 [] a = "manual" -> 2 [] a = "mavlink" -> 3
      [] a = "backend" -> 4 [] a = "recording" -> 5 [] a = "media" -> 6
      [] a = "binlog" -> 7 [] a = "vendor_server" -> 8 [] OTHER -> 0
Turn(t, r) ==
    CASE t = "a8" -> Turn_a8(r[1], r[2], Streams)
      [] t = "zr10" -> Turn_zr10(r[1], r[2], Streams)
      [] t = "mt11" -> Turn_mt11(r[1], r[2], Streams)
      [] t = "ax" -> Turn_ax(r[1], r[2], Streams)
      [] t = "app" -> Turn_app(r[1], r[2], Streams)

\* A part of a clean-up that follows lo steps.
Placed(t, p, lo) == \A k \in 1 .. Len(p) :
    /\ Turn(t, p[k].res) = lo + k
    /\ p[k].act \in {"free", "join", "raise"}
    /\ p[k].act = "free" => p[k].res \notin ThreadNames

\* Who stands on what the clean-up gives back comes before it.
Ranked(t) == \A x \in StandsOn(t) :
    /\ x = <<x[1], x[2]>>
    /\ Turn(t, x[2]) > 0 => x[1] \notin Leftover(t) /\ Turn(t, x[1]) < Turn(t, x[2])

\* The opening of a target fits its clean-up, and the clean-up its order.
Sound(t) ==
    /\ IsSeq(OpenSteps(t)) /\ IsSeq(CloseSteps(t))
    /\ Fits(t, OpenSteps(t), {}, {})
    /\ Placed(t, CloseSteps(t), 0)
    /\ Ranked(t)
    /\ ThreadNames \cap Leftover(t) = {}

-----------------------------------------------------------------------------
\* Parts of an opening or a clean-up, one after the other.

\* What indexing and concatenation do.
LEMMA SeqFacts ==
    ASSUME NEW p, IsSeq(p)
    PROVE  Len(p) \in Nat /\ DOMAIN p = 1 .. Len(p)
  BY DEF IsSeq

\* w is p followed by q.
Joined(w, p, q) ==
    /\ IsSeq(w) /\ Len(p) \in Nat /\ Len(q) \in Nat /\ Len(w) = Len(p) + Len(q)
    /\ \A i \in 1 .. Len(p) : i \in 1 .. Len(w) /\ w[i] = p[i]
    /\ \A i \in 1 .. Len(q) : Len(p) + i \in 1 .. Len(w) /\ w[Len(p) + i] = q[i]
    /\ \A i \in 1 .. Len(w) : i \in 1 .. Len(p) \/ \E k \in 1 .. Len(q) : i = Len(p) + k

LEMMA JoinFacts ==
    ASSUME NEW p, NEW q, NEW w, IsSeq(p), IsSeq(q), w = p \o q
    PROVE  Joined(w, p, q)
PROOF
  <1>1. PICK S : p \in Seq(S)
    BY DEF IsSeq
  <1>2. PICK T : q \in Seq(T)
    BY DEF IsSeq
  <1>3. p \in Seq(S \cup T) /\ q \in Seq(S \cup T)
    <2>1. \A i \in 1 .. Len(p) : p[i] \in S \cup T
      BY <1>1
    <2>2. \A i \in 1 .. Len(q) : q[i] \in S \cup T
      BY <1>2
    <2> QED
      BY <1>1, <1>2, <2>1, <2>2
  <1>4. w \in Seq(S \cup T) /\ Len(p) \in Nat /\ Len(q) \in Nat /\ Len(w) = Len(p) + Len(q)
    BY <1>3
  <1>5. \A i \in 1 .. Len(p) : i \in 1 .. Len(w) /\ w[i] = p[i]
    BY <1>3, <1>4
  <1>6. \A i \in 1 .. Len(q) : Len(p) + i \in 1 .. Len(w) /\ w[Len(p) + i] = q[i]
    BY <1>3
  <1>7. \A i \in 1 .. Len(w) : i \in 1 .. Len(p) \/ (i - Len(p) \in 1 .. Len(q) /\ i = Len(p) + (i - Len(p)))
    BY <1>4
  <1> QED
    BY <1>4, <1>5, <1>6, <1>7 DEF IsSeq, Joined

\* A part of an opening on its own: nothing in it returns without a clean-up.
Unbroken(p) == \A i \in 1 .. Len(p) : p[i].kind # "exit"
Stage(t, p, A, N) == IsSeq(p) /\ Fits(t, p, A, N) /\ Unbroken(p)

\* Two parts in a row.
LEMMA GivesJoin ==
    ASSUME NEW p, IsSeq(p), NEW q, IsSeq(q), NEW w, w = p \o q
    PROVE  /\ \A x : Gives(w, x) <=> Gives(p, x) \/ Gives(q, x)
           /\ \A x : Notes(w, x) <=> Notes(p, x) \/ Notes(q, x)
           /\ Unbroken(p) /\ Unbroken(q) => Unbroken(w)
           /\ IsSeq(w)
PROOF
  <1>1. /\ IsSeq(w) /\ Len(p) \in Nat /\ Len(q) \in Nat /\ Len(w) = Len(p) + Len(q)
        /\ \A i \in 1 .. Len(p) : i \in 1 .. Len(w) /\ w[i] = p[i]
        /\ \A i \in 1 .. Len(q) : Len(p) + i \in 1 .. Len(w) /\ w[Len(p) + i] = q[i]
        /\ \A i \in 1 .. Len(w) : i \in 1 .. Len(p) \/ \E k \in 1 .. Len(q) : i = Len(p) + k
    <2>1. Joined(w, p, q)
      BY JoinFacts
    <2> QED
      BY <2>1, Zenon DEF Joined
  <1>2. \A i \in 1 .. Len(w) : (\E j \in 1 .. Len(p) : w[i] = p[j]) \/ (\E j \in 1 .. Len(q) : w[i] = q[j])
    BY <1>1
  <1>3. \A i \in 1 .. Len(p) : \E j \in 1 .. Len(w) : w[j] = p[i]
    BY <1>1
  <1>4. \A i \in 1 .. Len(q) : \E j \in 1 .. Len(w) : w[j] = q[i]
    BY <1>1
  <1>5. \A x : Gives(w, x) <=> Gives(p, x) \/ Gives(q, x)
    BY <1>2, <1>3, <1>4 DEF Gives
  <1>6. \A x : Notes(w, x) <=> Notes(p, x) \/ Notes(q, x)
    BY <1>2, <1>3, <1>4 DEF Notes
  <1>7. Unbroken(p) /\ Unbroken(q) => Unbroken(w)
    BY <1>2 DEF Unbroken
  <1>8. /\ \A x : Gives(w, x) <=> Gives(p, x) \/ Gives(q, x)
        /\ \A x : Notes(w, x) <=> Notes(p, x) \/ Notes(q, x)
        /\ Unbroken(p) /\ Unbroken(q) => Unbroken(w)
        /\ IsSeq(w)
    BY <1>1, <1>5, <1>6, <1>7, Zenon
  <1> QED
    BY <1>8

\* What a part needs is there before it or acquired, or noted, in p.
Supplied(p, A, B) == \A b \in B : b \in A \/ Gives(p, b)
Marked(p, N, M) == \A m \in M : m \in N \/ Notes(p, m)

\* The second part of an opening may count on what the first leaves.
LEMMA FitsJoin ==
    ASSUME NEW t, NEW A, NEW N, NEW B, NEW M, NEW p, IsSeq(p), NEW q, NEW w, w = p \o q,
           Fits(t, p, A, N), Stage(t, q, B, M),
           Supplied(p, A, B), Marked(p, N, M)
    PROVE  Fits(t, w, A, N)
PROOF
  <1>0. IsSeq(q) /\ Fits(t, q, B, M) /\ Unbroken(q)
    BY DEF Stage
  <1>1. /\ IsSeq(w) /\ Len(p) \in Nat /\ Len(q) \in Nat /\ Len(w) = Len(p) + Len(q)
        /\ \A i \in 1 .. Len(p) : i \in 1 .. Len(w) /\ w[i] = p[i]
        /\ \A i \in 1 .. Len(q) : Len(p) + i \in 1 .. Len(w) /\ w[Len(p) + i] = q[i]
        /\ \A i \in 1 .. Len(w) : i \in 1 .. Len(p) \/ \E k \in 1 .. Len(q) : i = Len(p) + k
    <2>1. Joined(w, p, q)
      BY <1>0, JoinFacts
    <2> QED
      BY <2>1, Zenon DEF Joined
  <1> DEFINE Here(i) ==
               /\ Starts(w[i]) => w[i].res \subseteq ThreadNames
               /\ w[i].kind = "exit" => /\ A \subseteq Leftover(t)
                                        /\ \A j \in 1 .. i - 1 : w[j].res \subseteq Leftover(t)
               /\ \A r \in w[i].res :
                     /\ \A x : Uses(t, r, x) => x \in A \/ \E j \in 1 .. i - 1 : Must(w[j]) /\ x \in w[j].res
                     /\ \/ r \in Leftover(t)
                        \/ /\ GivesBack(t, r)
                           /\ \/ NoteOf(t, r) \in N \cup {always} \cup w[i].notes
                              \/ \E j \in 1 .. i - 1 : Must(w[j]) /\ NoteOf(t, r) \in w[j].notes
  <1> SUFFICES ASSUME NEW i \in 1 .. Len(w) PROVE Here(i)
    BY Zenon DEF Fits
  <1>2. CASE i \in 1 .. Len(p)
    <2>1. w[i] = p[i] /\ \A j \in 1 .. i - 1 : w[j] = p[j]
      BY <1>1, <1>2
    <2>2. /\ Starts(p[i]) => p[i].res \subseteq ThreadNames
          /\ p[i].kind = "exit" => /\ A \subseteq Leftover(t)
                                   /\ \A j \in 1 .. i - 1 : p[j].res \subseteq Leftover(t)
          /\ \A r \in p[i].res :
                /\ \A x : Uses(t, r, x) => x \in A \/ \E j \in 1 .. i - 1 : Must(p[j]) /\ x \in p[j].res
                /\ \/ r \in Leftover(t)
                   \/ /\ GivesBack(t, r)
                      /\ \/ NoteOf(t, r) \in N \cup {always} \cup p[i].notes
                         \/ \E j \in 1 .. i - 1 : Must(p[j]) /\ NoteOf(t, r) \in p[j].notes
      BY <1>2, Zenon DEF Fits
    <2> QED
      BY <2>1, <2>2
  <1>3. CASE \E k \in 1 .. Len(q) : i = Len(p) + k
    <2>1. PICK k \in 1 .. Len(q) : i = Len(p) + k
      BY <1>3
    <2>a. k \in Nat
      BY <1>1
    <2>2. w[i] = q[k] /\ k \in Nat
      BY <1>1, <2>1, <2>a
    <2>3. \A j \in 1 .. k - 1 : Len(p) + j \in 1 .. i - 1 /\ w[Len(p) + j] = q[j]
      BY <1>1, <2>1
    <2>4. \A j \in 1 .. Len(p) : j \in 1 .. i - 1 /\ w[j] = p[j]
      BY <1>1, <2>1
    <2>5. /\ Starts(q[k]) => q[k].res \subseteq ThreadNames
          /\ q[k].kind # "exit"
          /\ \A r \in q[k].res :
                /\ \A x : Uses(t, r, x) => x \in B \/ \E j \in 1 .. k - 1 : Must(q[j]) /\ x \in q[j].res
                /\ \/ r \in Leftover(t)
                   \/ /\ GivesBack(t, r)
                      /\ \/ NoteOf(t, r) \in M \cup {always} \cup q[k].notes
                         \/ \E j \in 1 .. k - 1 : Must(q[j]) /\ NoteOf(t, r) \in q[j].notes
      BY <1>0, Zenon DEF Fits, Unbroken
    <2>6. \A x : (x \in B \/ \E j \in 1 .. k - 1 : Must(q[j]) /\ x \in q[j].res)
                 => x \in A \/ \E j \in 1 .. i - 1 : Must(w[j]) /\ x \in w[j].res
      <3> TAKE x
      <3>1. ASSUME Gives(p, x) PROVE \E j \in 1 .. i - 1 : Must(w[j]) /\ x \in w[j].res
        BY <2>4, <3>1 DEF Gives
      <3>2. ASSUME NEW j \in 1 .. k - 1, Must(q[j]), x \in q[j].res
            PROVE  \E l \in 1 .. i - 1 : Must(w[l]) /\ x \in w[l].res
        BY <2>3, <3>2
      <3> QED
        BY <3>1, <3>2 DEF Supplied
    <2>7. \A x : (x \in M \/ \E j \in 1 .. k - 1 : Must(q[j]) /\ x \in q[j].notes)
                 => x \in N \/ \E j \in 1 .. i - 1 : Must(w[j]) /\ x \in w[j].notes
      <3> TAKE x
      <3>1. ASSUME Notes(p, x) PROVE \E j \in 1 .. i - 1 : Must(w[j]) /\ x \in w[j].notes
        BY <2>4, <3>1 DEF Notes
      <3>2. ASSUME NEW j \in 1 .. k - 1, Must(q[j]), x \in q[j].notes
            PROVE  \E l \in 1 .. i - 1 : Must(w[l]) /\ x \in w[l].notes
        BY <2>3, <3>2
      <3> QED
        BY <3>1, <3>2 DEF Marked
    <2>8. ASSUME NEW r \in w[i].res
          PROVE  \/ r \in Leftover(t)
                 \/ /\ GivesBack(t, r)
                    /\ \/ NoteOf(t, r) \in N \cup {always} \cup w[i].notes
                       \/ \E j \in 1 .. i - 1 : Must(w[j]) /\ NoteOf(t, r) \in w[j].notes
      <3> DEFINE note == NoteOf(t, r)
      <3>1. \/ r \in Leftover(t)
            \/ /\ GivesBack(t, r)
               /\ \/ note \in M \cup {always} \cup w[i].notes
                  \/ \E j \in 1 .. k - 1 : Must(q[j]) /\ note \in q[j].notes
        BY <2>2, <2>5, <2>8
      <3> HIDE DEF note
      <3>2. \/ r \in Leftover(t)
            \/ /\ GivesBack(t, r)
               /\ \/ note \in N \cup {always} \cup w[i].notes
                  \/ \E j \in 1 .. i - 1 : Must(w[j]) /\ note \in w[j].notes
        BY <2>7, <3>1
      <3> QED
        BY <3>2 DEF note
    <2>9. \A r \in w[i].res : \A x : Uses(t, r, x) => x \in A \/ \E j \in 1 .. i - 1 : Must(w[j]) /\ x \in w[j].res
      BY <2>2, <2>5, <2>6
    <2> QED
      BY <2>2, <2>5, <2>8, <2>9
  <1> QED
    BY <1>1, <1>2, <1>3

LEMMA HasJoin ==
    ASSUME NEW p, IsSeq(p), NEW q, IsSeq(q), NEW w, w = p \o q
    PROVE  \A u : Has(w, u) <=> (Has(p, u) \/ Has(q, u))
PROOF
  <1>1. /\ IsSeq(w) /\ Len(p) \in Nat /\ Len(q) \in Nat /\ Len(w) = Len(p) + Len(q)
        /\ \A i \in 1 .. Len(p) : i \in 1 .. Len(w) /\ w[i] = p[i]
        /\ \A i \in 1 .. Len(q) : Len(p) + i \in 1 .. Len(w) /\ w[Len(p) + i] = q[i]
        /\ \A i \in 1 .. Len(w) : i \in 1 .. Len(p) \/ \E k \in 1 .. Len(q) : i = Len(p) + k
    <2>1. Joined(w, p, q)
      BY JoinFacts
    <2> QED
      BY <2>1, Zenon DEF Joined
  <1>2. ASSUME NEW u PROVE Has(w, u) <=> (Has(p, u) \/ Has(q, u))
    <2>1. \A i \in 1 .. Len(w) : (\E j \in 1 .. Len(p) : w[i] = p[j]) \/ (\E j \in 1 .. Len(q) : w[i] = q[j])
      BY <1>1
    <2>2. \A i \in 1 .. Len(p) : \E j \in 1 .. Len(w) : w[j] = p[i]
      BY <1>1
    <2>3. \A i \in 1 .. Len(q) : \E j \in 1 .. Len(w) : w[j] = q[i]
      BY <1>1
    <2>4. Has(w, u) => Has(p, u) \/ Has(q, u)
      BY <2>1, Zenon DEF Has
    <2>5. Has(p, u) => Has(w, u)
      BY <2>2, Zenon DEF Has
    <2>6. Has(q, u) => Has(w, u)
      BY <2>3, Zenon DEF Has
    <2> QED
      BY <2>4, <2>5, <2>6
  <1> QED
    BY <1>2

\* w is one sequence and then another.
Follows(w, p, q) == w = p \o q

\* A part of a clean-up that begins after lo steps and ends after hi.
Undoing(t, p, lo, hi) == IsSeq(p) /\ lo \in Nat /\ hi = lo + Len(p) /\ Placed(t, p, lo)
Both(w, p, q) == \A u : Has(w, u) <=> (Has(p, u) \/ Has(q, u))

Covers(w, p) == \A u : Has(p, u) => Has(w, u)

\* The second part of a clean-up goes on counting where the first ends.
LEMMA UndoJoin ==
    ASSUME NEW t, NEW p, NEW q, NEW w, Follows(w, p, q), NEW lo, NEW mid, NEW hi,
           Undoing(t, p, lo, mid), Undoing(t, q, mid, hi)
    PROVE  Undoing(t, w, lo, hi) /\ Both(w, p, q)
PROOF
  <1>0. /\ IsSeq(p) /\ IsSeq(q) /\ lo \in Nat /\ mid = lo + Len(p) /\ hi = mid + Len(q)
        /\ Placed(t, p, lo) /\ Placed(t, q, mid) /\ w = p \o q
    BY DEF Undoing, Follows
  <1>1. /\ IsSeq(w) /\ Len(p) \in Nat /\ Len(q) \in Nat /\ Len(w) = Len(p) + Len(q)
        /\ \A i \in 1 .. Len(p) : i \in 1 .. Len(w) /\ w[i] = p[i]
        /\ \A i \in 1 .. Len(q) : Len(p) + i \in 1 .. Len(w) /\ w[Len(p) + i] = q[i]
        /\ \A i \in 1 .. Len(w) : i \in 1 .. Len(p) \/ \E k \in 1 .. Len(q) : i = Len(p) + k
    <2>1. Joined(w, p, q)
      BY <1>0, JoinFacts
    <2> QED
      BY <2>1, Zenon DEF Joined
  <1>2. ASSUME NEW i \in 1 .. Len(w)
        PROVE  /\ Turn(t, w[i].res) = lo + i
               /\ w[i].act \in {"free", "join", "raise"}
               /\ w[i].act = "free" => w[i].res \notin ThreadNames
    <2>1. CASE i \in 1 .. Len(p)
      BY <1>0, <1>1, <2>1 DEF Placed
    <2>2. ASSUME NEW k \in 1 .. Len(q), i = Len(p) + k
          PROVE  /\ Turn(t, w[i].res) = lo + i
                 /\ w[i].act \in {"free", "join", "raise"}
                 /\ w[i].act = "free" => w[i].res \notin ThreadNames
      <3>1. w[i] = q[k] /\ mid + k = lo + i
        BY <1>0, <1>1, <2>2
      <3> QED
        BY <1>0, <3>1 DEF Placed
    <2> QED
      BY <1>1, <2>1, <2>2
  <1>3. Placed(t, w, lo)
    BY <1>2, Zenon DEF Placed
  <1>4. Both(w, p, q)
    BY <1>0, HasJoin, Zenon DEF Both
  <1>5. hi = lo + Len(w)
    BY <1>0, <1>1
  <1> QED
    BY <1>0, <1>1, <1>3, <1>4, <1>5, Zenon DEF Undoing

-----------------------------------------------------------------------------
\* Parts repeated once per encoder channel, for any number of channels.

LEMMA LeastNumber ==
    ASSUME NEW S, S \subseteq Nat, S # {}
    PROVE  \E n \in S : \A m \in S : n <= m
PROOF
  <1>1. PICK x \in S : \A y \in S : ~(<<y, x>> \in OpToRel(<, Nat))
    BY WFMin, NatLessThanWellFounded, Zenon
  <1>2. \A y \in S : ~(y < x)
    BY <1>1 DEF OpToRel
  <1>3. x \in Nat /\ \A y \in S : y \in Nat
    OBVIOUS
  <1> QED
    BY <1>2, <1>3

\* FlattenSeq of the first m sequences.
FlatUpTo(seqs, m, g) == g = [i \in 1 .. m |-> IF i = 1 THEN seqs[i] ELSE g[i - 1] \o seqs[i]]

LEMMA FlatExists ==
    ASSUME NEW seqs, NEW n \in Nat
    PROVE  \A m \in 1 .. n : \E g : FlatUpTo(seqs, m, g)
PROOF
  <1> DEFINE Bad == {m \in 1 .. n : ~\E g : FlatUpTo(seqs, m, g)}
  <1> SUFFICES ASSUME Bad # {} PROVE FALSE
    OBVIOUS
  <1>0. Bad \subseteq Nat
    OBVIOUS
  <1>1. PICK m \in Bad : \A k \in Bad : m <= k
    BY <1>0, LeastNumber
  <1>2. m \in Nat /\ 1 <= m /\ m <= n
    OBVIOUS
  <1>3. CASE m = 1
    <2> DEFINE g == [i \in 1 .. 1 |-> seqs[1]]
    <2>1. FlatUpTo(seqs, 1, g)
      BY DEF FlatUpTo
    <2> QED
      BY <1>3, <2>1
  <1>4. CASE m # 1
    <2>1. m - 1 \in 1 .. n /\ m - 1 \notin Bad
      BY <1>1, <1>2, <1>4
    <2>2. PICK g : FlatUpTo(seqs, m - 1, g)
      BY <2>1
    <2> DEFINE e == g[m - 1] \o seqs[m]
    <2> DEFINE h == [i \in 1 .. m |-> IF i = m THEN e ELSE g[i]]
    <2> HIDE DEF e
    <2>3. \A i \in 1 .. m - 1 : h[i] = g[i]
      <3>1. \A i \in 1 .. m - 1 : i \in 1 .. m /\ i # m
        BY <1>2
      <3> QED
        BY <3>1
    <2>4. h[m] = e
      <3>1. m \in 1 .. m
        BY <1>2
      <3> QED
        BY <3>1
    <2>5. \A i \in 1 .. m - 1 : g[i] = IF i = 1 THEN seqs[i] ELSE g[i - 1] \o seqs[i]
      BY <2>2, Zenon DEF FlatUpTo
    <2>6. h = [i \in 1 .. m |-> h[i]]
      OBVIOUS
    <2> HIDE DEF h
    <2>7. ASSUME NEW i \in 1 .. m
          PROVE  h[i] = IF i = 1 THEN seqs[i] ELSE h[i - 1] \o seqs[i]
      <3>1. CASE i = m
        <4>1. i # 1 /\ i - 1 \in 1 .. m - 1
          BY <1>2, <1>4, <3>1
        <4> QED
          BY <2>3, <2>4, <3>1, <4>1 DEF e
      <3>2. CASE i # m
        <4>1. i \in 1 .. m - 1 /\ (i # 1 => i - 1 \in 1 .. m - 1)
          BY <1>2, <3>2
        <4> QED
          BY <2>3, <2>5, <4>1
      <3> QED
        BY <3>1, <3>2
    <2>8. FlatUpTo(seqs, m, h)
      BY <2>6, <2>7, Zenon DEF FlatUpTo
    <2> QED
      BY <2>8
  <1> QED
    BY <1>3, <1>4

LEMMA FlatIs ==
    ASSUME NEW seqs, Len(seqs) \in Nat, Len(seqs) # 0
    PROVE  \E g : FlatUpTo(seqs, Len(seqs), g) /\ FlattenSeq(seqs) = g[Len(seqs)]
PROOF
  <1> DEFINE f == CHOOSE g : g = [i \in 1 .. Len(seqs) |-> IF i = 1 THEN seqs[i] ELSE g[i - 1] \o seqs[i]]
  <1>1. FlattenSeq(seqs) = f[Len(seqs)]
    BY DEF FlattenSeq
  <1>2. \A g : FlatUpTo(seqs, Len(seqs), g) <=> g = [i \in 1 .. Len(seqs) |-> IF i = 1 THEN seqs[i] ELSE g[i - 1] \o seqs[i]]
    BY Zenon DEF FlatUpTo
  <1>3. Len(seqs) \in 1 .. Len(seqs)
    OBVIOUS
  <1>4. \E g : FlatUpTo(seqs, Len(seqs), g)
    BY <1>3, FlatExists
  <1>5. FlatUpTo(seqs, Len(seqs), f)
    BY <1>2, <1>4, Zenon
  <1> QED
    BY <1>1, <1>5

\* Of what the first m sequences make, off[i] the length of those before the
\* i-th.
Pieces(s, off, m, w) ==
    /\ IsSeq(w) /\ Len(w) = off[m + 1]
    /\ \A i \in 1 .. m : \A k \in 1 .. Len(s[i]) : off[i] + k \in 1 .. Len(w) /\ w[off[i] + k] = s[i][k]
    /\ \A j \in 1 .. Len(w) : \E i \in 1 .. m : \E k \in 1 .. Len(s[i]) : j = off[i] + k

LEMMA FlattenPieces ==
    ASSUME NEW n \in Nat \ {0}, NEW s, Len(s) = n, \A i \in 1 .. n : IsSeq(s[i]),
           NEW off, \A i \in 1 .. n + 1 : off[i] \in Nat, off[1] = 0,
           \A i \in 1 .. n : off[i + 1] = off[i] + Len(s[i])
    PROVE  Pieces(s, off, n, FlattenSeq(s))
PROOF
  <1>1. PICK g : FlatUpTo(s, n, g) /\ FlattenSeq(s) = g[n]
    BY FlatIs
  <1>2. \A i \in 1 .. n : g[i] = IF i = 1 THEN s[i] ELSE g[i - 1] \o s[i]
    BY <1>1, Zenon DEF FlatUpTo
  <1> DEFINE Bad == {m \in 1 .. n : ~Pieces(s, off, m, g[m])}
  <1> SUFFICES ASSUME Bad # {} PROVE FALSE
    <2>1. n \in 1 .. n
      OBVIOUS
    <2> QED
      BY <1>1, <2>1
  <1>3. Bad \subseteq Nat
    OBVIOUS
  <1>4. PICK m \in Bad : \A k \in Bad : m <= k
    BY <1>3, LeastNumber
  <1>5. m \in 1 .. n /\ ~Pieces(s, off, m, g[m])
    OBVIOUS
  <1>6. CASE m = 1
    <2>1. g[1] = s[1] /\ 1 \in 1 .. n
      BY <1>2
    <2>2. IsSeq(s[1]) /\ Len(s[1]) \in Nat
      BY <2>1, SeqFacts
    <2>3. off[1 + 1] = Len(s[1])
      BY <2>1, <2>2
    <2> DEFINE x == s[1]
    <2>4. x = s[1]
      OBVIOUS
    <2> HIDE DEF x
    <2>5. \A j \in 1 .. Len(x) : off[1] + j = j
      BY <2>2, <2>4
    <2>6. Pieces(s, off, 1, x)
      <3>1. IsSeq(x) /\ Len(x) = off[1 + 1]
        BY <2>2, <2>3, <2>4
      <3>2. ASSUME NEW i \in 1 .. 1, NEW k \in 1 .. Len(s[i])
            PROVE  off[i] + k \in 1 .. Len(x) /\ x[off[i] + k] = s[i][k]
        <4>1. i = 1
          OBVIOUS
        <4> QED
          BY <2>4, <2>5, <3>2, <4>1
      <3>3. \A j \in 1 .. Len(x) : 1 \in 1 .. 1 /\ j \in 1 .. Len(s[1]) /\ j = off[1] + j
        BY <2>4, <2>5
      <3> QED
        BY <3>1, <3>2, <3>3, Zenon DEF Pieces
    <2> QED
      BY <1>5, <1>6, <2>1, <2>4, <2>6
  <1>7. CASE m # 1
    <2>1. m - 1 \in 1 .. n /\ m - 1 \notin Bad /\ (m - 1) + 1 = m /\ m \in 1 .. n + 1
      BY <1>4, <1>5, <1>7
    <2> DEFINE p == g[m - 1]
               q == s[m]
               w == g[m]
    <2>2. Pieces(s, off, m - 1, p)
      BY <2>1
    <2>3. IsSeq(p) /\ IsSeq(q)
      BY <1>5, <2>2 DEF Pieces
    <2>4. w = p \o q
      BY <1>2, <1>5, <1>7
    <2> HIDE DEF p, q, w
    <2>5. Joined(w, p, q)
      BY <2>3, <2>4, JoinFacts
    <2>6. Len(p) = off[m]
      BY <2>1, <2>2 DEF Pieces
    <2>7. off[m + 1] = off[m] + Len(q) /\ off[m] \in Nat
      BY <1>5, <2>1 DEF q
    <2>8. IsSeq(w) /\ Len(w) = off[m + 1]
      BY <2>5, <2>6, <2>7 DEF Joined
    <2>9. ASSUME NEW i \in 1 .. m, NEW k \in 1 .. Len(s[i])
          PROVE  off[i] + k \in 1 .. Len(w) /\ w[off[i] + k] = s[i][k]
      <3>1. CASE i = m
        BY <2>5, <2>6, <2>9, <3>1 DEF Joined, q
      <3>2. CASE i # m
        <4>1. i \in 1 .. m - 1
          BY <1>5, <3>2
        <4>2. off[i] + k \in 1 .. Len(p) /\ p[off[i] + k] = s[i][k]
          BY <2>2, <4>1, Zenon DEF Pieces
        <4> QED
          BY <2>5, <4>2, Zenon DEF Joined
      <3> QED
        BY <3>1, <3>2
    <2>10. ASSUME NEW j \in 1 .. Len(w) PROVE \E i \in 1 .. m : \E k \in 1 .. Len(s[i]) : j = off[i] + k
      <3>1. CASE j \in 1 .. Len(p)
        <4>1. PICK i \in 1 .. m - 1 : \E k \in 1 .. Len(s[i]) : j = off[i] + k
          BY <2>2, <3>1, Zenon DEF Pieces
        <4>2. i \in 1 .. m
          BY <1>5
        <4> QED
          BY <4>1, <4>2
      <3>2. CASE \E k \in 1 .. Len(q) : j = Len(p) + k
        <4>1. m \in 1 .. m
          BY <1>5
        <4> QED
          BY <2>6, <3>2, <4>1 DEF q
      <3> QED
        BY <2>5, <3>1, <3>2, Zenon DEF Joined
    <2>11. Pieces(s, off, m, w)
      BY <2>8, <2>9, <2>10, Zenon DEF Pieces
    <2> QED
      BY <1>5, <2>11 DEF w
  <1> QED
    BY <1>6, <1>7

\* Pieces that are all of the same length.
Evenly(s, n, d, w) ==
    /\ IsSeq(w) /\ Len(w) = d * n
    /\ \A i \in 1 .. n : \A k \in 1 .. d :
          d * (i - 1) + k \in 1 .. d * n /\ w[d * (i - 1) + k] = s[i][k]
    /\ \A j \in 1 .. d * n : \E i \in 1 .. n : \E k \in 1 .. d : j = d * (i - 1) + k

LEMMA EvenPieces ==
    ASSUME NEW n \in Nat \ {0}, NEW s, Len(s) = n, NEW d \in {1, 2, 4, 5, 7},
           \A i \in 1 .. n : IsSeq(s[i]) /\ Len(s[i]) = d
    PROVE  Evenly(s, n, d, FlattenSeq(s))
PROOF
  <1> DEFINE off == [i \in 1 .. n + 1 |-> d * (i - 1)]
             w == FlattenSeq(s)
  <1>1. \A i \in 1 .. n + 1 : off[i] \in Nat /\ off[i] = d * (i - 1)
    OBVIOUS
  <1>2. \A i \in 1 .. n : i \in 1 .. n + 1 /\ i + 1 \in 1 .. n + 1 /\ d * ((i + 1) - 1) = d * (i - 1) + d
    OBVIOUS
  <1>3. 1 \in 1 .. n + 1 /\ d * (1 - 1) = 0 /\ n + 1 \in 1 .. n + 1 /\ d * ((n + 1) - 1) = d * n
    OBVIOUS
  <1> HIDE DEF off
  <1>4. off[1] = 0 /\ \A i \in 1 .. n : off[i + 1] = off[i] + Len(s[i])
    BY <1>1, <1>2, <1>3
  <1>5. Pieces(s, off, n, w)
    BY <1>1, <1>4, FlattenPieces
  <1> HIDE DEF w
  <1>6. IsSeq(w) /\ Len(w) = d * n
    BY <1>1, <1>3, <1>5 DEF Pieces
  <1>7. \A i \in 1 .. n : \A k \in 1 .. d :
           d * (i - 1) + k \in 1 .. d * n /\ w[d * (i - 1) + k] = s[i][k]
    <2> TAKE i \in 1 .. n
    <2> TAKE k \in 1 .. d
    <2>1. off[i] = d * (i - 1) /\ Len(s[i]) = d
      BY <1>1, <1>2
    <2>2. off[i] + k \in 1 .. Len(w) /\ w[off[i] + k] = s[i][k]
      BY <1>5, <2>1, Zenon DEF Pieces
    <2> QED
      BY <1>6, <2>1, <2>2
  <1>8. \A j \in 1 .. d * n : \E i \in 1 .. n : \E k \in 1 .. d : j = d * (i - 1) + k
    <2> TAKE j \in 1 .. d * n
    <2>1. PICK i \in 1 .. n : \E k \in 1 .. Len(s[i]) : j = off[i] + k
      BY <1>5, <1>6 DEF Pieces
    <2>2. off[i] = d * (i - 1) /\ Len(s[i]) = d
      BY <1>1, <1>2
    <2> QED
      BY <2>1, <2>2
  <1> QED
    BY <1>6, <1>7, <1>8, Zenon DEF Evenly, w

\* One part per encoder channel (ForAll), each fit by itself.
LEMMA StreamsFit ==
    ASSUME NEW t, NEW n \in Nat \ {0}, NEW s, Len(s) = n, NEW d \in {1, 2, 4, 5, 7}, NEW A, NEW N,
           \A i \in 1 .. n : Stage(t, s[i], A, N) /\ Len(s[i]) = d
    PROVE  /\ Stage(t, FlattenSeq(s), A, N)
           /\ \A i \in 1 .. n : \A x : Gives(s[i], x) => Gives(FlattenSeq(s), x)
PROOF
  <1> DEFINE w == FlattenSeq(s)
  <1>0. \A i \in 1 .. n : IsSeq(s[i]) /\ Len(s[i]) = d
    BY DEF Stage
  <1>1. /\ IsSeq(w) /\ Len(w) = d * n
        /\ \A i \in 1 .. n : \A k \in 1 .. d :
              d * (i - 1) + k \in 1 .. d * n /\ w[d * (i - 1) + k] = s[i][k]
        /\ \A j \in 1 .. d * n : \E i \in 1 .. n : \E k \in 1 .. d : j = d * (i - 1) + k
    <2>1. Evenly(s, n, d, w)
      BY <1>0, EvenPieces
    <2> QED
      BY <2>1, Zenon DEF Evenly
  <1> HIDE DEF w
  <1> DEFINE Here(i) ==
               /\ Starts(w[i]) => w[i].res \subseteq ThreadNames
               /\ w[i].kind # "exit"
               /\ \A r \in w[i].res :
                     /\ \A x : Uses(t, r, x) => x \in A \/ \E j \in 1 .. i - 1 : Must(w[j]) /\ x \in w[j].res
                     /\ \/ r \in Leftover(t)
                        \/ /\ GivesBack(t, r)
                           /\ \/ NoteOf(t, r) \in N \cup {always} \cup w[i].notes
                              \/ \E j \in 1 .. i - 1 : Must(w[j]) /\ NoteOf(t, r) \in w[j].notes
  <1>2. ASSUME NEW j \in 1 .. Len(w) PROVE Here(j)
    <2>1. PICK i \in 1 .. n, k \in 1 .. d : j = d * (i - 1) + k
      BY <1>1, <1>2
    <2> DEFINE q == s[i]
    <2>2. w[j] = q[k]
      BY <1>1, <2>1
    <2>3. \A l \in 1 .. k - 1 : d * (i - 1) + l \in 1 .. j - 1 /\ w[d * (i - 1) + l] = q[l]
      <3> TAKE l \in 1 .. k - 1
      <3>1. l \in 1 .. d /\ l \in Nat /\ k \in Nat /\ l < k
        OBVIOUS
      <3>2. d * (i - 1) \in Nat
        OBVIOUS
      <3>3. d * (i - 1) + l \in 1 .. j - 1
        BY <2>1, <3>1, <3>2
      <3> QED
        BY <1>1, <3>1, <3>3
    <2> HIDE DEF q
    <2>4. Fits(t, q, A, N) /\ Unbroken(q) /\ k \in 1 .. Len(q)
      BY DEF Stage, q
    <2>5. /\ Starts(q[k]) => q[k].res \subseteq ThreadNames
          /\ q[k].kind # "exit"
          /\ \A r \in q[k].res :
                /\ \A x : Uses(t, r, x) => x \in A \/ \E l \in 1 .. k - 1 : Must(q[l]) /\ x \in q[l].res
                /\ \/ r \in Leftover(t)
                   \/ /\ GivesBack(t, r)
                      /\ \/ NoteOf(t, r) \in N \cup {always} \cup q[k].notes
                         \/ \E l \in 1 .. k - 1 : Must(q[l]) /\ NoteOf(t, r) \in q[l].notes
      BY <2>4, Zenon DEF Fits, Unbroken
    <2>6. \A x : (\E l \in 1 .. k - 1 : Must(q[l]) /\ x \in q[l].res)
                 => \E l \in 1 .. j - 1 : Must(w[l]) /\ x \in w[l].res
      BY <2>3
    <2>7. \A x : (\E l \in 1 .. k - 1 : Must(q[l]) /\ x \in q[l].notes)
                 => \E l \in 1 .. j - 1 : Must(w[l]) /\ x \in w[l].notes
      BY <2>3
    <2>8. ASSUME NEW r \in w[j].res
          PROVE  \/ r \in Leftover(t)
                 \/ /\ GivesBack(t, r)
                    /\ \/ NoteOf(t, r) \in N \cup {always} \cup w[j].notes
                       \/ \E l \in 1 .. j - 1 : Must(w[l]) /\ NoteOf(t, r) \in w[l].notes
      <3> DEFINE note == NoteOf(t, r)
      <3>1. \/ r \in Leftover(t)
            \/ /\ GivesBack(t, r)
               /\ \/ note \in N \cup {always} \cup w[j].notes
                  \/ \E l \in 1 .. k - 1 : Must(q[l]) /\ note \in q[l].notes
        BY <2>2, <2>5, <2>8
      <3> HIDE DEF note
      <3>2. \/ r \in Leftover(t)
            \/ /\ GivesBack(t, r)
               /\ \/ note \in N \cup {always} \cup w[j].notes
                  \/ \E l \in 1 .. j - 1 : Must(w[l]) /\ note \in w[l].notes
        BY <2>7, <3>1
      <3> QED
        BY <3>2 DEF note
    <2>9. \A r \in w[j].res : \A x : Uses(t, r, x) => x \in A \/ \E l \in 1 .. j - 1 : Must(w[l]) /\ x \in w[l].res
      BY <2>2, <2>5, <2>6
    <2> QED
      BY <2>2, <2>5, <2>8, <2>9
  <1>3. Stage(t, w, A, N)
    <2>1. Unbroken(w)
      BY <1>2 DEF Unbroken
    <2>2. Fits(t, w, A, N)
      BY <1>2 DEF Fits
    <2> QED
      BY <1>1, <2>1, <2>2 DEF Stage
  <1>4. ASSUME NEW i \in 1 .. n, NEW x, Gives(s[i], x) PROVE Gives(w, x)
    <2>1. PICK k \in 1 .. d : Must(s[i][k]) /\ x \in s[i][k].res
      BY <1>0, <1>4 DEF Gives
    <2>2. d * (i - 1) + k \in 1 .. Len(w) /\ w[d * (i - 1) + k] = s[i][k]
      BY <1>1
    <2> QED
      BY <2>1, <2>2 DEF Gives
  <1> QED
    BY <1>3, <1>4 DEF w

PlacedAll(t, s, n, lo, d) ==
    \A i \in 1 .. n : IsSeq(s[i]) /\ Len(s[i]) = d /\ Placed(t, s[i], lo + d * (i - 1))

StreamsDone(t, s, n, lo, d, w) ==
    /\ IsSeq(w) /\ Len(w) = d * n /\ Placed(t, w, lo)
    /\ \A i \in 1 .. n : \A u : Has(s[i], u) => Has(w, u)

LEMMA StreamsPlaced ==
    ASSUME NEW t, NEW n \in Nat \ {0}, NEW s, Len(s) = n, NEW d \in {1, 2, 4, 5, 7}, NEW lo \in Nat,
           PlacedAll(t, s, n, lo, d)
    PROVE  StreamsDone(t, s, n, lo, d, FlattenSeq(s))
PROOF
  <1> DEFINE w == FlattenSeq(s)
  <1>0. \A i \in 1 .. n : IsSeq(s[i]) /\ Len(s[i]) = d /\ Placed(t, s[i], lo + d * (i - 1))
    BY DEF PlacedAll
  <1>1. /\ IsSeq(w) /\ Len(w) = d * n
        /\ \A i \in 1 .. n : \A k \in 1 .. d :
              d * (i - 1) + k \in 1 .. d * n /\ w[d * (i - 1) + k] = s[i][k]
        /\ \A j \in 1 .. d * n : \E i \in 1 .. n : \E k \in 1 .. d : j = d * (i - 1) + k
    <2>1. Evenly(s, n, d, w)
      BY <1>0, EvenPieces
    <2> QED
      BY <2>1, Zenon DEF Evenly
  <1> HIDE DEF w
  <1>2. ASSUME NEW j \in 1 .. Len(w)
        PROVE  /\ Turn(t, w[j].res) = lo + j
               /\ w[j].act \in {"free", "join", "raise"}
               /\ w[j].act = "free" => w[j].res \notin ThreadNames
    <2>1. PICK i \in 1 .. n, k \in 1 .. d : j = d * (i - 1) + k
      BY <1>1, <1>2
    <2>2. w[j] = s[i][k] /\ k \in 1 .. Len(s[i])
      BY <1>0, <1>1, <2>1
    <2>3. d * (i - 1) \in Nat
      OBVIOUS
    <2>4. (lo + d * (i - 1)) + k = lo + j
      BY <2>1, <2>3
    <2>5. /\ Turn(t, s[i][k].res) = (lo + d * (i - 1)) + k
          /\ s[i][k].act \in {"free", "join", "raise"}
          /\ s[i][k].act = "free" => s[i][k].res \notin ThreadNames
      BY <1>0, <2>2, Zenon DEF Placed
    <2> QED
      BY <2>2, <2>4, <2>5
  <1>3. Placed(t, w, lo)
    BY <1>2, Zenon DEF Placed
  <1>4. ASSUME NEW i \in 1 .. n, NEW u, Has(s[i], u) PROVE Has(w, u)
    <2>1. PICK k \in 1 .. d : s[i][k] = u
      BY <1>0, <1>4 DEF Has
    <2>2. d * (i - 1) + k \in 1 .. Len(w) /\ w[d * (i - 1) + k] = s[i][k]
      BY <1>1
    <2> QED
      BY <2>1, <2>2 DEF Has
  <1> QED
    BY <1>1, <1>3, <1>4, Zenon DEF StreamsDone, w

\* What a step of an opening, and of a clean-up, is made of.
StepIs(s, kind, res, notes) == s.kind = kind /\ s.res = res /\ s.notes = notes
LEMMA UndoIs ==
    \A act, r, n : Undo(act, r, n).act = act /\ Undo(act, r, n).res = r /\ Undo(act, r, n).note = n
  BY DEF Undo

\* A clean-up done once per encoder channel, d steps each.
LEMMA UndoStreams ==
    ASSUME NEW t, NEW n \in Nat \ {0}, NEW s, Len(s) = n, NEW d \in {1, 2, 4, 5, 7}, NEW lo \in Nat,
           \A i \in 1 .. n : Undoing(t, s[i], lo + d * (i - 1), lo + d * i)
    PROVE  /\ Undoing(t, FlattenSeq(s), lo, lo + d * n)
           /\ \A i \in 1 .. n : \A u : Has(s[i], u) => Has(FlattenSeq(s), u)
PROOF
  <1>1. PlacedAll(t, s, n, lo, d)
    <2> SUFFICES \A i \in 1 .. n : IsSeq(s[i]) /\ Len(s[i]) = d /\ Placed(t, s[i], lo + d * (i - 1))
      BY Zenon DEF PlacedAll
    <2> TAKE i \in 1 .. n
    <2>1. IsSeq(s[i]) /\ lo + d * i = (lo + d * (i - 1)) + Len(s[i]) /\ Placed(t, s[i], lo + d * (i - 1))
      BY Zenon DEF Undoing
    <2>2. d * i = d * (i - 1) + d /\ d * (i - 1) \in Nat
      OBVIOUS
    <2>3. Len(s[i]) \in Nat
      BY <2>1, SeqFacts
    <2> QED
      BY <2>1, <2>2, <2>3
  <1> DEFINE w == FlattenSeq(s)
  <1>2. StreamsDone(t, s, n, lo, d, w)
    BY <1>1, StreamsPlaced
  <1> HIDE DEF w
  <1>3. lo \in Nat /\ Len(w) = d * n /\ IsSeq(w) /\ Placed(t, w, lo)
        /\ \A i \in 1 .. n : \A u : Has(s[i], u) => Has(w, u)
    BY <1>2, Zenon DEF StreamsDone
  <1>4. Undoing(t, w, lo, lo + d * n)
    BY <1>3 DEF Undoing
  <1> QED
    BY <1>3, <1>4 DEF w

\* Part w leaves held what p or q leaves.
GivenBy(w, p, q) == \A x : Gives(w, x) <=> (Gives(p, x) \/ Gives(q, x))

\* Two parts of an opening.
LEMMA StageJoin ==
    ASSUME NEW t, NEW A, NEW N, NEW B, NEW M, NEW p, NEW q, NEW w, Follows(w, p, q),
           Stage(t, p, A, N), Stage(t, q, B, M),
           Supplied(p, A, B), Marked(p, N, M)
    PROVE  Stage(t, w, A, N) /\ GivenBy(w, p, q)
PROOF
  <1>1. IsSeq(p) /\ IsSeq(q) /\ Fits(t, p, A, N) /\ Unbroken(p) /\ Unbroken(q)
    BY DEF Stage
  <1>0. w = p \o q
    BY DEF Follows
  <1>2. Fits(t, w, A, N)
    BY <1>0, <1>1, FitsJoin
  <1>3. /\ \A x : Gives(w, x) <=> Gives(p, x) \/ Gives(q, x)
        /\ \A x : Notes(w, x) <=> Notes(p, x) \/ Notes(q, x)
        /\ Unbroken(w) /\ IsSeq(w)
    BY <1>0, <1>1, GivesJoin
  <1> QED
    BY <1>1, <1>2, <1>3 DEF Stage, GivenBy

\* An opening from its first step: it may return early.
Begins(t, p, A, N) == IsSeq(p) /\ Fits(t, p, A, N)

LEMMA BeginJoin ==
    ASSUME NEW t, NEW A, NEW N, NEW B, NEW M, NEW p, NEW q, NEW w, Follows(w, p, q),
           Begins(t, p, A, N), Stage(t, q, B, M),
           Supplied(p, A, B), Marked(p, N, M)
    PROVE  Begins(t, w, A, N) /\ GivenBy(w, p, q)
PROOF
  <1>1. IsSeq(p) /\ IsSeq(q) /\ Fits(t, p, A, N) /\ w = p \o q
    BY DEF Stage, Begins, Follows
  <1>2. Fits(t, w, A, N)
    BY <1>1, FitsJoin
  <1>3. (\A x : Gives(w, x) <=> Gives(p, x) \/ Gives(q, x)) /\ IsSeq(w)
    BY <1>1, GivesJoin
  <1> QED
    BY <1>2, <1>3 DEF Begins, GivenBy

\* The three things a part must meet, apart.
Stands(t, p, A) == \A j \in 1 .. Len(p) : \A r \in p[j].res : \A q : Uses(t, r, q) =>
    q \in A \/ \E k \in 1 .. j - 1 : Must(p[k]) /\ q \in p[k].res
Returned(t, p, N) == \A j \in 1 .. Len(p) : \A r \in p[j].res :
    \/ r \in Leftover(t)
    \/ /\ GivesBack(t, r)
       /\ \/ NoteOf(t, r) \in N \cup {always} \cup p[j].notes
          \/ \E k \in 1 .. j - 1 : Must(p[k]) /\ NoteOf(t, r) \in p[k].notes
Spawns(p) == \A j \in 1 .. Len(p) : Starts(p[j]) => p[j].res \subseteq ThreadNames

LEMMA LitStage ==
    ASSUME NEW t, NEW S, NEW p \in Seq(S), NEW A, NEW N, Stands(t, p, A), Returned(t, p, N), Spawns(p), Unbroken(p)
    PROVE  Stage(t, p, A, N)
PROOF
  <1>1. Fits(t, p, A, N)
    BY DEF Fits, Stands, Returned, Spawns, Unbroken
  <1> QED
    BY <1>1 DEF Stage, IsSeq

\* Calls that acquire nothing.
LEMMA TriesFit ==
    ASSUME NEW t, NEW n \in Nat, NEW A, NEW N
    PROVE  Stage(t, Tries(n), A, N)
PROOF
  <1> DEFINE p == Tries(n)
  <1>1. IsSeq(p) /\ \A i \in 1 .. Len(p) : StepIs(p[i], "must", {}, {})
    <2>1. p \in Seq({MustCall})
      BY DEF Tries
    <2> QED
      BY <2>1 DEF IsSeq, MustCall, StepOf, StepIs
  <1> HIDE DEF p
  <1>2. Stage(t, p, A, N)
    BY <1>1 DEF Stage, Fits, Unbroken, Starts, StepIs
  <1> QED
    BY <1>2 DEF p

\* One resource per encoder channel.
Each(name) == {<<name, j>> : j \in 1 .. Streams}
Two(name) == {<<name, j>> : j \in 1 .. 2}

-----------------------------------------------------------------------------
\* The SIYI A8's opening and clean-up, part by part.

\* What stands on what (StandsOn), pair by pair.
LEMMA A8_pairs ==
    ASSUME NEW x \in StandsOn("a8")
    PROVE  \/ \E i \in 1 .. Streams :
                 \/ x = <<<<"bind", i>>, <<"chn", i>>>>
                 \/ x = <<<<"recv", i>>, <<"chn", i>>>>
                 \/ x = <<<<"fd", i>>, <<"chn", i>>>>
                 \/ x = <<<<"chn", i>>, <<"port", i>>>>
                 \/ x = <<R("capture"), <<"chn", i>>>>
           \/ x = <<R("capture"), R("rtsp")>>
           \/ x = <<R("capture"), R("live")>>
           \/ x = <<R("mjpg_bind"), R("mjpg")>>
           \/ x = <<R("mjpg"), R("mjpg_device")>>
           \/ x = <<R("isp_scl"), R("scl_run")>>
           \/ x = <<R("scl_run"), R("scl_channel")>>
           \/ x = <<R("scl_channel"), R("scl_device")>>
           \/ x = <<R("vif_isp"), R("isp_port")>>
           \/ x = <<R("isp_port"), R("isp_run")>>
           \/ x = <<R("isp_run"), R("isp_channel")>>
           \/ x = <<R("isp_channel"), R("isp_device")>>
           \/ x = <<R("isp_device"), R("vif_port")>>
           \/ x = <<R("vif_port"), R("vif_device")>>
           \/ x = <<R("vif_device"), R("vif_group")>>
           \/ x = <<R("vif_group"), R("sensor")>>
           \/ x = <<R("sensor"), R("sys")>>
           \/ x = <<R("sys"), R("libs")>>
  BY DEF StandsOn

LEMMA A8_uses ==
    /\ \A q : ~Uses("a8", R("libs"), q)
    /\ \A q : Uses("a8", R("sys"), q) => q = R("libs")
    /\ \A q : Uses("a8", R("sensor"), q) => q = R("sys")
    /\ \A q : Uses("a8", R("vif_group"), q) => q = R("sensor")
    /\ \A q : Uses("a8", R("vif_device"), q) => q = R("vif_group")
    /\ \A q : Uses("a8", R("vif_port"), q) => q = R("vif_device")
    /\ \A q : Uses("a8", R("isp_device"), q) => q = R("vif_port")
    /\ \A q : Uses("a8", R("isp_channel"), q) => q = R("isp_device")
    /\ \A q : Uses("a8", R("isp_run"), q) => q = R("isp_channel")
    /\ \A q : Uses("a8", R("isp_port"), q) => q = R("isp_run")
    /\ \A q : ~Uses("a8", R("scl_device"), q)
    /\ \A q : Uses("a8", R("scl_channel"), q) => q = R("scl_device")
    /\ \A q : Uses("a8", R("scl_run"), q) => q = R("scl_channel")
    /\ \A q : Uses("a8", R("vif_isp"), q) => q = R("isp_port")
    /\ \A q : Uses("a8", R("isp_scl"), q) => q = R("scl_run")
    /\ \A i \in 1 .. Streams : \A q : ~Uses("a8", <<"port", i>>, q)
    /\ \A q : ~Uses("a8", R("venc_device"), q)
    /\ \A i \in 1 .. Streams : \A q : Uses("a8", <<"chn", i>>, q) => q = <<"port", i>>
    /\ \A i \in 1 .. Streams : \A q : Uses("a8", <<"recv", i>>, q) => q = <<"chn", i>>
    /\ \A i \in 1 .. Streams : \A q : Uses("a8", <<"bind", i>>, q) => q = <<"chn", i>>
    /\ \A i \in 1 .. Streams : \A q : Uses("a8", <<"fd", i>>, q) => q = <<"chn", i>>
    /\ \A q : ~Uses("a8", R("mjpg_device"), q)
    /\ \A q : Uses("a8", R("mjpg"), q) => q = R("mjpg_device")
    /\ \A q : Uses("a8", R("mjpg_bind"), q) => q = R("mjpg")
    /\ \A q : ~Uses("a8", R("rtsp"), q)
    /\ \A q : ~Uses("a8", R("proxy"), q)
    /\ \A q : ~Uses("a8", R("live"), q)
    /\ \A q : Uses("a8", R("capture"), q) => q = R("rtsp") \/ q = R("live") \/ (\E i \in 1 .. Streams : q = <<"chn", i>>)
  BY A8_pairs DEF Uses, R

LEMMA A8_turns ==
    /\ Turn("a8", R("stop")) = 1 /\ Turn("a8", R("capture")) = 2
    /\ Turn("a8", R("live")) = 3 /\ Turn("a8", R("proxy")) = 4 /\ Turn("a8", R("rtsp")) = 5
    /\ Turn("a8", R("mjpg_bind")) = 4 * Streams + 6
    /\ Turn("a8", R("mjpg")) = 4 * Streams + 7
    /\ Turn("a8", R("mjpg_device")) = 4 * Streams + 8
    /\ Turn("a8", R("venc_device")) = 4 * Streams + 9
    /\ Turn("a8", R("isp_scl")) = 5 * Streams + 10
    /\ Turn("a8", R("vif_isp")) = 5 * Streams + 11
    /\ Turn("a8", R("scl_run")) = 5 * Streams + 12
    /\ Turn("a8", R("scl_channel")) = 5 * Streams + 13
    /\ Turn("a8", R("scl_device")) = 5 * Streams + 14
    /\ Turn("a8", R("isp_port")) = 5 * Streams + 15
    /\ Turn("a8", R("isp_run")) = 5 * Streams + 16
    /\ Turn("a8", R("isp_channel")) = 5 * Streams + 17
    /\ Turn("a8", R("isp_device")) = 5 * Streams + 18
    /\ Turn("a8", R("vif_port")) = 5 * Streams + 19
    /\ Turn("a8", R("vif_device")) = 5 * Streams + 20
    /\ Turn("a8", R("vif_group")) = 5 * Streams + 21
    /\ Turn("a8", R("sensor")) = 5 * Streams + 22
    /\ Turn("a8", R("sys")) = 5 * Streams + 23 /\ Turn("a8", R("libs")) = 5 * Streams + 24
    /\ \A i \in 1 .. Streams : Turn("a8", <<"fd", i>>) = 4 * i + 2
    /\ \A i \in 1 .. Streams : Turn("a8", <<"recv", i>>) = 4 * i + 3
    /\ \A i \in 1 .. Streams : Turn("a8", <<"bind", i>>) = 4 * i + 4
    /\ \A i \in 1 .. Streams : Turn("a8", <<"chn", i>>) = 4 * i + 5
    /\ \A i \in 1 .. Streams : Turn("a8", <<"port", i>>) = 4 * Streams + 9 + i
  BY DEF Turn, Turn_a8, R

LEMMA A8_notes ==
    /\ NoteOf("a8", R("vif_isp")) = R("BOUND") /\ NoteOf("a8", R("isp_scl")) = R("BOUND")
    /\ NoteOf("a8", R("sensor")) = R("SENSOR") /\ NoteOf("a8", R("sys")) = R("SYS")
    /\ NoteOf("a8", R("mjpg")) = R("jpeg") /\ NoteOf("a8", R("venc_device")) = R("VENC")
    /\ NoteOf("a8", R("scl_run")) = R("SCL") /\ NoteOf("a8", R("scl_channel")) = R("SCL")
    /\ NoteOf("a8", R("scl_device")) = R("SCL") /\ NoteOf("a8", R("isp_port")) = R("ISP")
    /\ NoteOf("a8", R("isp_run")) = R("ISP") /\ NoteOf("a8", R("isp_channel")) = R("ISP")
    /\ NoteOf("a8", R("isp_device")) = R("ISP") /\ NoteOf("a8", R("vif_port")) = R("VIF")
    /\ NoteOf("a8", R("vif_device")) = R("VIF") /\ NoteOf("a8", R("vif_group")) = R("VIF")
    /\ NoteOf("a8", R("mjpg_bind")) = R("mjpg_bind")
    /\ NoteOf("a8", R("capture")) = R("capture") /\ NoteOf("a8", R("live")) = R("live")
    /\ NoteOf("a8", R("proxy")) = R("proxy") /\ NoteOf("a8", R("rtsp")) = R("rtsp")
    /\ NoteOf("a8", R("libs")) = R("SYS") /\ NoteOf("a8", R("mjpg_device")) = R("jpeg")
    /\ \A i \in 1 .. Streams : NoteOf("a8", <<"recv", i>>) = <<"chn", i>>
    /\ \A i \in 1 .. Streams : NoteOf("a8", <<"fd", i>>) = <<"fd", i>>
    /\ \A i \in 1 .. Streams : NoteOf("a8", <<"bind", i>>) = <<"bind", i>>
    /\ \A i \in 1 .. Streams : NoteOf("a8", <<"chn", i>>) = <<"chn", i>>
    /\ \A i \in 1 .. Streams : NoteOf("a8", <<"port", i>>) = <<"port", i>>
  BY DEF NoteOf, Note_a8, R, always

LEMMA A8_threads ==
    /\ R("libs") \notin ThreadNames /\ R("sys") \notin ThreadNames /\ R("sensor") \notin ThreadNames
    /\ R("vif_group") \notin ThreadNames /\ R("vif_device") \notin ThreadNames
    /\ R("vif_port") \notin ThreadNames /\ R("isp_device") \notin ThreadNames
    /\ R("isp_channel") \notin ThreadNames /\ R("isp_run") \notin ThreadNames
    /\ R("isp_port") \notin ThreadNames /\ R("scl_device") \notin ThreadNames
    /\ R("scl_channel") \notin ThreadNames /\ R("scl_run") \notin ThreadNames
    /\ R("vif_isp") \notin ThreadNames /\ R("isp_scl") \notin ThreadNames
    /\ R("venc_device") \notin ThreadNames /\ R("mjpg_device") \notin ThreadNames
    /\ R("mjpg") \notin ThreadNames /\ R("mjpg_bind") \notin ThreadNames
    /\ R("rtsp") \notin ThreadNames /\ R("proxy") \notin ThreadNames /\ R("live") \notin ThreadNames
    /\ \A i \in 1 .. Streams : <<"port", i>> \notin ThreadNames
    /\ \A i \in 1 .. Streams : <<"chn", i>> \notin ThreadNames
    /\ \A i \in 1 .. Streams : <<"recv", i>> \notin ThreadNames
    /\ \A i \in 1 .. Streams : <<"bind", i>> \notin ThreadNames
    /\ \A i \in 1 .. Streams : <<"fd", i>> \notin ThreadNames
    /\ R("capture") \in ThreadNames
  BY DEF ThreadNames, Workers, R

LEMMA A8_unleft ==
    /\ R("sys") \notin Leftover("a8") /\ R("sensor") \notin Leftover("a8")
    /\ R("vif_group") \notin Leftover("a8") /\ R("vif_device") \notin Leftover("a8")
    /\ R("vif_port") \notin Leftover("a8") /\ R("isp_device") \notin Leftover("a8")
    /\ R("isp_channel") \notin Leftover("a8") /\ R("isp_run") \notin Leftover("a8")
    /\ R("isp_port") \notin Leftover("a8") /\ R("scl_device") \notin Leftover("a8")
    /\ R("scl_channel") \notin Leftover("a8") /\ R("scl_run") \notin Leftover("a8")
    /\ R("vif_isp") \notin Leftover("a8") /\ R("isp_scl") \notin Leftover("a8")
    /\ R("venc_device") \notin Leftover("a8") /\ R("mjpg") \notin Leftover("a8")
    /\ R("mjpg_bind") \notin Leftover("a8") /\ R("rtsp") \notin Leftover("a8")
    /\ R("proxy") \notin Leftover("a8") /\ R("live") \notin Leftover("a8")
    /\ R("capture") \notin Leftover("a8")
    /\ \A i \in 1 .. Streams : <<"port", i>> \notin Leftover("a8")
    /\ \A i \in 1 .. Streams : <<"chn", i>> \notin Leftover("a8")
    /\ \A i \in 1 .. Streams : <<"recv", i>> \notin Leftover("a8")
    /\ \A i \in 1 .. Streams : <<"bind", i>> \notin Leftover("a8")
    /\ \A i \in 1 .. Streams : <<"fd", i>> \notin Leftover("a8")
  BY DEF Leftover, R

LEMMA A8_left ==
    /\ R("libs") \in Leftover("a8") /\ R("mjpg_device") \in Leftover("a8")
    /\ ThreadNames \cap Leftover("a8") = {}
  BY DEF ThreadNames, Workers, Leftover, R

\* The parts of the clean-up.
A8_close_media ==
    <<Raise("stop", R("capture")), Join(R("capture")), Drop(R("live")),
      Drop(R("proxy")), Drop(R("rtsp"))>>
A8_close_encoder(i) ==
    <<Drop(<<"fd", i>>), Free(<<"recv", i>>, <<"chn", i>>), Drop(<<"bind", i>>), Drop(<<"chn", i>>)>>
A8_close_jpeg ==
    <<Drop(R("mjpg_bind")), Free(R("mjpg"), R("jpeg")),
      Free(R("mjpg_device"), R("jpeg")), Free(R("venc_device"), R("VENC"))>>
A8_close_port(i) == <<Drop(<<"port", i>>)>>
A8_close_part(labels, n) == [i \in DOMAIN labels |-> Free(R(labels[i]), n)]
A8_close_bound == A8_close_part(<<"isp_scl", "vif_isp">>, R("BOUND"))
A8_close_scl == A8_close_part(<<"scl_run", "scl_channel", "scl_device">>, R("SCL"))
A8_close_isp == A8_close_part(<<"isp_port", "isp_run", "isp_channel", "isp_device">>, R("ISP"))
A8_close_vif == A8_close_part(<<"vif_port", "vif_device", "vif_group">>, R("VIF"))
A8_close_sensor == A8_close_part(<<"sensor">>, R("SENSOR"))
A8_close_sys == A8_close_part(<<"sys", "libs">>, R("SYS"))

LEMMA A8_close_media_ok ==
    /\ Undoing("a8", A8_close_media, 0, 5)
    /\ Has(A8_close_media, Undo("join", R("capture"), R("capture")))
    /\ Has(A8_close_media, Undo("free", R("live"), R("live")))
    /\ Has(A8_close_media, Undo("free", R("proxy"), R("proxy")))
    /\ Has(A8_close_media, Undo("free", R("rtsp"), R("rtsp")))
PROOF
  <1> DEFINE p == A8_close_media
  <1>1. /\ Len(p) = 5
        /\ p[1] = Undo("raise", R("stop"), R("capture"))
        /\ p[2] = Undo("join", R("capture"), R("capture"))
        /\ p[3] = Undo("free", R("live"), R("live"))
        /\ p[4] = Undo("free", R("proxy"), R("proxy"))
        /\ p[5] = Undo("free", R("rtsp"), R("rtsp"))
    BY DEF A8_close_media, Drop, Free, Raise, Join
  <1>2. p \in Seq({p[j] : j \in 1 .. 5})
    BY DEF A8_close_media
  <1> HIDE DEF p
  <1>3. \A j \in 1 .. Len(p) : j \in {1, 2, 3, 4, 5}
    BY <1>1
  <1>4. Placed("a8", p, 0)
    BY <1>1, <1>3, UndoIs, A8_turns, A8_threads, BringUpAssumption DEF Placed
  <1>5. /\ Has(p, Undo("join", R("capture"), R("capture")))
        /\ Has(p, Undo("free", R("live"), R("live")))
        /\ Has(p, Undo("free", R("proxy"), R("proxy")))
        /\ Has(p, Undo("free", R("rtsp"), R("rtsp")))
    BY <1>1 DEF Has
  <1>6. Undoing("a8", p, 0, 5)
    BY <1>1, <1>2, <1>4, BringUpAssumption DEF Undoing, IsSeq
  <1> QED
    BY <1>5, <1>6 DEF p

LEMMA A8_close_encoder_ok ==
    ASSUME NEW i \in 1 .. Streams
    PROVE  /\ Undoing("a8", A8_close_encoder(i), 5 + 4 * (i - 1), 5 + 4 * i)
           /\ Has(A8_close_encoder(i), Undo("free", <<"fd", i>>, <<"fd", i>>))
           /\ Has(A8_close_encoder(i), Undo("free", <<"recv", i>>, <<"chn", i>>))
           /\ Has(A8_close_encoder(i), Undo("free", <<"bind", i>>, <<"bind", i>>))
           /\ Has(A8_close_encoder(i), Undo("free", <<"chn", i>>, <<"chn", i>>))
PROOF
  <1> DEFINE p == A8_close_encoder(i)
  <1>1. /\ Len(p) = 4
        /\ p[1] = Undo("free", <<"fd", i>>, <<"fd", i>>)
        /\ p[2] = Undo("free", <<"recv", i>>, <<"chn", i>>)
        /\ p[3] = Undo("free", <<"bind", i>>, <<"bind", i>>)
        /\ p[4] = Undo("free", <<"chn", i>>, <<"chn", i>>)
    BY DEF A8_close_encoder, Drop, Free, Raise, Join
  <1>2. p \in Seq({p[j] : j \in 1 .. 4})
    BY DEF A8_close_encoder
  <1> HIDE DEF p
  <1>3. \A j \in 1 .. Len(p) : j \in {1, 2, 3, 4}
    BY <1>1
  <1>4. Placed("a8", p, 5 + 4 * (i - 1))
    BY <1>1, <1>3, UndoIs, A8_turns, A8_threads, BringUpAssumption DEF Placed
  <1>5. /\ Has(p, Undo("free", <<"fd", i>>, <<"fd", i>>))
        /\ Has(p, Undo("free", <<"recv", i>>, <<"chn", i>>))
        /\ Has(p, Undo("free", <<"bind", i>>, <<"bind", i>>))
        /\ Has(p, Undo("free", <<"chn", i>>, <<"chn", i>>))
    BY <1>1 DEF Has
  <1>6. Undoing("a8", p, 5 + 4 * (i - 1), 5 + 4 * i)
    BY <1>1, <1>2, <1>4, BringUpAssumption DEF Undoing, IsSeq
  <1> QED
    BY <1>5, <1>6 DEF p

LEMMA A8_close_jpeg_ok ==
    /\ Undoing("a8", A8_close_jpeg, 5 + 4 * Streams, 9 + 4 * Streams)
    /\ Has(A8_close_jpeg, Undo("free", R("mjpg_bind"), R("mjpg_bind")))
    /\ Has(A8_close_jpeg, Undo("free", R("mjpg"), R("jpeg")))
    /\ Has(A8_close_jpeg, Undo("free", R("mjpg_device"), R("jpeg")))
    /\ Has(A8_close_jpeg, Undo("free", R("venc_device"), R("VENC")))
PROOF
  <1> DEFINE p == A8_close_jpeg
  <1>1. /\ Len(p) = 4
        /\ p[1] = Undo("free", R("mjpg_bind"), R("mjpg_bind"))
        /\ p[2] = Undo("free", R("mjpg"), R("jpeg"))
        /\ p[3] = Undo("free", R("mjpg_device"), R("jpeg"))
        /\ p[4] = Undo("free", R("venc_device"), R("VENC"))
    BY DEF A8_close_jpeg, Drop, Free, Raise, Join
  <1>2. p \in Seq({p[j] : j \in 1 .. 4})
    BY DEF A8_close_jpeg
  <1> HIDE DEF p
  <1>3. \A j \in 1 .. Len(p) : j \in {1, 2, 3, 4}
    BY <1>1
  <1>4. Placed("a8", p, 5 + 4 * Streams)
    BY <1>1, <1>3, UndoIs, A8_turns, A8_threads, BringUpAssumption DEF Placed
  <1>5. /\ Has(p, Undo("free", R("mjpg_bind"), R("mjpg_bind")))
        /\ Has(p, Undo("free", R("mjpg"), R("jpeg")))
        /\ Has(p, Undo("free", R("mjpg_device"), R("jpeg")))
        /\ Has(p, Undo("free", R("venc_device"), R("VENC")))
    BY <1>1 DEF Has
  <1>6. Undoing("a8", p, 5 + 4 * Streams, 9 + 4 * Streams)
    BY <1>1, <1>2, <1>4, BringUpAssumption DEF Undoing, IsSeq
  <1> QED
    BY <1>5, <1>6 DEF p

LEMMA A8_close_port_ok ==
    ASSUME NEW i \in 1 .. Streams
    PROVE  /\ Undoing("a8", A8_close_port(i), (9 + 4 * Streams) + 1 * (i - 1), (9 + 4 * Streams) + 1 * i)
           /\ Has(A8_close_port(i), Undo("free", <<"port", i>>, <<"port", i>>))
PROOF
  <1> DEFINE p == A8_close_port(i)
  <1>1. /\ Len(p) = 1
        /\ p[1] = Undo("free", <<"port", i>>, <<"port", i>>)
    BY DEF A8_close_port, Drop, Free, Raise, Join
  <1>2. p \in Seq({p[j] : j \in 1 .. 1})
    BY DEF A8_close_port
  <1> HIDE DEF p
  <1>3. \A j \in 1 .. Len(p) : j \in {1}
    BY <1>1
  <1>4. Placed("a8", p, (9 + 4 * Streams) + 1 * (i - 1))
    BY <1>1, <1>3, UndoIs, A8_turns, A8_threads, BringUpAssumption DEF Placed
  <1>5. /\ Has(p, Undo("free", <<"port", i>>, <<"port", i>>))
    BY <1>1 DEF Has
  <1>6. Undoing("a8", p, (9 + 4 * Streams) + 1 * (i - 1), (9 + 4 * Streams) + 1 * i)
    BY <1>1, <1>2, <1>4, BringUpAssumption DEF Undoing, IsSeq
  <1> QED
    BY <1>5, <1>6 DEF p

LEMMA A8_close_bound_ok ==
    /\ Undoing("a8", A8_close_bound, 9 + 5 * Streams, 11 + 5 * Streams)
    /\ Has(A8_close_bound, Undo("free", R("isp_scl"), R("BOUND")))
    /\ Has(A8_close_bound, Undo("free", R("vif_isp"), R("BOUND")))
PROOF
  <1> DEFINE p == A8_close_bound
  <1>1. /\ Len(p) = 2
        /\ p[1] = Undo("free", R("isp_scl"), R("BOUND"))
        /\ p[2] = Undo("free", R("vif_isp"), R("BOUND"))
    BY DEF A8_close_bound, A8_close_part, Drop, Free, Raise, Join
  <1>2. p \in Seq({p[j] : j \in 1 .. 2})
    BY DEF A8_close_bound, A8_close_part
  <1> HIDE DEF p
  <1>3. \A j \in 1 .. Len(p) : j \in {1, 2}
    BY <1>1
  <1>4. Placed("a8", p, 9 + 5 * Streams)
    BY <1>1, <1>3, UndoIs, A8_turns, A8_threads, BringUpAssumption DEF Placed
  <1>5. /\ Has(p, Undo("free", R("isp_scl"), R("BOUND")))
        /\ Has(p, Undo("free", R("vif_isp"), R("BOUND")))
    BY <1>1 DEF Has
  <1>6. Undoing("a8", p, 9 + 5 * Streams, 11 + 5 * Streams)
    BY <1>1, <1>2, <1>4, BringUpAssumption DEF Undoing, IsSeq
  <1> QED
    BY <1>5, <1>6 DEF p

LEMMA A8_close_scl_ok ==
    /\ Undoing("a8", A8_close_scl, 11 + 5 * Streams, 14 + 5 * Streams)
    /\ Has(A8_close_scl, Undo("free", R("scl_run"), R("SCL")))
    /\ Has(A8_close_scl, Undo("free", R("scl_channel"), R("SCL")))
    /\ Has(A8_close_scl, Undo("free", R("scl_device"), R("SCL")))
PROOF
  <1> DEFINE p == A8_close_scl
  <1>1. /\ Len(p) = 3
        /\ p[1] = Undo("free", R("scl_run"), R("SCL"))
        /\ p[2] = Undo("free", R("scl_channel"), R("SCL"))
        /\ p[3] = Undo("free", R("scl_device"), R("SCL"))
    BY DEF A8_close_scl, A8_close_part, Drop, Free, Raise, Join
  <1>2. p \in Seq({p[j] : j \in 1 .. 3})
    BY DEF A8_close_scl, A8_close_part
  <1> HIDE DEF p
  <1>3. \A j \in 1 .. Len(p) : j \in {1, 2, 3}
    BY <1>1
  <1>4. Placed("a8", p, 11 + 5 * Streams)
    BY <1>1, <1>3, UndoIs, A8_turns, A8_threads, BringUpAssumption DEF Placed
  <1>5. /\ Has(p, Undo("free", R("scl_run"), R("SCL")))
        /\ Has(p, Undo("free", R("scl_channel"), R("SCL")))
        /\ Has(p, Undo("free", R("scl_device"), R("SCL")))
    BY <1>1 DEF Has
  <1>6. Undoing("a8", p, 11 + 5 * Streams, 14 + 5 * Streams)
    BY <1>1, <1>2, <1>4, BringUpAssumption DEF Undoing, IsSeq
  <1> QED
    BY <1>5, <1>6 DEF p

LEMMA A8_close_isp_ok ==
    /\ Undoing("a8", A8_close_isp, 14 + 5 * Streams, 18 + 5 * Streams)
    /\ Has(A8_close_isp, Undo("free", R("isp_port"), R("ISP")))
    /\ Has(A8_close_isp, Undo("free", R("isp_run"), R("ISP")))
    /\ Has(A8_close_isp, Undo("free", R("isp_channel"), R("ISP")))
    /\ Has(A8_close_isp, Undo("free", R("isp_device"), R("ISP")))
PROOF
  <1> DEFINE p == A8_close_isp
  <1>1. /\ Len(p) = 4
        /\ p[1] = Undo("free", R("isp_port"), R("ISP"))
        /\ p[2] = Undo("free", R("isp_run"), R("ISP"))
        /\ p[3] = Undo("free", R("isp_channel"), R("ISP"))
        /\ p[4] = Undo("free", R("isp_device"), R("ISP"))
    BY DEF A8_close_isp, A8_close_part, Drop, Free, Raise, Join
  <1>2. p \in Seq({p[j] : j \in 1 .. 4})
    BY DEF A8_close_isp, A8_close_part
  <1> HIDE DEF p
  <1>3. \A j \in 1 .. Len(p) : j \in {1, 2, 3, 4}
    BY <1>1
  <1>4. Placed("a8", p, 14 + 5 * Streams)
    BY <1>1, <1>3, UndoIs, A8_turns, A8_threads, BringUpAssumption DEF Placed
  <1>5. /\ Has(p, Undo("free", R("isp_port"), R("ISP")))
        /\ Has(p, Undo("free", R("isp_run"), R("ISP")))
        /\ Has(p, Undo("free", R("isp_channel"), R("ISP")))
        /\ Has(p, Undo("free", R("isp_device"), R("ISP")))
    BY <1>1 DEF Has
  <1>6. Undoing("a8", p, 14 + 5 * Streams, 18 + 5 * Streams)
    BY <1>1, <1>2, <1>4, BringUpAssumption DEF Undoing, IsSeq
  <1> QED
    BY <1>5, <1>6 DEF p

LEMMA A8_close_vif_ok ==
    /\ Undoing("a8", A8_close_vif, 18 + 5 * Streams, 21 + 5 * Streams)
    /\ Has(A8_close_vif, Undo("free", R("vif_port"), R("VIF")))
    /\ Has(A8_close_vif, Undo("free", R("vif_device"), R("VIF")))
    /\ Has(A8_close_vif, Undo("free", R("vif_group"), R("VIF")))
PROOF
  <1> DEFINE p == A8_close_vif
  <1>1. /\ Len(p) = 3
        /\ p[1] = Undo("free", R("vif_port"), R("VIF"))
        /\ p[2] = Undo("free", R("vif_device"), R("VIF"))
        /\ p[3] = Undo("free", R("vif_group"), R("VIF"))
    BY DEF A8_close_vif, A8_close_part, Drop, Free, Raise, Join
  <1>2. p \in Seq({p[j] : j \in 1 .. 3})
    BY DEF A8_close_vif, A8_close_part
  <1> HIDE DEF p
  <1>3. \A j \in 1 .. Len(p) : j \in {1, 2, 3}
    BY <1>1
  <1>4. Placed("a8", p, 18 + 5 * Streams)
    BY <1>1, <1>3, UndoIs, A8_turns, A8_threads, BringUpAssumption DEF Placed
  <1>5. /\ Has(p, Undo("free", R("vif_port"), R("VIF")))
        /\ Has(p, Undo("free", R("vif_device"), R("VIF")))
        /\ Has(p, Undo("free", R("vif_group"), R("VIF")))
    BY <1>1 DEF Has
  <1>6. Undoing("a8", p, 18 + 5 * Streams, 21 + 5 * Streams)
    BY <1>1, <1>2, <1>4, BringUpAssumption DEF Undoing, IsSeq
  <1> QED
    BY <1>5, <1>6 DEF p

LEMMA A8_close_sensor_ok ==
    /\ Undoing("a8", A8_close_sensor, 21 + 5 * Streams, 22 + 5 * Streams)
    /\ Has(A8_close_sensor, Undo("free", R("sensor"), R("SENSOR")))
PROOF
  <1> DEFINE p == A8_close_sensor
  <1>1. /\ Len(p) = 1
        /\ p[1] = Undo("free", R("sensor"), R("SENSOR"))
    BY DEF A8_close_sensor, A8_close_part, Drop, Free, Raise, Join
  <1>2. p \in Seq({p[j] : j \in 1 .. 1})
    BY DEF A8_close_sensor, A8_close_part
  <1> HIDE DEF p
  <1>3. \A j \in 1 .. Len(p) : j \in {1}
    BY <1>1
  <1>4. Placed("a8", p, 21 + 5 * Streams)
    BY <1>1, <1>3, UndoIs, A8_turns, A8_threads, BringUpAssumption DEF Placed
  <1>5. /\ Has(p, Undo("free", R("sensor"), R("SENSOR")))
    BY <1>1 DEF Has
  <1>6. Undoing("a8", p, 21 + 5 * Streams, 22 + 5 * Streams)
    BY <1>1, <1>2, <1>4, BringUpAssumption DEF Undoing, IsSeq
  <1> QED
    BY <1>5, <1>6 DEF p

LEMMA A8_close_sys_ok ==
    /\ Undoing("a8", A8_close_sys, 22 + 5 * Streams, 24 + 5 * Streams)
    /\ Has(A8_close_sys, Undo("free", R("sys"), R("SYS")))
    /\ Has(A8_close_sys, Undo("free", R("libs"), R("SYS")))
PROOF
  <1> DEFINE p == A8_close_sys
  <1>1. /\ Len(p) = 2
        /\ p[1] = Undo("free", R("sys"), R("SYS"))
        /\ p[2] = Undo("free", R("libs"), R("SYS"))
    BY DEF A8_close_sys, A8_close_part, Drop, Free, Raise, Join
  <1>2. p \in Seq({p[j] : j \in 1 .. 2})
    BY DEF A8_close_sys, A8_close_part
  <1> HIDE DEF p
  <1>3. \A j \in 1 .. Len(p) : j \in {1, 2}
    BY <1>1
  <1>4. Placed("a8", p, 22 + 5 * Streams)
    BY <1>1, <1>3, UndoIs, A8_turns, A8_threads, BringUpAssumption DEF Placed
  <1>5. /\ Has(p, Undo("free", R("sys"), R("SYS")))
        /\ Has(p, Undo("free", R("libs"), R("SYS")))
    BY <1>1 DEF Has
  <1>6. Undoing("a8", p, 22 + 5 * Streams, 24 + 5 * Streams)
    BY <1>1, <1>2, <1>4, BringUpAssumption DEF Undoing, IsSeq
  <1> QED
    BY <1>5, <1>6 DEF p

LEMMA A8_pipeline_close_ok ==
    /\ Undoing("a8", A8_pipeline_close, 5, 24 + 5 * Streams)
    /\ \A i \in 1 .. Streams : Covers(A8_pipeline_close, A8_close_encoder(i))
    /\ Covers(A8_pipeline_close, A8_close_jpeg)
    /\ \A i \in 1 .. Streams : Covers(A8_pipeline_close, A8_close_port(i))
    /\ Covers(A8_pipeline_close, A8_close_bound)
    /\ Covers(A8_pipeline_close, A8_close_scl)
    /\ Covers(A8_pipeline_close, A8_close_isp)
    /\ Covers(A8_pipeline_close, A8_close_vif)
    /\ Covers(A8_pipeline_close, A8_close_sensor)
    /\ Covers(A8_pipeline_close, A8_close_sys)
PROOF
  <1> DEFINE
      q1 == FlattenSeq([i \in 1 .. Streams |-> A8_close_encoder(i)])
      q2 == A8_close_jpeg
      q3 == FlattenSeq([i \in 1 .. Streams |-> A8_close_port(i)])
      q4 == A8_close_bound
      q5 == A8_close_scl
      q6 == A8_close_isp
      q7 == A8_close_vif
      q8 == A8_close_sensor
      q9 == A8_close_sys
      w2 == q1 \o q2
      w3 == w2 \o q3
      w4 == w3 \o q4
      w5 == w4 \o q5
      w6 == w5 \o q6
      w7 == w6 \o q7
      w8 == w7 \o q8
      w9 == w8 \o q9
  <1>0. A8_pipeline_close = w9
    BY DEF A8_pipeline_close, ForAll, A8_close_encoder, A8_close_port, A8_close_jpeg, A8_close_bound, A8_close_scl, A8_close_isp, A8_close_vif, A8_close_sensor, A8_close_sys, A8_close_part
  <1>1. Undoing("a8", q1, 5, 5 + 4 * Streams) /\ \A i \in 1 .. Streams : \A u : Has(A8_close_encoder(i), u) => Has(q1, u)
    <2> DEFINE s == [i \in 1 .. Streams |-> A8_close_encoder(i)]
    <2>1. Len(s) = Streams /\ \A i \in 1 .. Streams : s[i] = A8_close_encoder(i)
      BY BringUpAssumption
    <2> HIDE DEF s
    <2>2. \A i \in 1 .. Streams : Undoing("a8", s[i], 5 + 4 * (i - 1), 5 + 4 * i)
      BY <2>1, A8_close_encoder_ok, BringUpAssumption
    <2>3. /\ Undoing("a8", FlattenSeq(s), 5, 5 + 4 * Streams)
          /\ \A i \in 1 .. Streams : \A u : Has(s[i], u) => Has(FlattenSeq(s), u)
      <3>1. 5 \in Nat /\ Streams \in Nat \ {0}
        BY BringUpAssumption
      <3> QED
        BY <2>1, <2>2, <3>1, UndoStreams
    <2> QED
      BY <2>1, <2>3, BringUpAssumption DEF s
  <1>2. Undoing("a8", q2, 5 + 4 * Streams, 9 + 4 * Streams)
    BY A8_close_jpeg_ok
  <1>3. Undoing("a8", q3, 9 + 4 * Streams, 9 + 5 * Streams) /\ \A i \in 1 .. Streams : \A u : Has(A8_close_port(i), u) => Has(q3, u)
    <2> DEFINE s == [i \in 1 .. Streams |-> A8_close_port(i)]
    <2>1. Len(s) = Streams /\ \A i \in 1 .. Streams : s[i] = A8_close_port(i)
      BY BringUpAssumption
    <2> HIDE DEF s
    <2>2. \A i \in 1 .. Streams : Undoing("a8", s[i], 9 + 4 * Streams + 1 * (i - 1), 9 + 4 * Streams + 1 * i)
      BY <2>1, A8_close_port_ok, BringUpAssumption
    <2>3. /\ Undoing("a8", FlattenSeq(s), 9 + 4 * Streams, 9 + 4 * Streams + 1 * Streams)
          /\ \A i \in 1 .. Streams : \A u : Has(s[i], u) => Has(FlattenSeq(s), u)
      <3>1. 9 + 4 * Streams \in Nat /\ Streams \in Nat \ {0}
        BY BringUpAssumption
      <3> QED
        BY <2>1, <2>2, <3>1, UndoStreams
    <2> QED
      BY <2>1, <2>3, BringUpAssumption DEF s
  <1>4. Undoing("a8", q4, 9 + 5 * Streams, 11 + 5 * Streams)
    BY A8_close_bound_ok
  <1>5. Undoing("a8", q5, 11 + 5 * Streams, 14 + 5 * Streams)
    BY A8_close_scl_ok
  <1>6. Undoing("a8", q6, 14 + 5 * Streams, 18 + 5 * Streams)
    BY A8_close_isp_ok
  <1>7. Undoing("a8", q7, 18 + 5 * Streams, 21 + 5 * Streams)
    BY A8_close_vif_ok
  <1>8. Undoing("a8", q8, 21 + 5 * Streams, 22 + 5 * Streams)
    BY A8_close_sensor_ok
  <1>9. Undoing("a8", q9, 22 + 5 * Streams, 24 + 5 * Streams)
    BY A8_close_sys_ok
  <1> HIDE DEF q1, q2, q3, q4, q5, q6, q7, q8, q9
  <1>10w. Follows(w2, q1, q2)
    BY DEF Follows
  <1> HIDE DEF w2
  <1>10. Undoing("a8", w2, 5, 9 + 4 * Streams) /\ Both(w2, q1, q2)
    BY <1>1, <1>2, <1>10w, UndoJoin
  <1>11w. Follows(w3, w2, q3)
    BY DEF Follows
  <1> HIDE DEF w3
  <1>11. Undoing("a8", w3, 5, 9 + 5 * Streams) /\ Both(w3, w2, q3)
    BY <1>10, <1>3, <1>11w, UndoJoin
  <1>12w. Follows(w4, w3, q4)
    BY DEF Follows
  <1> HIDE DEF w4
  <1>12. Undoing("a8", w4, 5, 11 + 5 * Streams) /\ Both(w4, w3, q4)
    BY <1>11, <1>4, <1>12w, UndoJoin
  <1>13w. Follows(w5, w4, q5)
    BY DEF Follows
  <1> HIDE DEF w5
  <1>13. Undoing("a8", w5, 5, 14 + 5 * Streams) /\ Both(w5, w4, q5)
    BY <1>12, <1>5, <1>13w, UndoJoin
  <1>14w. Follows(w6, w5, q6)
    BY DEF Follows
  <1> HIDE DEF w6
  <1>14. Undoing("a8", w6, 5, 18 + 5 * Streams) /\ Both(w6, w5, q6)
    BY <1>13, <1>6, <1>14w, UndoJoin
  <1>15w. Follows(w7, w6, q7)
    BY DEF Follows
  <1> HIDE DEF w7
  <1>15. Undoing("a8", w7, 5, 21 + 5 * Streams) /\ Both(w7, w6, q7)
    BY <1>14, <1>7, <1>15w, UndoJoin
  <1>16w. Follows(w8, w7, q8)
    BY DEF Follows
  <1> HIDE DEF w8
  <1>16. Undoing("a8", w8, 5, 22 + 5 * Streams) /\ Both(w8, w7, q8)
    BY <1>15, <1>8, <1>16w, UndoJoin
  <1>17w. Follows(w9, w8, q9)
    BY DEF Follows
  <1> HIDE DEF w9
  <1>17. Undoing("a8", w9, 5, 24 + 5 * Streams) /\ Both(w9, w8, q9)
    BY <1>16, <1>9, <1>17w, UndoJoin
  <1>18. Covers(w9, q1)
    BY <1>10, <1>11, <1>12, <1>13, <1>14, <1>15, <1>16, <1>17 DEF Both, Covers
  <1>19. Covers(w9, q2)
    BY <1>10, <1>11, <1>12, <1>13, <1>14, <1>15, <1>16, <1>17 DEF Both, Covers
  <1>20. Covers(w9, q3)
    BY <1>11, <1>12, <1>13, <1>14, <1>15, <1>16, <1>17 DEF Both, Covers
  <1>21. Covers(w9, q4)
    BY <1>12, <1>13, <1>14, <1>15, <1>16, <1>17 DEF Both, Covers
  <1>22. Covers(w9, q5)
    BY <1>13, <1>14, <1>15, <1>16, <1>17 DEF Both, Covers
  <1>23. Covers(w9, q6)
    BY <1>14, <1>15, <1>16, <1>17 DEF Both, Covers
  <1>24. Covers(w9, q7)
    BY <1>15, <1>16, <1>17 DEF Both, Covers
  <1>25. Covers(w9, q8)
    BY <1>16, <1>17 DEF Both, Covers
  <1>26. Covers(w9, q9)
    BY <1>17 DEF Both, Covers
  <1>27. /\ \A i \in 1 .. Streams : Covers(w9, A8_close_encoder(i))
         /\ Covers(w9, A8_close_jpeg)
         /\ \A i \in 1 .. Streams : Covers(w9, A8_close_port(i))
         /\ Covers(w9, A8_close_bound)
         /\ Covers(w9, A8_close_scl)
         /\ Covers(w9, A8_close_isp)
         /\ Covers(w9, A8_close_vif)
         /\ Covers(w9, A8_close_sensor)
         /\ Covers(w9, A8_close_sys)
    BY <1>18, <1>19, <1>20, <1>21, <1>22, <1>23, <1>24, <1>25, <1>26, <1>1, <1>3 DEF Covers, q2, q4, q5, q6, q7, q8, q9
  <1> QED
    BY <1>0, <1>17, <1>27

LEMMA A8_close_ok ==
    /\ Undoing("a8", A8_media_cleanup, 0, 24 + 5 * Streams)
    /\ Covers(A8_media_cleanup, A8_close_media)
    /\ Covers(A8_media_cleanup, A8_pipeline_close)
PROOF
  <1> DEFINE
      q1 == A8_close_media
      q2 == A8_pipeline_close
      w2 == q1 \o q2
  <1>0. A8_media_cleanup = w2
    BY DEF A8_media_cleanup, A8_close_media
  <1>1. Undoing("a8", q1, 0, 5)
    BY A8_close_media_ok
  <1>2. Undoing("a8", q2, 5, 24 + 5 * Streams)
    BY A8_pipeline_close_ok
  <1> HIDE DEF q1, q2
  <1>3w. Follows(w2, q1, q2)
    BY DEF Follows
  <1> HIDE DEF w2
  <1>3. Undoing("a8", w2, 0, 24 + 5 * Streams) /\ Both(w2, q1, q2)
    BY <1>1, <1>2, <1>3w, UndoJoin
  <1>4. Covers(w2, q1)
    BY <1>3 DEF Both, Covers
  <1>5. Covers(w2, q2)
    BY <1>3 DEF Both, Covers
  <1>6. /\ Covers(w2, A8_close_media)
        /\ Covers(w2, A8_pipeline_close)
    BY <1>4, <1>5 DEF Covers, q1, q2
  <1> QED
    BY <1>0, <1>3, <1>6

LEMMA A8_back ==
    /\ GivesBack("a8", R("sys")) /\ GivesBack("a8", R("sensor"))
    /\ GivesBack("a8", R("vif_group")) /\ GivesBack("a8", R("vif_device"))
    /\ GivesBack("a8", R("vif_port")) /\ GivesBack("a8", R("isp_device"))
    /\ GivesBack("a8", R("isp_channel")) /\ GivesBack("a8", R("isp_run"))
    /\ GivesBack("a8", R("isp_port")) /\ GivesBack("a8", R("scl_device"))
    /\ GivesBack("a8", R("scl_channel")) /\ GivesBack("a8", R("scl_run"))
    /\ GivesBack("a8", R("vif_isp")) /\ GivesBack("a8", R("isp_scl"))
    /\ GivesBack("a8", R("venc_device")) /\ GivesBack("a8", R("mjpg"))
    /\ GivesBack("a8", R("mjpg_bind")) /\ GivesBack("a8", R("rtsp"))
    /\ GivesBack("a8", R("proxy")) /\ GivesBack("a8", R("live"))
    /\ GivesBack("a8", R("capture"))
    /\ \A i \in 1 .. Streams : GivesBack("a8", <<"port", i>>)
    /\ \A i \in 1 .. Streams : GivesBack("a8", <<"chn", i>>)
    /\ \A i \in 1 .. Streams : GivesBack("a8", <<"recv", i>>)
    /\ \A i \in 1 .. Streams : GivesBack("a8", <<"bind", i>>)
    /\ \A i \in 1 .. Streams : GivesBack("a8", <<"fd", i>>)
PROOF
  <1> DEFINE w == A8_media_cleanup
  <1>1. /\ Has(w, Undo("join", R("capture"), R("capture")))
        /\ Has(w, Undo("free", R("live"), R("live")))
        /\ Has(w, Undo("free", R("proxy"), R("proxy")))
        /\ Has(w, Undo("free", R("rtsp"), R("rtsp")))
    BY A8_close_media_ok, A8_close_ok, A8_pipeline_close_ok DEF Covers
  <1>2. ASSUME NEW i \in 1 .. Streams
        PROVE  /\ Has(w, Undo("free", <<"fd", i>>, <<"fd", i>>))
               /\ Has(w, Undo("free", <<"recv", i>>, <<"chn", i>>))
               /\ Has(w, Undo("free", <<"bind", i>>, <<"bind", i>>))
               /\ Has(w, Undo("free", <<"chn", i>>, <<"chn", i>>))
    BY A8_close_encoder_ok, A8_close_ok, A8_pipeline_close_ok DEF Covers
  <1>3. /\ Has(w, Undo("free", R("mjpg_bind"), R("mjpg_bind")))
        /\ Has(w, Undo("free", R("mjpg"), R("jpeg")))
        /\ Has(w, Undo("free", R("venc_device"), R("VENC")))
    BY A8_close_jpeg_ok, A8_close_ok, A8_pipeline_close_ok DEF Covers
  <1>4. ASSUME NEW i \in 1 .. Streams
        PROVE  /\ Has(w, Undo("free", <<"port", i>>, <<"port", i>>))
    BY A8_close_port_ok, A8_close_ok, A8_pipeline_close_ok DEF Covers
  <1>5. /\ Has(w, Undo("free", R("isp_scl"), R("BOUND")))
        /\ Has(w, Undo("free", R("vif_isp"), R("BOUND")))
    BY A8_close_bound_ok, A8_close_ok, A8_pipeline_close_ok DEF Covers
  <1>6. /\ Has(w, Undo("free", R("scl_run"), R("SCL")))
        /\ Has(w, Undo("free", R("scl_channel"), R("SCL")))
        /\ Has(w, Undo("free", R("scl_device"), R("SCL")))
    BY A8_close_scl_ok, A8_close_ok, A8_pipeline_close_ok DEF Covers
  <1>7. /\ Has(w, Undo("free", R("isp_port"), R("ISP")))
        /\ Has(w, Undo("free", R("isp_run"), R("ISP")))
        /\ Has(w, Undo("free", R("isp_channel"), R("ISP")))
        /\ Has(w, Undo("free", R("isp_device"), R("ISP")))
    BY A8_close_isp_ok, A8_close_ok, A8_pipeline_close_ok DEF Covers
  <1>8. /\ Has(w, Undo("free", R("vif_port"), R("VIF")))
        /\ Has(w, Undo("free", R("vif_device"), R("VIF")))
        /\ Has(w, Undo("free", R("vif_group"), R("VIF")))
    BY A8_close_vif_ok, A8_close_ok, A8_pipeline_close_ok DEF Covers
  <1>9. /\ Has(w, Undo("free", R("sensor"), R("SENSOR")))
    BY A8_close_sensor_ok, A8_close_ok, A8_pipeline_close_ok DEF Covers
  <1>10. /\ Has(w, Undo("free", R("sys"), R("SYS")))
    BY A8_close_sys_ok, A8_close_ok, A8_pipeline_close_ok DEF Covers
  <1>11. CloseSteps("a8") = w
    BY DEF CloseSteps
  <1> HIDE DEF w
  <1> QED
    BY <1>1, <1>2, <1>3, <1>4, <1>5, <1>6, <1>7, <1>8, <1>9, <1>10, <1>11, A8_notes DEF GivesBack

LEMMA A8_load_ok ==
    /\ Stage("a8", A8_load, {}, {})
    /\ Gives(A8_load, R("sys"))
PROOF
  <1> DEFINE p == A8_load
  <1>1. /\ Len(p) = 4
        /\ StepIs(p[1], "must", {R("libs")}, {})
        /\ StepIs(p[2], "must", {}, {})
        /\ StepIs(p[3], "must", {}, {})
        /\ StepIs(p[4], "must", {R("sys")}, {R("SYS")})
    BY DEF A8_load, Get, Own, Got, Opt, Noted, Spawn, MustCall, StepIs, StepOf
  <1>2. p \in Seq({p[j] : j \in 1 .. 4})
    BY DEF A8_load
  <1> HIDE DEF p
  <1>3. \A j \in 1 .. Len(p) : j \in {1, 2, 3, 4}
    BY <1>1
  <1>4. \A j \in 1 .. Len(p) : p[j].kind \in {"must"}
    BY <1>1, <1>3 DEF StepIs
  <1>5. \A j \in 1 .. Len(p) : \A r \in p[j].res :
          \/ j = 1 /\ r = R("libs")
          \/ j = 4 /\ r = R("sys")
    BY <1>1, <1>3 DEF StepIs
  <1>6. Stands("a8", p, {})
    BY <1>1, <1>5, A8_uses DEF Stands, Must, StepIs
  <1>7. Returned("a8", p, {}) /\ Spawns(p)
    <2>1. Returned("a8", p, {})
      BY <1>1, <1>5, A8_left, A8_back, A8_notes DEF Returned, Must, StepIs
    <2>2. Spawns(p)
      BY <1>1, <1>3, A8_threads DEF Spawns, Starts, StepIs
    <2> QED
      BY <2>1, <2>2
  <1>8. Stage("a8", p, {}, {})
    BY <1>2, <1>4, <1>6, <1>7, LitStage DEF Unbroken
  <1>9. /\ Gives(p, R("sys"))
    BY <1>1 DEF Gives, Notes, Must, StepIs
  <1> QED
    BY <1>1, <1>8, <1>9 DEF p

LEMMA A8_sensor_start_ok ==
    /\ Stage("a8", A8_sensor_start, {R("sys")}, {})
    /\ Gives(A8_sensor_start, R("sensor"))
PROOF
  <1> DEFINE p == A8_sensor_start
  <1>1. /\ Len(p) = 9
        /\ StepIs(p[1], "must", {}, {})
        /\ StepIs(p[2], "must", {}, {})
        /\ StepIs(p[3], "must", {}, {})
        /\ StepIs(p[4], "must", {}, {})
        /\ StepIs(p[5], "must", {}, {})
        /\ StepIs(p[6], "must", {R("sensor")}, {R("SENSOR")})
        /\ StepIs(p[7], "must", {}, {})
        /\ StepIs(p[8], "must", {}, {})
        /\ StepIs(p[9], "must", {}, {})
    BY DEF A8_sensor_start, Get, Own, Got, Opt, Noted, Spawn, MustCall, Tries, StepIs, StepOf
  <1>2. p \in Seq({p[j] : j \in 1 .. 9})
    BY DEF A8_sensor_start, Tries
  <1> HIDE DEF p
  <1>3. \A j \in 1 .. Len(p) : j \in {1, 2, 3, 4, 5, 6, 7, 8, 9}
    BY <1>1
  <1>4. \A j \in 1 .. Len(p) : p[j].kind \in {"must"}
    BY <1>1, <1>3 DEF StepIs
  <1>5. \A j \in 1 .. Len(p) : \A r \in p[j].res :
          \/ j = 6 /\ r = R("sensor")
    BY <1>1, <1>3 DEF StepIs
  <1>6. Stands("a8", p, {R("sys")})
    BY <1>1, <1>5, A8_uses DEF Stands, Must, StepIs
  <1>7. Returned("a8", p, {}) /\ Spawns(p)
    <2>1. Returned("a8", p, {})
      BY <1>1, <1>5, A8_left, A8_back, A8_notes DEF Returned, Must, StepIs
    <2>2. Spawns(p)
      BY <1>1, <1>3, A8_threads DEF Spawns, Starts, StepIs
    <2> QED
      BY <2>1, <2>2
  <1>8. Stage("a8", p, {R("sys")}, {})
    BY <1>2, <1>4, <1>6, <1>7, LitStage DEF Unbroken
  <1>9. /\ Gives(p, R("sensor"))
    BY <1>1 DEF Gives, Notes, Must, StepIs
  <1> QED
    BY <1>1, <1>8, <1>9 DEF p

LEMMA A8_vif_start_ok ==
    /\ Stage("a8", A8_vif_start, {R("sensor")}, {})
    /\ Gives(A8_vif_start, R("vif_port"))
PROOF
  <1> DEFINE p == A8_vif_start
  <1>1. /\ Len(p) = 5
        /\ StepIs(p[1], "must", {R("vif_group")}, {R("VIF")})
        /\ StepIs(p[2], "must", {}, {})
        /\ StepIs(p[3], "must", {R("vif_device")}, {})
        /\ StepIs(p[4], "must", {}, {})
        /\ StepIs(p[5], "must", {R("vif_port")}, {})
    BY DEF A8_vif_start, Get, Own, Got, Opt, Noted, Spawn, MustCall, StepIs, StepOf
  <1>2. p \in Seq({p[j] : j \in 1 .. 5})
    BY DEF A8_vif_start
  <1> HIDE DEF p
  <1>3. \A j \in 1 .. Len(p) : j \in {1, 2, 3, 4, 5}
    BY <1>1
  <1>4. \A j \in 1 .. Len(p) : p[j].kind \in {"must"}
    BY <1>1, <1>3 DEF StepIs
  <1>5. \A j \in 1 .. Len(p) : \A r \in p[j].res :
          \/ j = 1 /\ r = R("vif_group")
          \/ j = 3 /\ r = R("vif_device")
          \/ j = 5 /\ r = R("vif_port")
    BY <1>1, <1>3 DEF StepIs
  <1>6. Stands("a8", p, {R("sensor")})
    BY <1>1, <1>5, A8_uses DEF Stands, Must, StepIs
  <1>7. Returned("a8", p, {}) /\ Spawns(p)
    <2>1. Returned("a8", p, {})
      BY <1>1, <1>5, A8_left, A8_back, A8_notes DEF Returned, Must, StepIs
    <2>2. Spawns(p)
      BY <1>1, <1>3, A8_threads DEF Spawns, Starts, StepIs
    <2> QED
      BY <2>1, <2>2
  <1>8. Stage("a8", p, {R("sensor")}, {})
    BY <1>2, <1>4, <1>6, <1>7, LitStage DEF Unbroken
  <1>9. /\ Gives(p, R("vif_port"))
    BY <1>1 DEF Gives, Notes, Must, StepIs
  <1> QED
    BY <1>1, <1>8, <1>9 DEF p

LEMMA A8_isp_start_ok ==
    /\ Stage("a8", A8_isp_start, {R("vif_port")}, {})
    /\ Gives(A8_isp_start, R("isp_port"))
PROOF
  <1> DEFINE p == A8_isp_start
  <1>1. /\ Len(p) = 6
        /\ StepIs(p[1], "must", {R("isp_device")}, {R("ISP")})
        /\ StepIs(p[2], "must", {R("isp_channel")}, {})
        /\ StepIs(p[3], "must", {}, {})
        /\ StepIs(p[4], "must", {R("isp_run")}, {})
        /\ StepIs(p[5], "must", {}, {})
        /\ StepIs(p[6], "must", {R("isp_port")}, {})
    BY DEF A8_isp_start, Get, Own, Got, Opt, Noted, Spawn, MustCall, StepIs, StepOf
  <1>2. p \in Seq({p[j] : j \in 1 .. 6})
    BY DEF A8_isp_start
  <1> HIDE DEF p
  <1>3. \A j \in 1 .. Len(p) : j \in {1, 2, 3, 4, 5, 6}
    BY <1>1
  <1>4. \A j \in 1 .. Len(p) : p[j].kind \in {"must"}
    BY <1>1, <1>3 DEF StepIs
  <1>5. \A j \in 1 .. Len(p) : \A r \in p[j].res :
          \/ j = 1 /\ r = R("isp_device")
          \/ j = 2 /\ r = R("isp_channel")
          \/ j = 4 /\ r = R("isp_run")
          \/ j = 6 /\ r = R("isp_port")
    BY <1>1, <1>3 DEF StepIs
  <1>6. Stands("a8", p, {R("vif_port")})
    BY <1>1, <1>5, A8_uses DEF Stands, Must, StepIs
  <1>7. Returned("a8", p, {}) /\ Spawns(p)
    <2>1. Returned("a8", p, {})
      BY <1>1, <1>5, A8_left, A8_back, A8_notes DEF Returned, Must, StepIs
    <2>2. Spawns(p)
      BY <1>1, <1>3, A8_threads DEF Spawns, Starts, StepIs
    <2> QED
      BY <2>1, <2>2
  <1>8. Stage("a8", p, {R("vif_port")}, {})
    BY <1>2, <1>4, <1>6, <1>7, LitStage DEF Unbroken
  <1>9. /\ Gives(p, R("isp_port"))
    BY <1>1 DEF Gives, Notes, Must, StepIs
  <1> QED
    BY <1>1, <1>8, <1>9 DEF p

LEMMA A8_scl_start_ok ==
    /\ Stage("a8", A8_scl_start, {}, {})
    /\ Gives(A8_scl_start, R("scl_run"))
PROOF
  <1> DEFINE p == A8_scl_start
  <1>1. /\ Len(p) = 4
        /\ StepIs(p[1], "must", {R("scl_device")}, {R("SCL")})
        /\ StepIs(p[2], "must", {R("scl_channel")}, {})
        /\ StepIs(p[3], "must", {}, {})
        /\ StepIs(p[4], "must", {R("scl_run")}, {})
    BY DEF A8_scl_start, Get, Own, Got, Opt, Noted, Spawn, MustCall, StepIs, StepOf
  <1>2. p \in Seq({p[j] : j \in 1 .. 4})
    BY DEF A8_scl_start
  <1> HIDE DEF p
  <1>3. \A j \in 1 .. Len(p) : j \in {1, 2, 3, 4}
    BY <1>1
  <1>4. \A j \in 1 .. Len(p) : p[j].kind \in {"must"}
    BY <1>1, <1>3 DEF StepIs
  <1>5. \A j \in 1 .. Len(p) : \A r \in p[j].res :
          \/ j = 1 /\ r = R("scl_device")
          \/ j = 2 /\ r = R("scl_channel")
          \/ j = 4 /\ r = R("scl_run")
    BY <1>1, <1>3 DEF StepIs
  <1>6. Stands("a8", p, {})
    BY <1>1, <1>5, A8_uses DEF Stands, Must, StepIs
  <1>7. Returned("a8", p, {}) /\ Spawns(p)
    <2>1. Returned("a8", p, {})
      BY <1>1, <1>5, A8_left, A8_back, A8_notes DEF Returned, Must, StepIs
    <2>2. Spawns(p)
      BY <1>1, <1>3, A8_threads DEF Spawns, Starts, StepIs
    <2> QED
      BY <2>1, <2>2
  <1>8. Stage("a8", p, {}, {})
    BY <1>2, <1>4, <1>6, <1>7, LitStage DEF Unbroken
  <1>9. /\ Gives(p, R("scl_run"))
    BY <1>1 DEF Gives, Notes, Must, StepIs
  <1> QED
    BY <1>1, <1>8, <1>9 DEF p

LEMMA A8_bind_front_end_ok ==
    /\ Stage("a8", A8_bind_front_end, {R("isp_port"), R("scl_run")}, {})
PROOF
  <1> DEFINE p == A8_bind_front_end
  <1>1. /\ Len(p) = 2
        /\ StepIs(p[1], "must", {R("vif_isp")}, {R("BOUND")})
        /\ StepIs(p[2], "must", {R("isp_scl")}, {})
    BY DEF A8_bind_front_end, Get, Own, Got, Opt, Noted, Spawn, MustCall, StepIs, StepOf
  <1>2. p \in Seq({p[j] : j \in 1 .. 2})
    BY DEF A8_bind_front_end
  <1> HIDE DEF p
  <1>3. \A j \in 1 .. Len(p) : j \in {1, 2}
    BY <1>1
  <1>4. \A j \in 1 .. Len(p) : p[j].kind \in {"must"}
    BY <1>1, <1>3 DEF StepIs
  <1>5. \A j \in 1 .. Len(p) : \A r \in p[j].res :
          \/ j = 1 /\ r = R("vif_isp")
          \/ j = 2 /\ r = R("isp_scl")
    BY <1>1, <1>3 DEF StepIs
  <1>6. Stands("a8", p, {R("isp_port"), R("scl_run")})
    BY <1>1, <1>5, A8_uses DEF Stands, Must, StepIs
  <1>7. Returned("a8", p, {}) /\ Spawns(p)
    <2>1. Returned("a8", p, {})
      BY <1>1, <1>5, A8_left, A8_back, A8_notes DEF Returned, Must, StepIs
    <2>2. Spawns(p)
      BY <1>1, <1>3, A8_threads DEF Spawns, Starts, StepIs
    <2> QED
      BY <2>1, <2>2
  <1>8. Stage("a8", p, {R("isp_port"), R("scl_run")}, {})
    BY <1>2, <1>4, <1>6, <1>7, LitStage DEF Unbroken
  <1> QED
    BY <1>1, <1>8 DEF p

\* The parts of the opening that go stream by stream, and the media's own.
A8_port_begin == <<Noted(R("PORTS"))>>
A8_port(i) == <<MustCall, Own(<<"port", i>>)>>
A8_venc_begin == <<Noted(R("VENC")), Got(R("venc_device"))>>
A8_encoder(i) == <<Own(<<"chn", i>>), Got(<<"recv", i>>), Own(<<"bind", i>>), Own(<<"fd", i>>)>>
A8_servers == <<MustCall, Own(R("rtsp")), MustCall, Opt(R("proxy")),
                Own(R("live")), MustCall, MustCall, Spawn(R("capture"))>>

LEMMA A8_port_begin_ok ==
    /\ Stage("a8", A8_port_begin, {}, {})
PROOF
  <1> DEFINE p == A8_port_begin
  <1>1. /\ Len(p) = 1
        /\ StepIs(p[1], "note", {}, {R("PORTS")})
    BY DEF A8_port_begin, Get, Own, Got, Opt, Noted, Spawn, MustCall, StepIs, StepOf
  <1>2. p \in Seq({p[j] : j \in 1 .. 1})
    BY DEF A8_port_begin
  <1> HIDE DEF p
  <1>3. \A j \in 1 .. Len(p) : j \in {1}
    BY <1>1
  <1>4. \A j \in 1 .. Len(p) : p[j].kind \in {"note"}
    BY <1>1, <1>3 DEF StepIs
  <1>5. \A j \in 1 .. Len(p) : \A r \in p[j].res :
          FALSE
    BY <1>1, <1>3 DEF StepIs
  <1>6. Stands("a8", p, {})
    BY <1>1, <1>5, A8_uses DEF Stands, Must, StepIs
  <1>7. Returned("a8", p, {}) /\ Spawns(p)
    <2>1. Returned("a8", p, {})
      BY <1>1, <1>5, A8_left, A8_back, A8_notes DEF Returned, Must, StepIs
    <2>2. Spawns(p)
      BY <1>1, <1>3, A8_threads DEF Spawns, Starts, StepIs
    <2> QED
      BY <2>1, <2>2
  <1>8. Stage("a8", p, {}, {})
    BY <1>2, <1>4, <1>6, <1>7, LitStage DEF Unbroken
  <1> QED
    BY <1>1, <1>8 DEF p

LEMMA A8_port_ok ==
    ASSUME NEW i \in 1 .. Streams
    PROVE  /\ Stage("a8", A8_port(i), {}, {})
           /\ Len(A8_port(i)) = 2
           /\ Gives(A8_port(i), <<"port", i>>)
PROOF
  <1> DEFINE p == A8_port(i)
  <1>1. /\ Len(p) = 2
        /\ StepIs(p[1], "must", {}, {})
        /\ StepIs(p[2], "must", {<<"port", i>>}, {<<"port", i>>})
    BY DEF A8_port, Get, Own, Got, Opt, Noted, Spawn, MustCall, StepIs, StepOf
  <1>2. p \in Seq({p[j] : j \in 1 .. 2})
    BY DEF A8_port
  <1> HIDE DEF p
  <1>3. \A j \in 1 .. Len(p) : j \in {1, 2}
    BY <1>1
  <1>4. \A j \in 1 .. Len(p) : p[j].kind \in {"must"}
    BY <1>1, <1>3 DEF StepIs
  <1>5. \A j \in 1 .. Len(p) : \A r \in p[j].res :
          \/ j = 2 /\ r = <<"port", i>>
    BY <1>1, <1>3 DEF StepIs
  <1>6. Stands("a8", p, {})
    BY <1>1, <1>5, A8_uses DEF Stands, Must, StepIs
  <1>7. Returned("a8", p, {}) /\ Spawns(p)
    <2>1. Returned("a8", p, {})
      BY <1>1, <1>5, A8_left, A8_back, A8_notes DEF Returned, Must, StepIs
    <2>2. Spawns(p)
      BY <1>1, <1>3, A8_threads DEF Spawns, Starts, StepIs
    <2> QED
      BY <2>1, <2>2
  <1>8. Stage("a8", p, {}, {})
    BY <1>2, <1>4, <1>6, <1>7, LitStage DEF Unbroken
  <1>9. /\ Gives(p, <<"port", i>>)
    BY <1>1 DEF Gives, Notes, Must, StepIs
  <1> QED
    BY <1>1, <1>8, <1>9 DEF p

LEMMA A8_venc_begin_ok ==
    /\ Stage("a8", A8_venc_begin, Each("port"), {})
PROOF
  <1> DEFINE p == A8_venc_begin
  <1>1. /\ Len(p) = 2
        /\ StepIs(p[1], "note", {}, {R("VENC")})
        /\ StepIs(p[2], "must", {R("venc_device")}, {})
    BY DEF A8_venc_begin, Get, Own, Got, Opt, Noted, Spawn, MustCall, StepIs, StepOf
  <1>2. p \in Seq({p[j] : j \in 1 .. 2})
    BY DEF A8_venc_begin
  <1> HIDE DEF p
  <1>3. \A j \in 1 .. Len(p) : j \in {1, 2}
    BY <1>1
  <1>4. \A j \in 1 .. Len(p) : p[j].kind \in {"must", "note"}
    BY <1>1, <1>3 DEF StepIs
  <1>5. \A j \in 1 .. Len(p) : \A r \in p[j].res :
          \/ j = 2 /\ r = R("venc_device")
    BY <1>1, <1>3 DEF StepIs
  <1>6. Stands("a8", p, Each("port"))
    BY <1>1, <1>5, A8_uses DEF Stands, Must, StepIs, Each
  <1>7. Returned("a8", p, {}) /\ Spawns(p)
    <2>1. Returned("a8", p, {})
      BY <1>1, <1>5, A8_left, A8_back, A8_notes DEF Returned, Must, StepIs
    <2>2. Spawns(p)
      BY <1>1, <1>3, A8_threads DEF Spawns, Starts, StepIs
    <2> QED
      BY <2>1, <2>2
  <1>8. Stage("a8", p, Each("port"), {})
    BY <1>2, <1>4, <1>6, <1>7, LitStage DEF Unbroken
  <1> QED
    BY <1>1, <1>8 DEF p

LEMMA A8_encoder_ok ==
    ASSUME NEW i \in 1 .. Streams
    PROVE  /\ Stage("a8", A8_encoder(i), Each("port"), {})
           /\ Len(A8_encoder(i)) = 4
           /\ Gives(A8_encoder(i), <<"chn", i>>)
PROOF
  <1> DEFINE p == A8_encoder(i)
  <1>1. /\ Len(p) = 4
        /\ StepIs(p[1], "must", {<<"chn", i>>}, {<<"chn", i>>})
        /\ StepIs(p[2], "must", {<<"recv", i>>}, {})
        /\ StepIs(p[3], "must", {<<"bind", i>>}, {<<"bind", i>>})
        /\ StepIs(p[4], "must", {<<"fd", i>>}, {<<"fd", i>>})
    BY DEF A8_encoder, Get, Own, Got, Opt, Noted, Spawn, MustCall, StepIs, StepOf
  <1>2. p \in Seq({p[j] : j \in 1 .. 4})
    BY DEF A8_encoder
  <1> HIDE DEF p
  <1>3. \A j \in 1 .. Len(p) : j \in {1, 2, 3, 4}
    BY <1>1
  <1>4. \A j \in 1 .. Len(p) : p[j].kind \in {"must"}
    BY <1>1, <1>3 DEF StepIs
  <1>5. \A j \in 1 .. Len(p) : \A r \in p[j].res :
          \/ j = 1 /\ r = <<"chn", i>>
          \/ j = 2 /\ r = <<"recv", i>>
          \/ j = 3 /\ r = <<"bind", i>>
          \/ j = 4 /\ r = <<"fd", i>>
    BY <1>1, <1>3 DEF StepIs
  <1>6. Stands("a8", p, Each("port"))
    BY <1>1, <1>5, A8_uses DEF Stands, Must, StepIs, Each
  <1>7. Returned("a8", p, {}) /\ Spawns(p)
    <2>1. Returned("a8", p, {})
      BY <1>1, <1>5, A8_left, A8_back, A8_notes DEF Returned, Must, StepIs
    <2>2. Spawns(p)
      BY <1>1, <1>3, A8_threads DEF Spawns, Starts, StepIs
    <2> QED
      BY <2>1, <2>2
  <1>8. Stage("a8", p, Each("port"), {})
    BY <1>2, <1>4, <1>6, <1>7, LitStage DEF Unbroken
  <1>9. /\ Gives(p, <<"chn", i>>)
    BY <1>1 DEF Gives, Notes, Must, StepIs
  <1> QED
    BY <1>1, <1>8, <1>9 DEF p

LEMMA A8_jpeg_start_ok ==
    /\ Stage("a8", A8_jpeg_start, {}, {})
PROOF
  <1> DEFINE p == A8_jpeg_start
  <1>1. /\ Len(p) = 3
        /\ StepIs(p[1], "must", {R("mjpg_device")}, {})
        /\ StepIs(p[2], "must", {R("mjpg")}, {R("jpeg")})
        /\ StepIs(p[3], "must", {R("mjpg_bind")}, {R("mjpg_bind")})
    BY DEF A8_jpeg_start, Get, Own, Got, Opt, Noted, Spawn, MustCall, StepIs, StepOf
  <1>2. p \in Seq({p[j] : j \in 1 .. 3})
    BY DEF A8_jpeg_start
  <1> HIDE DEF p
  <1>3. \A j \in 1 .. Len(p) : j \in {1, 2, 3}
    BY <1>1
  <1>4. \A j \in 1 .. Len(p) : p[j].kind \in {"must"}
    BY <1>1, <1>3 DEF StepIs
  <1>5. \A j \in 1 .. Len(p) : \A r \in p[j].res :
          \/ j = 1 /\ r = R("mjpg_device")
          \/ j = 2 /\ r = R("mjpg")
          \/ j = 3 /\ r = R("mjpg_bind")
    BY <1>1, <1>3 DEF StepIs
  <1>6. Stands("a8", p, {})
    BY <1>1, <1>5, A8_uses DEF Stands, Must, StepIs
  <1>7. Returned("a8", p, {}) /\ Spawns(p)
    <2>1. Returned("a8", p, {})
      BY <1>1, <1>5, A8_left, A8_back, A8_notes DEF Returned, Must, StepIs
    <2>2. Spawns(p)
      BY <1>1, <1>3, A8_threads DEF Spawns, Starts, StepIs
    <2> QED
      BY <2>1, <2>2
  <1>8. Stage("a8", p, {}, {})
    BY <1>2, <1>4, <1>6, <1>7, LitStage DEF Unbroken
  <1> QED
    BY <1>1, <1>8 DEF p

LEMMA A8_servers_ok ==
    /\ Stage("a8", A8_servers, Each("chn"), {})
PROOF
  <1> DEFINE p == A8_servers
  <1>1. /\ Len(p) = 8
        /\ StepIs(p[1], "must", {}, {})
        /\ StepIs(p[2], "must", {R("rtsp")}, {R("rtsp")})
        /\ StepIs(p[3], "must", {}, {})
        /\ StepIs(p[4], "may", {R("proxy")}, {R("proxy")})
        /\ StepIs(p[5], "must", {R("live")}, {R("live")})
        /\ StepIs(p[6], "must", {}, {})
        /\ StepIs(p[7], "must", {}, {})
        /\ StepIs(p[8], "spawn", {R("capture")}, {R("capture")})
    BY DEF A8_servers, Get, Own, Got, Opt, Noted, Spawn, MustCall, StepIs, StepOf
  <1>2. p \in Seq({p[j] : j \in 1 .. 8})
    BY DEF A8_servers
  <1> HIDE DEF p
  <1>3. \A j \in 1 .. Len(p) : j \in {1, 2, 3, 4, 5, 6, 7, 8}
    BY <1>1
  <1>4. \A j \in 1 .. Len(p) : p[j].kind \in {"may", "must", "spawn"}
    BY <1>1, <1>3 DEF StepIs
  <1>5. \A j \in 1 .. Len(p) : \A r \in p[j].res :
          \/ j = 2 /\ r = R("rtsp")
          \/ j = 4 /\ r = R("proxy")
          \/ j = 5 /\ r = R("live")
          \/ j = 8 /\ r = R("capture")
    BY <1>1, <1>3 DEF StepIs
  <1>6. Stands("a8", p, Each("chn"))
    BY <1>1, <1>5, A8_uses DEF Stands, Must, StepIs, Each
  <1>7. Returned("a8", p, {}) /\ Spawns(p)
    <2>1. Returned("a8", p, {})
      BY <1>1, <1>5, A8_left, A8_back, A8_notes DEF Returned, Must, StepIs
    <2>2. Spawns(p)
      BY <1>1, <1>3, A8_threads DEF Spawns, Starts, StepIs
    <2> QED
      BY <2>1, <2>2
  <1>8. Stage("a8", p, Each("chn"), {})
    BY <1>2, <1>4, <1>6, <1>7, LitStage DEF Unbroken
  <1> QED
    BY <1>1, <1>8 DEF p

LEMMA A8_scl_ports_start_ok ==
    /\ Stage("a8", A8_scl_ports_start, {}, {})
    /\ \A i \in 1 .. Streams : Gives(A8_scl_ports_start, <<"port", i>>)
PROOF
  <1> DEFINE
      q1 == A8_port_begin
      q2 == FlattenSeq([i \in 1 .. Streams |-> A8_port(i)])
      w2 == q1 \o q2
  <1>0. A8_scl_ports_start = w2
    BY DEF A8_scl_ports_start, A8_port_begin, A8_port, ForAll
  <1>1. Stage("a8", q1, {}, {})
    BY A8_port_begin_ok
  <1>2. /\ Stage("a8", q2, {}, {})
        /\ \A i \in 1 .. Streams : Gives(q2, <<"port", i>>)
    <2> DEFINE s == [i \in 1 .. Streams |-> A8_port(i)]
    <2>1. Len(s) = Streams /\ \A i \in 1 .. Streams : s[i] = A8_port(i)
      BY BringUpAssumption
    <2> HIDE DEF s
    <2>2. \A i \in 1 .. Streams : Stage("a8", s[i], {}, {}) /\ Len(s[i]) = 2
      BY <2>1, A8_port_ok
    <2>3. /\ Stage("a8", FlattenSeq(s), {}, {})
          /\ \A i \in 1 .. Streams : \A x : Gives(s[i], x) => Gives(FlattenSeq(s), x)
      BY <2>1, <2>2, StreamsFit, BringUpAssumption
    <2> QED
      BY <2>1, <2>3, A8_port_ok DEF s
  <1> HIDE DEF q1, q2
  <1>3. /\ Stage("a8", w2, {}, {})
        /\ \A i \in 1 .. Streams : Gives(w2, <<"port", i>>)
    <2>1. Follows(w2, q1, q2)
      BY DEF Follows
    <2> HIDE DEF w2
    <2>2. Supplied(q1, {}, {}) /\ Marked(q1, {}, {})
      BY <1>1 DEF Supplied, Marked
    <2>3. Stage("a8", w2, {}, {}) /\ GivenBy(w2, q1, q2)
      BY <2>1, <2>2, <1>1, <1>2, StageJoin
    <2> QED
      BY <2>3, <1>1, <1>2 DEF GivenBy
  <1> HIDE DEF w2
  <1> QED
    BY <1>0, <1>3

LEMMA A8_venc_start_ok ==
    /\ Stage("a8", A8_venc_start, Each("port"), {})
    /\ \A i \in 1 .. Streams : Gives(A8_venc_start, <<"chn", i>>)
PROOF
  <1> DEFINE
      q1 == A8_venc_begin
      q2 == FlattenSeq([i \in 1 .. Streams |-> A8_encoder(i)])
      w2 == q1 \o q2
  <1>0. A8_venc_start = w2
    BY DEF A8_venc_start, A8_venc_begin, A8_encoder, ForAll
  <1>1. Stage("a8", q1, Each("port"), {})
    BY A8_venc_begin_ok
  <1>2. /\ Stage("a8", q2, Each("port"), {})
        /\ \A i \in 1 .. Streams : Gives(q2, <<"chn", i>>)
    <2> DEFINE s == [i \in 1 .. Streams |-> A8_encoder(i)]
    <2>1. Len(s) = Streams /\ \A i \in 1 .. Streams : s[i] = A8_encoder(i)
      BY BringUpAssumption
    <2> HIDE DEF s
    <2>2. \A i \in 1 .. Streams : Stage("a8", s[i], Each("port"), {}) /\ Len(s[i]) = 4
      BY <2>1, A8_encoder_ok
    <2>3. /\ Stage("a8", FlattenSeq(s), Each("port"), {})
          /\ \A i \in 1 .. Streams : \A x : Gives(s[i], x) => Gives(FlattenSeq(s), x)
      BY <2>1, <2>2, StreamsFit, BringUpAssumption
    <2> QED
      BY <2>1, <2>3, A8_encoder_ok DEF s
  <1> HIDE DEF q1, q2
  <1>3. /\ Stage("a8", w2, Each("port"), {})
        /\ \A i \in 1 .. Streams : Gives(w2, <<"chn", i>>)
    <2>1. Follows(w2, q1, q2)
      BY DEF Follows
    <2> HIDE DEF w2
    <2>2. Supplied(q1, Each("port"), Each("port")) /\ Marked(q1, {}, {})
      BY <1>1 DEF Supplied, Marked
    <2>3. Stage("a8", w2, Each("port"), {}) /\ GivenBy(w2, q1, q2)
      BY <2>1, <2>2, <1>1, <1>2, StageJoin
    <2> QED
      BY <2>3, <1>1, <1>2 DEF GivenBy
  <1> HIDE DEF w2
  <1> QED
    BY <1>0, <1>3

LEMMA A8_pipeline_open_ok ==
    /\ Stage("a8", A8_pipeline_open, {}, {})
    /\ \A i \in 1 .. Streams : Gives(A8_pipeline_open, <<"chn", i>>)
PROOF
  <1> DEFINE
      q1 == A8_load
      q2 == A8_sensor_start
      q3 == A8_vif_start
      q4 == A8_isp_start
      q5 == A8_scl_start
      q6 == A8_bind_front_end
      q7 == A8_scl_ports_start
      q8 == A8_venc_start
      q9 == A8_jpeg_start
      w2 == q1 \o q2
      w3 == w2 \o q3
      w4 == w3 \o q4
      w5 == w4 \o q5
      w6 == w5 \o q6
      w7 == w6 \o q7
      w8 == w7 \o q8
      w9 == w8 \o q9
  <1>0. A8_pipeline_open = w9
    BY DEF A8_pipeline_open
  <1>1. /\ Stage("a8", q1, {}, {}) /\ Gives(q1, R("sys"))
    BY A8_load_ok
  <1>2. /\ Stage("a8", q2, {R("sys")}, {}) /\ Gives(q2, R("sensor"))
    BY A8_sensor_start_ok
  <1>3. /\ Stage("a8", q3, {R("sensor")}, {}) /\ Gives(q3, R("vif_port"))
    BY A8_vif_start_ok
  <1>4. /\ Stage("a8", q4, {R("vif_port")}, {}) /\ Gives(q4, R("isp_port"))
    BY A8_isp_start_ok
  <1>5. /\ Stage("a8", q5, {}, {}) /\ Gives(q5, R("scl_run"))
    BY A8_scl_start_ok
  <1>6. Stage("a8", q6, {R("isp_port"), R("scl_run")}, {})
    BY A8_bind_front_end_ok
  <1>7. /\ Stage("a8", q7, {}, {})
        /\ \A i \in 1 .. Streams : Gives(q7, <<"port", i>>)
    BY A8_scl_ports_start_ok
  <1>8. /\ Stage("a8", q8, Each("port"), {})
        /\ \A i \in 1 .. Streams : Gives(q8, <<"chn", i>>)
    BY A8_venc_start_ok
  <1>9. Stage("a8", q9, {}, {})
    BY A8_jpeg_start_ok
  <1> HIDE DEF q1, q2, q3, q4, q5, q6, q7, q8, q9
  <1>10. /\ Stage("a8", w2, {}, {}) /\ Gives(w2, R("sensor"))
    <2>1. Follows(w2, q1, q2)
      BY DEF Follows
    <2> HIDE DEF w2
    <2>2. Supplied(q1, {}, {R("sys")}) /\ Marked(q1, {}, {})
      BY <1>1 DEF Supplied, Marked
    <2>3. Stage("a8", w2, {}, {}) /\ GivenBy(w2, q1, q2)
      BY <2>1, <2>2, <1>1, <1>2, StageJoin
    <2> QED
      BY <2>3, <1>1, <1>2 DEF GivenBy
  <1> HIDE DEF w2
  <1>11. /\ Stage("a8", w3, {}, {}) /\ Gives(w3, R("vif_port"))
    <2>1. Follows(w3, w2, q3)
      BY DEF Follows
    <2> HIDE DEF w3
    <2>2. Supplied(w2, {}, {R("sensor")}) /\ Marked(w2, {}, {})
      BY <1>10 DEF Supplied, Marked
    <2>3. Stage("a8", w3, {}, {}) /\ GivenBy(w3, w2, q3)
      BY <2>1, <2>2, <1>10, <1>3, StageJoin
    <2> QED
      BY <2>3, <1>10, <1>3 DEF GivenBy
  <1> HIDE DEF w3
  <1>12. /\ Stage("a8", w4, {}, {}) /\ Gives(w4, R("isp_port"))
    <2>1. Follows(w4, w3, q4)
      BY DEF Follows
    <2> HIDE DEF w4
    <2>2. Supplied(w3, {}, {R("vif_port")}) /\ Marked(w3, {}, {})
      BY <1>11 DEF Supplied, Marked
    <2>3. Stage("a8", w4, {}, {}) /\ GivenBy(w4, w3, q4)
      BY <2>1, <2>2, <1>11, <1>4, StageJoin
    <2> QED
      BY <2>3, <1>11, <1>4 DEF GivenBy
  <1> HIDE DEF w4
  <1>13. /\ Stage("a8", w5, {}, {}) /\ Gives(w5, R("isp_port")) /\ Gives(w5, R("scl_run"))
    <2>1. Follows(w5, w4, q5)
      BY DEF Follows
    <2> HIDE DEF w5
    <2>2. Supplied(w4, {}, {}) /\ Marked(w4, {}, {})
      BY <1>12 DEF Supplied, Marked
    <2>3. Stage("a8", w5, {}, {}) /\ GivenBy(w5, w4, q5)
      BY <2>1, <2>2, <1>12, <1>5, StageJoin
    <2> QED
      BY <2>3, <1>12, <1>5 DEF GivenBy
  <1> HIDE DEF w5
  <1>14. Stage("a8", w6, {}, {})
    <2>1. Follows(w6, w5, q6)
      BY DEF Follows
    <2> HIDE DEF w6
    <2>2. Supplied(w5, {}, {R("isp_port"), R("scl_run")}) /\ Marked(w5, {}, {})
      BY <1>13 DEF Supplied, Marked
    <2>3. Stage("a8", w6, {}, {}) /\ GivenBy(w6, w5, q6)
      BY <2>1, <2>2, <1>13, <1>6, StageJoin
    <2> QED
      BY <2>3, <1>13, <1>6 DEF GivenBy
  <1> HIDE DEF w6
  <1>15. /\ Stage("a8", w7, {}, {})
         /\ \A i \in 1 .. Streams : Gives(w7, <<"port", i>>)
    <2>1. Follows(w7, w6, q7)
      BY DEF Follows
    <2> HIDE DEF w7
    <2>2. Supplied(w6, {}, {}) /\ Marked(w6, {}, {})
      BY <1>14 DEF Supplied, Marked
    <2>3. Stage("a8", w7, {}, {}) /\ GivenBy(w7, w6, q7)
      BY <2>1, <2>2, <1>14, <1>7, StageJoin
    <2> QED
      BY <2>3, <1>14, <1>7 DEF GivenBy
  <1> HIDE DEF w7
  <1>16. /\ Stage("a8", w8, {}, {})
         /\ \A i \in 1 .. Streams : Gives(w8, <<"chn", i>>)
    <2>1. Follows(w8, w7, q8)
      BY DEF Follows
    <2> HIDE DEF w8
    <2>2. Supplied(w7, {}, Each("port")) /\ Marked(w7, {}, {})
      BY <1>15 DEF Supplied, Marked, Each
    <2>3. Stage("a8", w8, {}, {}) /\ GivenBy(w8, w7, q8)
      BY <2>1, <2>2, <1>15, <1>8, StageJoin
    <2> QED
      BY <2>3, <1>15, <1>8 DEF GivenBy
  <1> HIDE DEF w8
  <1>17. /\ Stage("a8", w9, {}, {})
         /\ \A i \in 1 .. Streams : Gives(w9, <<"chn", i>>)
    <2>1. Follows(w9, w8, q9)
      BY DEF Follows
    <2> HIDE DEF w9
    <2>2. Supplied(w8, {}, {}) /\ Marked(w8, {}, {})
      BY <1>16 DEF Supplied, Marked
    <2>3. Stage("a8", w9, {}, {}) /\ GivenBy(w9, w8, q9)
      BY <2>1, <2>2, <1>16, <1>9, StageJoin
    <2> QED
      BY <2>3, <1>16, <1>9 DEF GivenBy
  <1> HIDE DEF w9
  <1> QED
    BY <1>0, <1>17

LEMMA A8_media_open_ok ==
    /\ Stage("a8", A8_media_open, {}, {})
PROOF
  <1> DEFINE
      q1 == A8_pipeline_open
      q2 == A8_servers
      w2 == q1 \o q2
  <1>0. A8_media_open = w2
    BY DEF A8_media_open, A8_servers
  <1>1. /\ Stage("a8", q1, {}, {})
        /\ \A i \in 1 .. Streams : Gives(q1, <<"chn", i>>)
    BY A8_pipeline_open_ok
  <1>2. Stage("a8", q2, Each("chn"), {})
    BY A8_servers_ok
  <1> HIDE DEF q1, q2
  <1>3. Stage("a8", w2, {}, {})
    <2>1. Follows(w2, q1, q2)
      BY DEF Follows
    <2> HIDE DEF w2
    <2>2. Supplied(q1, {}, Each("chn")) /\ Marked(q1, {}, {})
      BY <1>1 DEF Supplied, Marked, Each
    <2>3. Stage("a8", w2, {}, {}) /\ GivenBy(w2, q1, q2)
      BY <2>1, <2>2, <1>1, <1>2, StageJoin
    <2> QED
      BY <2>3, <1>1, <1>2 DEF GivenBy
  <1> HIDE DEF w2
  <1> QED
    BY <1>0, <1>3

LEMMA A8_ranked == Ranked("a8")
  BY A8_pairs, A8_turns, A8_unleft, BringUpAssumption DEF Ranked

LEMMA A8_sound == Sound("a8")
PROOF
  <1>1. OpenSteps("a8") = A8_media_open /\ CloseSteps("a8") = A8_media_cleanup
    BY DEF OpenSteps, CloseSteps
  <1>2. IsSeq(A8_media_open) /\ Fits("a8", A8_media_open, {}, {})
    BY A8_media_open_ok DEF Stage
  <1>3. IsSeq(A8_media_cleanup) /\ Placed("a8", A8_media_cleanup, 0)
    BY A8_close_ok DEF Undoing
  <1> QED
    BY <1>1, <1>2, <1>3, A8_ranked, A8_left DEF Sound

-----------------------------------------------------------------------------
\* The SIYI ZR10's.

\* What stands on what (StandsOn), pair by pair.
LEMMA ZR_pairs ==
    ASSUME NEW x \in StandsOn("zr10")
    PROVE  \/ \E i \in 1 .. Streams :
                 \/ x = <<<<"bind", i>>, <<"chn", i>>>>
                 \/ x = <<<<"recv", i>>, <<"chn", i>>>>
                 \/ x = <<<<"fd", i>>, <<"chn", i>>>>
                 \/ x = <<<<"bind", i>>, <<"port", i>>>>
                 \/ x = <<R("capture"), <<"chn", i>>>>
           \/ x = <<R("capture"), R("rtsp")>>
           \/ x = <<R("capture"), R("live")>>
           \/ x = <<R("front"), R("vpe_run")>>
           \/ x = <<R("vpe_run"), R("vpe")>>
           \/ x = <<R("vpe"), R("vif_port")>>
           \/ x = <<R("vif_port"), R("vif_device")>>
           \/ x = <<R("vif_device"), R("sensor")>>
           \/ x = <<R("sensor"), R("sys")>>
           \/ x = <<R("sys"), R("libs")>>
           \/ x = <<R("libs"), R("lock")>>
  BY DEF StandsOn

LEMMA ZR_uses ==
    /\ \A q : ~Uses("zr10", R("lock"), q)
    /\ \A q : Uses("zr10", R("libs"), q) => q = R("lock")
    /\ \A q : Uses("zr10", R("sys"), q) => q = R("libs")
    /\ \A q : Uses("zr10", R("sensor"), q) => q = R("sys")
    /\ \A q : Uses("zr10", R("vif_device"), q) => q = R("sensor")
    /\ \A q : Uses("zr10", R("vif_port"), q) => q = R("vif_device")
    /\ \A q : Uses("zr10", R("vpe"), q) => q = R("vif_port")
    /\ \A q : Uses("zr10", R("vpe_run"), q) => q = R("vpe")
    /\ \A q : Uses("zr10", R("front"), q) => q = R("vpe_run")
    /\ \A i \in 1 .. Streams : \A q : ~Uses("zr10", <<"port", i>>, q)
    /\ \A i \in 1 .. Streams : \A q : ~Uses("zr10", <<"chn", i>>, q)
    /\ \A i \in 1 .. Streams : \A q : Uses("zr10", <<"bind", i>>, q) => q = <<"chn", i>> \/ q = <<"port", i>>
    /\ \A i \in 1 .. Streams : \A q : Uses("zr10", <<"recv", i>>, q) => q = <<"chn", i>>
    /\ \A i \in 1 .. Streams : \A q : Uses("zr10", <<"fd", i>>, q) => q = <<"chn", i>>
    /\ \A q : ~Uses("zr10", R("rtsp"), q)
    /\ \A q : ~Uses("zr10", R("proxy"), q)
    /\ \A q : ~Uses("zr10", R("live"), q)
    /\ \A q : Uses("zr10", R("capture"), q) => q = R("rtsp") \/ q = R("live") \/ (\E i \in 1 .. Streams : q = <<"chn", i>>)
  BY ZR_pairs DEF Uses, R

LEMMA ZR_turns ==
    /\ Turn("zr10", R("stop")) = 1 /\ Turn("zr10", R("capture")) = 2
    /\ Turn("zr10", R("live")) = 3 /\ Turn("zr10", R("proxy")) = 4
    /\ Turn("zr10", R("rtsp")) = 5 /\ Turn("zr10", R("front")) = 5 * Streams + 6
    /\ Turn("zr10", R("vpe_run")) = 5 * Streams + 7
    /\ Turn("zr10", R("vpe")) = 5 * Streams + 8
    /\ Turn("zr10", R("vif_port")) = 5 * Streams + 9
    /\ Turn("zr10", R("vif_device")) = 5 * Streams + 10
    /\ Turn("zr10", R("sensor")) = 5 * Streams + 11
    /\ Turn("zr10", R("sys")) = 5 * Streams + 12
    /\ Turn("zr10", R("libs")) = 5 * Streams + 13
    /\ Turn("zr10", R("lock")) = 5 * Streams + 14
    /\ \A i \in 1 .. Streams : Turn("zr10", <<"recv", i>>) = 5 * (Streams - i) + 6
    /\ \A i \in 1 .. Streams : Turn("zr10", <<"fd", i>>) = 5 * (Streams - i) + 7
    /\ \A i \in 1 .. Streams : Turn("zr10", <<"bind", i>>) = 5 * (Streams - i) + 8
    /\ \A i \in 1 .. Streams : Turn("zr10", <<"chn", i>>) = 5 * (Streams - i) + 9
    /\ \A i \in 1 .. Streams : Turn("zr10", <<"port", i>>) = 5 * (Streams - i) + 10
  BY DEF Turn, Turn_zr10, R

LEMMA ZR_notes ==
    /\ NoteOf("zr10", R("lock")) = R("lock") /\ NoteOf("zr10", R("libs")) = R("libs")
    /\ NoteOf("zr10", R("sys")) = R("sys") /\ NoteOf("zr10", R("sensor")) = R("sensor")
    /\ NoteOf("zr10", R("vif_device")) = R("vif_device")
    /\ NoteOf("zr10", R("vif_port")) = R("vif_port") /\ NoteOf("zr10", R("vpe")) = R("vpe")
    /\ NoteOf("zr10", R("vpe_run")) = R("vpe_run")
    /\ NoteOf("zr10", R("front")) = R("front") /\ NoteOf("zr10", R("rtsp")) = R("rtsp")
    /\ NoteOf("zr10", R("proxy")) = R("proxy") /\ NoteOf("zr10", R("live")) = R("live")
    /\ NoteOf("zr10", R("capture")) = R("capture")
    /\ \A i \in 1 .. Streams : NoteOf("zr10", <<"port", i>>) = <<"port", i>>
    /\ \A i \in 1 .. Streams : NoteOf("zr10", <<"chn", i>>) = <<"chn", i>>
    /\ \A i \in 1 .. Streams : NoteOf("zr10", <<"bind", i>>) = <<"bind", i>>
    /\ \A i \in 1 .. Streams : NoteOf("zr10", <<"recv", i>>) = <<"recv", i>>
    /\ \A i \in 1 .. Streams : NoteOf("zr10", <<"fd", i>>) = <<"fd", i>>
  BY DEF NoteOf, R, always

LEMMA ZR_threads ==
    /\ R("lock") \notin ThreadNames /\ R("libs") \notin ThreadNames /\ R("sys") \notin ThreadNames
    /\ R("sensor") \notin ThreadNames /\ R("vif_device") \notin ThreadNames
    /\ R("vif_port") \notin ThreadNames /\ R("vpe") \notin ThreadNames
    /\ R("vpe_run") \notin ThreadNames /\ R("front") \notin ThreadNames /\ R("rtsp") \notin ThreadNames
    /\ R("proxy") \notin ThreadNames /\ R("live") \notin ThreadNames
    /\ \A i \in 1 .. Streams : <<"port", i>> \notin ThreadNames
    /\ \A i \in 1 .. Streams : <<"chn", i>> \notin ThreadNames
    /\ \A i \in 1 .. Streams : <<"bind", i>> \notin ThreadNames
    /\ \A i \in 1 .. Streams : <<"recv", i>> \notin ThreadNames
    /\ \A i \in 1 .. Streams : <<"fd", i>> \notin ThreadNames
    /\ R("capture") \in ThreadNames
  BY DEF ThreadNames, Workers, R

LEMMA ZR_unleft ==
    /\ R("lock") \notin Leftover("zr10") /\ R("libs") \notin Leftover("zr10")
    /\ R("sys") \notin Leftover("zr10") /\ R("sensor") \notin Leftover("zr10")
    /\ R("vif_device") \notin Leftover("zr10") /\ R("vif_port") \notin Leftover("zr10")
    /\ R("vpe") \notin Leftover("zr10") /\ R("vpe_run") \notin Leftover("zr10")
    /\ R("front") \notin Leftover("zr10") /\ R("rtsp") \notin Leftover("zr10")
    /\ R("proxy") \notin Leftover("zr10") /\ R("live") \notin Leftover("zr10")
    /\ R("capture") \notin Leftover("zr10")
    /\ \A i \in 1 .. Streams : <<"port", i>> \notin Leftover("zr10")
    /\ \A i \in 1 .. Streams : <<"chn", i>> \notin Leftover("zr10")
    /\ \A i \in 1 .. Streams : <<"bind", i>> \notin Leftover("zr10")
    /\ \A i \in 1 .. Streams : <<"recv", i>> \notin Leftover("zr10")
    /\ \A i \in 1 .. Streams : <<"fd", i>> \notin Leftover("zr10")
  BY DEF Leftover, R

LEMMA ZR_left ==
    /\ ThreadNames \cap Leftover("zr10") = {}
  BY DEF ThreadNames, Workers, Leftover, R

\* The parts of the clean-up.
ZR_close_media ==
    <<Raise("stop", R("capture")), Join(R("capture")), Drop(R("live")),
      Drop(R("proxy")), Drop(R("rtsp"))>>
ZR_close_front ==
    <<Drop(R("front")), Drop(R("vpe_run")), Drop(R("vpe")),
      Drop(R("vif_port")), Drop(R("vif_device")), Drop(R("sensor")),
      Drop(R("sys")), Drop(R("libs")), Drop(R("lock"))>>

LEMMA ZR_close_media_ok ==
    /\ Undoing("zr10", ZR_close_media, 0, 5)
    /\ Has(ZR_close_media, Undo("join", R("capture"), R("capture")))
    /\ Has(ZR_close_media, Undo("free", R("live"), R("live")))
    /\ Has(ZR_close_media, Undo("free", R("proxy"), R("proxy")))
    /\ Has(ZR_close_media, Undo("free", R("rtsp"), R("rtsp")))
PROOF
  <1> DEFINE p == ZR_close_media
  <1>1. /\ Len(p) = 5
        /\ p[1] = Undo("raise", R("stop"), R("capture"))
        /\ p[2] = Undo("join", R("capture"), R("capture"))
        /\ p[3] = Undo("free", R("live"), R("live"))
        /\ p[4] = Undo("free", R("proxy"), R("proxy"))
        /\ p[5] = Undo("free", R("rtsp"), R("rtsp"))
    BY DEF ZR_close_media, Drop, Free, Raise, Join
  <1>2. p \in Seq({p[j] : j \in 1 .. 5})
    BY DEF ZR_close_media
  <1> HIDE DEF p
  <1>3. \A j \in 1 .. Len(p) : j \in {1, 2, 3, 4, 5}
    BY <1>1
  <1>4. Placed("zr10", p, 0)
    BY <1>1, <1>3, UndoIs, ZR_turns, ZR_threads, BringUpAssumption DEF Placed
  <1>5. /\ Has(p, Undo("join", R("capture"), R("capture")))
        /\ Has(p, Undo("free", R("live"), R("live")))
        /\ Has(p, Undo("free", R("proxy"), R("proxy")))
        /\ Has(p, Undo("free", R("rtsp"), R("rtsp")))
    BY <1>1 DEF Has
  <1>6. Undoing("zr10", p, 0, 5)
    BY <1>1, <1>2, <1>4, BringUpAssumption DEF Undoing, IsSeq
  <1> QED
    BY <1>5, <1>6 DEF p

LEMMA ZR_encoder_close_ok ==
    ASSUME NEW i \in 1 .. Streams
    PROVE  /\ Undoing("zr10", ZR_encoder_close(i), 5 + 5 * (Streams - i), 10 + 5 * (Streams - i))
           /\ Has(ZR_encoder_close(i), Undo("free", <<"recv", i>>, <<"recv", i>>))
           /\ Has(ZR_encoder_close(i), Undo("free", <<"fd", i>>, <<"fd", i>>))
           /\ Has(ZR_encoder_close(i), Undo("free", <<"bind", i>>, <<"bind", i>>))
           /\ Has(ZR_encoder_close(i), Undo("free", <<"chn", i>>, <<"chn", i>>))
           /\ Has(ZR_encoder_close(i), Undo("free", <<"port", i>>, <<"port", i>>))
PROOF
  <1> DEFINE p == ZR_encoder_close(i)
  <1>1. /\ Len(p) = 5
        /\ p[1] = Undo("free", <<"recv", i>>, <<"recv", i>>)
        /\ p[2] = Undo("free", <<"fd", i>>, <<"fd", i>>)
        /\ p[3] = Undo("free", <<"bind", i>>, <<"bind", i>>)
        /\ p[4] = Undo("free", <<"chn", i>>, <<"chn", i>>)
        /\ p[5] = Undo("free", <<"port", i>>, <<"port", i>>)
    BY DEF ZR_encoder_close, Drop, Free, Raise, Join
  <1>2. p \in Seq({p[j] : j \in 1 .. 5})
    BY DEF ZR_encoder_close
  <1> HIDE DEF p
  <1>3. \A j \in 1 .. Len(p) : j \in {1, 2, 3, 4, 5}
    BY <1>1
  <1>4. Placed("zr10", p, 5 + 5 * (Streams - i))
    BY <1>1, <1>3, UndoIs, ZR_turns, ZR_threads, BringUpAssumption DEF Placed
  <1>5. /\ Has(p, Undo("free", <<"recv", i>>, <<"recv", i>>))
        /\ Has(p, Undo("free", <<"fd", i>>, <<"fd", i>>))
        /\ Has(p, Undo("free", <<"bind", i>>, <<"bind", i>>))
        /\ Has(p, Undo("free", <<"chn", i>>, <<"chn", i>>))
        /\ Has(p, Undo("free", <<"port", i>>, <<"port", i>>))
    BY <1>1 DEF Has
  <1>6. Undoing("zr10", p, 5 + 5 * (Streams - i), 10 + 5 * (Streams - i))
    BY <1>1, <1>2, <1>4, BringUpAssumption DEF Undoing, IsSeq
  <1> QED
    BY <1>5, <1>6 DEF p

LEMMA ZR_close_front_ok ==
    /\ Undoing("zr10", ZR_close_front, 5 + 5 * Streams, 14 + 5 * Streams)
    /\ Has(ZR_close_front, Undo("free", R("front"), R("front")))
    /\ Has(ZR_close_front, Undo("free", R("vpe_run"), R("vpe_run")))
    /\ Has(ZR_close_front, Undo("free", R("vpe"), R("vpe")))
    /\ Has(ZR_close_front, Undo("free", R("vif_port"), R("vif_port")))
    /\ Has(ZR_close_front, Undo("free", R("vif_device"), R("vif_device")))
    /\ Has(ZR_close_front, Undo("free", R("sensor"), R("sensor")))
    /\ Has(ZR_close_front, Undo("free", R("sys"), R("sys")))
    /\ Has(ZR_close_front, Undo("free", R("libs"), R("libs")))
    /\ Has(ZR_close_front, Undo("free", R("lock"), R("lock")))
PROOF
  <1> DEFINE p == ZR_close_front
  <1>1. /\ Len(p) = 9
        /\ p[1] = Undo("free", R("front"), R("front"))
        /\ p[2] = Undo("free", R("vpe_run"), R("vpe_run"))
        /\ p[3] = Undo("free", R("vpe"), R("vpe"))
        /\ p[4] = Undo("free", R("vif_port"), R("vif_port"))
        /\ p[5] = Undo("free", R("vif_device"), R("vif_device"))
        /\ p[6] = Undo("free", R("sensor"), R("sensor"))
        /\ p[7] = Undo("free", R("sys"), R("sys"))
        /\ p[8] = Undo("free", R("libs"), R("libs"))
        /\ p[9] = Undo("free", R("lock"), R("lock"))
    BY DEF ZR_close_front, Drop, Free, Raise, Join
  <1>2. p \in Seq({p[j] : j \in 1 .. 9})
    BY DEF ZR_close_front
  <1> HIDE DEF p
  <1>3. \A j \in 1 .. Len(p) : j \in {1, 2, 3, 4, 5, 6, 7, 8, 9}
    BY <1>1
  <1>4. Placed("zr10", p, 5 + 5 * Streams)
    BY <1>1, <1>3, UndoIs, ZR_turns, ZR_threads, BringUpAssumption DEF Placed
  <1>5. /\ Has(p, Undo("free", R("front"), R("front")))
        /\ Has(p, Undo("free", R("vpe_run"), R("vpe_run")))
        /\ Has(p, Undo("free", R("vpe"), R("vpe")))
        /\ Has(p, Undo("free", R("vif_port"), R("vif_port")))
        /\ Has(p, Undo("free", R("vif_device"), R("vif_device")))
        /\ Has(p, Undo("free", R("sensor"), R("sensor")))
        /\ Has(p, Undo("free", R("sys"), R("sys")))
        /\ Has(p, Undo("free", R("libs"), R("libs")))
        /\ Has(p, Undo("free", R("lock"), R("lock")))
    BY <1>1 DEF Has
  <1>6. Undoing("zr10", p, 5 + 5 * Streams, 14 + 5 * Streams)
    BY <1>1, <1>2, <1>4, BringUpAssumption DEF Undoing, IsSeq
  <1> QED
    BY <1>5, <1>6 DEF p

LEMMA ZR_pipeline_close_ok ==
    /\ Undoing("zr10", ZR_pipeline_close, 5, 14 + 5 * Streams)
    /\ \A i \in 1 .. Streams : Covers(ZR_pipeline_close, ZR_encoder_close(i))
    /\ Covers(ZR_pipeline_close, ZR_close_front)
PROOF
  <1> DEFINE
      q1 == FlattenSeq([i \in 1 .. Streams |-> ZR_encoder_close(Streams + 1 - i)])
      q2 == ZR_close_front
      w2 == q1 \o q2
  <1>0. ZR_pipeline_close = w2
    BY DEF ZR_pipeline_close, ZR_close_front, Down
  <1>1. Undoing("zr10", q1, 5, 5 + 5 * Streams) /\ \A i \in 1 .. Streams : \A u : Has(ZR_encoder_close(i), u) => Has(q1, u)
    <2> DEFINE s == [i \in 1 .. Streams |-> ZR_encoder_close(Streams + 1 - i)]
    <2>1. Len(s) = Streams /\ \A i \in 1 .. Streams : s[i] = ZR_encoder_close(Streams + 1 - i)
      BY BringUpAssumption
    <2> HIDE DEF s
    <2>2. ASSUME NEW i \in 1 .. Streams
          PROVE  Undoing("zr10", s[i], 5 + 5 * (i - 1), 5 + 5 * i)
      <3> DEFINE j == Streams + 1 - i
      <3>1. /\ j \in 1 .. Streams /\ 5 + 5 * (Streams - j) = 5 + 5 * (i - 1)
            /\ 10 + 5 * (Streams - j) = 5 + 5 * i
        BY BringUpAssumption
      <3>2. s[i] = ZR_encoder_close(j)
        BY <2>1
      <3> HIDE DEF j
      <3>3. Undoing("zr10", ZR_encoder_close(j), 5 + 5 * (Streams - j), 10 + 5 * (Streams - j))
        BY <3>1, ZR_encoder_close_ok
      <3> QED
        BY <3>1, <3>2, <3>3
    <2>3. /\ Undoing("zr10", FlattenSeq(s), 5, 5 + 5 * Streams)
          /\ \A i \in 1 .. Streams : \A u : Has(s[i], u) => Has(FlattenSeq(s), u)
      <3>1. 5 \in Nat /\ Streams \in Nat \ {0}
        BY BringUpAssumption
      <3> QED
        BY <2>1, <2>2, <3>1, UndoStreams
    <2>4. ASSUME NEW i \in 1 .. Streams, NEW u, Has(ZR_encoder_close(i), u) PROVE Has(FlattenSeq(s), u)
      <3> DEFINE j == Streams + 1 - i
      <3>1. j \in 1 .. Streams /\ Streams + 1 - j = i
        BY BringUpAssumption
      <3>2. s[j] = ZR_encoder_close(i)
        BY <2>1, <3>1
      <3> QED
        BY <2>3, <2>4, <3>1, <3>2
    <2> QED
      BY <2>3, <2>4, BringUpAssumption DEF s
  <1>2. Undoing("zr10", q2, 5 + 5 * Streams, 14 + 5 * Streams)
    BY ZR_close_front_ok
  <1> HIDE DEF q1, q2
  <1>3w. Follows(w2, q1, q2)
    BY DEF Follows
  <1> HIDE DEF w2
  <1>3. Undoing("zr10", w2, 5, 14 + 5 * Streams) /\ Both(w2, q1, q2)
    BY <1>1, <1>2, <1>3w, UndoJoin
  <1>4. Covers(w2, q1)
    BY <1>3 DEF Both, Covers
  <1>5. Covers(w2, q2)
    BY <1>3 DEF Both, Covers
  <1>6. /\ \A i \in 1 .. Streams : Covers(w2, ZR_encoder_close(i))
        /\ Covers(w2, ZR_close_front)
    BY <1>4, <1>5, <1>1 DEF Covers, q2
  <1> QED
    BY <1>0, <1>3, <1>6

LEMMA ZR_close_ok ==
    /\ Undoing("zr10", ZR_media_cleanup, 0, 14 + 5 * Streams)
    /\ Covers(ZR_media_cleanup, ZR_close_media)
    /\ Covers(ZR_media_cleanup, ZR_pipeline_close)
PROOF
  <1> DEFINE
      q1 == ZR_close_media
      q2 == ZR_pipeline_close
      w2 == q1 \o q2
  <1>0. ZR_media_cleanup = w2
    BY DEF ZR_media_cleanup, ZR_close_media
  <1>1. Undoing("zr10", q1, 0, 5)
    BY ZR_close_media_ok
  <1>2. Undoing("zr10", q2, 5, 14 + 5 * Streams)
    BY ZR_pipeline_close_ok
  <1> HIDE DEF q1, q2
  <1>3w. Follows(w2, q1, q2)
    BY DEF Follows
  <1> HIDE DEF w2
  <1>3. Undoing("zr10", w2, 0, 14 + 5 * Streams) /\ Both(w2, q1, q2)
    BY <1>1, <1>2, <1>3w, UndoJoin
  <1>4. Covers(w2, q1)
    BY <1>3 DEF Both, Covers
  <1>5. Covers(w2, q2)
    BY <1>3 DEF Both, Covers
  <1>6. /\ Covers(w2, ZR_close_media)
        /\ Covers(w2, ZR_pipeline_close)
    BY <1>4, <1>5 DEF Covers, q1, q2
  <1> QED
    BY <1>0, <1>3, <1>6

LEMMA ZR_back ==
    /\ GivesBack("zr10", R("lock")) /\ GivesBack("zr10", R("libs"))
    /\ GivesBack("zr10", R("sys")) /\ GivesBack("zr10", R("sensor"))
    /\ GivesBack("zr10", R("vif_device")) /\ GivesBack("zr10", R("vif_port"))
    /\ GivesBack("zr10", R("vpe")) /\ GivesBack("zr10", R("vpe_run"))
    /\ GivesBack("zr10", R("front")) /\ GivesBack("zr10", R("rtsp"))
    /\ GivesBack("zr10", R("proxy")) /\ GivesBack("zr10", R("live"))
    /\ GivesBack("zr10", R("capture"))
    /\ \A i \in 1 .. Streams : GivesBack("zr10", <<"port", i>>)
    /\ \A i \in 1 .. Streams : GivesBack("zr10", <<"chn", i>>)
    /\ \A i \in 1 .. Streams : GivesBack("zr10", <<"bind", i>>)
    /\ \A i \in 1 .. Streams : GivesBack("zr10", <<"recv", i>>)
    /\ \A i \in 1 .. Streams : GivesBack("zr10", <<"fd", i>>)
PROOF
  <1> DEFINE w == ZR_media_cleanup
  <1>1. /\ Has(w, Undo("join", R("capture"), R("capture")))
        /\ Has(w, Undo("free", R("live"), R("live")))
        /\ Has(w, Undo("free", R("proxy"), R("proxy")))
        /\ Has(w, Undo("free", R("rtsp"), R("rtsp")))
    BY ZR_close_media_ok, ZR_close_ok, ZR_pipeline_close_ok DEF Covers
  <1>2. ASSUME NEW i \in 1 .. Streams
        PROVE  /\ Has(w, Undo("free", <<"recv", i>>, <<"recv", i>>))
               /\ Has(w, Undo("free", <<"fd", i>>, <<"fd", i>>))
               /\ Has(w, Undo("free", <<"bind", i>>, <<"bind", i>>))
               /\ Has(w, Undo("free", <<"chn", i>>, <<"chn", i>>))
               /\ Has(w, Undo("free", <<"port", i>>, <<"port", i>>))
    BY ZR_encoder_close_ok, ZR_close_ok, ZR_pipeline_close_ok DEF Covers
  <1>3. /\ Has(w, Undo("free", R("front"), R("front")))
        /\ Has(w, Undo("free", R("vpe_run"), R("vpe_run")))
        /\ Has(w, Undo("free", R("vpe"), R("vpe")))
        /\ Has(w, Undo("free", R("vif_port"), R("vif_port")))
        /\ Has(w, Undo("free", R("vif_device"), R("vif_device")))
        /\ Has(w, Undo("free", R("sensor"), R("sensor")))
        /\ Has(w, Undo("free", R("sys"), R("sys")))
        /\ Has(w, Undo("free", R("libs"), R("libs")))
        /\ Has(w, Undo("free", R("lock"), R("lock")))
    BY ZR_close_front_ok, ZR_close_ok, ZR_pipeline_close_ok DEF Covers
  <1>4. CloseSteps("zr10") = w
    BY DEF CloseSteps
  <1> HIDE DEF w
  <1> QED
    BY <1>1, <1>2, <1>3, <1>4, ZR_notes DEF GivesBack

\* The parts of the opening that have no name of their own.
ZR_sys == <<Own(R("sys"))>>
ZR_sensor_run ==
    <<Own(R("sensor")), MustCall, MustCall, MustCall, Own(R("vif_device")), MustCall,
      Own(R("vif_port")), Own(R("vpe")), MustCall,
      Own(R("vpe_run")), Own(R("front"))>>
ZR_servers == <<MustCall, Own(R("rtsp")), MustCall, Opt(R("proxy")),
                Own(R("live")), MustCall, MustCall, Spawn(R("capture")), MustCall>>

LEMMA ZR_claim_hardware_ok ==
    /\ Stage("zr10", ZR_claim_hardware, {}, {})
    /\ Gives(ZR_claim_hardware, R("lock"))
PROOF
  <1> DEFINE p == ZR_claim_hardware
  <1>1. /\ Len(p) = 3
        /\ StepIs(p[1], "must", {R("lock")}, {R("lock")})
        /\ StepIs(p[2], "must", {}, {})
        /\ StepIs(p[3], "must", {}, {})
    BY DEF ZR_claim_hardware, Own, Get, Opt, Spawn, MustCall, StepIs, StepOf
  <1>2. p \in Seq({p[j] : j \in 1 .. 3})
    BY DEF ZR_claim_hardware
  <1> HIDE DEF p
  <1>3. \A j \in 1 .. Len(p) : j \in {1, 2, 3}
    BY <1>1
  <1>4. \A j \in 1 .. Len(p) : p[j].kind \in {"must"}
    BY <1>1, <1>3 DEF StepIs
  <1>5. \A j \in 1 .. Len(p) : \A r \in p[j].res :
          \/ j = 1 /\ r = R("lock")
    BY <1>1, <1>3 DEF StepIs
  <1>6. Stands("zr10", p, {})
    BY <1>1, <1>5, ZR_uses DEF Stands, Must, StepIs
  <1>7. Returned("zr10", p, {}) /\ Spawns(p)
    <2>1. Returned("zr10", p, {})
      BY <1>1, <1>5, ZR_left, ZR_back, ZR_notes DEF Returned, Must, StepIs
    <2>2. Spawns(p)
      BY <1>1, <1>3, ZR_threads DEF Spawns, Starts, StepIs
    <2> QED
      BY <2>1, <2>2
  <1>8. Stage("zr10", p, {}, {})
    BY <1>2, <1>4, <1>6, <1>7, LitStage DEF Unbroken
  <1>9. /\ Gives(p, R("lock"))
    BY <1>1 DEF Gives, Notes, Must, StepIs
  <1> QED
    BY <1>1, <1>8, <1>9 DEF p

LEMMA ZR_load_sdk_ok ==
    /\ Stage("zr10", ZR_load_sdk, {R("lock")}, {})
    /\ Gives(ZR_load_sdk, R("libs"))
PROOF
  <1> DEFINE p == ZR_load_sdk
  <1>1. /\ Len(p) = 4
        /\ StepIs(p[1], "must", {R("libs")}, {R("libs")})
        /\ StepIs(p[2], "must", {}, {})
        /\ StepIs(p[3], "must", {}, {})
        /\ StepIs(p[4], "must", {}, {})
    BY DEF ZR_load_sdk, Own, Get, Opt, Spawn, MustCall, StepIs, StepOf
  <1>2. p \in Seq({p[j] : j \in 1 .. 4})
    BY DEF ZR_load_sdk
  <1> HIDE DEF p
  <1>3. \A j \in 1 .. Len(p) : j \in {1, 2, 3, 4}
    BY <1>1
  <1>4. \A j \in 1 .. Len(p) : p[j].kind \in {"must"}
    BY <1>1, <1>3 DEF StepIs
  <1>5. \A j \in 1 .. Len(p) : \A r \in p[j].res :
          \/ j = 1 /\ r = R("libs")
    BY <1>1, <1>3 DEF StepIs
  <1>6. Stands("zr10", p, {R("lock")})
    BY <1>1, <1>5, ZR_uses DEF Stands, Must, StepIs
  <1>7. Returned("zr10", p, {}) /\ Spawns(p)
    <2>1. Returned("zr10", p, {})
      BY <1>1, <1>5, ZR_left, ZR_back, ZR_notes DEF Returned, Must, StepIs
    <2>2. Spawns(p)
      BY <1>1, <1>3, ZR_threads DEF Spawns, Starts, StepIs
    <2> QED
      BY <2>1, <2>2
  <1>8. Stage("zr10", p, {R("lock")}, {})
    BY <1>2, <1>4, <1>6, <1>7, LitStage DEF Unbroken
  <1>9. /\ Gives(p, R("libs"))
    BY <1>1 DEF Gives, Notes, Must, StepIs
  <1> QED
    BY <1>1, <1>8, <1>9 DEF p

LEMMA ZR_sys_ok ==
    /\ Stage("zr10", ZR_sys, {R("libs")}, {})
    /\ Gives(ZR_sys, R("sys"))
PROOF
  <1> DEFINE p == ZR_sys
  <1>1. /\ Len(p) = 1
        /\ StepIs(p[1], "must", {R("sys")}, {R("sys")})
    BY DEF ZR_sys, Own, Get, Opt, Spawn, MustCall, StepIs, StepOf
  <1>2. p \in Seq({p[j] : j \in 1 .. 1})
    BY DEF ZR_sys
  <1> HIDE DEF p
  <1>3. \A j \in 1 .. Len(p) : j \in {1}
    BY <1>1
  <1>4. \A j \in 1 .. Len(p) : p[j].kind \in {"must"}
    BY <1>1, <1>3 DEF StepIs
  <1>5. \A j \in 1 .. Len(p) : \A r \in p[j].res :
          \/ j = 1 /\ r = R("sys")
    BY <1>1, <1>3 DEF StepIs
  <1>6. Stands("zr10", p, {R("libs")})
    BY <1>1, <1>5, ZR_uses DEF Stands, Must, StepIs
  <1>7. Returned("zr10", p, {}) /\ Spawns(p)
    <2>1. Returned("zr10", p, {})
      BY <1>1, <1>5, ZR_left, ZR_back, ZR_notes DEF Returned, Must, StepIs
    <2>2. Spawns(p)
      BY <1>1, <1>3, ZR_threads DEF Spawns, Starts, StepIs
    <2> QED
      BY <2>1, <2>2
  <1>8. Stage("zr10", p, {R("libs")}, {})
    BY <1>2, <1>4, <1>6, <1>7, LitStage DEF Unbroken
  <1>9. /\ Gives(p, R("sys"))
    BY <1>1 DEF Gives, Notes, Must, StepIs
  <1> QED
    BY <1>1, <1>8, <1>9 DEF p

LEMMA ZR_sensor_run_ok ==
    /\ Stage("zr10", ZR_sensor_run, {R("sys")}, {})
PROOF
  <1> DEFINE p == ZR_sensor_run
  <1>1. /\ Len(p) = 11
        /\ StepIs(p[1], "must", {R("sensor")}, {R("sensor")})
        /\ StepIs(p[2], "must", {}, {})
        /\ StepIs(p[3], "must", {}, {})
        /\ StepIs(p[4], "must", {}, {})
        /\ StepIs(p[5], "must", {R("vif_device")}, {R("vif_device")})
        /\ StepIs(p[6], "must", {}, {})
        /\ StepIs(p[7], "must", {R("vif_port")}, {R("vif_port")})
        /\ StepIs(p[8], "must", {R("vpe")}, {R("vpe")})
        /\ StepIs(p[9], "must", {}, {})
        /\ StepIs(p[10], "must", {R("vpe_run")}, {R("vpe_run")})
        /\ StepIs(p[11], "must", {R("front")}, {R("front")})
    BY DEF ZR_sensor_run, Own, Get, Opt, Spawn, MustCall, StepIs, StepOf
  <1>2. p \in Seq({p[j] : j \in 1 .. 11})
    BY DEF ZR_sensor_run
  <1> HIDE DEF p
  <1>3. \A j \in 1 .. Len(p) : j \in {1, 2, 3, 4, 5, 6, 7, 8, 9, 10, 11}
    BY <1>1
  <1>4. \A j \in 1 .. Len(p) : p[j].kind \in {"must"}
    BY <1>1, <1>3 DEF StepIs
  <1>5. \A j \in 1 .. Len(p) : \A r \in p[j].res :
          \/ j = 1 /\ r = R("sensor")
          \/ j = 5 /\ r = R("vif_device")
          \/ j = 7 /\ r = R("vif_port")
          \/ j = 8 /\ r = R("vpe")
          \/ j = 10 /\ r = R("vpe_run")
          \/ j = 11 /\ r = R("front")
    BY <1>1, <1>3 DEF StepIs
  <1>6. Stands("zr10", p, {R("sys")})
    BY <1>1, <1>5, ZR_uses DEF Stands, Must, StepIs
  <1>7. Returned("zr10", p, {}) /\ Spawns(p)
    <2>1. Returned("zr10", p, {})
      BY <1>1, <1>5, ZR_left, ZR_back, ZR_notes DEF Returned, Must, StepIs
    <2>2. Spawns(p)
      BY <1>1, <1>3, ZR_threads DEF Spawns, Starts, StepIs
    <2> QED
      BY <2>1, <2>2
  <1>8. Stage("zr10", p, {R("sys")}, {})
    BY <1>2, <1>4, <1>6, <1>7, LitStage DEF Unbroken
  <1> QED
    BY <1>1, <1>8 DEF p

LEMMA ZR_encoder_open_ok ==
    ASSUME NEW i \in 1 .. Streams
    PROVE  /\ Stage("zr10", ZR_encoder_open(i), {}, {})
           /\ Len(ZR_encoder_open(i)) = 7
           /\ Gives(ZR_encoder_open(i), <<"chn", i>>)
PROOF
  <1> DEFINE p == ZR_encoder_open(i)
  <1>1. /\ Len(p) = 7
        /\ StepIs(p[1], "must", {}, {})
        /\ StepIs(p[2], "must", {<<"port", i>>}, {<<"port", i>>})
        /\ StepIs(p[3], "must", {<<"chn", i>>}, {<<"chn", i>>})
        /\ StepIs(p[4], "must", {}, {})
        /\ StepIs(p[5], "must", {<<"bind", i>>}, {<<"bind", i>>})
        /\ StepIs(p[6], "must", {<<"recv", i>>}, {<<"recv", i>>})
        /\ StepIs(p[7], "must", {<<"fd", i>>}, {<<"fd", i>>})
    BY DEF ZR_encoder_open, Own, Get, Opt, Spawn, MustCall, StepIs, StepOf
  <1>2. p \in Seq({p[j] : j \in 1 .. 7})
    BY DEF ZR_encoder_open
  <1> HIDE DEF p
  <1>3. \A j \in 1 .. Len(p) : j \in {1, 2, 3, 4, 5, 6, 7}
    BY <1>1
  <1>4. \A j \in 1 .. Len(p) : p[j].kind \in {"must"}
    BY <1>1, <1>3 DEF StepIs
  <1>5. \A j \in 1 .. Len(p) : \A r \in p[j].res :
          \/ j = 2 /\ r = <<"port", i>>
          \/ j = 3 /\ r = <<"chn", i>>
          \/ j = 5 /\ r = <<"bind", i>>
          \/ j = 6 /\ r = <<"recv", i>>
          \/ j = 7 /\ r = <<"fd", i>>
    BY <1>1, <1>3 DEF StepIs
  <1>6. Stands("zr10", p, {})
    BY <1>1, <1>5, ZR_uses DEF Stands, Must, StepIs
  <1>7. Returned("zr10", p, {}) /\ Spawns(p)
    <2>1. Returned("zr10", p, {})
      BY <1>1, <1>5, ZR_left, ZR_back, ZR_notes DEF Returned, Must, StepIs
    <2>2. Spawns(p)
      BY <1>1, <1>3, ZR_threads DEF Spawns, Starts, StepIs
    <2> QED
      BY <2>1, <2>2
  <1>8. Stage("zr10", p, {}, {})
    BY <1>2, <1>4, <1>6, <1>7, LitStage DEF Unbroken
  <1>9. /\ Gives(p, <<"chn", i>>)
    BY <1>1 DEF Gives, Notes, Must, StepIs
  <1> QED
    BY <1>1, <1>8, <1>9 DEF p

LEMMA ZR_servers_ok ==
    /\ Stage("zr10", ZR_servers, Each("chn"), {})
PROOF
  <1> DEFINE p == ZR_servers
  <1>1. /\ Len(p) = 9
        /\ StepIs(p[1], "must", {}, {})
        /\ StepIs(p[2], "must", {R("rtsp")}, {R("rtsp")})
        /\ StepIs(p[3], "must", {}, {})
        /\ StepIs(p[4], "may", {R("proxy")}, {R("proxy")})
        /\ StepIs(p[5], "must", {R("live")}, {R("live")})
        /\ StepIs(p[6], "must", {}, {})
        /\ StepIs(p[7], "must", {}, {})
        /\ StepIs(p[8], "spawn", {R("capture")}, {R("capture")})
        /\ StepIs(p[9], "must", {}, {})
    BY DEF ZR_servers, Own, Get, Opt, Spawn, MustCall, StepIs, StepOf
  <1>2. p \in Seq({p[j] : j \in 1 .. 9})
    BY DEF ZR_servers
  <1> HIDE DEF p
  <1>3. \A j \in 1 .. Len(p) : j \in {1, 2, 3, 4, 5, 6, 7, 8, 9}
    BY <1>1
  <1>4. \A j \in 1 .. Len(p) : p[j].kind \in {"may", "must", "spawn"}
    BY <1>1, <1>3 DEF StepIs
  <1>5. \A j \in 1 .. Len(p) : \A r \in p[j].res :
          \/ j = 2 /\ r = R("rtsp")
          \/ j = 4 /\ r = R("proxy")
          \/ j = 5 /\ r = R("live")
          \/ j = 8 /\ r = R("capture")
    BY <1>1, <1>3 DEF StepIs
  <1>6. Stands("zr10", p, Each("chn"))
    BY <1>1, <1>5, ZR_uses DEF Stands, Must, StepIs, Each
  <1>7. Returned("zr10", p, {}) /\ Spawns(p)
    <2>1. Returned("zr10", p, {})
      BY <1>1, <1>5, ZR_left, ZR_back, ZR_notes DEF Returned, Must, StepIs
    <2>2. Spawns(p)
      BY <1>1, <1>3, ZR_threads DEF Spawns, Starts, StepIs
    <2> QED
      BY <2>1, <2>2
  <1>8. Stage("zr10", p, Each("chn"), {})
    BY <1>2, <1>4, <1>6, <1>7, LitStage DEF Unbroken
  <1> QED
    BY <1>1, <1>8 DEF p

LEMMA ZR_sensor_start_ok ==
    /\ Stage("zr10", ZR_sensor_start, {R("sys")}, {})
PROOF
  <1> DEFINE
      q1 == Tries(5)
      q2 == ZR_sensor_run
      w2 == q1 \o q2
  <1>0. ZR_sensor_start = w2
    BY DEF ZR_sensor_start, ZR_sensor_run
  <1>1. Stage("zr10", q1, {R("sys")}, {})
    BY TriesFit
  <1>2. Stage("zr10", q2, {R("sys")}, {})
    BY ZR_sensor_run_ok
  <1> HIDE DEF q1, q2
  <1>3. Stage("zr10", w2, {R("sys")}, {})
    <2>1. Follows(w2, q1, q2)
      BY DEF Follows
    <2> HIDE DEF w2
    <2>2. Supplied(q1, {R("sys")}, {R("sys")}) /\ Marked(q1, {}, {})
      BY <1>1 DEF Supplied, Marked
    <2>3. Stage("zr10", w2, {R("sys")}, {}) /\ GivenBy(w2, q1, q2)
      BY <2>1, <2>2, <1>1, <1>2, StageJoin
    <2> QED
      BY <2>3, <1>1, <1>2 DEF GivenBy
  <1> HIDE DEF w2
  <1> QED
    BY <1>0, <1>3

LEMMA ZR_pipeline_open_ok ==
    /\ Stage("zr10", ZR_pipeline_open, {}, {})
    /\ \A i \in 1 .. Streams : Gives(ZR_pipeline_open, <<"chn", i>>)
PROOF
  <1> DEFINE
      q1 == ZR_claim_hardware
      q2 == ZR_load_sdk
      q3 == ZR_sys
      q4 == ZR_sensor_start
      q5 == FlattenSeq([i \in 1 .. Streams |-> ZR_encoder_open(i)])
      w2 == q1 \o q2
      w3 == w2 \o q3
      w4 == w3 \o q4
      w5 == w4 \o q5
  <1>0. ZR_pipeline_open = w5
    BY DEF ZR_pipeline_open, ZR_sys, ForAll
  <1>1. /\ Stage("zr10", q1, {}, {}) /\ Gives(q1, R("lock"))
    BY ZR_claim_hardware_ok
  <1>2. /\ Stage("zr10", q2, {R("lock")}, {}) /\ Gives(q2, R("libs"))
    BY ZR_load_sdk_ok
  <1>3. /\ Stage("zr10", q3, {R("libs")}, {}) /\ Gives(q3, R("sys"))
    BY ZR_sys_ok
  <1>4. Stage("zr10", q4, {R("sys")}, {})
    BY ZR_sensor_start_ok
  <1>5. /\ Stage("zr10", q5, {}, {})
        /\ \A i \in 1 .. Streams : Gives(q5, <<"chn", i>>)
    <2> DEFINE s == [i \in 1 .. Streams |-> ZR_encoder_open(i)]
    <2>1. Len(s) = Streams /\ \A i \in 1 .. Streams : s[i] = ZR_encoder_open(i)
      BY BringUpAssumption
    <2> HIDE DEF s
    <2>2. \A i \in 1 .. Streams : Stage("zr10", s[i], {}, {}) /\ Len(s[i]) = 7
      BY <2>1, ZR_encoder_open_ok
    <2>3. /\ Stage("zr10", FlattenSeq(s), {}, {})
          /\ \A i \in 1 .. Streams : \A x : Gives(s[i], x) => Gives(FlattenSeq(s), x)
      BY <2>1, <2>2, StreamsFit, BringUpAssumption
    <2> QED
      BY <2>1, <2>3, ZR_encoder_open_ok DEF s
  <1> HIDE DEF q1, q2, q3, q4, q5
  <1>6. /\ Stage("zr10", w2, {}, {}) /\ Gives(w2, R("libs"))
    <2>1. Follows(w2, q1, q2)
      BY DEF Follows
    <2> HIDE DEF w2
    <2>2. Supplied(q1, {}, {R("lock")}) /\ Marked(q1, {}, {})
      BY <1>1 DEF Supplied, Marked
    <2>3. Stage("zr10", w2, {}, {}) /\ GivenBy(w2, q1, q2)
      BY <2>1, <2>2, <1>1, <1>2, StageJoin
    <2> QED
      BY <2>3, <1>1, <1>2 DEF GivenBy
  <1> HIDE DEF w2
  <1>7. /\ Stage("zr10", w3, {}, {}) /\ Gives(w3, R("sys"))
    <2>1. Follows(w3, w2, q3)
      BY DEF Follows
    <2> HIDE DEF w3
    <2>2. Supplied(w2, {}, {R("libs")}) /\ Marked(w2, {}, {})
      BY <1>6 DEF Supplied, Marked
    <2>3. Stage("zr10", w3, {}, {}) /\ GivenBy(w3, w2, q3)
      BY <2>1, <2>2, <1>6, <1>3, StageJoin
    <2> QED
      BY <2>3, <1>6, <1>3 DEF GivenBy
  <1> HIDE DEF w3
  <1>8. Stage("zr10", w4, {}, {})
    <2>1. Follows(w4, w3, q4)
      BY DEF Follows
    <2> HIDE DEF w4
    <2>2. Supplied(w3, {}, {R("sys")}) /\ Marked(w3, {}, {})
      BY <1>7 DEF Supplied, Marked
    <2>3. Stage("zr10", w4, {}, {}) /\ GivenBy(w4, w3, q4)
      BY <2>1, <2>2, <1>7, <1>4, StageJoin
    <2> QED
      BY <2>3, <1>7, <1>4 DEF GivenBy
  <1> HIDE DEF w4
  <1>9. /\ Stage("zr10", w5, {}, {})
        /\ \A i \in 1 .. Streams : Gives(w5, <<"chn", i>>)
    <2>1. Follows(w5, w4, q5)
      BY DEF Follows
    <2> HIDE DEF w5
    <2>2. Supplied(w4, {}, {}) /\ Marked(w4, {}, {})
      BY <1>8 DEF Supplied, Marked
    <2>3. Stage("zr10", w5, {}, {}) /\ GivenBy(w5, w4, q5)
      BY <2>1, <2>2, <1>8, <1>5, StageJoin
    <2> QED
      BY <2>3, <1>8, <1>5 DEF GivenBy
  <1> HIDE DEF w5
  <1> QED
    BY <1>0, <1>9

LEMMA ZR_media_open_ok ==
    /\ Stage("zr10", ZR_media_open, {}, {})
PROOF
  <1> DEFINE
      q1 == ZR_pipeline_open
      q2 == ZR_servers
      w2 == q1 \o q2
  <1>0. ZR_media_open = w2
    BY DEF ZR_media_open, ZR_servers
  <1>1. /\ Stage("zr10", q1, {}, {})
        /\ \A i \in 1 .. Streams : Gives(q1, <<"chn", i>>)
    BY ZR_pipeline_open_ok
  <1>2. Stage("zr10", q2, Each("chn"), {})
    BY ZR_servers_ok
  <1> HIDE DEF q1, q2
  <1>3. Stage("zr10", w2, {}, {})
    <2>1. Follows(w2, q1, q2)
      BY DEF Follows
    <2> HIDE DEF w2
    <2>2. Supplied(q1, {}, Each("chn")) /\ Marked(q1, {}, {})
      BY <1>1 DEF Supplied, Marked, Each
    <2>3. Stage("zr10", w2, {}, {}) /\ GivenBy(w2, q1, q2)
      BY <2>1, <2>2, <1>1, <1>2, StageJoin
    <2> QED
      BY <2>3, <1>1, <1>2 DEF GivenBy
  <1> HIDE DEF w2
  <1> QED
    BY <1>0, <1>3

LEMMA ZR_ranked == Ranked("zr10")
  BY ZR_pairs, ZR_turns, ZR_unleft, BringUpAssumption DEF Ranked

LEMMA ZR_sound == Sound("zr10")
PROOF
  <1>1. OpenSteps("zr10") = ZR_media_open /\ CloseSteps("zr10") = ZR_media_cleanup
    BY DEF OpenSteps, CloseSteps
  <1>2. IsSeq(ZR_media_open) /\ Fits("zr10", ZR_media_open, {}, {})
    BY ZR_media_open_ok DEF Stage
  <1>3. IsSeq(ZR_media_cleanup) /\ Placed("zr10", ZR_media_cleanup, 0)
    BY ZR_close_ok DEF Undoing
  <1> QED
    BY <1>1, <1>2, <1>3, ZR_ranked, ZR_left DEF Sound

-----------------------------------------------------------------------------
\* The MT11's.

\* What stands on what (StandsOn), pair by pair.
LEMMA MT_pairs ==
    ASSUME NEW x \in StandsOn("mt11")
    PROVE  \/ \E i \in 1 .. Streams :
                 \/ x = <<<<"bind", i>>, <<"chn", i>>>>
                 \/ x = <<<<"recv", i>>, <<"chn", i>>>>
                 \/ x = <<R("capture"), <<"chn", i>>>>
           \/ \E i \in 1 .. 2 :
                 \/ x = <<<<"vi_vpss", i>>, <<"vi", i>>>>
                 \/ x = <<<<"vi", i>>, R("sys")>>
           \/ x = <<R("capture"), R("rtsp")>>
           \/ x = <<R("capture"), R("live")>>
           \/ x = <<R("focus"), R("lens")>>
           \/ x = <<R("thermal"), R("latest")>>
           \/ x = <<R("thermal"), R("raw_file")>>
           \/ x = <<R("thermal"), R("raw_server")>>
           \/ x = <<R("thermal"), R("thermal_vpss")>>
  BY DEF StandsOn

LEMMA MT_uses ==
    /\ \A q : ~Uses("mt11", R("latest"), q)
    /\ \A q : ~Uses("mt11", R("raw_file"), q)
    /\ \A q : ~Uses("mt11", R("raw_server"), q)
    /\ \A q : ~Uses("mt11", R("sys"), q)
    /\ \A i \in 1 .. 2 : \A q : Uses("mt11", <<"vi", i>>, q) => q = R("sys")
    /\ \A i \in 1 .. 2 : \A q : Uses("mt11", <<"vi_vpss", i>>, q) => q = <<"vi", i>>
    /\ \A i \in 1 .. 2 : \A q : ~Uses("mt11", <<"vpss", i>>, q)
    /\ \A q : ~Uses("mt11", R("scene"), q)
    /\ \A q : ~Uses("mt11", R("thermal_vpss"), q)
    /\ \A i \in 1 .. Streams : \A q : ~Uses("mt11", <<"chn", i>>, q)
    /\ \A q : ~Uses("mt11", R("lens"), q)
    /\ \A i \in 1 .. Streams : \A q : Uses("mt11", <<"bind", i>>, q) => q = <<"chn", i>>
    /\ \A i \in 1 .. Streams : \A q : Uses("mt11", <<"recv", i>>, q) => q = <<"chn", i>>
    /\ \A q : ~Uses("mt11", R("rtsp"), q)
    /\ \A q : ~Uses("mt11", R("proxy"), q)
    /\ \A q : ~Uses("mt11", R("live"), q)
    /\ \A q : Uses("mt11", R("thermal"), q) => q = R("latest") \/ q = R("raw_file") \/ q = R("raw_server") \/ q = R("thermal_vpss")
    /\ \A q : Uses("mt11", R("capture"), q) => q = R("rtsp") \/ q = R("live") \/ (\E i \in 1 .. Streams : q = <<"chn", i>>)
    /\ \A q : Uses("mt11", R("focus"), q) => q = R("lens")
  BY MT_pairs DEF Uses, R

LEMMA MT_turns ==
    /\ Turn("mt11", R("cancel")) = 1 /\ Turn("mt11", R("focus")) = 2
    /\ Turn("mt11", R("lens")) = 3 /\ Turn("mt11", R("thermal_stop")) = 4
    /\ Turn("mt11", R("thermal")) = 5 /\ Turn("mt11", R("raw_server")) = 6
    /\ Turn("mt11", R("raw_file")) = 7 /\ Turn("mt11", R("latest")) = 8
    /\ Turn("mt11", R("stop")) = 9 /\ Turn("mt11", R("capture")) = 10
    /\ Turn("mt11", R("live")) = 11 /\ Turn("mt11", R("proxy")) = 12
    /\ Turn("mt11", R("rtsp")) = 13 /\ Turn("mt11", R("scene")) = 3 * Streams + 14
    /\ Turn("mt11", R("thermal_vpss")) = 3 * Streams + 15
    /\ Turn("mt11", R("sys")) = 3 * Streams + 22
    /\ \A i \in 1 .. Streams : Turn("mt11", <<"recv", i>>) = 13 + (Streams + 1 - i)
    /\ \A i \in 1 .. Streams : Turn("mt11", <<"bind", i>>) = Streams + 13 + (Streams + 1 - i)
    /\ \A i \in 1 .. Streams : Turn("mt11", <<"chn", i>>) = 2 * Streams + 13 + (Streams + 1 - i)
    /\ \A i \in 1 .. 2 : Turn("mt11", <<"vpss", i>>) = 3 * Streams + 15 + (3 - i)
    /\ \A i \in 1 .. 2 : Turn("mt11", <<"vi_vpss", i>>) = 3 * Streams + 17 + (3 - i)
    /\ \A i \in 1 .. 2 : Turn("mt11", <<"vi", i>>) = 3 * Streams + 19 + (3 - i)
  BY DEF Turn, Turn_mt11, R

LEMMA MT_notes ==
    /\ NoteOf("mt11", R("latest")) = R("latest")
    /\ NoteOf("mt11", R("raw_file")) = R("raw_file")
    /\ NoteOf("mt11", R("raw_server")) = R("raw_server")
    /\ NoteOf("mt11", R("sys")) = R("sys_started")
    /\ NoteOf("mt11", R("scene")) = R("scene")
    /\ NoteOf("mt11", R("thermal_vpss")) = R("thermal_vpss")
    /\ NoteOf("mt11", R("lens")) = R("lens") /\ NoteOf("mt11", R("rtsp")) = R("rtsp")
    /\ NoteOf("mt11", R("proxy")) = R("proxy") /\ NoteOf("mt11", R("live")) = R("live")
    /\ NoteOf("mt11", R("thermal")) = R("thermal")
    /\ NoteOf("mt11", R("capture")) = R("capture")
    /\ NoteOf("mt11", R("focus")) = R("focus")
    /\ \A i \in 1 .. 2 : NoteOf("mt11", <<"vi", i>>) = <<"vi", i>>
    /\ \A i \in 1 .. 2 : NoteOf("mt11", <<"vi_vpss", i>>) = <<"vi_vpss", i>>
    /\ \A i \in 1 .. 2 : NoteOf("mt11", <<"vpss", i>>) = <<"vpss", i>>
    /\ \A i \in 1 .. Streams : NoteOf("mt11", <<"chn", i>>) = <<"chn", i>>
    /\ \A i \in 1 .. Streams : NoteOf("mt11", <<"bind", i>>) = <<"bind", i>>
    /\ \A i \in 1 .. Streams : NoteOf("mt11", <<"recv", i>>) = <<"recv", i>>
  BY DEF NoteOf, R, always

LEMMA MT_threads ==
    /\ R("latest") \notin ThreadNames /\ R("raw_file") \notin ThreadNames
    /\ R("raw_server") \notin ThreadNames /\ R("sys") \notin ThreadNames
    /\ R("scene") \notin ThreadNames /\ R("thermal_vpss") \notin ThreadNames
    /\ R("lens") \notin ThreadNames /\ R("rtsp") \notin ThreadNames /\ R("proxy") \notin ThreadNames
    /\ R("live") \notin ThreadNames
    /\ \A i \in 1 .. 2 : <<"vi", i>> \notin ThreadNames
    /\ \A i \in 1 .. 2 : <<"vi_vpss", i>> \notin ThreadNames
    /\ \A i \in 1 .. 2 : <<"vpss", i>> \notin ThreadNames
    /\ \A i \in 1 .. Streams : <<"chn", i>> \notin ThreadNames
    /\ \A i \in 1 .. Streams : <<"bind", i>> \notin ThreadNames
    /\ \A i \in 1 .. Streams : <<"recv", i>> \notin ThreadNames
    /\ R("capture") \in ThreadNames /\ R("thermal") \in ThreadNames /\ R("focus") \in ThreadNames
  BY DEF ThreadNames, Workers, R

LEMMA MT_unleft ==
    /\ R("latest") \notin Leftover("mt11") /\ R("raw_file") \notin Leftover("mt11")
    /\ R("raw_server") \notin Leftover("mt11") /\ R("scene") \notin Leftover("mt11")
    /\ R("thermal_vpss") \notin Leftover("mt11") /\ R("lens") \notin Leftover("mt11")
    /\ R("rtsp") \notin Leftover("mt11") /\ R("proxy") \notin Leftover("mt11")
    /\ R("live") \notin Leftover("mt11") /\ R("thermal") \notin Leftover("mt11")
    /\ R("capture") \notin Leftover("mt11") /\ R("focus") \notin Leftover("mt11")
    /\ \A i \in 1 .. 2 : <<"vi", i>> \notin Leftover("mt11")
    /\ \A i \in 1 .. 2 : <<"vi_vpss", i>> \notin Leftover("mt11")
    /\ \A i \in 1 .. 2 : <<"vpss", i>> \notin Leftover("mt11")
    /\ \A i \in 1 .. Streams : <<"chn", i>> \notin Leftover("mt11")
    /\ \A i \in 1 .. Streams : <<"bind", i>> \notin Leftover("mt11")
    /\ \A i \in 1 .. Streams : <<"recv", i>> \notin Leftover("mt11")
  BY DEF Leftover, R

LEMMA MT_left ==
    /\ R("sys") \in Leftover("mt11") /\ ThreadNames \cap Leftover("mt11") = {}
  BY DEF ThreadNames, Workers, Leftover, R

\* The parts of the clean-up.
MT_close_media ==
    <<Raise("cancel", R("focus")), Join(R("focus")), Drop(R("lens")),
      Raise("thermal_stop", R("thermal")), Join(R("thermal")),
      Drop(R("raw_server")), Drop(R("raw_file")),
      Drop(R("latest")), Raise("stop", R("capture")), Join(R("capture")),
      Drop(R("live")), Drop(R("proxy")), Drop(R("rtsp"))>>
MT_close_scene == <<Drop(R("scene")), Drop(R("thermal_vpss"))>>
MT_close_sys == <<Free(R("sys"), R("sys_started"))>>
MT_drop(name, i) == <<Drop(<<name, i>>)>>
MT_down(name, n) == FlattenSeq([i \in 1 .. n |-> MT_drop(name, n + 1 - i)])

LEMMA MT_drop_ok ==
    ASSUME NEW name, NEW i, NEW lo \in Nat,
           Turn("mt11", <<name, i>>) = lo + 1, <<name, i>> \notin ThreadNames
    PROVE  /\ Undoing("mt11", MT_drop(name, i), lo, lo + 1)
           /\ Has(MT_drop(name, i), Undo("free", <<name, i>>, <<name, i>>))
PROOF
  <1> DEFINE p == MT_drop(name, i)
  <1>1. Len(p) = 1 /\ p[1] = Undo("free", <<name, i>>, <<name, i>>)
    BY DEF MT_drop, Drop, Free
  <1>2. IsSeq(p)
    <2>1. p \in Seq({p[1]})
      BY DEF MT_drop
    <2> QED
      BY <2>1 DEF IsSeq
  <1> HIDE DEF p
  <1>3. Placed("mt11", p, lo)
    <2>1. \A j \in 1 .. Len(p) : j = 1
      BY <1>1
    <2> QED
      BY <1>1, <2>1, UndoIs DEF Placed
  <1>4. Undoing("mt11", p, lo, lo + 1) /\ Has(p, Undo("free", <<name, i>>, <<name, i>>))
    BY <1>1, <1>2, <1>3 DEF Undoing, Has
  <1> QED
    BY <1>4 DEF p

LEMMA MT_down_ok ==
    ASSUME NEW name, NEW n \in Nat \ {0}, NEW lo \in Nat,
           \A i \in 1 .. n : Turn("mt11", <<name, i>>) = lo + (n + 1 - i) /\ <<name, i>> \notin ThreadNames
    PROVE  /\ Undoing("mt11", MT_down(name, n), lo, lo + n)
           /\ \A i \in 1 .. n : Has(MT_down(name, n), Undo("free", <<name, i>>, <<name, i>>))
PROOF
  <1> DEFINE s == [i \in 1 .. n |-> MT_drop(name, n + 1 - i)]
  <1>1. Len(s) = n /\ \A i \in 1 .. n : s[i] = MT_drop(name, n + 1 - i)
    OBVIOUS
  <1>2. MT_down(name, n) = FlattenSeq(s)
    BY DEF MT_down
  <1> HIDE DEF s
  <1>3. ASSUME NEW i \in 1 .. n
        PROVE  /\ Undoing("mt11", s[i], lo + 1 * (i - 1), lo + 1 * i)
               /\ Has(s[i], Undo("free", <<name, n + 1 - i>>, <<name, n + 1 - i>>))
    <2> DEFINE j == n + 1 - i
               l == lo + (i - 1)
    <2>1. /\ j \in 1 .. n /\ l \in Nat /\ lo + (n + 1 - j) = l + 1
          /\ l = lo + 1 * (i - 1) /\ l + 1 = lo + 1 * i
      OBVIOUS
    <2>2. s[i] = MT_drop(name, j)
      BY <1>1
    <2> HIDE DEF j, l
    <2>3. Turn("mt11", <<name, j>>) = l + 1 /\ <<name, j>> \notin ThreadNames
      BY <2>1
    <2>4. Undoing("mt11", s[i], l, l + 1) /\ Has(s[i], Undo("free", <<name, j>>, <<name, j>>))
      BY <2>1, <2>2, <2>3, MT_drop_ok
    <2> QED
      BY <2>1, <2>4 DEF j
  <1>4. /\ Undoing("mt11", FlattenSeq(s), lo, lo + 1 * n)
        /\ \A i \in 1 .. n : \A u : Has(s[i], u) => Has(FlattenSeq(s), u)
    BY <1>1, <1>3, UndoStreams
  <1>5. ASSUME NEW i \in 1 .. n PROVE Has(FlattenSeq(s), Undo("free", <<name, i>>, <<name, i>>))
    <2> DEFINE j == n + 1 - i
    <2>1. j \in 1 .. n /\ n + 1 - j = i
      OBVIOUS
    <2> HIDE DEF j
    <2>2. Has(s[j], Undo("free", <<name, i>>, <<name, i>>))
      BY <1>3, <2>1
    <2> QED
      BY <1>4, <2>1, <2>2
  <1>6. lo + 1 * n = lo + n
    OBVIOUS
  <1> QED
    BY <1>2, <1>4, <1>5, <1>6

LEMMA MT_close_media_ok ==
    /\ Undoing("mt11", MT_close_media, 0, 13)
    /\ Has(MT_close_media, Undo("join", R("focus"), R("focus")))
    /\ Has(MT_close_media, Undo("free", R("lens"), R("lens")))
    /\ Has(MT_close_media, Undo("join", R("thermal"), R("thermal")))
    /\ Has(MT_close_media, Undo("free", R("raw_server"), R("raw_server")))
    /\ Has(MT_close_media, Undo("free", R("raw_file"), R("raw_file")))
    /\ Has(MT_close_media, Undo("free", R("latest"), R("latest")))
    /\ Has(MT_close_media, Undo("join", R("capture"), R("capture")))
    /\ Has(MT_close_media, Undo("free", R("live"), R("live")))
    /\ Has(MT_close_media, Undo("free", R("proxy"), R("proxy")))
    /\ Has(MT_close_media, Undo("free", R("rtsp"), R("rtsp")))
PROOF
  <1> DEFINE p == MT_close_media
  <1>1. /\ Len(p) = 13
        /\ p[1] = Undo("raise", R("cancel"), R("focus"))
        /\ p[2] = Undo("join", R("focus"), R("focus"))
        /\ p[3] = Undo("free", R("lens"), R("lens"))
        /\ p[4] = Undo("raise", R("thermal_stop"), R("thermal"))
        /\ p[5] = Undo("join", R("thermal"), R("thermal"))
        /\ p[6] = Undo("free", R("raw_server"), R("raw_server"))
        /\ p[7] = Undo("free", R("raw_file"), R("raw_file"))
        /\ p[8] = Undo("free", R("latest"), R("latest"))
        /\ p[9] = Undo("raise", R("stop"), R("capture"))
        /\ p[10] = Undo("join", R("capture"), R("capture"))
        /\ p[11] = Undo("free", R("live"), R("live"))
        /\ p[12] = Undo("free", R("proxy"), R("proxy"))
        /\ p[13] = Undo("free", R("rtsp"), R("rtsp"))
    BY DEF MT_close_media, Drop, Free, Raise, Join
  <1>2. p \in Seq({p[j] : j \in 1 .. 13})
    BY DEF MT_close_media
  <1> HIDE DEF p
  <1>3. \A j \in 1 .. Len(p) : j \in {1, 2, 3, 4, 5, 6, 7, 8, 9, 10, 11, 12, 13}
    BY <1>1
  <1>4. Placed("mt11", p, 0)
    BY <1>1, <1>3, UndoIs, MT_turns, MT_threads, BringUpAssumption DEF Placed
  <1>5. /\ Has(p, Undo("join", R("focus"), R("focus")))
        /\ Has(p, Undo("free", R("lens"), R("lens")))
        /\ Has(p, Undo("join", R("thermal"), R("thermal")))
        /\ Has(p, Undo("free", R("raw_server"), R("raw_server")))
        /\ Has(p, Undo("free", R("raw_file"), R("raw_file")))
        /\ Has(p, Undo("free", R("latest"), R("latest")))
        /\ Has(p, Undo("join", R("capture"), R("capture")))
        /\ Has(p, Undo("free", R("live"), R("live")))
        /\ Has(p, Undo("free", R("proxy"), R("proxy")))
        /\ Has(p, Undo("free", R("rtsp"), R("rtsp")))
    BY <1>1 DEF Has
  <1>6. Undoing("mt11", p, 0, 13)
    BY <1>1, <1>2, <1>4, BringUpAssumption DEF Undoing, IsSeq
  <1> QED
    BY <1>5, <1>6 DEF p

LEMMA MT_close_scene_ok ==
    /\ Undoing("mt11", MT_close_scene, 13 + 3 * Streams, 15 + 3 * Streams)
    /\ Has(MT_close_scene, Undo("free", R("scene"), R("scene")))
    /\ Has(MT_close_scene, Undo("free", R("thermal_vpss"), R("thermal_vpss")))
PROOF
  <1> DEFINE p == MT_close_scene
  <1>1. /\ Len(p) = 2
        /\ p[1] = Undo("free", R("scene"), R("scene"))
        /\ p[2] = Undo("free", R("thermal_vpss"), R("thermal_vpss"))
    BY DEF MT_close_scene, Drop, Free, Raise, Join
  <1>2. p \in Seq({p[j] : j \in 1 .. 2})
    BY DEF MT_close_scene
  <1> HIDE DEF p
  <1>3. \A j \in 1 .. Len(p) : j \in {1, 2}
    BY <1>1
  <1>4. Placed("mt11", p, 13 + 3 * Streams)
    BY <1>1, <1>3, UndoIs, MT_turns, MT_threads, BringUpAssumption DEF Placed
  <1>5. /\ Has(p, Undo("free", R("scene"), R("scene")))
        /\ Has(p, Undo("free", R("thermal_vpss"), R("thermal_vpss")))
    BY <1>1 DEF Has
  <1>6. Undoing("mt11", p, 13 + 3 * Streams, 15 + 3 * Streams)
    BY <1>1, <1>2, <1>4, BringUpAssumption DEF Undoing, IsSeq
  <1> QED
    BY <1>5, <1>6 DEF p

LEMMA MT_close_sys_ok ==
    /\ Undoing("mt11", MT_close_sys, 21 + 3 * Streams, 22 + 3 * Streams)
    /\ Has(MT_close_sys, Undo("free", R("sys"), R("sys_started")))
PROOF
  <1> DEFINE p == MT_close_sys
  <1>1. /\ Len(p) = 1
        /\ p[1] = Undo("free", R("sys"), R("sys_started"))
    BY DEF MT_close_sys, Drop, Free, Raise, Join
  <1>2. p \in Seq({p[j] : j \in 1 .. 1})
    BY DEF MT_close_sys
  <1> HIDE DEF p
  <1>3. \A j \in 1 .. Len(p) : j \in {1}
    BY <1>1
  <1>4. Placed("mt11", p, 21 + 3 * Streams)
    BY <1>1, <1>3, UndoIs, MT_turns, MT_threads, BringUpAssumption DEF Placed
  <1>5. /\ Has(p, Undo("free", R("sys"), R("sys_started")))
    BY <1>1 DEF Has
  <1>6. Undoing("mt11", p, 21 + 3 * Streams, 22 + 3 * Streams)
    BY <1>1, <1>2, <1>4, BringUpAssumption DEF Undoing, IsSeq
  <1> QED
    BY <1>5, <1>6 DEF p

LEMMA MT_recv_down ==
    /\ Undoing("mt11", MT_down("recv", Streams), 13, 13 + Streams)
    /\ \A i \in 1 .. Streams : Has(MT_down("recv", Streams), Undo("free", <<"recv", i>>, <<"recv", i>>))
PROOF
  <1>1. /\ Streams \in Nat \ {0} /\ 13 \in Nat /\ 13 + Streams = (13) + Streams
        /\ \A i \in 1 .. Streams : /\ Turn("mt11", <<"recv", i>>) = (13) + (Streams + 1 - i)
                              /\ <<"recv", i>> \notin ThreadNames
    BY MT_turns, MT_threads, BringUpAssumption
  <1> QED
    BY <1>1, MT_down_ok

LEMMA MT_bind_down ==
    /\ Undoing("mt11", MT_down("bind", Streams), 13 + Streams, 13 + 2 * Streams)
    /\ \A i \in 1 .. Streams : Has(MT_down("bind", Streams), Undo("free", <<"bind", i>>, <<"bind", i>>))
PROOF
  <1>1. /\ Streams \in Nat \ {0} /\ 13 + Streams \in Nat /\ 13 + 2 * Streams = (13 + Streams) + Streams
        /\ \A i \in 1 .. Streams : /\ Turn("mt11", <<"bind", i>>) = (13 + Streams) + (Streams + 1 - i)
                              /\ <<"bind", i>> \notin ThreadNames
    BY MT_turns, MT_threads, BringUpAssumption
  <1> QED
    BY <1>1, MT_down_ok

LEMMA MT_chn_down ==
    /\ Undoing("mt11", MT_down("chn", Streams), 13 + 2 * Streams, 13 + 3 * Streams)
    /\ \A i \in 1 .. Streams : Has(MT_down("chn", Streams), Undo("free", <<"chn", i>>, <<"chn", i>>))
PROOF
  <1>1. /\ Streams \in Nat \ {0} /\ 13 + 2 * Streams \in Nat /\ 13 + 3 * Streams = (13 + 2 * Streams) + Streams
        /\ \A i \in 1 .. Streams : /\ Turn("mt11", <<"chn", i>>) = (13 + 2 * Streams) + (Streams + 1 - i)
                              /\ <<"chn", i>> \notin ThreadNames
    BY MT_turns, MT_threads, BringUpAssumption
  <1> QED
    BY <1>1, MT_down_ok

LEMMA MT_vpss_down ==
    /\ Undoing("mt11", MT_down("vpss", 2), 15 + 3 * Streams, 17 + 3 * Streams)
    /\ \A i \in 1 .. 2 : Has(MT_down("vpss", 2), Undo("free", <<"vpss", i>>, <<"vpss", i>>))
PROOF
  <1>1. /\ 2 \in Nat \ {0} /\ 15 + 3 * Streams \in Nat /\ 17 + 3 * Streams = (15 + 3 * Streams) + 2
        /\ \A i \in 1 .. 2 : /\ Turn("mt11", <<"vpss", i>>) = (15 + 3 * Streams) + (2 + 1 - i)
                              /\ <<"vpss", i>> \notin ThreadNames
    BY MT_turns, MT_threads, BringUpAssumption
  <1> QED
    BY <1>1, MT_down_ok

LEMMA MT_vi_vpss_down ==
    /\ Undoing("mt11", MT_down("vi_vpss", 2), 17 + 3 * Streams, 19 + 3 * Streams)
    /\ \A i \in 1 .. 2 : Has(MT_down("vi_vpss", 2), Undo("free", <<"vi_vpss", i>>, <<"vi_vpss", i>>))
PROOF
  <1>1. /\ 2 \in Nat \ {0} /\ 17 + 3 * Streams \in Nat /\ 19 + 3 * Streams = (17 + 3 * Streams) + 2
        /\ \A i \in 1 .. 2 : /\ Turn("mt11", <<"vi_vpss", i>>) = (17 + 3 * Streams) + (2 + 1 - i)
                              /\ <<"vi_vpss", i>> \notin ThreadNames
    BY MT_turns, MT_threads, BringUpAssumption
  <1> QED
    BY <1>1, MT_down_ok

LEMMA MT_vi_down ==
    /\ Undoing("mt11", MT_down("vi", 2), 19 + 3 * Streams, 21 + 3 * Streams)
    /\ \A i \in 1 .. 2 : Has(MT_down("vi", 2), Undo("free", <<"vi", i>>, <<"vi", i>>))
PROOF
  <1>1. /\ 2 \in Nat \ {0} /\ 19 + 3 * Streams \in Nat /\ 21 + 3 * Streams = (19 + 3 * Streams) + 2
        /\ \A i \in 1 .. 2 : /\ Turn("mt11", <<"vi", i>>) = (19 + 3 * Streams) + (2 + 1 - i)
                              /\ <<"vi", i>> \notin ThreadNames
    BY MT_turns, MT_threads, BringUpAssumption
  <1> QED
    BY <1>1, MT_down_ok

LEMMA MT_close_ok ==
    /\ Undoing("mt11", MT_media_cleanup, 0, 22 + 3 * Streams)
    /\ Covers(MT_media_cleanup, MT_close_media)
    /\ Covers(MT_media_cleanup, MT_down("recv", Streams))
    /\ Covers(MT_media_cleanup, MT_down("bind", Streams))
    /\ Covers(MT_media_cleanup, MT_down("chn", Streams))
    /\ Covers(MT_media_cleanup, MT_close_scene)
    /\ Covers(MT_media_cleanup, MT_down("vpss", 2))
    /\ Covers(MT_media_cleanup, MT_down("vi_vpss", 2))
    /\ Covers(MT_media_cleanup, MT_down("vi", 2))
    /\ Covers(MT_media_cleanup, MT_close_sys)
PROOF
  <1> DEFINE
      q1 == MT_close_media
      q2 == MT_down("recv", Streams)
      q3 == MT_down("bind", Streams)
      q4 == MT_down("chn", Streams)
      q5 == MT_close_scene
      q6 == MT_down("vpss", 2)
      q7 == MT_down("vi_vpss", 2)
      q8 == MT_down("vi", 2)
      q9 == MT_close_sys
      w2 == q1 \o q2
      w3 == w2 \o q3
      w4 == w3 \o q4
      w5 == w4 \o q5
      w6 == w5 \o q6
      w7 == w6 \o q7
      w8 == w7 \o q8
      w9 == w8 \o q9
  <1>0. MT_media_cleanup = w9
    BY DEF MT_media_cleanup, MT_close_media, MT_close_scene, MT_close_sys, MT_down, MT_drop, Down
  <1>1. Undoing("mt11", q1, 0, 13)
    BY MT_close_media_ok
  <1>2. Undoing("mt11", q2, 13, 13 + Streams)
    BY MT_recv_down
  <1>3. Undoing("mt11", q3, 13 + Streams, 13 + 2 * Streams)
    BY MT_bind_down
  <1>4. Undoing("mt11", q4, 13 + 2 * Streams, 13 + 3 * Streams)
    BY MT_chn_down
  <1>5. Undoing("mt11", q5, 13 + 3 * Streams, 15 + 3 * Streams)
    BY MT_close_scene_ok
  <1>6. Undoing("mt11", q6, 15 + 3 * Streams, 17 + 3 * Streams)
    BY MT_vpss_down
  <1>7. Undoing("mt11", q7, 17 + 3 * Streams, 19 + 3 * Streams)
    BY MT_vi_vpss_down
  <1>8. Undoing("mt11", q8, 19 + 3 * Streams, 21 + 3 * Streams)
    BY MT_vi_down
  <1>9. Undoing("mt11", q9, 21 + 3 * Streams, 22 + 3 * Streams)
    BY MT_close_sys_ok
  <1> HIDE DEF q1, q2, q3, q4, q5, q6, q7, q8, q9
  <1>10w. Follows(w2, q1, q2)
    BY DEF Follows
  <1> HIDE DEF w2
  <1>10. Undoing("mt11", w2, 0, 13 + Streams) /\ Both(w2, q1, q2)
    BY <1>1, <1>2, <1>10w, UndoJoin
  <1>11w. Follows(w3, w2, q3)
    BY DEF Follows
  <1> HIDE DEF w3
  <1>11. Undoing("mt11", w3, 0, 13 + 2 * Streams) /\ Both(w3, w2, q3)
    BY <1>10, <1>3, <1>11w, UndoJoin
  <1>12w. Follows(w4, w3, q4)
    BY DEF Follows
  <1> HIDE DEF w4
  <1>12. Undoing("mt11", w4, 0, 13 + 3 * Streams) /\ Both(w4, w3, q4)
    BY <1>11, <1>4, <1>12w, UndoJoin
  <1>13w. Follows(w5, w4, q5)
    BY DEF Follows
  <1> HIDE DEF w5
  <1>13. Undoing("mt11", w5, 0, 15 + 3 * Streams) /\ Both(w5, w4, q5)
    BY <1>12, <1>5, <1>13w, UndoJoin
  <1>14w. Follows(w6, w5, q6)
    BY DEF Follows
  <1> HIDE DEF w6
  <1>14. Undoing("mt11", w6, 0, 17 + 3 * Streams) /\ Both(w6, w5, q6)
    BY <1>13, <1>6, <1>14w, UndoJoin
  <1>15w. Follows(w7, w6, q7)
    BY DEF Follows
  <1> HIDE DEF w7
  <1>15. Undoing("mt11", w7, 0, 19 + 3 * Streams) /\ Both(w7, w6, q7)
    BY <1>14, <1>7, <1>15w, UndoJoin
  <1>16w. Follows(w8, w7, q8)
    BY DEF Follows
  <1> HIDE DEF w8
  <1>16. Undoing("mt11", w8, 0, 21 + 3 * Streams) /\ Both(w8, w7, q8)
    BY <1>15, <1>8, <1>16w, UndoJoin
  <1>17w. Follows(w9, w8, q9)
    BY DEF Follows
  <1> HIDE DEF w9
  <1>17. Undoing("mt11", w9, 0, 22 + 3 * Streams) /\ Both(w9, w8, q9)
    BY <1>16, <1>9, <1>17w, UndoJoin
  <1>18. Covers(w9, q1)
    BY <1>10, <1>11, <1>12, <1>13, <1>14, <1>15, <1>16, <1>17 DEF Both, Covers
  <1>19. Covers(w9, q2)
    BY <1>10, <1>11, <1>12, <1>13, <1>14, <1>15, <1>16, <1>17 DEF Both, Covers
  <1>20. Covers(w9, q3)
    BY <1>11, <1>12, <1>13, <1>14, <1>15, <1>16, <1>17 DEF Both, Covers
  <1>21. Covers(w9, q4)
    BY <1>12, <1>13, <1>14, <1>15, <1>16, <1>17 DEF Both, Covers
  <1>22. Covers(w9, q5)
    BY <1>13, <1>14, <1>15, <1>16, <1>17 DEF Both, Covers
  <1>23. Covers(w9, q6)
    BY <1>14, <1>15, <1>16, <1>17 DEF Both, Covers
  <1>24. Covers(w9, q7)
    BY <1>15, <1>16, <1>17 DEF Both, Covers
  <1>25. Covers(w9, q8)
    BY <1>16, <1>17 DEF Both, Covers
  <1>26. Covers(w9, q9)
    BY <1>17 DEF Both, Covers
  <1>27. /\ Covers(w9, MT_close_media)
         /\ Covers(w9, MT_down("recv", Streams))
         /\ Covers(w9, MT_down("bind", Streams))
         /\ Covers(w9, MT_down("chn", Streams))
         /\ Covers(w9, MT_close_scene)
         /\ Covers(w9, MT_down("vpss", 2))
         /\ Covers(w9, MT_down("vi_vpss", 2))
         /\ Covers(w9, MT_down("vi", 2))
         /\ Covers(w9, MT_close_sys)
    BY <1>18, <1>19, <1>20, <1>21, <1>22, <1>23, <1>24, <1>25, <1>26 DEF Covers, q1, q2, q3, q4, q5, q6, q7, q8, q9
  <1> QED
    BY <1>0, <1>17, <1>27

LEMMA MT_back ==
    /\ GivesBack("mt11", R("latest")) /\ GivesBack("mt11", R("raw_file"))
    /\ GivesBack("mt11", R("raw_server")) /\ GivesBack("mt11", R("scene"))
    /\ GivesBack("mt11", R("thermal_vpss")) /\ GivesBack("mt11", R("lens"))
    /\ GivesBack("mt11", R("rtsp")) /\ GivesBack("mt11", R("proxy"))
    /\ GivesBack("mt11", R("live")) /\ GivesBack("mt11", R("thermal"))
    /\ GivesBack("mt11", R("capture")) /\ GivesBack("mt11", R("focus"))
    /\ \A i \in 1 .. 2 : GivesBack("mt11", <<"vi", i>>)
    /\ \A i \in 1 .. 2 : GivesBack("mt11", <<"vi_vpss", i>>)
    /\ \A i \in 1 .. 2 : GivesBack("mt11", <<"vpss", i>>)
    /\ \A i \in 1 .. Streams : GivesBack("mt11", <<"chn", i>>)
    /\ \A i \in 1 .. Streams : GivesBack("mt11", <<"bind", i>>)
    /\ \A i \in 1 .. Streams : GivesBack("mt11", <<"recv", i>>)
PROOF
  <1> DEFINE w == MT_media_cleanup
  <1>1. /\ Has(w, Undo("join", R("focus"), R("focus")))
        /\ Has(w, Undo("free", R("lens"), R("lens")))
        /\ Has(w, Undo("join", R("thermal"), R("thermal")))
        /\ Has(w, Undo("free", R("raw_server"), R("raw_server")))
        /\ Has(w, Undo("free", R("raw_file"), R("raw_file")))
        /\ Has(w, Undo("free", R("latest"), R("latest")))
        /\ Has(w, Undo("join", R("capture"), R("capture")))
        /\ Has(w, Undo("free", R("live"), R("live")))
        /\ Has(w, Undo("free", R("proxy"), R("proxy")))
        /\ Has(w, Undo("free", R("rtsp"), R("rtsp")))
    BY MT_close_media_ok, MT_close_ok DEF Covers
  <1>2. ASSUME NEW i \in 1 .. Streams
        PROVE  /\ Has(w, Undo("free", <<"recv", i>>, <<"recv", i>>))
    BY MT_recv_down, MT_close_ok DEF Covers
  <1>3. ASSUME NEW i \in 1 .. Streams
        PROVE  /\ Has(w, Undo("free", <<"bind", i>>, <<"bind", i>>))
    BY MT_bind_down, MT_close_ok DEF Covers
  <1>4. ASSUME NEW i \in 1 .. Streams
        PROVE  /\ Has(w, Undo("free", <<"chn", i>>, <<"chn", i>>))
    BY MT_chn_down, MT_close_ok DEF Covers
  <1>5. ASSUME NEW i \in 1 .. 2
        PROVE  /\ Has(w, Undo("free", <<"vpss", i>>, <<"vpss", i>>))
    BY MT_vpss_down, MT_close_ok DEF Covers
  <1>6. ASSUME NEW i \in 1 .. 2
        PROVE  /\ Has(w, Undo("free", <<"vi_vpss", i>>, <<"vi_vpss", i>>))
    BY MT_vi_vpss_down, MT_close_ok DEF Covers
  <1>7. ASSUME NEW i \in 1 .. 2
        PROVE  /\ Has(w, Undo("free", <<"vi", i>>, <<"vi", i>>))
    BY MT_vi_down, MT_close_ok DEF Covers
  <1>8. /\ Has(w, Undo("free", R("scene"), R("scene")))
        /\ Has(w, Undo("free", R("thermal_vpss"), R("thermal_vpss")))
    BY MT_close_scene_ok, MT_close_ok DEF Covers
  <1>9. CloseSteps("mt11") = w
    BY DEF CloseSteps
  <1> HIDE DEF w
  <1> QED
    BY <1>1, <1>2, <1>3, <1>4, <1>5, <1>6, <1>7, <1>8, <1>9, MT_notes DEF GivesBack

\* The parts of the opening that have no name of their own.
MT_begin == <<Own(R("latest")), Own(R("raw_file")), Own(R("raw_server"))>>
MT_sys == <<Got(R("sys")), StepOf("must", {}, {R("sys_started")})>>
MT_thermal == <<MustCall, Own(R("thermal_vpss"))>>
MT_lens == <<Opt(R("lens"))>>
MT_each(name, n) == [i \in 1 .. n |-> Own(<<name, i>>)]

LEMMA MT_each_ok ==
    ASSUME NEW name, NEW n \in Nat, NEW A,
           \A i \in 1 .. n : /\ GivesBack("mt11", <<name, i>>) /\ NoteOf("mt11", <<name, i>>) = <<name, i>>
                             /\ \A q : Uses("mt11", <<name, i>>, q) => q \in A
    PROVE  Stage("mt11", MT_each(name, n), A, {}) /\ \A i \in 1 .. n : Gives(MT_each(name, n), <<name, i>>)
PROOF
  <1> DEFINE p == MT_each(name, n)
  <1>1. IsSeq(p)
    <2>1. p \in Seq({p[j] : j \in 1 .. n})
      BY DEF MT_each
    <2> QED
      BY <2>1 DEF IsSeq
  <1>2. Len(p) = n /\ \A i \in 1 .. n : StepIs(p[i], "must", {<<name, i>>}, {<<name, i>>})
    BY DEF MT_each, Own, Get, StepOf, StepIs
  <1> HIDE DEF p
  <1>3. Stage("mt11", p, A, {}) /\ \A i \in 1 .. n : Gives(p, <<name, i>>)
    <2>1. \A i \in 1 .. n : /\ p[i].kind = "must" /\ Must(p[i]) /\ ~Starts(p[i])
                            /\ p[i].res = {<<name, i>>} /\ p[i].notes = {<<name, i>>}
      BY <1>2 DEF StepIs, Must, Starts
    <2>2. Fits("mt11", p, A, {})
      BY <1>2, <2>1 DEF Fits
    <2> QED
      BY <1>1, <1>2, <2>1, <2>2 DEF Stage, Unbroken, Gives
  <1> QED
    BY <1>3 DEF p

LEMMA MT_begin_ok ==
    /\ Stage("mt11", MT_begin, {}, {})
    /\ Gives(MT_begin, R("latest")) /\ Gives(MT_begin, R("raw_file"))
    /\ Gives(MT_begin, R("raw_server"))
PROOF
  <1> DEFINE p == MT_begin
  <1>1. /\ Len(p) = 3
        /\ StepIs(p[1], "must", {R("latest")}, {R("latest")})
        /\ StepIs(p[2], "must", {R("raw_file")}, {R("raw_file")})
        /\ StepIs(p[3], "must", {R("raw_server")}, {R("raw_server")})
    BY DEF MT_begin, Own, Get, Got, Opt, Spawn, MustCall, StepIs, StepOf
  <1>2. p \in Seq({p[j] : j \in 1 .. 3})
    BY DEF MT_begin
  <1> HIDE DEF p
  <1>3. \A j \in 1 .. Len(p) : j \in {1, 2, 3}
    BY <1>1
  <1>4. \A j \in 1 .. Len(p) : p[j].kind \in {"must"}
    BY <1>1, <1>3 DEF StepIs
  <1>5. \A j \in 1 .. Len(p) : \A r \in p[j].res :
          \/ j = 1 /\ r = R("latest")
          \/ j = 2 /\ r = R("raw_file")
          \/ j = 3 /\ r = R("raw_server")
    BY <1>1, <1>3 DEF StepIs
  <1>6. Stands("mt11", p, {})
    BY <1>1, <1>5, MT_uses DEF Stands, Must, StepIs
  <1>7. Returned("mt11", p, {}) /\ Spawns(p)
    <2>1. Returned("mt11", p, {})
      BY <1>1, <1>5, MT_left, MT_back, MT_notes DEF Returned, Must, StepIs
    <2>2. Spawns(p)
      BY <1>1, <1>3, MT_threads DEF Spawns, Starts, StepIs
    <2> QED
      BY <2>1, <2>2
  <1>8. Stage("mt11", p, {}, {})
    BY <1>2, <1>4, <1>6, <1>7, LitStage DEF Unbroken
  <1>9. /\ Gives(p, R("latest")) /\ Gives(p, R("raw_file")) /\ Gives(p, R("raw_server"))
    BY <1>1 DEF Gives, Notes, Must, StepIs
  <1> QED
    BY <1>1, <1>8, <1>9 DEF p

LEMMA MT_sys_ok ==
    /\ Stage("mt11", MT_sys, {}, {})
    /\ Gives(MT_sys, R("sys"))
PROOF
  <1> DEFINE p == MT_sys
  <1>1. /\ Len(p) = 2
        /\ StepIs(p[1], "must", {R("sys")}, {})
        /\ StepIs(p[2], "must", {}, {R("sys_started")})
    BY DEF MT_sys, Own, Get, Got, Opt, Spawn, MustCall, StepIs, StepOf
  <1>2. p \in Seq({p[j] : j \in 1 .. 2})
    BY DEF MT_sys
  <1> HIDE DEF p
  <1>3. \A j \in 1 .. Len(p) : j \in {1, 2}
    BY <1>1
  <1>4. \A j \in 1 .. Len(p) : p[j].kind \in {"must"}
    BY <1>1, <1>3 DEF StepIs
  <1>5. \A j \in 1 .. Len(p) : \A r \in p[j].res :
          \/ j = 1 /\ r = R("sys")
    BY <1>1, <1>3 DEF StepIs
  <1>6. Stands("mt11", p, {})
    BY <1>1, <1>5, MT_uses DEF Stands, Must, StepIs
  <1>7. Returned("mt11", p, {}) /\ Spawns(p)
    <2>1. Returned("mt11", p, {})
      BY <1>1, <1>5, MT_left, MT_back, MT_notes DEF Returned, Must, StepIs
    <2>2. Spawns(p)
      BY <1>1, <1>3, MT_threads DEF Spawns, Starts, StepIs
    <2> QED
      BY <2>1, <2>2
  <1>8. Stage("mt11", p, {}, {})
    BY <1>2, <1>4, <1>6, <1>7, LitStage DEF Unbroken
  <1>9. /\ Gives(p, R("sys"))
    BY <1>1 DEF Gives, Notes, Must, StepIs
  <1> QED
    BY <1>1, <1>8, <1>9 DEF p

LEMMA MT_scene_start_ok ==
    /\ Stage("mt11", MT_scene_start, {}, {})
PROOF
  <1> DEFINE p == MT_scene_start
  <1>1. /\ Len(p) = 3
        /\ StepIs(p[1], "must", {}, {})
        /\ StepIs(p[2], "must", {R("scene")}, {R("scene")})
        /\ StepIs(p[3], "must", {}, {})
    BY DEF MT_scene_start, Own, Get, Got, Opt, Spawn, MustCall, StepIs, StepOf
  <1>2. p \in Seq({p[j] : j \in 1 .. 3})
    BY DEF MT_scene_start
  <1> HIDE DEF p
  <1>3. \A j \in 1 .. Len(p) : j \in {1, 2, 3}
    BY <1>1
  <1>4. \A j \in 1 .. Len(p) : p[j].kind \in {"must"}
    BY <1>1, <1>3 DEF StepIs
  <1>5. \A j \in 1 .. Len(p) : \A r \in p[j].res :
          \/ j = 2 /\ r = R("scene")
    BY <1>1, <1>3 DEF StepIs
  <1>6. Stands("mt11", p, {})
    BY <1>1, <1>5, MT_uses DEF Stands, Must, StepIs
  <1>7. Returned("mt11", p, {}) /\ Spawns(p)
    <2>1. Returned("mt11", p, {})
      BY <1>1, <1>5, MT_left, MT_back, MT_notes DEF Returned, Must, StepIs
    <2>2. Spawns(p)
      BY <1>1, <1>3, MT_threads DEF Spawns, Starts, StepIs
    <2> QED
      BY <2>1, <2>2
  <1>8. Stage("mt11", p, {}, {})
    BY <1>2, <1>4, <1>6, <1>7, LitStage DEF Unbroken
  <1> QED
    BY <1>1, <1>8 DEF p

LEMMA MT_thermal_ok ==
    /\ Stage("mt11", MT_thermal, {}, {})
    /\ Gives(MT_thermal, R("thermal_vpss"))
PROOF
  <1> DEFINE p == MT_thermal
  <1>1. /\ Len(p) = 2
        /\ StepIs(p[1], "must", {}, {})
        /\ StepIs(p[2], "must", {R("thermal_vpss")}, {R("thermal_vpss")})
    BY DEF MT_thermal, Own, Get, Got, Opt, Spawn, MustCall, StepIs, StepOf
  <1>2. p \in Seq({p[j] : j \in 1 .. 2})
    BY DEF MT_thermal
  <1> HIDE DEF p
  <1>3. \A j \in 1 .. Len(p) : j \in {1, 2}
    BY <1>1
  <1>4. \A j \in 1 .. Len(p) : p[j].kind \in {"must"}
    BY <1>1, <1>3 DEF StepIs
  <1>5. \A j \in 1 .. Len(p) : \A r \in p[j].res :
          \/ j = 2 /\ r = R("thermal_vpss")
    BY <1>1, <1>3 DEF StepIs
  <1>6. Stands("mt11", p, {})
    BY <1>1, <1>5, MT_uses DEF Stands, Must, StepIs
  <1>7. Returned("mt11", p, {}) /\ Spawns(p)
    <2>1. Returned("mt11", p, {})
      BY <1>1, <1>5, MT_left, MT_back, MT_notes DEF Returned, Must, StepIs
    <2>2. Spawns(p)
      BY <1>1, <1>3, MT_threads DEF Spawns, Starts, StepIs
    <2> QED
      BY <2>1, <2>2
  <1>8. Stage("mt11", p, {}, {})
    BY <1>2, <1>4, <1>6, <1>7, LitStage DEF Unbroken
  <1>9. /\ Gives(p, R("thermal_vpss"))
    BY <1>1 DEF Gives, Notes, Must, StepIs
  <1> QED
    BY <1>1, <1>8, <1>9 DEF p

LEMMA MT_lens_ok ==
    /\ Stage("mt11", MT_lens, {}, {})
PROOF
  <1> DEFINE p == MT_lens
  <1>1. /\ Len(p) = 1
        /\ StepIs(p[1], "may", {R("lens")}, {R("lens")})
    BY DEF MT_lens, Own, Get, Got, Opt, Spawn, MustCall, StepIs, StepOf
  <1>2. p \in Seq({p[j] : j \in 1 .. 1})
    BY DEF MT_lens
  <1> HIDE DEF p
  <1>3. \A j \in 1 .. Len(p) : j \in {1}
    BY <1>1
  <1>4. \A j \in 1 .. Len(p) : p[j].kind \in {"may"}
    BY <1>1, <1>3 DEF StepIs
  <1>5. \A j \in 1 .. Len(p) : \A r \in p[j].res :
          \/ j = 1 /\ r = R("lens")
    BY <1>1, <1>3 DEF StepIs
  <1>6. Stands("mt11", p, {})
    BY <1>1, <1>5, MT_uses DEF Stands, Must, StepIs
  <1>7. Returned("mt11", p, {}) /\ Spawns(p)
    <2>1. Returned("mt11", p, {})
      BY <1>1, <1>5, MT_left, MT_back, MT_notes DEF Returned, Must, StepIs
    <2>2. Spawns(p)
      BY <1>1, <1>3, MT_threads DEF Spawns, Starts, StepIs
    <2> QED
      BY <2>1, <2>2
  <1>8. Stage("mt11", p, {}, {})
    BY <1>2, <1>4, <1>6, <1>7, LitStage DEF Unbroken
  <1> QED
    BY <1>1, <1>8 DEF p

LEMMA MT_servers_ok ==
    /\ Stage("mt11", MT_servers, Each("chn") \cup {R("latest"), R("raw_file"), R("raw_server"), R("thermal_vpss")}, {})
PROOF
  <1> DEFINE p == MT_servers
  <1>1. /\ Len(p) = 10
        /\ StepIs(p[1], "must", {R("rtsp")}, {R("rtsp")})
        /\ StepIs(p[2], "must", {}, {})
        /\ StepIs(p[3], "may", {R("proxy")}, {R("proxy")})
        /\ StepIs(p[4], "must", {R("live")}, {R("live")})
        /\ StepIs(p[5], "must", {}, {})
        /\ StepIs(p[6], "must", {}, {})
        /\ StepIs(p[7], "spawn", {R("thermal")}, {R("thermal")})
        /\ StepIs(p[8], "must", {}, {})
        /\ StepIs(p[9], "must", {}, {})
        /\ StepIs(p[10], "spawn", {R("capture")}, {R("capture")})
    BY DEF MT_servers, Own, Get, Got, Opt, Spawn, MustCall, StepIs, StepOf
  <1>2. p \in Seq({p[j] : j \in 1 .. 10})
    BY DEF MT_servers
  <1> HIDE DEF p
  <1>3. \A j \in 1 .. Len(p) : j \in {1, 2, 3, 4, 5, 6, 7, 8, 9, 10}
    BY <1>1
  <1>4. \A j \in 1 .. Len(p) : p[j].kind \in {"may", "must", "spawn"}
    BY <1>1, <1>3 DEF StepIs
  <1>5. \A j \in 1 .. Len(p) : \A r \in p[j].res :
          \/ j = 1 /\ r = R("rtsp")
          \/ j = 3 /\ r = R("proxy")
          \/ j = 4 /\ r = R("live")
          \/ j = 7 /\ r = R("thermal")
          \/ j = 10 /\ r = R("capture")
    BY <1>1, <1>3 DEF StepIs
  <1>6. Stands("mt11", p, Each("chn") \cup {R("latest"), R("raw_file"), R("raw_server"), R("thermal_vpss")})
    BY <1>1, <1>5, MT_uses DEF Stands, Must, StepIs, Each
  <1>7. Returned("mt11", p, {}) /\ Spawns(p)
    <2>1. Returned("mt11", p, {})
      BY <1>1, <1>5, MT_left, MT_back, MT_notes DEF Returned, Must, StepIs
    <2>2. Spawns(p)
      BY <1>1, <1>3, MT_threads DEF Spawns, Starts, StepIs
    <2> QED
      BY <2>1, <2>2
  <1>8. Stage("mt11", p, Each("chn") \cup {R("latest"), R("raw_file"), R("raw_server"), R("thermal_vpss")}, {})
    BY <1>2, <1>4, <1>6, <1>7, LitStage DEF Unbroken
  <1> QED
    BY <1>1, <1>8 DEF p

LEMMA MT_vi_each == Stage("mt11", MT_each("vi", 2), {R("sys")}, {}) /\ \A i \in 1 .. 2 : Gives(MT_each("vi", 2), <<"vi", i>>)
PROOF
  <1>1. /\ 2 \in Nat
        /\ \A i \in 1 .. 2 : /\ GivesBack("mt11", <<"vi", i>>) /\ NoteOf("mt11", <<"vi", i>>) = <<"vi", i>>
                              /\ \A q : Uses("mt11", <<"vi", i>>, q) => q \in {R("sys")}
    BY MT_back, MT_notes, MT_uses, BringUpAssumption
  <1> QED
    BY <1>1, MT_each_ok

LEMMA MT_vi_vpss_each == Stage("mt11", MT_each("vi_vpss", 2), Two("vi"), {}) /\ \A i \in 1 .. 2 : Gives(MT_each("vi_vpss", 2), <<"vi_vpss", i>>)
PROOF
  <1>1. /\ 2 \in Nat
        /\ \A i \in 1 .. 2 : /\ GivesBack("mt11", <<"vi_vpss", i>>) /\ NoteOf("mt11", <<"vi_vpss", i>>) = <<"vi_vpss", i>>
                              /\ \A q : Uses("mt11", <<"vi_vpss", i>>, q) => q \in Two("vi")
    BY MT_back, MT_notes, MT_uses, BringUpAssumption DEF Two
  <1> QED
    BY <1>1, MT_each_ok

LEMMA MT_vpss_each == Stage("mt11", MT_each("vpss", 2), {}, {}) /\ \A i \in 1 .. 2 : Gives(MT_each("vpss", 2), <<"vpss", i>>)
PROOF
  <1>1. /\ 2 \in Nat
        /\ \A i \in 1 .. 2 : /\ GivesBack("mt11", <<"vpss", i>>) /\ NoteOf("mt11", <<"vpss", i>>) = <<"vpss", i>>
                              /\ \A q : Uses("mt11", <<"vpss", i>>, q) => q \in {}
    BY MT_back, MT_notes, MT_uses, BringUpAssumption
  <1> QED
    BY <1>1, MT_each_ok

LEMMA MT_chn_each == Stage("mt11", MT_each("chn", Streams), {}, {}) /\ \A i \in 1 .. Streams : Gives(MT_each("chn", Streams), <<"chn", i>>)
PROOF
  <1>1. /\ Streams \in Nat
        /\ \A i \in 1 .. Streams : /\ GivesBack("mt11", <<"chn", i>>) /\ NoteOf("mt11", <<"chn", i>>) = <<"chn", i>>
                              /\ \A q : Uses("mt11", <<"chn", i>>, q) => q \in {}
    BY MT_back, MT_notes, MT_uses, BringUpAssumption
  <1> QED
    BY <1>1, MT_each_ok

LEMMA MT_bind_each == Stage("mt11", MT_each("bind", Streams), Each("chn"), {}) /\ \A i \in 1 .. Streams : Gives(MT_each("bind", Streams), <<"bind", i>>)
PROOF
  <1>1. /\ Streams \in Nat
        /\ \A i \in 1 .. Streams : /\ GivesBack("mt11", <<"bind", i>>) /\ NoteOf("mt11", <<"bind", i>>) = <<"bind", i>>
                              /\ \A q : Uses("mt11", <<"bind", i>>, q) => q \in Each("chn")
    BY MT_back, MT_notes, MT_uses, BringUpAssumption DEF Each
  <1> QED
    BY <1>1, MT_each_ok

LEMMA MT_recv_each == Stage("mt11", MT_each("recv", Streams), Each("chn"), {}) /\ \A i \in 1 .. Streams : Gives(MT_each("recv", Streams), <<"recv", i>>)
PROOF
  <1>1. /\ Streams \in Nat
        /\ \A i \in 1 .. Streams : /\ GivesBack("mt11", <<"recv", i>>) /\ NoteOf("mt11", <<"recv", i>>) = <<"recv", i>>
                              /\ \A q : Uses("mt11", <<"recv", i>>, q) => q \in Each("chn")
    BY MT_back, MT_notes, MT_uses, BringUpAssumption DEF Each
  <1> QED
    BY <1>1, MT_each_ok

LEMMA MT_system_init_ok ==
    /\ Stage("mt11", MT_system_init, {}, {}) /\ Gives(MT_system_init, R("sys"))
PROOF
  <1> DEFINE
      q1 == Tries(5)
      q2 == MT_sys
      w2 == q1 \o q2
  <1>0. MT_system_init = w2
    BY DEF MT_system_init, MT_sys
  <1>1. Stage("mt11", q1, {}, {})
    BY TriesFit
  <1>2. /\ Stage("mt11", q2, {}, {}) /\ Gives(q2, R("sys"))
    BY MT_sys_ok
  <1> HIDE DEF q1, q2
  <1>3. /\ Stage("mt11", w2, {}, {}) /\ Gives(w2, R("sys"))
    <2>1. Follows(w2, q1, q2)
      BY DEF Follows
    <2> HIDE DEF w2
    <2>2. Supplied(q1, {}, {}) /\ Marked(q1, {}, {})
      BY <1>1 DEF Supplied, Marked
    <2>3. Stage("mt11", w2, {}, {}) /\ GivenBy(w2, q1, q2)
      BY <2>1, <2>2, <1>1, <1>2, StageJoin
    <2> QED
      BY <2>3, <1>1, <1>2 DEF GivenBy
  <1> HIDE DEF w2
  <1> QED
    BY <1>0, <1>3

LEMMA MT_front_end_ok ==
    /\ Stage("mt11", MT_front_end, {}, {}) /\ Gives(MT_front_end, R("latest"))
    /\ Gives(MT_front_end, R("raw_file")) /\ Gives(MT_front_end, R("raw_server"))
    /\ Gives(MT_front_end, R("thermal_vpss"))
PROOF
  <1> DEFINE
      q1 == MT_begin
      q2 == MT_system_init
      q3 == MT_each("vi", 2)
      q4 == MT_each("vi_vpss", 2)
      q5 == MT_each("vpss", 2)
      q6 == MT_scene_start
      q7 == MT_thermal
      w2 == q1 \o q2
      w3 == w2 \o q3
      w4 == w3 \o q4
      w5 == w4 \o q5
      w6 == w5 \o q6
      w7 == w6 \o q7
  <1>0. MT_front_end = w7
    BY DEF MT_front_end, MT_begin, MT_each, MT_thermal
  <1>1. /\ Stage("mt11", q1, {}, {}) /\ Gives(q1, R("latest")) /\ Gives(q1, R("raw_file"))
        /\ Gives(q1, R("raw_server"))
    BY MT_begin_ok
  <1>2. /\ Stage("mt11", q2, {}, {}) /\ Gives(q2, R("sys"))
    BY MT_system_init_ok
  <1>3. /\ Stage("mt11", q3, {R("sys")}, {})
        /\ \A i \in 1 .. 2 : Gives(q3, <<"vi", i>>)
    BY MT_vi_each
  <1>4. Stage("mt11", q4, Two("vi"), {})
    BY MT_vi_vpss_each
  <1>5. Stage("mt11", q5, {}, {})
    BY MT_vpss_each
  <1>6. Stage("mt11", q6, {}, {})
    BY MT_scene_start_ok
  <1>7. /\ Stage("mt11", q7, {}, {}) /\ Gives(q7, R("thermal_vpss"))
    BY MT_thermal_ok
  <1> HIDE DEF q1, q2, q3, q4, q5, q6, q7
  <1>8. /\ Stage("mt11", w2, {}, {}) /\ Gives(w2, R("latest")) /\ Gives(w2, R("raw_file"))
        /\ Gives(w2, R("raw_server")) /\ Gives(w2, R("sys"))
    <2>1. Follows(w2, q1, q2)
      BY DEF Follows
    <2> HIDE DEF w2
    <2>2. Supplied(q1, {}, {}) /\ Marked(q1, {}, {})
      BY <1>1 DEF Supplied, Marked
    <2>3. Stage("mt11", w2, {}, {}) /\ GivenBy(w2, q1, q2)
      BY <2>1, <2>2, <1>1, <1>2, StageJoin
    <2> QED
      BY <2>3, <1>1, <1>2 DEF GivenBy
  <1> HIDE DEF w2
  <1>9. /\ Stage("mt11", w3, {}, {}) /\ Gives(w3, R("latest")) /\ Gives(w3, R("raw_file"))
        /\ Gives(w3, R("raw_server"))
        /\ \A i \in 1 .. 2 : Gives(w3, <<"vi", i>>)
    <2>1. Follows(w3, w2, q3)
      BY DEF Follows
    <2> HIDE DEF w3
    <2>2. Supplied(w2, {}, {R("sys")}) /\ Marked(w2, {}, {})
      BY <1>8 DEF Supplied, Marked
    <2>3. Stage("mt11", w3, {}, {}) /\ GivenBy(w3, w2, q3)
      BY <2>1, <2>2, <1>8, <1>3, StageJoin
    <2> QED
      BY <2>3, <1>8, <1>3 DEF GivenBy
  <1> HIDE DEF w3
  <1>10. /\ Stage("mt11", w4, {}, {}) /\ Gives(w4, R("latest")) /\ Gives(w4, R("raw_file"))
         /\ Gives(w4, R("raw_server"))
    <2>1. Follows(w4, w3, q4)
      BY DEF Follows
    <2> HIDE DEF w4
    <2>2. Supplied(w3, {}, Two("vi")) /\ Marked(w3, {}, {})
      BY <1>9 DEF Supplied, Marked, Two
    <2>3. Stage("mt11", w4, {}, {}) /\ GivenBy(w4, w3, q4)
      BY <2>1, <2>2, <1>9, <1>4, StageJoin
    <2> QED
      BY <2>3, <1>9, <1>4 DEF GivenBy
  <1> HIDE DEF w4
  <1>11. /\ Stage("mt11", w5, {}, {}) /\ Gives(w5, R("latest")) /\ Gives(w5, R("raw_file"))
         /\ Gives(w5, R("raw_server"))
    <2>1. Follows(w5, w4, q5)
      BY DEF Follows
    <2> HIDE DEF w5
    <2>2. Supplied(w4, {}, {}) /\ Marked(w4, {}, {})
      BY <1>10 DEF Supplied, Marked
    <2>3. Stage("mt11", w5, {}, {}) /\ GivenBy(w5, w4, q5)
      BY <2>1, <2>2, <1>10, <1>5, StageJoin
    <2> QED
      BY <2>3, <1>10, <1>5 DEF GivenBy
  <1> HIDE DEF w5
  <1>12. /\ Stage("mt11", w6, {}, {}) /\ Gives(w6, R("latest")) /\ Gives(w6, R("raw_file"))
         /\ Gives(w6, R("raw_server"))
    <2>1. Follows(w6, w5, q6)
      BY DEF Follows
    <2> HIDE DEF w6
    <2>2. Supplied(w5, {}, {}) /\ Marked(w5, {}, {})
      BY <1>11 DEF Supplied, Marked
    <2>3. Stage("mt11", w6, {}, {}) /\ GivenBy(w6, w5, q6)
      BY <2>1, <2>2, <1>11, <1>6, StageJoin
    <2> QED
      BY <2>3, <1>11, <1>6 DEF GivenBy
  <1> HIDE DEF w6
  <1>13. /\ Stage("mt11", w7, {}, {}) /\ Gives(w7, R("latest")) /\ Gives(w7, R("raw_file"))
         /\ Gives(w7, R("raw_server")) /\ Gives(w7, R("thermal_vpss"))
    <2>1. Follows(w7, w6, q7)
      BY DEF Follows
    <2> HIDE DEF w7
    <2>2. Supplied(w6, {}, {}) /\ Marked(w6, {}, {})
      BY <1>12 DEF Supplied, Marked
    <2>3. Stage("mt11", w7, {}, {}) /\ GivenBy(w7, w6, q7)
      BY <2>1, <2>2, <1>12, <1>7, StageJoin
    <2> QED
      BY <2>3, <1>12, <1>7 DEF GivenBy
  <1> HIDE DEF w7
  <1> QED
    BY <1>0, <1>13

LEMMA MT_encoders_ok ==
    /\ Stage("mt11", MT_encoders, {}, {})
    /\ \A i \in 1 .. Streams : Gives(MT_encoders, <<"chn", i>>)
PROOF
  <1> DEFINE
      q1 == MT_each("chn", Streams)
      q2 == MT_lens
      q3 == MT_each("bind", Streams)
      q4 == MT_each("recv", Streams)
      w2 == q1 \o q2
      w3 == w2 \o q3
      w4 == w3 \o q4
  <1>0. MT_encoders = w4
    BY DEF MT_encoders, MT_each, MT_lens
  <1>1. /\ Stage("mt11", q1, {}, {})
        /\ \A i \in 1 .. Streams : Gives(q1, <<"chn", i>>)
    BY MT_chn_each
  <1>2. Stage("mt11", q2, {}, {})
    BY MT_lens_ok
  <1>3. Stage("mt11", q3, Each("chn"), {})
    BY MT_bind_each
  <1>4. Stage("mt11", q4, Each("chn"), {})
    BY MT_recv_each
  <1> HIDE DEF q1, q2, q3, q4
  <1>5. /\ Stage("mt11", w2, {}, {})
        /\ \A i \in 1 .. Streams : Gives(w2, <<"chn", i>>)
    <2>1. Follows(w2, q1, q2)
      BY DEF Follows
    <2> HIDE DEF w2
    <2>2. Supplied(q1, {}, {}) /\ Marked(q1, {}, {})
      BY <1>1 DEF Supplied, Marked
    <2>3. Stage("mt11", w2, {}, {}) /\ GivenBy(w2, q1, q2)
      BY <2>1, <2>2, <1>1, <1>2, StageJoin
    <2> QED
      BY <2>3, <1>1, <1>2 DEF GivenBy
  <1> HIDE DEF w2
  <1>6. /\ Stage("mt11", w3, {}, {})
        /\ \A i \in 1 .. Streams : Gives(w3, <<"chn", i>>)
    <2>1. Follows(w3, w2, q3)
      BY DEF Follows
    <2> HIDE DEF w3
    <2>2. Supplied(w2, {}, Each("chn")) /\ Marked(w2, {}, {})
      BY <1>5 DEF Supplied, Marked, Each
    <2>3. Stage("mt11", w3, {}, {}) /\ GivenBy(w3, w2, q3)
      BY <2>1, <2>2, <1>5, <1>3, StageJoin
    <2> QED
      BY <2>3, <1>5, <1>3 DEF GivenBy
  <1> HIDE DEF w3
  <1>7. /\ Stage("mt11", w4, {}, {})
        /\ \A i \in 1 .. Streams : Gives(w4, <<"chn", i>>)
    <2>1. Follows(w4, w3, q4)
      BY DEF Follows
    <2> HIDE DEF w4
    <2>2. Supplied(w3, {}, Each("chn")) /\ Marked(w3, {}, {})
      BY <1>6 DEF Supplied, Marked, Each
    <2>3. Stage("mt11", w4, {}, {}) /\ GivenBy(w4, w3, q4)
      BY <2>1, <2>2, <1>6, <1>4, StageJoin
    <2> QED
      BY <2>3, <1>6, <1>4 DEF GivenBy
  <1> HIDE DEF w4
  <1> QED
    BY <1>0, <1>7

LEMMA MT_media_open_ok ==
    /\ Stage("mt11", MT_media_open, {}, {})
PROOF
  <1> DEFINE
      q1 == MT_front_end
      q2 == MT_encoders
      q3 == MT_servers
      w2 == q1 \o q2
      w3 == w2 \o q3
  <1>0. MT_media_open = w3
    BY DEF MT_media_open
  <1>1. /\ Stage("mt11", q1, {}, {}) /\ Gives(q1, R("latest")) /\ Gives(q1, R("raw_file"))
        /\ Gives(q1, R("raw_server")) /\ Gives(q1, R("thermal_vpss"))
    BY MT_front_end_ok
  <1>2. /\ Stage("mt11", q2, {}, {})
        /\ \A i \in 1 .. Streams : Gives(q2, <<"chn", i>>)
    BY MT_encoders_ok
  <1>3. Stage("mt11", q3, Each("chn") \cup {R("latest"), R("raw_file"), R("raw_server"), R("thermal_vpss")}, {})
    BY MT_servers_ok
  <1> HIDE DEF q1, q2, q3
  <1>4. /\ Stage("mt11", w2, {}, {}) /\ Gives(w2, R("latest")) /\ Gives(w2, R("raw_file"))
        /\ Gives(w2, R("raw_server")) /\ Gives(w2, R("thermal_vpss"))
        /\ \A i \in 1 .. Streams : Gives(w2, <<"chn", i>>)
    <2>1. Follows(w2, q1, q2)
      BY DEF Follows
    <2> HIDE DEF w2
    <2>2. Supplied(q1, {}, {}) /\ Marked(q1, {}, {})
      BY <1>1 DEF Supplied, Marked
    <2>3. Stage("mt11", w2, {}, {}) /\ GivenBy(w2, q1, q2)
      BY <2>1, <2>2, <1>1, <1>2, StageJoin
    <2> QED
      BY <2>3, <1>1, <1>2 DEF GivenBy
  <1> HIDE DEF w2
  <1>5. Stage("mt11", w3, {}, {})
    <2>1. Follows(w3, w2, q3)
      BY DEF Follows
    <2> HIDE DEF w3
    <2>2. Supplied(w2, {}, Each("chn") \cup {R("latest"), R("raw_file"), R("raw_server"), R("thermal_vpss")}) /\ Marked(w2, {}, {})
      BY <1>4 DEF Supplied, Marked, Each
    <2>3. Stage("mt11", w3, {}, {}) /\ GivenBy(w3, w2, q3)
      BY <2>1, <2>2, <1>4, <1>3, StageJoin
    <2> QED
      BY <2>3, <1>4, <1>3 DEF GivenBy
  <1> HIDE DEF w3
  <1> QED
    BY <1>0, <1>5

LEMMA MT_ranked == Ranked("mt11")
  BY MT_pairs, MT_turns, MT_unleft, BringUpAssumption DEF Ranked

LEMMA MT_sound == Sound("mt11")
PROOF
  <1>1. OpenSteps("mt11") = MT_media_open /\ CloseSteps("mt11") = MT_media_cleanup
    BY DEF OpenSteps, CloseSteps
  <1>2. IsSeq(MT_media_open) /\ Fits("mt11", MT_media_open, {}, {})
    BY MT_media_open_ok DEF Stage
  <1>3. IsSeq(MT_media_cleanup) /\ Placed("mt11", MT_media_cleanup, 0)
    BY MT_close_ok DEF Undoing
  <1> QED
    BY <1>1, <1>2, <1>3, MT_ranked, MT_left DEF Sound

LEMMA FocusSound ==
    /\ \A q : Uses("mt11", R("focus"), q) => q = R("lens")
    /\ GivesBack("mt11", R("focus")) /\ NoteOf("mt11", R("focus")) = R("focus")
    /\ R("focus") \in ThreadNames
  BY MT_uses, MT_back, MT_notes, MT_threads

-----------------------------------------------------------------------------
\* The Z1-Mini's (AX).

\* What stands on what (StandsOn), pair by pair.
LEMMA AX_pairs ==
    ASSUME NEW x \in StandsOn("ax")
    PROVE  \/ \E i \in 1 .. Streams :
                 \/ x = <<<<"recv", i>>, <<"chn", i>>>>
                 \/ x = <<<<"encode", i>>, <<"recv", i>>>>
           \/ x = <<R("exposure"), R("output")>>
           \/ x = <<R("isp_thread"), R("isp")>>
           \/ x = <<R("isp"), R("vin_pipe")>>
           \/ x = <<R("vin_pipe"), R("vin")>>
           \/ x = <<R("vin"), R("sys")>>
           \/ x = <<R("sys"), R("libs")>>
           \/ x = <<R("libs"), R("lock")>>
           \/ x = <<R("stream"), R("dev")>>
           \/ x = <<R("dev"), R("vin_run")>>
           \/ x = <<R("vin_run"), R("isp")>>
  BY DEF StandsOn

LEMMA AX_uses ==
    /\ \A q : ~Uses("ax", R("output"), q)
    /\ \A q : ~Uses("ax", R("lock"), q)
    /\ \A q : Uses("ax", R("libs"), q) => q = R("lock")
    /\ \A q : Uses("ax", R("sys"), q) => q = R("libs")
    /\ \A q : Uses("ax", R("vin"), q) => q = R("sys")
    /\ \A q : ~Uses("ax", R("mipi"), q)
    /\ \A q : ~Uses("ax", R("npu"), q)
    /\ \A q : ~Uses("ax", R("pool"), q)
    /\ \A q : Uses("ax", R("vin_pipe"), q) => q = R("vin")
    /\ \A q : ~Uses("ax", R("sensor"), q)
    /\ \A q : ~Uses("ax", R("clock"), q)
    /\ \A q : Uses("ax", R("isp"), q) => q = R("vin_pipe")
    /\ \A q : ~Uses("ax", R("ae_sensor"), q)
    /\ \A q : ~Uses("ax", R("ae"), q)
    /\ \A q : ~Uses("ax", R("awb"), q)
    /\ \A q : ~Uses("ax", R("raw_pool"), q)
    /\ \A q : Uses("ax", R("vin_run"), q) => q = R("isp")
    /\ \A q : Uses("ax", R("dev"), q) => q = R("vin_run")
    /\ \A q : Uses("ax", R("stream"), q) => q = R("dev")
    /\ \A q : Uses("ax", R("isp_thread"), q) => q = R("isp")
    /\ \A q : ~Uses("ax", R("venc"), q)
    /\ \A i \in 1 .. Streams : \A q : ~Uses("ax", <<"chn", i>>, q)
    /\ \A i \in 1 .. Streams : \A q : Uses("ax", <<"recv", i>>, q) => q = <<"chn", i>>
    /\ \A q : Uses("ax", R("exposure"), q) => q = R("output")
    /\ \A i \in 1 .. Streams : \A q : Uses("ax", <<"encode", i>>, q) => q = <<"recv", i>>
  BY AX_pairs DEF Uses, R

LEMMA AX_turns ==
    /\ Turn("ax", R("stop")) = Streams + 1 /\ Turn("ax", R("exposure")) = Streams + 2
    /\ Turn("ax", R("stream")) = 3 * Streams + 3 /\ Turn("ax", R("dev")) = 3 * Streams + 4
    /\ Turn("ax", R("vin_run")) = 3 * Streams + 5
    /\ Turn("ax", R("isp_thread")) = 3 * Streams + 6
    /\ Turn("ax", R("ae")) = 3 * Streams + 7 /\ Turn("ax", R("awb")) = 3 * Streams + 8
    /\ Turn("ax", R("ae_sensor")) = 3 * Streams + 9
    /\ Turn("ax", R("isp")) = 3 * Streams + 10
    /\ Turn("ax", R("sensor")) = 3 * Streams + 11
    /\ Turn("ax", R("clock")) = 3 * Streams + 12
    /\ Turn("ax", R("vin_pipe")) = 3 * Streams + 13
    /\ Turn("ax", R("vin")) = 3 * Streams + 14 /\ Turn("ax", R("mipi")) = 3 * Streams + 15
    /\ Turn("ax", R("raw_pool")) = 3 * Streams + 16
    /\ Turn("ax", R("pool")) = 3 * Streams + 17
    /\ Turn("ax", R("output")) = 3 * Streams + 18 /\ Turn("ax", R("sys")) = 0
    /\ Turn("ax", R("libs")) = 0 /\ Turn("ax", R("lock")) = 0
    /\ \A i \in 1 .. Streams : Turn("ax", <<"encode", i>>) = i
    /\ \A i \in 1 .. Streams : Turn("ax", <<"recv", i>>) = Streams + 2 * i + 1
    /\ \A i \in 1 .. Streams : Turn("ax", <<"chn", i>>) = Streams + 2 * i + 2
  BY DEF Turn, Turn_ax, R

LEMMA AX_notes ==
    /\ NoteOf("ax", R("stream")) = R("stream_on")
    /\ NoteOf("ax", R("dev")) = R("dev_enabled")
    /\ NoteOf("ax", R("vin_run")) = R("vin_started")
    /\ NoteOf("ax", R("ae")) = R("isp_open") /\ NoteOf("ax", R("awb")) = R("isp_open")
    /\ NoteOf("ax", R("ae_sensor")) = R("isp_open")
    /\ NoteOf("ax", R("isp")) = R("isp_open") /\ NoteOf("ax", R("sensor")) = R("created")
    /\ NoteOf("ax", R("clock")) = R("created")
    /\ NoteOf("ax", R("vin_pipe")) = R("created") /\ NoteOf("ax", R("vin")) = always
    /\ NoteOf("ax", R("mipi")) = always /\ NoteOf("ax", R("raw_pool")) = always
    /\ NoteOf("ax", R("pool")) = always /\ NoteOf("ax", R("output")) = always
    /\ NoteOf("ax", R("exposure")) = R("exposure")
    /\ NoteOf("ax", R("isp_thread")) = R("isp_thread")
    /\ \A i \in 1 .. Streams : NoteOf("ax", <<"recv", i>>) = <<"recv", i>>
    /\ \A i \in 1 .. Streams : NoteOf("ax", <<"chn", i>>) = <<"chn", i>>
    /\ \A i \in 1 .. Streams : NoteOf("ax", <<"encode", i>>) = <<"encode", i>>
  BY DEF NoteOf, Note_ax, R, always

LEMMA AX_threads ==
    /\ R("output") \notin ThreadNames /\ R("lock") \notin ThreadNames /\ R("libs") \notin ThreadNames
    /\ R("sys") \notin ThreadNames /\ R("vin") \notin ThreadNames /\ R("mipi") \notin ThreadNames
    /\ R("npu") \notin ThreadNames /\ R("pool") \notin ThreadNames /\ R("vin_pipe") \notin ThreadNames
    /\ R("sensor") \notin ThreadNames /\ R("clock") \notin ThreadNames /\ R("isp") \notin ThreadNames
    /\ R("ae_sensor") \notin ThreadNames /\ R("ae") \notin ThreadNames /\ R("awb") \notin ThreadNames
    /\ R("raw_pool") \notin ThreadNames /\ R("vin_run") \notin ThreadNames
    /\ R("dev") \notin ThreadNames /\ R("stream") \notin ThreadNames /\ R("venc") \notin ThreadNames
    /\ \A i \in 1 .. Streams : <<"chn", i>> \notin ThreadNames
    /\ \A i \in 1 .. Streams : <<"recv", i>> \notin ThreadNames
    /\ R("exposure") \in ThreadNames /\ R("isp_thread") \in ThreadNames
    /\ \A i \in 1 .. Streams : <<"encode", i>> \in ThreadNames
  BY DEF ThreadNames, Workers, R

LEMMA AX_unleft ==
    /\ R("vin") \notin Leftover("ax") /\ R("mipi") \notin Leftover("ax")
    /\ R("pool") \notin Leftover("ax") /\ R("vin_pipe") \notin Leftover("ax")
    /\ R("sensor") \notin Leftover("ax") /\ R("clock") \notin Leftover("ax")
    /\ R("isp") \notin Leftover("ax") /\ R("ae_sensor") \notin Leftover("ax")
    /\ R("ae") \notin Leftover("ax") /\ R("awb") \notin Leftover("ax")
    /\ R("raw_pool") \notin Leftover("ax") /\ R("vin_run") \notin Leftover("ax")
    /\ R("dev") \notin Leftover("ax") /\ R("stream") \notin Leftover("ax")
    /\ R("isp_thread") \notin Leftover("ax") /\ R("exposure") \notin Leftover("ax")
    /\ \A i \in 1 .. Streams : <<"chn", i>> \notin Leftover("ax")
    /\ \A i \in 1 .. Streams : <<"recv", i>> \notin Leftover("ax")
    /\ \A i \in 1 .. Streams : <<"encode", i>> \notin Leftover("ax")
  BY DEF Leftover, R

LEMMA AX_left ==
    /\ R("output") \in Leftover("ax") /\ R("lock") \in Leftover("ax")
    /\ R("libs") \in Leftover("ax") /\ R("sys") \in Leftover("ax")
    /\ R("npu") \in Leftover("ax") /\ R("venc") \in Leftover("ax")
    /\ ThreadNames \cap Leftover("ax") = {}
  BY DEF ThreadNames, Workers, Leftover, R

\* The parts of the clean-up.
AX_join_worker(i) == <<Join(<<"encode", i>>)>>
AX_close_exposure == <<Raise("stop", always), Join(R("exposure"))>>
AX_close_encoder(i) == <<Drop(<<"recv", i>>), Drop(<<"chn", i>>)>>
AX_close_part(labels, n) == [i \in DOMAIN labels |-> Free(R(labels[i]), n)]
AX_close_stream == AX_close_part(<<"stream">>, R("stream_on"))
AX_close_dev == AX_close_part(<<"dev">>, R("dev_enabled"))
AX_close_run == AX_close_part(<<"vin_run">>, R("vin_started"))
AX_join_isp == <<Join(R("isp_thread"))>>
AX_close_isp == AX_close_part(<<"ae", "awb", "ae_sensor", "isp">>, R("isp_open"))
AX_close_pipe == AX_close_part(<<"sensor", "clock", "vin_pipe">>, R("created"))
AX_close_rest == AX_close_part(<<"vin", "mipi", "raw_pool", "pool", "output">>, always)

LEMMA AX_join_worker_ok ==
    ASSUME NEW i \in 1 .. Streams
    PROVE  /\ Undoing("ax", AX_join_worker(i), 0 + 1 * (i - 1), 0 + 1 * i)
           /\ Has(AX_join_worker(i), Undo("join", <<"encode", i>>, <<"encode", i>>))
PROOF
  <1> DEFINE p == AX_join_worker(i)
  <1>1. /\ Len(p) = 1
        /\ p[1] = Undo("join", <<"encode", i>>, <<"encode", i>>)
    BY DEF AX_join_worker, Drop, Free, Raise, Join
  <1>2. p \in Seq({p[j] : j \in 1 .. 1})
    BY DEF AX_join_worker
  <1> HIDE DEF p
  <1>3. \A j \in 1 .. Len(p) : j \in {1}
    BY <1>1
  <1>4. Placed("ax", p, 0 + 1 * (i - 1))
    BY <1>1, <1>3, UndoIs, AX_turns, AX_threads, BringUpAssumption DEF Placed
  <1>5. /\ Has(p, Undo("join", <<"encode", i>>, <<"encode", i>>))
    BY <1>1 DEF Has
  <1>6. Undoing("ax", p, 0 + 1 * (i - 1), 0 + 1 * i)
    BY <1>1, <1>2, <1>4, BringUpAssumption DEF Undoing, IsSeq
  <1> QED
    BY <1>5, <1>6 DEF p

LEMMA AX_close_exposure_ok ==
    /\ Undoing("ax", AX_close_exposure, 0 + Streams, 2 + Streams)
    /\ Has(AX_close_exposure, Undo("join", R("exposure"), R("exposure")))
PROOF
  <1> DEFINE p == AX_close_exposure
  <1>1. /\ Len(p) = 2
        /\ p[1] = Undo("raise", R("stop"), always)
        /\ p[2] = Undo("join", R("exposure"), R("exposure"))
    BY DEF AX_close_exposure, Drop, Free, Raise, Join
  <1>2. p \in Seq({p[j] : j \in 1 .. 2})
    BY DEF AX_close_exposure
  <1> HIDE DEF p
  <1>3. \A j \in 1 .. Len(p) : j \in {1, 2}
    BY <1>1
  <1>4. Placed("ax", p, 0 + Streams)
    BY <1>1, <1>3, UndoIs, AX_turns, AX_threads, BringUpAssumption DEF Placed
  <1>5. /\ Has(p, Undo("join", R("exposure"), R("exposure")))
    BY <1>1 DEF Has
  <1>6. Undoing("ax", p, 0 + Streams, 2 + Streams)
    BY <1>1, <1>2, <1>4, BringUpAssumption DEF Undoing, IsSeq
  <1> QED
    BY <1>5, <1>6 DEF p

LEMMA AX_close_encoder_ok ==
    ASSUME NEW i \in 1 .. Streams
    PROVE  /\ Undoing("ax", AX_close_encoder(i), (2 + Streams) + 2 * (i - 1), (2 + Streams) + 2 * i)
           /\ Has(AX_close_encoder(i), Undo("free", <<"recv", i>>, <<"recv", i>>))
           /\ Has(AX_close_encoder(i), Undo("free", <<"chn", i>>, <<"chn", i>>))
PROOF
  <1> DEFINE p == AX_close_encoder(i)
  <1>1. /\ Len(p) = 2
        /\ p[1] = Undo("free", <<"recv", i>>, <<"recv", i>>)
        /\ p[2] = Undo("free", <<"chn", i>>, <<"chn", i>>)
    BY DEF AX_close_encoder, Drop, Free, Raise, Join
  <1>2. p \in Seq({p[j] : j \in 1 .. 2})
    BY DEF AX_close_encoder
  <1> HIDE DEF p
  <1>3. \A j \in 1 .. Len(p) : j \in {1, 2}
    BY <1>1
  <1>4. Placed("ax", p, (2 + Streams) + 2 * (i - 1))
    BY <1>1, <1>3, UndoIs, AX_turns, AX_threads, BringUpAssumption DEF Placed
  <1>5. /\ Has(p, Undo("free", <<"recv", i>>, <<"recv", i>>))
        /\ Has(p, Undo("free", <<"chn", i>>, <<"chn", i>>))
    BY <1>1 DEF Has
  <1>6. Undoing("ax", p, (2 + Streams) + 2 * (i - 1), (2 + Streams) + 2 * i)
    BY <1>1, <1>2, <1>4, BringUpAssumption DEF Undoing, IsSeq
  <1> QED
    BY <1>5, <1>6 DEF p

LEMMA AX_close_stream_ok ==
    /\ Undoing("ax", AX_close_stream, 2 + 3 * Streams, 3 + 3 * Streams)
    /\ Has(AX_close_stream, Undo("free", R("stream"), R("stream_on")))
PROOF
  <1> DEFINE p == AX_close_stream
  <1>1. /\ Len(p) = 1
        /\ p[1] = Undo("free", R("stream"), R("stream_on"))
    BY DEF AX_close_stream, AX_close_part, Drop, Free, Raise, Join
  <1>2. p \in Seq({p[j] : j \in 1 .. 1})
    BY DEF AX_close_stream, AX_close_part
  <1> HIDE DEF p
  <1>3. \A j \in 1 .. Len(p) : j \in {1}
    BY <1>1
  <1>4. Placed("ax", p, 2 + 3 * Streams)
    BY <1>1, <1>3, UndoIs, AX_turns, AX_threads, BringUpAssumption DEF Placed
  <1>5. /\ Has(p, Undo("free", R("stream"), R("stream_on")))
    BY <1>1 DEF Has
  <1>6. Undoing("ax", p, 2 + 3 * Streams, 3 + 3 * Streams)
    BY <1>1, <1>2, <1>4, BringUpAssumption DEF Undoing, IsSeq
  <1> QED
    BY <1>5, <1>6 DEF p

LEMMA AX_close_dev_ok ==
    /\ Undoing("ax", AX_close_dev, 3 + 3 * Streams, 4 + 3 * Streams)
    /\ Has(AX_close_dev, Undo("free", R("dev"), R("dev_enabled")))
PROOF
  <1> DEFINE p == AX_close_dev
  <1>1. /\ Len(p) = 1
        /\ p[1] = Undo("free", R("dev"), R("dev_enabled"))
    BY DEF AX_close_dev, AX_close_part, Drop, Free, Raise, Join
  <1>2. p \in Seq({p[j] : j \in 1 .. 1})
    BY DEF AX_close_dev, AX_close_part
  <1> HIDE DEF p
  <1>3. \A j \in 1 .. Len(p) : j \in {1}
    BY <1>1
  <1>4. Placed("ax", p, 3 + 3 * Streams)
    BY <1>1, <1>3, UndoIs, AX_turns, AX_threads, BringUpAssumption DEF Placed
  <1>5. /\ Has(p, Undo("free", R("dev"), R("dev_enabled")))
    BY <1>1 DEF Has
  <1>6. Undoing("ax", p, 3 + 3 * Streams, 4 + 3 * Streams)
    BY <1>1, <1>2, <1>4, BringUpAssumption DEF Undoing, IsSeq
  <1> QED
    BY <1>5, <1>6 DEF p

LEMMA AX_close_run_ok ==
    /\ Undoing("ax", AX_close_run, 4 + 3 * Streams, 5 + 3 * Streams)
    /\ Has(AX_close_run, Undo("free", R("vin_run"), R("vin_started")))
PROOF
  <1> DEFINE p == AX_close_run
  <1>1. /\ Len(p) = 1
        /\ p[1] = Undo("free", R("vin_run"), R("vin_started"))
    BY DEF AX_close_run, AX_close_part, Drop, Free, Raise, Join
  <1>2. p \in Seq({p[j] : j \in 1 .. 1})
    BY DEF AX_close_run, AX_close_part
  <1> HIDE DEF p
  <1>3. \A j \in 1 .. Len(p) : j \in {1}
    BY <1>1
  <1>4. Placed("ax", p, 4 + 3 * Streams)
    BY <1>1, <1>3, UndoIs, AX_turns, AX_threads, BringUpAssumption DEF Placed
  <1>5. /\ Has(p, Undo("free", R("vin_run"), R("vin_started")))
    BY <1>1 DEF Has
  <1>6. Undoing("ax", p, 4 + 3 * Streams, 5 + 3 * Streams)
    BY <1>1, <1>2, <1>4, BringUpAssumption DEF Undoing, IsSeq
  <1> QED
    BY <1>5, <1>6 DEF p

LEMMA AX_join_isp_ok ==
    /\ Undoing("ax", AX_join_isp, 5 + 3 * Streams, 6 + 3 * Streams)
    /\ Has(AX_join_isp, Undo("join", R("isp_thread"), R("isp_thread")))
PROOF
  <1> DEFINE p == AX_join_isp
  <1>1. /\ Len(p) = 1
        /\ p[1] = Undo("join", R("isp_thread"), R("isp_thread"))
    BY DEF AX_join_isp, Drop, Free, Raise, Join
  <1>2. p \in Seq({p[j] : j \in 1 .. 1})
    BY DEF AX_join_isp
  <1> HIDE DEF p
  <1>3. \A j \in 1 .. Len(p) : j \in {1}
    BY <1>1
  <1>4. Placed("ax", p, 5 + 3 * Streams)
    BY <1>1, <1>3, UndoIs, AX_turns, AX_threads, BringUpAssumption DEF Placed
  <1>5. /\ Has(p, Undo("join", R("isp_thread"), R("isp_thread")))
    BY <1>1 DEF Has
  <1>6. Undoing("ax", p, 5 + 3 * Streams, 6 + 3 * Streams)
    BY <1>1, <1>2, <1>4, BringUpAssumption DEF Undoing, IsSeq
  <1> QED
    BY <1>5, <1>6 DEF p

LEMMA AX_close_isp_ok ==
    /\ Undoing("ax", AX_close_isp, 6 + 3 * Streams, 10 + 3 * Streams)
    /\ Has(AX_close_isp, Undo("free", R("ae"), R("isp_open")))
    /\ Has(AX_close_isp, Undo("free", R("awb"), R("isp_open")))
    /\ Has(AX_close_isp, Undo("free", R("ae_sensor"), R("isp_open")))
    /\ Has(AX_close_isp, Undo("free", R("isp"), R("isp_open")))
PROOF
  <1> DEFINE p == AX_close_isp
  <1>1. /\ Len(p) = 4
        /\ p[1] = Undo("free", R("ae"), R("isp_open"))
        /\ p[2] = Undo("free", R("awb"), R("isp_open"))
        /\ p[3] = Undo("free", R("ae_sensor"), R("isp_open"))
        /\ p[4] = Undo("free", R("isp"), R("isp_open"))
    BY DEF AX_close_isp, AX_close_part, Drop, Free, Raise, Join
  <1>2. p \in Seq({p[j] : j \in 1 .. 4})
    BY DEF AX_close_isp, AX_close_part
  <1> HIDE DEF p
  <1>3. \A j \in 1 .. Len(p) : j \in {1, 2, 3, 4}
    BY <1>1
  <1>4. Placed("ax", p, 6 + 3 * Streams)
    BY <1>1, <1>3, UndoIs, AX_turns, AX_threads, BringUpAssumption DEF Placed
  <1>5. /\ Has(p, Undo("free", R("ae"), R("isp_open")))
        /\ Has(p, Undo("free", R("awb"), R("isp_open")))
        /\ Has(p, Undo("free", R("ae_sensor"), R("isp_open")))
        /\ Has(p, Undo("free", R("isp"), R("isp_open")))
    BY <1>1 DEF Has
  <1>6. Undoing("ax", p, 6 + 3 * Streams, 10 + 3 * Streams)
    BY <1>1, <1>2, <1>4, BringUpAssumption DEF Undoing, IsSeq
  <1> QED
    BY <1>5, <1>6 DEF p

LEMMA AX_close_pipe_ok ==
    /\ Undoing("ax", AX_close_pipe, 10 + 3 * Streams, 13 + 3 * Streams)
    /\ Has(AX_close_pipe, Undo("free", R("sensor"), R("created")))
    /\ Has(AX_close_pipe, Undo("free", R("clock"), R("created")))
    /\ Has(AX_close_pipe, Undo("free", R("vin_pipe"), R("created")))
PROOF
  <1> DEFINE p == AX_close_pipe
  <1>1. /\ Len(p) = 3
        /\ p[1] = Undo("free", R("sensor"), R("created"))
        /\ p[2] = Undo("free", R("clock"), R("created"))
        /\ p[3] = Undo("free", R("vin_pipe"), R("created"))
    BY DEF AX_close_pipe, AX_close_part, Drop, Free, Raise, Join
  <1>2. p \in Seq({p[j] : j \in 1 .. 3})
    BY DEF AX_close_pipe, AX_close_part
  <1> HIDE DEF p
  <1>3. \A j \in 1 .. Len(p) : j \in {1, 2, 3}
    BY <1>1
  <1>4. Placed("ax", p, 10 + 3 * Streams)
    BY <1>1, <1>3, UndoIs, AX_turns, AX_threads, BringUpAssumption DEF Placed
  <1>5. /\ Has(p, Undo("free", R("sensor"), R("created")))
        /\ Has(p, Undo("free", R("clock"), R("created")))
        /\ Has(p, Undo("free", R("vin_pipe"), R("created")))
    BY <1>1 DEF Has
  <1>6. Undoing("ax", p, 10 + 3 * Streams, 13 + 3 * Streams)
    BY <1>1, <1>2, <1>4, BringUpAssumption DEF Undoing, IsSeq
  <1> QED
    BY <1>5, <1>6 DEF p

LEMMA AX_close_rest_ok ==
    /\ Undoing("ax", AX_close_rest, 13 + 3 * Streams, 18 + 3 * Streams)
    /\ Has(AX_close_rest, Undo("free", R("vin"), always))
    /\ Has(AX_close_rest, Undo("free", R("mipi"), always))
    /\ Has(AX_close_rest, Undo("free", R("raw_pool"), always))
    /\ Has(AX_close_rest, Undo("free", R("pool"), always))
    /\ Has(AX_close_rest, Undo("free", R("output"), always))
PROOF
  <1> DEFINE p == AX_close_rest
  <1>1. /\ Len(p) = 5
        /\ p[1] = Undo("free", R("vin"), always)
        /\ p[2] = Undo("free", R("mipi"), always)
        /\ p[3] = Undo("free", R("raw_pool"), always)
        /\ p[4] = Undo("free", R("pool"), always)
        /\ p[5] = Undo("free", R("output"), always)
    BY DEF AX_close_rest, AX_close_part, Drop, Free, Raise, Join
  <1>2. p \in Seq({p[j] : j \in 1 .. 5})
    BY DEF AX_close_rest, AX_close_part
  <1> HIDE DEF p
  <1>3. \A j \in 1 .. Len(p) : j \in {1, 2, 3, 4, 5}
    BY <1>1
  <1>4. Placed("ax", p, 13 + 3 * Streams)
    BY <1>1, <1>3, UndoIs, AX_turns, AX_threads, BringUpAssumption DEF Placed
  <1>5. /\ Has(p, Undo("free", R("vin"), always))
        /\ Has(p, Undo("free", R("mipi"), always))
        /\ Has(p, Undo("free", R("raw_pool"), always))
        /\ Has(p, Undo("free", R("pool"), always))
        /\ Has(p, Undo("free", R("output"), always))
    BY <1>1 DEF Has
  <1>6. Undoing("ax", p, 13 + 3 * Streams, 18 + 3 * Streams)
    BY <1>1, <1>2, <1>4, BringUpAssumption DEF Undoing, IsSeq
  <1> QED
    BY <1>5, <1>6 DEF p

LEMMA AX_close_ok ==
    /\ Undoing("ax", AX_cleanup, 0, 18 + 3 * Streams)
    /\ \A i \in 1 .. Streams : Covers(AX_cleanup, AX_join_worker(i))
    /\ Covers(AX_cleanup, AX_close_exposure)
    /\ \A i \in 1 .. Streams : Covers(AX_cleanup, AX_close_encoder(i))
    /\ Covers(AX_cleanup, AX_close_stream)
    /\ Covers(AX_cleanup, AX_close_dev)
    /\ Covers(AX_cleanup, AX_close_run)
    /\ Covers(AX_cleanup, AX_join_isp)
    /\ Covers(AX_cleanup, AX_close_isp)
    /\ Covers(AX_cleanup, AX_close_pipe)
    /\ Covers(AX_cleanup, AX_close_rest)
PROOF
  <1> DEFINE
      q1 == FlattenSeq([i \in 1 .. Streams |-> AX_join_worker(i)])
      q2 == AX_close_exposure
      q3 == FlattenSeq([i \in 1 .. Streams |-> AX_close_encoder(i)])
      q4 == AX_close_stream
      q5 == AX_close_dev
      q6 == AX_close_run
      q7 == AX_join_isp
      q8 == AX_close_isp
      q9 == AX_close_pipe
      q10 == AX_close_rest
      w2 == q1 \o q2
      w3 == w2 \o q3
      w4 == w3 \o q4
      w5 == w4 \o q5
      w6 == w5 \o q6
      w7 == w6 \o q7
      w8 == w7 \o q8
      w9 == w8 \o q9
      w10 == w9 \o q10
  <1>0. AX_cleanup = w10
    BY DEF AX_cleanup, ForAll, AX_join_worker, AX_close_encoder, AX_close_exposure, AX_close_stream, AX_close_dev, AX_close_run, AX_join_isp, AX_close_isp, AX_close_pipe, AX_close_rest, AX_close_part
  <1>1. Undoing("ax", q1, 0, 0 + Streams) /\ \A i \in 1 .. Streams : \A u : Has(AX_join_worker(i), u) => Has(q1, u)
    <2> DEFINE s == [i \in 1 .. Streams |-> AX_join_worker(i)]
    <2>1. Len(s) = Streams /\ \A i \in 1 .. Streams : s[i] = AX_join_worker(i)
      BY BringUpAssumption
    <2> HIDE DEF s
    <2>2. \A i \in 1 .. Streams : Undoing("ax", s[i], 0 + 1 * (i - 1), 0 + 1 * i)
      BY <2>1, AX_join_worker_ok, BringUpAssumption
    <2>3. /\ Undoing("ax", FlattenSeq(s), 0, 0 + 1 * Streams)
          /\ \A i \in 1 .. Streams : \A u : Has(s[i], u) => Has(FlattenSeq(s), u)
      <3>1. 0 \in Nat /\ Streams \in Nat \ {0}
        BY BringUpAssumption
      <3> QED
        BY <2>1, <2>2, <3>1, UndoStreams
    <2> QED
      BY <2>1, <2>3, BringUpAssumption DEF s
  <1>2. Undoing("ax", q2, 0 + Streams, 2 + Streams)
    BY AX_close_exposure_ok
  <1>3. Undoing("ax", q3, 2 + Streams, 2 + 3 * Streams) /\ \A i \in 1 .. Streams : \A u : Has(AX_close_encoder(i), u) => Has(q3, u)
    <2> DEFINE s == [i \in 1 .. Streams |-> AX_close_encoder(i)]
    <2>1. Len(s) = Streams /\ \A i \in 1 .. Streams : s[i] = AX_close_encoder(i)
      BY BringUpAssumption
    <2> HIDE DEF s
    <2>2. \A i \in 1 .. Streams : Undoing("ax", s[i], 2 + Streams + 2 * (i - 1), 2 + Streams + 2 * i)
      BY <2>1, AX_close_encoder_ok, BringUpAssumption
    <2>3. /\ Undoing("ax", FlattenSeq(s), 2 + Streams, 2 + Streams + 2 * Streams)
          /\ \A i \in 1 .. Streams : \A u : Has(s[i], u) => Has(FlattenSeq(s), u)
      <3>1. 2 + Streams \in Nat /\ Streams \in Nat \ {0}
        BY BringUpAssumption
      <3> QED
        BY <2>1, <2>2, <3>1, UndoStreams
    <2> QED
      BY <2>1, <2>3, BringUpAssumption DEF s
  <1>4. Undoing("ax", q4, 2 + 3 * Streams, 3 + 3 * Streams)
    BY AX_close_stream_ok
  <1>5. Undoing("ax", q5, 3 + 3 * Streams, 4 + 3 * Streams)
    BY AX_close_dev_ok
  <1>6. Undoing("ax", q6, 4 + 3 * Streams, 5 + 3 * Streams)
    BY AX_close_run_ok
  <1>7. Undoing("ax", q7, 5 + 3 * Streams, 6 + 3 * Streams)
    BY AX_join_isp_ok
  <1>8. Undoing("ax", q8, 6 + 3 * Streams, 10 + 3 * Streams)
    BY AX_close_isp_ok
  <1>9. Undoing("ax", q9, 10 + 3 * Streams, 13 + 3 * Streams)
    BY AX_close_pipe_ok
  <1>10. Undoing("ax", q10, 13 + 3 * Streams, 18 + 3 * Streams)
    BY AX_close_rest_ok
  <1> HIDE DEF q1, q2, q3, q4, q5, q6, q7, q8, q9, q10
  <1>11w. Follows(w2, q1, q2)
    BY DEF Follows
  <1> HIDE DEF w2
  <1>11. Undoing("ax", w2, 0, 2 + Streams) /\ Both(w2, q1, q2)
    BY <1>1, <1>2, <1>11w, UndoJoin
  <1>12w. Follows(w3, w2, q3)
    BY DEF Follows
  <1> HIDE DEF w3
  <1>12. Undoing("ax", w3, 0, 2 + 3 * Streams) /\ Both(w3, w2, q3)
    BY <1>11, <1>3, <1>12w, UndoJoin
  <1>13w. Follows(w4, w3, q4)
    BY DEF Follows
  <1> HIDE DEF w4
  <1>13. Undoing("ax", w4, 0, 3 + 3 * Streams) /\ Both(w4, w3, q4)
    BY <1>12, <1>4, <1>13w, UndoJoin
  <1>14w. Follows(w5, w4, q5)
    BY DEF Follows
  <1> HIDE DEF w5
  <1>14. Undoing("ax", w5, 0, 4 + 3 * Streams) /\ Both(w5, w4, q5)
    BY <1>13, <1>5, <1>14w, UndoJoin
  <1>15w. Follows(w6, w5, q6)
    BY DEF Follows
  <1> HIDE DEF w6
  <1>15. Undoing("ax", w6, 0, 5 + 3 * Streams) /\ Both(w6, w5, q6)
    BY <1>14, <1>6, <1>15w, UndoJoin
  <1>16w. Follows(w7, w6, q7)
    BY DEF Follows
  <1> HIDE DEF w7
  <1>16. Undoing("ax", w7, 0, 6 + 3 * Streams) /\ Both(w7, w6, q7)
    BY <1>15, <1>7, <1>16w, UndoJoin
  <1>17w. Follows(w8, w7, q8)
    BY DEF Follows
  <1> HIDE DEF w8
  <1>17. Undoing("ax", w8, 0, 10 + 3 * Streams) /\ Both(w8, w7, q8)
    BY <1>16, <1>8, <1>17w, UndoJoin
  <1>18w. Follows(w9, w8, q9)
    BY DEF Follows
  <1> HIDE DEF w9
  <1>18. Undoing("ax", w9, 0, 13 + 3 * Streams) /\ Both(w9, w8, q9)
    BY <1>17, <1>9, <1>18w, UndoJoin
  <1>19w. Follows(w10, w9, q10)
    BY DEF Follows
  <1> HIDE DEF w10
  <1>19. Undoing("ax", w10, 0, 18 + 3 * Streams) /\ Both(w10, w9, q10)
    BY <1>18, <1>10, <1>19w, UndoJoin
  <1>20. Covers(w10, q1)
    BY <1>11, <1>12, <1>13, <1>14, <1>15, <1>16, <1>17, <1>18, <1>19 DEF Both, Covers
  <1>21. Covers(w10, q2)
    BY <1>11, <1>12, <1>13, <1>14, <1>15, <1>16, <1>17, <1>18, <1>19 DEF Both, Covers
  <1>22. Covers(w10, q3)
    BY <1>12, <1>13, <1>14, <1>15, <1>16, <1>17, <1>18, <1>19 DEF Both, Covers
  <1>23. Covers(w10, q4)
    BY <1>13, <1>14, <1>15, <1>16, <1>17, <1>18, <1>19 DEF Both, Covers
  <1>24. Covers(w10, q5)
    BY <1>14, <1>15, <1>16, <1>17, <1>18, <1>19 DEF Both, Covers
  <1>25. Covers(w10, q6)
    BY <1>15, <1>16, <1>17, <1>18, <1>19 DEF Both, Covers
  <1>26. Covers(w10, q7)
    BY <1>16, <1>17, <1>18, <1>19 DEF Both, Covers
  <1>27. Covers(w10, q8)
    BY <1>17, <1>18, <1>19 DEF Both, Covers
  <1>28. Covers(w10, q9)
    BY <1>18, <1>19 DEF Both, Covers
  <1>29. Covers(w10, q10)
    BY <1>19 DEF Both, Covers
  <1>30. /\ \A i \in 1 .. Streams : Covers(w10, AX_join_worker(i))
         /\ Covers(w10, AX_close_exposure)
         /\ \A i \in 1 .. Streams : Covers(w10, AX_close_encoder(i))
         /\ Covers(w10, AX_close_stream)
         /\ Covers(w10, AX_close_dev)
         /\ Covers(w10, AX_close_run)
         /\ Covers(w10, AX_join_isp)
         /\ Covers(w10, AX_close_isp)
         /\ Covers(w10, AX_close_pipe)
         /\ Covers(w10, AX_close_rest)
    BY <1>20, <1>21, <1>22, <1>23, <1>24, <1>25, <1>26, <1>27, <1>28, <1>29, <1>1, <1>3 DEF Covers, q2, q4, q5, q6, q7, q8, q9, q10
  <1> QED
    BY <1>0, <1>19, <1>30

LEMMA AX_back ==
    /\ GivesBack("ax", R("vin")) /\ GivesBack("ax", R("mipi"))
    /\ GivesBack("ax", R("pool")) /\ GivesBack("ax", R("vin_pipe"))
    /\ GivesBack("ax", R("sensor")) /\ GivesBack("ax", R("clock"))
    /\ GivesBack("ax", R("isp")) /\ GivesBack("ax", R("ae_sensor"))
    /\ GivesBack("ax", R("ae")) /\ GivesBack("ax", R("awb"))
    /\ GivesBack("ax", R("raw_pool")) /\ GivesBack("ax", R("vin_run"))
    /\ GivesBack("ax", R("dev")) /\ GivesBack("ax", R("stream"))
    /\ GivesBack("ax", R("isp_thread")) /\ GivesBack("ax", R("exposure"))
    /\ \A i \in 1 .. Streams : GivesBack("ax", <<"chn", i>>)
    /\ \A i \in 1 .. Streams : GivesBack("ax", <<"recv", i>>)
    /\ \A i \in 1 .. Streams : GivesBack("ax", <<"encode", i>>)
PROOF
  <1> DEFINE w == AX_cleanup
  <1>1. ASSUME NEW i \in 1 .. Streams
        PROVE  /\ Has(w, Undo("join", <<"encode", i>>, <<"encode", i>>))
    BY AX_join_worker_ok, AX_close_ok DEF Covers
  <1>2. /\ Has(w, Undo("join", R("exposure"), R("exposure")))
    BY AX_close_exposure_ok, AX_close_ok DEF Covers
  <1>3. ASSUME NEW i \in 1 .. Streams
        PROVE  /\ Has(w, Undo("free", <<"recv", i>>, <<"recv", i>>))
               /\ Has(w, Undo("free", <<"chn", i>>, <<"chn", i>>))
    BY AX_close_encoder_ok, AX_close_ok DEF Covers
  <1>4. /\ Has(w, Undo("free", R("stream"), R("stream_on")))
    BY AX_close_stream_ok, AX_close_ok DEF Covers
  <1>5. /\ Has(w, Undo("free", R("dev"), R("dev_enabled")))
    BY AX_close_dev_ok, AX_close_ok DEF Covers
  <1>6. /\ Has(w, Undo("free", R("vin_run"), R("vin_started")))
    BY AX_close_run_ok, AX_close_ok DEF Covers
  <1>7. /\ Has(w, Undo("join", R("isp_thread"), R("isp_thread")))
    BY AX_join_isp_ok, AX_close_ok DEF Covers
  <1>8. /\ Has(w, Undo("free", R("ae"), R("isp_open")))
        /\ Has(w, Undo("free", R("awb"), R("isp_open")))
        /\ Has(w, Undo("free", R("ae_sensor"), R("isp_open")))
        /\ Has(w, Undo("free", R("isp"), R("isp_open")))
    BY AX_close_isp_ok, AX_close_ok DEF Covers
  <1>9. /\ Has(w, Undo("free", R("sensor"), R("created")))
        /\ Has(w, Undo("free", R("clock"), R("created")))
        /\ Has(w, Undo("free", R("vin_pipe"), R("created")))
    BY AX_close_pipe_ok, AX_close_ok DEF Covers
  <1>10. /\ Has(w, Undo("free", R("vin"), always))
         /\ Has(w, Undo("free", R("mipi"), always))
         /\ Has(w, Undo("free", R("raw_pool"), always))
         /\ Has(w, Undo("free", R("pool"), always))
    BY AX_close_rest_ok, AX_close_ok DEF Covers
  <1>11. CloseSteps("ax") = w
    BY DEF CloseSteps
  <1> HIDE DEF w
  <1> QED
    BY <1>1, <1>2, <1>3, <1>4, <1>5, <1>6, <1>7, <1>8, <1>9, <1>10, <1>11, AX_notes DEF GivesBack

\* The parts of the opening that have no name of their own.
AX_sensor ==
    <<Got(R("sys")), MustCall, Got(R("vin")), Got(R("mipi")), Got(R("npu")), MustCall, Got(R("pool")), MustCall, MustCall,
      Get(R("vin_pipe"), R("created")), MustCall, Got(R("sensor")), MustCall, Got(R("clock"))>>
AX_isp ==
    <<Get(R("isp"), R("isp_open")), Got(R("ae_sensor")), Got(R("ae")), Got(R("awb")),
      Got(R("raw_pool")), MustCall, Get(R("vin_run"), R("vin_started")), Get(R("dev"), R("dev_enabled")),
      Get(R("stream"), R("stream_on")), MustCall, Spawn(R("isp_thread"))>>
AX_venc == <<Got(R("venc"))>>
AX_encoder(i) == <<Own(<<"chn", i>>), Own(<<"recv", i>>)>>
AX_exposure == <<StepOf("mayspawn", {R("exposure")}, {R("exposure")})>>
AX_worker(i) == <<StepOf("worker", {<<"encode", i>>}, {<<"encode", i>>})>>
AX_open == AX_claim \o AX_front_end \o AX_encoders \o AX_workers

LEMMA AX_claim_ok ==
    /\ Begins("ax", AX_claim, {}, {})
    /\ Gives(AX_claim, R("output")) /\ Gives(AX_claim, R("libs"))
PROOF
  <1> DEFINE p == AX_claim
  <1>1. /\ Len(p) = 5
        /\ StepIs(p[1], "exit", {R("output")}, {})
        /\ StepIs(p[2], "exit", {}, {})
        /\ StepIs(p[3], "exit", {R("lock")}, {})
        /\ StepIs(p[4], "exit", {}, {})
        /\ StepIs(p[5], "exit", {R("libs")}, {})
    BY DEF AX_claim, Get, Own, Got, Opt, Spawn, MustCall, Early, StepIs, StepOf
  <1>2. p \in Seq({p[j] : j \in 1 .. 5})
    BY DEF AX_claim
  <1> HIDE DEF p
  <1>3. \A j \in 1 .. Len(p) : j \in {1, 2, 3, 4, 5}
    BY <1>1
  <1>4. \A j \in 1 .. Len(p) : p[j].kind \in {"exit"}
    BY <1>1, <1>3 DEF StepIs
  <1>5. \A j \in 1 .. Len(p) : \A r \in p[j].res :
          \/ j = 1 /\ r = R("output")
          \/ j = 3 /\ r = R("lock")
          \/ j = 5 /\ r = R("libs")
    BY <1>1, <1>3 DEF StepIs
  <1>6. Stands("ax", p, {})
    BY <1>1, <1>5, AX_uses DEF Stands, Must, StepIs
  <1>7. Returned("ax", p, {}) /\ Spawns(p)
    <2>1. Returned("ax", p, {})
      BY <1>1, <1>5, AX_left, AX_back, AX_notes DEF Returned, Must, StepIs
    <2>2. Spawns(p)
      BY <1>1, <1>3, AX_threads DEF Spawns, Starts, StepIs
    <2> QED
      BY <2>1, <2>2
  <1>8. Begins("ax", p, {}, {})
    <2>1. \A j \in 1 .. Len(p) : p[j].kind = "exit" =>
             \A k \in 1 .. j - 1 : p[k].res \subseteq Leftover("ax")
      BY <1>1, <1>3, AX_left DEF StepIs
    <2> QED
      BY <1>2, <1>6, <1>7, <2>1 DEF Begins, IsSeq, Fits, Stands, Returned, Spawns
  <1>9. /\ Gives(p, R("output")) /\ Gives(p, R("libs"))
    BY <1>1 DEF Gives, Notes, Must, StepIs
  <1> QED
    BY <1>1, <1>8, <1>9 DEF p

LEMMA AX_sensor_ok ==
    /\ Stage("ax", AX_sensor, {R("libs")}, {})
    /\ Gives(AX_sensor, R("vin_pipe"))
PROOF
  <1> DEFINE p == AX_sensor
  <1>1. /\ Len(p) = 14
        /\ StepIs(p[1], "must", {R("sys")}, {})
        /\ StepIs(p[2], "must", {}, {})
        /\ StepIs(p[3], "must", {R("vin")}, {})
        /\ StepIs(p[4], "must", {R("mipi")}, {})
        /\ StepIs(p[5], "must", {R("npu")}, {})
        /\ StepIs(p[6], "must", {}, {})
        /\ StepIs(p[7], "must", {R("pool")}, {})
        /\ StepIs(p[8], "must", {}, {})
        /\ StepIs(p[9], "must", {}, {})
        /\ StepIs(p[10], "must", {R("vin_pipe")}, {R("created")})
        /\ StepIs(p[11], "must", {}, {})
        /\ StepIs(p[12], "must", {R("sensor")}, {})
        /\ StepIs(p[13], "must", {}, {})
        /\ StepIs(p[14], "must", {R("clock")}, {})
    BY DEF AX_sensor, Get, Own, Got, Opt, Spawn, MustCall, Early, StepIs, StepOf
  <1>2. p \in Seq({p[j] : j \in 1 .. 14})
    BY DEF AX_sensor
  <1> HIDE DEF p
  <1>3. \A j \in 1 .. Len(p) : j \in {1, 2, 3, 4, 5, 6, 7, 8, 9, 10, 11, 12, 13, 14}
    BY <1>1
  <1>4. \A j \in 1 .. Len(p) : p[j].kind \in {"must"}
    BY <1>1, <1>3 DEF StepIs
  <1>5. \A j \in 1 .. Len(p) : \A r \in p[j].res :
          \/ j = 1 /\ r = R("sys")
          \/ j = 3 /\ r = R("vin")
          \/ j = 4 /\ r = R("mipi")
          \/ j = 5 /\ r = R("npu")
          \/ j = 7 /\ r = R("pool")
          \/ j = 10 /\ r = R("vin_pipe")
          \/ j = 12 /\ r = R("sensor")
          \/ j = 14 /\ r = R("clock")
    BY <1>1, <1>3 DEF StepIs
  <1>6. Stands("ax", p, {R("libs")})
    BY <1>1, <1>5, AX_uses DEF Stands, Must, StepIs
  <1>7. Returned("ax", p, {}) /\ Spawns(p)
    <2>1. Returned("ax", p, {})
      BY <1>1, <1>5, AX_left, AX_back, AX_notes DEF Returned, Must, StepIs
    <2>2. Spawns(p)
      BY <1>1, <1>3, AX_threads DEF Spawns, Starts, StepIs
    <2> QED
      BY <2>1, <2>2
  <1>8. Stage("ax", p, {R("libs")}, {})
    BY <1>2, <1>4, <1>6, <1>7, LitStage DEF Unbroken
  <1>9. /\ Gives(p, R("vin_pipe"))
    BY <1>1 DEF Gives, Notes, Must, StepIs
  <1> QED
    BY <1>1, <1>8, <1>9 DEF p

LEMMA AX_isp_ok ==
    /\ Stage("ax", AX_isp, {R("vin_pipe")}, {})
PROOF
  <1> DEFINE p == AX_isp
  <1>1. /\ Len(p) = 11
        /\ StepIs(p[1], "must", {R("isp")}, {R("isp_open")})
        /\ StepIs(p[2], "must", {R("ae_sensor")}, {})
        /\ StepIs(p[3], "must", {R("ae")}, {})
        /\ StepIs(p[4], "must", {R("awb")}, {})
        /\ StepIs(p[5], "must", {R("raw_pool")}, {})
        /\ StepIs(p[6], "must", {}, {})
        /\ StepIs(p[7], "must", {R("vin_run")}, {R("vin_started")})
        /\ StepIs(p[8], "must", {R("dev")}, {R("dev_enabled")})
        /\ StepIs(p[9], "must", {R("stream")}, {R("stream_on")})
        /\ StepIs(p[10], "must", {}, {})
        /\ StepIs(p[11], "spawn", {R("isp_thread")}, {R("isp_thread")})
    BY DEF AX_isp, Get, Own, Got, Opt, Spawn, MustCall, Early, StepIs, StepOf
  <1>2. p \in Seq({p[j] : j \in 1 .. 11})
    BY DEF AX_isp
  <1> HIDE DEF p
  <1>3. \A j \in 1 .. Len(p) : j \in {1, 2, 3, 4, 5, 6, 7, 8, 9, 10, 11}
    BY <1>1
  <1>4. \A j \in 1 .. Len(p) : p[j].kind \in {"must", "spawn"}
    BY <1>1, <1>3 DEF StepIs
  <1>5. \A j \in 1 .. Len(p) : \A r \in p[j].res :
          \/ j = 1 /\ r = R("isp")
          \/ j = 2 /\ r = R("ae_sensor")
          \/ j = 3 /\ r = R("ae")
          \/ j = 4 /\ r = R("awb")
          \/ j = 5 /\ r = R("raw_pool")
          \/ j = 7 /\ r = R("vin_run")
          \/ j = 8 /\ r = R("dev")
          \/ j = 9 /\ r = R("stream")
          \/ j = 11 /\ r = R("isp_thread")
    BY <1>1, <1>3 DEF StepIs
  <1>6. Stands("ax", p, {R("vin_pipe")})
    BY <1>1, <1>5, AX_uses DEF Stands, Must, StepIs
  <1>7. Returned("ax", p, {}) /\ Spawns(p)
    <2>1. Returned("ax", p, {})
      BY <1>1, <1>5, AX_left, AX_back, AX_notes DEF Returned, Must, StepIs
    <2>2. Spawns(p)
      BY <1>1, <1>3, AX_threads DEF Spawns, Starts, StepIs
    <2> QED
      BY <2>1, <2>2
  <1>8. Stage("ax", p, {R("vin_pipe")}, {})
    BY <1>2, <1>4, <1>6, <1>7, LitStage DEF Unbroken
  <1> QED
    BY <1>1, <1>8 DEF p

LEMMA AX_venc_ok ==
    /\ Stage("ax", AX_venc, {}, {})
PROOF
  <1> DEFINE p == AX_venc
  <1>1. /\ Len(p) = 1
        /\ StepIs(p[1], "must", {R("venc")}, {})
    BY DEF AX_venc, Get, Own, Got, Opt, Spawn, MustCall, Early, StepIs, StepOf
  <1>2. p \in Seq({p[j] : j \in 1 .. 1})
    BY DEF AX_venc
  <1> HIDE DEF p
  <1>3. \A j \in 1 .. Len(p) : j \in {1}
    BY <1>1
  <1>4. \A j \in 1 .. Len(p) : p[j].kind \in {"must"}
    BY <1>1, <1>3 DEF StepIs
  <1>5. \A j \in 1 .. Len(p) : \A r \in p[j].res :
          \/ j = 1 /\ r = R("venc")
    BY <1>1, <1>3 DEF StepIs
  <1>6. Stands("ax", p, {})
    BY <1>1, <1>5, AX_uses DEF Stands, Must, StepIs
  <1>7. Returned("ax", p, {}) /\ Spawns(p)
    <2>1. Returned("ax", p, {})
      BY <1>1, <1>5, AX_left, AX_back, AX_notes DEF Returned, Must, StepIs
    <2>2. Spawns(p)
      BY <1>1, <1>3, AX_threads DEF Spawns, Starts, StepIs
    <2> QED
      BY <2>1, <2>2
  <1>8. Stage("ax", p, {}, {})
    BY <1>2, <1>4, <1>6, <1>7, LitStage DEF Unbroken
  <1> QED
    BY <1>1, <1>8 DEF p

LEMMA AX_encoder_ok ==
    ASSUME NEW i \in 1 .. Streams
    PROVE  /\ Stage("ax", AX_encoder(i), {}, {})
           /\ Len(AX_encoder(i)) = 2
           /\ Gives(AX_encoder(i), <<"recv", i>>)
PROOF
  <1> DEFINE p == AX_encoder(i)
  <1>1. /\ Len(p) = 2
        /\ StepIs(p[1], "must", {<<"chn", i>>}, {<<"chn", i>>})
        /\ StepIs(p[2], "must", {<<"recv", i>>}, {<<"recv", i>>})
    BY DEF AX_encoder, Get, Own, Got, Opt, Spawn, MustCall, Early, StepIs, StepOf
  <1>2. p \in Seq({p[j] : j \in 1 .. 2})
    BY DEF AX_encoder
  <1> HIDE DEF p
  <1>3. \A j \in 1 .. Len(p) : j \in {1, 2}
    BY <1>1
  <1>4. \A j \in 1 .. Len(p) : p[j].kind \in {"must"}
    BY <1>1, <1>3 DEF StepIs
  <1>5. \A j \in 1 .. Len(p) : \A r \in p[j].res :
          \/ j = 1 /\ r = <<"chn", i>>
          \/ j = 2 /\ r = <<"recv", i>>
    BY <1>1, <1>3 DEF StepIs
  <1>6. Stands("ax", p, {})
    BY <1>1, <1>5, AX_uses DEF Stands, Must, StepIs
  <1>7. Returned("ax", p, {}) /\ Spawns(p)
    <2>1. Returned("ax", p, {})
      BY <1>1, <1>5, AX_left, AX_back, AX_notes DEF Returned, Must, StepIs
    <2>2. Spawns(p)
      BY <1>1, <1>3, AX_threads DEF Spawns, Starts, StepIs
    <2> QED
      BY <2>1, <2>2
  <1>8. Stage("ax", p, {}, {})
    BY <1>2, <1>4, <1>6, <1>7, LitStage DEF Unbroken
  <1>9. /\ Gives(p, <<"recv", i>>)
    BY <1>1 DEF Gives, Notes, Must, StepIs
  <1> QED
    BY <1>1, <1>8, <1>9 DEF p

LEMMA AX_exposure_ok ==
    /\ Stage("ax", AX_exposure, Each("recv") \cup {R("output")}, {})
PROOF
  <1> DEFINE p == AX_exposure
  <1>1. /\ Len(p) = 1
        /\ StepIs(p[1], "mayspawn", {R("exposure")}, {R("exposure")})
    BY DEF AX_exposure, Get, Own, Got, Opt, Spawn, MustCall, Early, StepIs, StepOf
  <1>2. p \in Seq({p[j] : j \in 1 .. 1})
    BY DEF AX_exposure
  <1> HIDE DEF p
  <1>3. \A j \in 1 .. Len(p) : j \in {1}
    BY <1>1
  <1>4. \A j \in 1 .. Len(p) : p[j].kind \in {"mayspawn"}
    BY <1>1, <1>3 DEF StepIs
  <1>5. \A j \in 1 .. Len(p) : \A r \in p[j].res :
          \/ j = 1 /\ r = R("exposure")
    BY <1>1, <1>3 DEF StepIs
  <1>6. Stands("ax", p, Each("recv") \cup {R("output")})
    BY <1>1, <1>5, AX_uses DEF Stands, Must, StepIs, Each
  <1>7. Returned("ax", p, {}) /\ Spawns(p)
    <2>1. Returned("ax", p, {})
      BY <1>1, <1>5, AX_left, AX_back, AX_notes DEF Returned, Must, StepIs
    <2>2. Spawns(p)
      BY <1>1, <1>3, AX_threads DEF Spawns, Starts, StepIs
    <2> QED
      BY <2>1, <2>2
  <1>8. Stage("ax", p, Each("recv") \cup {R("output")}, {})
    BY <1>2, <1>4, <1>6, <1>7, LitStage DEF Unbroken
  <1> QED
    BY <1>1, <1>8 DEF p

LEMMA AX_worker_ok ==
    ASSUME NEW i \in 1 .. Streams
    PROVE  /\ Stage("ax", AX_worker(i), Each("recv") \cup {R("output")}, {})
           /\ Len(AX_worker(i)) = 1
PROOF
  <1> DEFINE p == AX_worker(i)
  <1>1. /\ Len(p) = 1
        /\ StepIs(p[1], "worker", {<<"encode", i>>}, {<<"encode", i>>})
    BY DEF AX_worker, Get, Own, Got, Opt, Spawn, MustCall, Early, StepIs, StepOf
  <1>2. p \in Seq({p[j] : j \in 1 .. 1})
    BY DEF AX_worker
  <1> HIDE DEF p
  <1>3. \A j \in 1 .. Len(p) : j \in {1}
    BY <1>1
  <1>4. \A j \in 1 .. Len(p) : p[j].kind \in {"worker"}
    BY <1>1, <1>3 DEF StepIs
  <1>5. \A j \in 1 .. Len(p) : \A r \in p[j].res :
          \/ j = 1 /\ r = <<"encode", i>>
    BY <1>1, <1>3 DEF StepIs
  <1>6. Stands("ax", p, Each("recv") \cup {R("output")})
    BY <1>1, <1>5, AX_uses DEF Stands, Must, StepIs, Each
  <1>7. Returned("ax", p, {}) /\ Spawns(p)
    <2>1. Returned("ax", p, {})
      BY <1>1, <1>5, AX_left, AX_back, AX_notes DEF Returned, Must, StepIs
    <2>2. Spawns(p)
      BY <1>1, <1>3, AX_threads DEF Spawns, Starts, StepIs
    <2> QED
      BY <2>1, <2>2
  <1>8. Stage("ax", p, Each("recv") \cup {R("output")}, {})
    BY <1>2, <1>4, <1>6, <1>7, LitStage DEF Unbroken
  <1> QED
    BY <1>1, <1>8 DEF p

LEMMA AX_front_end_ok ==
    /\ Stage("ax", AX_front_end, {R("libs")}, {})
PROOF
  <1> DEFINE
      q1 == AX_sensor
      q2 == Tries(6)
      q3 == AX_isp
      w2 == q1 \o q2
      w3 == w2 \o q3
  <1>0. AX_front_end = w3
    BY DEF AX_front_end, AX_sensor, AX_isp
  <1>1. /\ Stage("ax", q1, {R("libs")}, {}) /\ Gives(q1, R("vin_pipe"))
    BY AX_sensor_ok
  <1>2. Stage("ax", q2, {}, {})
    BY TriesFit
  <1>3. Stage("ax", q3, {R("vin_pipe")}, {})
    BY AX_isp_ok
  <1> HIDE DEF q1, q2, q3
  <1>4. /\ Stage("ax", w2, {R("libs")}, {}) /\ Gives(w2, R("vin_pipe"))
    <2>1. Follows(w2, q1, q2)
      BY DEF Follows
    <2> HIDE DEF w2
    <2>2. Supplied(q1, {R("libs")}, {}) /\ Marked(q1, {}, {})
      BY <1>1 DEF Supplied, Marked
    <2>3. Stage("ax", w2, {R("libs")}, {}) /\ GivenBy(w2, q1, q2)
      BY <2>1, <2>2, <1>1, <1>2, StageJoin
    <2> QED
      BY <2>3, <1>1, <1>2 DEF GivenBy
  <1> HIDE DEF w2
  <1>5. Stage("ax", w3, {R("libs")}, {})
    <2>1. Follows(w3, w2, q3)
      BY DEF Follows
    <2> HIDE DEF w3
    <2>2. Supplied(w2, {R("libs")}, {R("vin_pipe")}) /\ Marked(w2, {}, {})
      BY <1>4 DEF Supplied, Marked
    <2>3. Stage("ax", w3, {R("libs")}, {}) /\ GivenBy(w3, w2, q3)
      BY <2>1, <2>2, <1>4, <1>3, StageJoin
    <2> QED
      BY <2>3, <1>4, <1>3 DEF GivenBy
  <1> HIDE DEF w3
  <1> QED
    BY <1>0, <1>5

LEMMA AX_encoders_ok ==
    /\ Stage("ax", AX_encoders, {}, {})
    /\ \A i \in 1 .. Streams : Gives(AX_encoders, <<"recv", i>>)
PROOF
  <1> DEFINE
      q1 == AX_venc
      q2 == FlattenSeq([i \in 1 .. Streams |-> AX_encoder(i)])
      w2 == q1 \o q2
  <1>0. AX_encoders = w2
    BY DEF AX_encoders, AX_venc, AX_encoder, ForAll
  <1>1. Stage("ax", q1, {}, {})
    BY AX_venc_ok
  <1>2. /\ Stage("ax", q2, {}, {})
        /\ \A i \in 1 .. Streams : Gives(q2, <<"recv", i>>)
    <2> DEFINE s == [i \in 1 .. Streams |-> AX_encoder(i)]
    <2>1. Len(s) = Streams /\ \A i \in 1 .. Streams : s[i] = AX_encoder(i)
      BY BringUpAssumption
    <2> HIDE DEF s
    <2>2. \A i \in 1 .. Streams : Stage("ax", s[i], {}, {}) /\ Len(s[i]) = 2
      BY <2>1, AX_encoder_ok
    <2>3. /\ Stage("ax", FlattenSeq(s), {}, {})
          /\ \A i \in 1 .. Streams : \A x : Gives(s[i], x) => Gives(FlattenSeq(s), x)
      BY <2>1, <2>2, StreamsFit, BringUpAssumption
    <2> QED
      BY <2>1, <2>3, AX_encoder_ok DEF s
  <1> HIDE DEF q1, q2
  <1>3. /\ Stage("ax", w2, {}, {})
        /\ \A i \in 1 .. Streams : Gives(w2, <<"recv", i>>)
    <2>1. Follows(w2, q1, q2)
      BY DEF Follows
    <2> HIDE DEF w2
    <2>2. Supplied(q1, {}, {}) /\ Marked(q1, {}, {})
      BY <1>1 DEF Supplied, Marked
    <2>3. Stage("ax", w2, {}, {}) /\ GivenBy(w2, q1, q2)
      BY <2>1, <2>2, <1>1, <1>2, StageJoin
    <2> QED
      BY <2>3, <1>1, <1>2 DEF GivenBy
  <1> HIDE DEF w2
  <1> QED
    BY <1>0, <1>3

LEMMA AX_workers_ok ==
    /\ Stage("ax", AX_workers, Each("recv") \cup {R("output")}, {})
PROOF
  <1> DEFINE
      q1 == AX_exposure
      q2 == FlattenSeq([i \in 1 .. Streams |-> AX_worker(i)])
      w2 == q1 \o q2
  <1>0. AX_workers = w2
    BY DEF AX_workers, AX_exposure, AX_worker, ForAll
  <1>1. Stage("ax", q1, Each("recv") \cup {R("output")}, {})
    BY AX_exposure_ok
  <1>2. Stage("ax", q2, Each("recv") \cup {R("output")}, {})
    <2> DEFINE s == [i \in 1 .. Streams |-> AX_worker(i)]
    <2>1. Len(s) = Streams /\ \A i \in 1 .. Streams : s[i] = AX_worker(i)
      BY BringUpAssumption
    <2> HIDE DEF s
    <2>2. \A i \in 1 .. Streams : Stage("ax", s[i], Each("recv") \cup {R("output")}, {}) /\ Len(s[i]) = 1
      BY <2>1, AX_worker_ok
    <2>3. /\ Stage("ax", FlattenSeq(s), Each("recv") \cup {R("output")}, {})
          /\ \A i \in 1 .. Streams : \A x : Gives(s[i], x) => Gives(FlattenSeq(s), x)
      BY <2>1, <2>2, StreamsFit, BringUpAssumption
    <2> QED
      BY <2>1, <2>3 DEF s
  <1> HIDE DEF q1, q2
  <1>3. Stage("ax", w2, Each("recv") \cup {R("output")}, {})
    <2>1. Follows(w2, q1, q2)
      BY DEF Follows
    <2> HIDE DEF w2
    <2>2. Supplied(q1, Each("recv") \cup {R("output")}, Each("recv") \cup {R("output")}) /\ Marked(q1, {}, {})
      BY <1>1 DEF Supplied, Marked
    <2>3. Stage("ax", w2, Each("recv") \cup {R("output")}, {}) /\ GivenBy(w2, q1, q2)
      BY <2>1, <2>2, <1>1, <1>2, StageJoin
    <2> QED
      BY <2>3, <1>1, <1>2 DEF GivenBy
  <1> HIDE DEF w2
  <1> QED
    BY <1>0, <1>3

LEMMA AX_open_ok ==
    /\ Begins("ax", AX_open, {}, {})
PROOF
  <1> DEFINE
      q1 == AX_claim
      q2 == AX_front_end
      q3 == AX_encoders
      q4 == AX_workers
      w2 == q1 \o q2
      w3 == w2 \o q3
      w4 == w3 \o q4
  <1>0. AX_open = w4
    BY DEF AX_open
  <1>1. /\ Begins("ax", q1, {}, {}) /\ Gives(q1, R("output")) /\ Gives(q1, R("libs"))
    BY AX_claim_ok
  <1>2. Stage("ax", q2, {R("libs")}, {})
    BY AX_front_end_ok
  <1>3. /\ Stage("ax", q3, {}, {})
        /\ \A i \in 1 .. Streams : Gives(q3, <<"recv", i>>)
    BY AX_encoders_ok
  <1>4. Stage("ax", q4, Each("recv") \cup {R("output")}, {})
    BY AX_workers_ok
  <1> HIDE DEF q1, q2, q3, q4
  <1>5. /\ Begins("ax", w2, {}, {}) /\ Gives(w2, R("output"))
    <2>1. Follows(w2, q1, q2)
      BY DEF Follows
    <2> HIDE DEF w2
    <2>2. Supplied(q1, {}, {R("libs")}) /\ Marked(q1, {}, {})
      BY <1>1 DEF Supplied, Marked
    <2>3. Begins("ax", w2, {}, {}) /\ GivenBy(w2, q1, q2)
      BY <2>1, <2>2, <1>1, <1>2, BeginJoin
    <2> QED
      BY <2>3, <1>1, <1>2 DEF GivenBy
  <1> HIDE DEF w2
  <1>6. /\ Begins("ax", w3, {}, {}) /\ Gives(w3, R("output"))
        /\ \A i \in 1 .. Streams : Gives(w3, <<"recv", i>>)
    <2>1. Follows(w3, w2, q3)
      BY DEF Follows
    <2> HIDE DEF w3
    <2>2. Supplied(w2, {}, {}) /\ Marked(w2, {}, {})
      BY <1>5 DEF Supplied, Marked
    <2>3. Begins("ax", w3, {}, {}) /\ GivenBy(w3, w2, q3)
      BY <2>1, <2>2, <1>5, <1>3, BeginJoin
    <2> QED
      BY <2>3, <1>5, <1>3 DEF GivenBy
  <1> HIDE DEF w3
  <1>7. Begins("ax", w4, {}, {})
    <2>1. Follows(w4, w3, q4)
      BY DEF Follows
    <2> HIDE DEF w4
    <2>2. Supplied(w3, {}, Each("recv") \cup {R("output")}) /\ Marked(w3, {}, {})
      BY <1>6 DEF Supplied, Marked, Each
    <2>3. Begins("ax", w4, {}, {}) /\ GivenBy(w4, w3, q4)
      BY <2>1, <2>2, <1>6, <1>4, BeginJoin
    <2> QED
      BY <2>3, <1>6, <1>4 DEF GivenBy
  <1> HIDE DEF w4
  <1> QED
    BY <1>0, <1>7

LEMMA AX_ranked == Ranked("ax")
  BY AX_pairs, AX_turns, AX_unleft, BringUpAssumption DEF Ranked

LEMMA AX_sound == Sound("ax")
PROOF
  <1>1. OpenSteps("ax") = AX_open /\ CloseSteps("ax") = AX_cleanup
    BY DEF OpenSteps, CloseSteps, AX_open
  <1>2. IsSeq(AX_open) /\ Fits("ax", AX_open, {}, {})
    BY AX_open_ok DEF Begins
  <1>3. IsSeq(AX_cleanup) /\ Placed("ax", AX_cleanup, 0)
    BY AX_close_ok DEF Undoing
  <1> QED
    BY <1>1, <1>2, <1>3, AX_ranked, AX_left DEF Sound

-----------------------------------------------------------------------------
\* The application's own.

\* What stands on what (StandsOn), pair by pair.
LEMMA App_pairs ==
    ASSUME NEW x \in StandsOn("app")
    PROVE  \/ x = <<R("ready"), R("mavlink")>>
           \/ x = <<R("mavlink"), R("backend")>>
           \/ x = <<R("backend"), R("media")>>
           \/ x = <<R("backend"), R("vendor_server")>>
           \/ x = <<R("manual"), R("mavlink")>>
           \/ x = <<R("recording"), R("media")>>
  BY DEF StandsOn

LEMMA App_uses ==
    /\ \A q : ~Uses("app", R("vendor_server"), q)
    /\ \A q : ~Uses("app", R("binlog"), q)
    /\ \A q : ~Uses("app", R("network"), q)
    /\ \A q : ~Uses("app", R("media"), q)
    /\ \A q : Uses("app", R("backend"), q) => q = R("media") \/ q = R("vendor_server")
    /\ \A q : Uses("app", R("mavlink"), q) => q = R("backend")
    /\ \A q : Uses("app", R("manual"), q) => q = R("mavlink")
    /\ \A q : Uses("app", R("recording"), q) => q = R("media")
    /\ \A q : Uses("app", R("ready"), q) => q = R("mavlink")
  BY App_pairs DEF Uses, R

LEMMA App_turns ==
    /\ Turn("app", R("ready")) = 1 /\ Turn("app", R("manual")) = 2
    /\ Turn("app", R("mavlink")) = 3 /\ Turn("app", R("backend")) = 4
    /\ Turn("app", R("recording")) = 5 /\ Turn("app", R("media")) = 6
    /\ Turn("app", R("binlog")) = 7 /\ Turn("app", R("vendor_server")) = 8
  BY DEF Turn, Turn_app, R

LEMMA App_notes ==
    /\ NoteOf("app", R("ready")) = always /\ NoteOf("app", R("manual")) = R("manual")
    /\ NoteOf("app", R("mavlink")) = R("mavlink")
    /\ NoteOf("app", R("backend")) = R("backend")
    /\ NoteOf("app", R("recording")) = R("recording")
    /\ NoteOf("app", R("media")) = R("media") /\ NoteOf("app", R("binlog")) = R("binlog")
    /\ NoteOf("app", R("vendor_server")) = R("vendor_server")
  BY DEF NoteOf, R, always

LEMMA App_threads ==
    /\ R("vendor_server") \notin ThreadNames /\ R("binlog") \notin ThreadNames
    /\ R("network") \notin ThreadNames /\ R("media") \notin ThreadNames
    /\ R("backend") \notin ThreadNames /\ R("mavlink") \notin ThreadNames
    /\ R("manual") \notin ThreadNames /\ R("recording") \notin ThreadNames
    /\ R("ready") \notin ThreadNames
  BY DEF ThreadNames, Workers, R

LEMMA App_unleft ==
    /\ R("vendor_server") \notin Leftover("app") /\ R("binlog") \notin Leftover("app")
    /\ R("media") \notin Leftover("app") /\ R("backend") \notin Leftover("app")
    /\ R("mavlink") \notin Leftover("app") /\ R("manual") \notin Leftover("app")
    /\ R("recording") \notin Leftover("app") /\ R("ready") \notin Leftover("app")
  BY DEF Leftover, R

LEMMA App_left ==
    /\ R("network") \in Leftover("app") /\ ThreadNames \cap Leftover("app") = {}
  BY DEF ThreadNames, Workers, Leftover, R

LEMMA App_close_ok ==
    /\ Undoing("app", App_close, 0, 8)
    /\ Has(App_close, Undo("free", R("ready"), always))
    /\ Has(App_close, Undo("free", R("manual"), R("manual")))
    /\ Has(App_close, Undo("free", R("mavlink"), R("mavlink")))
    /\ Has(App_close, Undo("free", R("backend"), R("backend")))
    /\ Has(App_close, Undo("free", R("recording"), R("recording")))
    /\ Has(App_close, Undo("free", R("media"), R("media")))
    /\ Has(App_close, Undo("free", R("binlog"), R("binlog")))
    /\ Has(App_close, Undo("free", R("vendor_server"), R("vendor_server")))
PROOF
  <1> DEFINE p == App_close
  <1>1. /\ Len(p) = 8
        /\ p[1] = Undo("free", R("ready"), always)
        /\ p[2] = Undo("free", R("manual"), R("manual"))
        /\ p[3] = Undo("free", R("mavlink"), R("mavlink"))
        /\ p[4] = Undo("free", R("backend"), R("backend"))
        /\ p[5] = Undo("free", R("recording"), R("recording"))
        /\ p[6] = Undo("free", R("media"), R("media"))
        /\ p[7] = Undo("free", R("binlog"), R("binlog"))
        /\ p[8] = Undo("free", R("vendor_server"), R("vendor_server"))
    BY DEF App_close, Drop, Free
  <1>2. p \in Seq({p[j] : j \in 1 .. 8})
    BY DEF App_close
  <1> HIDE DEF p
  <1>3. \A j \in 1 .. Len(p) : j \in {1, 2, 3, 4, 5, 6, 7, 8}
    BY <1>1
  <1>4. Placed("app", p, 0)
    BY <1>1, <1>3, UndoIs, App_turns, App_threads, BringUpAssumption DEF Placed
  <1>5. /\ Has(p, Undo("free", R("ready"), always))
        /\ Has(p, Undo("free", R("manual"), R("manual")))
        /\ Has(p, Undo("free", R("mavlink"), R("mavlink")))
        /\ Has(p, Undo("free", R("backend"), R("backend")))
        /\ Has(p, Undo("free", R("recording"), R("recording")))
        /\ Has(p, Undo("free", R("media"), R("media")))
        /\ Has(p, Undo("free", R("binlog"), R("binlog")))
        /\ Has(p, Undo("free", R("vendor_server"), R("vendor_server")))
    BY <1>1 DEF Has
  <1>6. Undoing("app", p, 0, 8)
    BY <1>1, <1>2, <1>4, BringUpAssumption DEF Undoing, IsSeq
  <1> QED
    BY <1>5, <1>6 DEF p

LEMMA App_back ==
    /\ GivesBack("app", R("ready")) /\ GivesBack("app", R("manual"))
    /\ GivesBack("app", R("mavlink")) /\ GivesBack("app", R("backend"))
    /\ GivesBack("app", R("recording")) /\ GivesBack("app", R("media"))
    /\ GivesBack("app", R("binlog")) /\ GivesBack("app", R("vendor_server"))
PROOF
  <1> DEFINE w == App_close
  <1>1. CloseSteps("app") = w
    BY DEF CloseSteps
  <1>2. /\ Has(w, Undo("free", R("ready"), always))
        /\ Has(w, Undo("free", R("manual"), R("manual")))
        /\ Has(w, Undo("free", R("mavlink"), R("mavlink")))
        /\ Has(w, Undo("free", R("backend"), R("backend")))
        /\ Has(w, Undo("free", R("recording"), R("recording")))
        /\ Has(w, Undo("free", R("media"), R("media")))
        /\ Has(w, Undo("free", R("binlog"), R("binlog")))
        /\ Has(w, Undo("free", R("vendor_server"), R("vendor_server")))
    BY App_close_ok
  <1> HIDE DEF w
  <1> QED
    BY <1>1, <1>2, App_notes DEF GivesBack

LEMMA App_open_ok ==
    /\ Begins("app", App_open, {}, {})
PROOF
  <1> DEFINE p == App_open
  <1>1. /\ Len(p) = 12
        /\ StepIs(p[1], "exit", {}, {})
        /\ StepIs(p[2], "exit", {}, {})
        /\ StepIs(p[3], "must", {R("vendor_server")}, {R("vendor_server")})
        /\ StepIs(p[4], "may", {R("binlog")}, {R("binlog")})
        /\ StepIs(p[5], "may", {R("network")}, {R("network")})
        /\ StepIs(p[6], "must", {R("media")}, {R("media")})
        /\ StepIs(p[7], "must", {R("backend")}, {R("backend")})
        /\ StepIs(p[8], "must", {}, {})
        /\ StepIs(p[9], "must", {R("mavlink")}, {R("mavlink")})
        /\ StepIs(p[10], "may", {R("manual")}, {R("manual")})
        /\ StepIs(p[11], "may", {R("recording")}, {R("recording")})
        /\ StepIs(p[12], "must", {R("ready")}, {R("ready")})
    BY DEF App_open, Get, Own, Opt, MustCall, Early, StepIs, StepOf
  <1>2. p \in Seq({p[j] : j \in 1 .. 12})
    BY DEF App_open
  <1> HIDE DEF p
  <1>3. \A j \in 1 .. Len(p) : j \in {1, 2, 3, 4, 5, 6, 7, 8, 9, 10, 11, 12}
    BY <1>1
  <1>4. \A j \in 1 .. Len(p) : p[j].kind \in {"exit", "may", "must"}
    BY <1>1, <1>3 DEF StepIs
  <1>5. \A j \in 1 .. Len(p) : \A r \in p[j].res :
          \/ j = 3 /\ r = R("vendor_server")
          \/ j = 4 /\ r = R("binlog")
          \/ j = 5 /\ r = R("network")
          \/ j = 6 /\ r = R("media")
          \/ j = 7 /\ r = R("backend")
          \/ j = 9 /\ r = R("mavlink")
          \/ j = 10 /\ r = R("manual")
          \/ j = 11 /\ r = R("recording")
          \/ j = 12 /\ r = R("ready")
    BY <1>1, <1>3 DEF StepIs
  <1>6. Stands("app", p, {})
    BY <1>1, <1>5, App_uses DEF Stands, Must, StepIs
  <1>7. Returned("app", p, {}) /\ Spawns(p)
    <2>1. Returned("app", p, {})
      BY <1>1, <1>5, App_left, App_back, App_notes DEF Returned, Must, StepIs
    <2>2. Spawns(p)
      BY <1>1, <1>3, App_threads DEF Spawns, Starts, StepIs
    <2> QED
      BY <2>1, <2>2
  <1>8. Begins("app", p, {}, {})
    <2>1. \A j \in 1 .. Len(p) : p[j].kind = "exit" =>
             \A k \in 1 .. j - 1 : p[k].res \subseteq Leftover("app")
      BY <1>1, <1>3, App_left DEF StepIs
    <2> QED
      BY <1>2, <1>6, <1>7, <2>1 DEF Begins, IsSeq, Fits, Stands, Returned, Spawns
  <1> QED
    BY <1>1, <1>8 DEF p

LEMMA App_ranked == Ranked("app")
  BY App_pairs, App_turns, App_unleft, BringUpAssumption DEF Ranked

LEMMA App_sound == Sound("app")
PROOF
  <1>1. OpenSteps("app") = App_open /\ CloseSteps("app") = App_close
    BY DEF OpenSteps, CloseSteps
  <1>2. IsSeq(App_open) /\ Fits("app", App_open, {}, {})
    BY App_open_ok DEF Begins
  <1>3. IsSeq(App_close) /\ Placed("app", App_close, 0)
    BY App_close_ok DEF Undoing
  <1> QED
    BY <1>1, <1>2, <1>3, App_ranked, App_left DEF Sound

-----------------------------------------------------------------------------
\* What a run does with sound sequences: threads, retries, closes.

\* Every sequence is sound, and so is the later start of the MT11's focus
\* thread (FocusSound).
LEMMA AllSound == ASSUME NEW t \in Targets PROVE Sound(t)
PROOF
  <1>1. t \in {"app", "mt11", "a8", "zr10", "ax"}
    BY BringUpAssumption
  <1> QED
    BY <1>1, A8_sound, ZR_sound, MT_sound, AX_sound, App_sound

\* What is left of a sequence after its first step.
LEMMA TailFacts ==
    ASSUME NEW p, IsSeq(p), p # <<>>
    PROVE  /\ IsSeq(Tail(p)) /\ Len(p) \in Nat \ {0} /\ Len(Tail(p)) = Len(p) - 1
           /\ \A i \in 1 .. Len(p) - 1 : Tail(p)[i] = p[i + 1]
           /\ Head(p) = p[1]
PROOF
  <1>1. PICK S : p \in Seq(S)
    BY DEF IsSeq
  <1>2. Tail(p) \in Seq(S)
    BY <1>1
  <1> QED
    BY <1>1, <1>2 DEF IsSeq

\* Everything held that the clean-up must give back has its note.
Undoable == \A r \in held \ Leftover(target) :
    GivesBack(target, r) /\ NoteOf(target, r) \in known \cup {always}

\* What the rest of a clean-up still has to take away.
Owed(r, p) == \E i \in 1 .. Len(p) :
    p[i].res = r /\ p[i].act # "raise" /\ p[i].note \in known \cup {always}
Unwinds ==
    /\ IsSeq(todo)
    /\ \E lo \in Nat : Placed(target, todo, lo)
    /\ \A r \in held \ Leftover(target) : Owed(r, todo)

\* The inductive invariant: a thread that runs is held; what is held stands
\* on what is held; and the rest of an opening still fits, or the rest of a
\* clean-up still gives back all that is held, in its order.
BringInv ==
    /\ target \in Targets
    /\ alive \subseteq held \cap ThreadNames
    /\ \A r \in held : \A q : Uses(target, r, q) => q \in held
    /\ phase \in {"closed", "opening", "open", "closing"}
    /\ phase = "closed" => held \subseteq Leftover(target)
    /\ phase = "opening" => IsSeq(todo) /\ Fits(target, todo, held, known)
    /\ phase \in {"opening", "open"} => Undoable
    /\ phase = "closing" => Unwinds

LEMMA Starting == ASSUME BringUpInit PROVE BringInv
  BY DEF BringUpInit, BringInv

LEMMA NoThreadLeft ==
    ASSUME BringInv, held \subseteq Leftover(target)
    PROVE  alive = {}
  BY AllSound DEF BringInv, Sound

\* The first step of a part that fits.
LEMMA FirstFits ==
    ASSUME NEW t, NEW p, IsSeq(p), p # <<>>, NEW A, NEW N, Fits(t, p, A, N)
    PROVE  /\ Starts(Head(p)) => Head(p).res \subseteq ThreadNames
           /\ Head(p).kind = "exit" => A \subseteq Leftover(t)
           /\ \A r \in Head(p).res :
                 /\ \A q : Uses(t, r, q) => q \in A
                 /\ \/ r \in Leftover(t)
                    \/ GivesBack(t, r) /\ NoteOf(t, r) \in N \cup {always} \cup Head(p).notes
PROOF
  <1>1. 1 \in 1 .. Len(p) /\ Head(p) = p[1]
    BY TailFacts
  <1>2. 1 .. 1 - 1 = {}
    OBVIOUS
  <1> DEFINE h == Head(p)
  <1>3. /\ Starts(h) => h.res \subseteq ThreadNames
        /\ h.kind = "exit" => A \subseteq Leftover(t)
        /\ \A r \in h.res :
             /\ \A q : Uses(t, r, q) => q \in A
             /\ \/ r \in Leftover(t)
                \/ GivesBack(t, r) /\ NoteOf(t, r) \in N \cup {always} \cup h.notes
    <2> HIDE DEF h
    <2>1. h = p[1]
      BY <1>1 DEF h
    <2> QED
      BY <1>1, <1>2, <2>1 DEF Fits
  <1> QED
    BY <1>3

\* The rest fits once the first step is done.
LEMMA RestFits ==
    ASSUME NEW t, NEW p, IsSeq(p), p # <<>>, NEW A, NEW N, Fits(t, p, A, N),
           NEW B, NEW M, A \subseteq B, N \subseteq M,
           Must(Head(p)) => Head(p).res \subseteq B /\ Head(p).notes \subseteq M,
           B \subseteq A \cup Head(p).res
    PROVE  Fits(t, Tail(p), B, M)
PROOF
  <1> DEFINE w == Tail(p)
  <1>0. /\ IsSeq(w) /\ Len(p) \in Nat /\ Len(w) = Len(p) - 1 /\ p[1] = Head(p) /\ 1 \in 1 .. Len(p)
        /\ \A i \in 1 .. Len(w) : i + 1 \in 1 .. Len(p) /\ w[i] = p[i + 1]
    BY TailFacts
  <1> HIDE DEF w
  <1> SUFFICES ASSUME NEW i \in 1 .. Len(w)
               PROVE  /\ Starts(w[i]) => w[i].res \subseteq ThreadNames
                      /\ w[i].kind = "exit" => /\ B \subseteq Leftover(t)
                                               /\ \A j \in 1 .. i - 1 : w[j].res \subseteq Leftover(t)
                      /\ \A r \in w[i].res :
                            /\ \A q : Uses(t, r, q) => q \in B \/ \E j \in 1 .. i - 1 : Must(w[j]) /\ q \in w[j].res
                            /\ \/ r \in Leftover(t)
                               \/ /\ GivesBack(t, r)
                                  /\ \/ NoteOf(t, r) \in M \cup {always} \cup w[i].notes
                                     \/ \E j \in 1 .. i - 1 : Must(w[j]) /\ NoteOf(t, r) \in w[j].notes
    BY Zenon DEF Fits, w
  <1>1. i + 1 \in 1 .. Len(p) /\ w[i] = p[i + 1] /\ i \in Nat
    BY <1>0
  <1>2. \A j \in 1 .. i : j = 1 \/ (j - 1 \in 1 .. i - 1 /\ j - 1 \in 1 .. Len(w) /\ p[j] = w[j - 1])
    <2> TAKE j \in 1 .. i
    <2>1. CASE j # 1
      <3>1. j - 1 \in 1 .. i - 1 /\ j - 1 \in 1 .. Len(w) /\ (j - 1) + 1 = j
        BY <1>0, <1>1, <2>1
      <3>2. w[j - 1] = p[(j - 1) + 1]
        BY <1>0, <3>1
      <3> QED
        BY <3>1, <3>2
    <2> QED
      BY <2>1
  <1>3. \A j \in 1 .. i - 1 : j + 1 \in 1 .. i /\ w[j] = p[j + 1]
    BY <1>0, <1>1
  <1>4. (i + 1) - 1 = i
    BY <1>1
  <1>5. /\ Starts(w[i]) => w[i].res \subseteq ThreadNames
        /\ w[i].kind = "exit" => /\ A \subseteq Leftover(t)
                                 /\ \A j \in 1 .. i : p[j].res \subseteq Leftover(t)
        /\ \A r \in w[i].res :
              /\ \A q : Uses(t, r, q) => q \in A \/ \E j \in 1 .. i : Must(p[j]) /\ q \in p[j].res
              /\ \/ r \in Leftover(t)
                 \/ /\ GivesBack(t, r)
                    /\ \/ NoteOf(t, r) \in N \cup {always} \cup w[i].notes
                       \/ \E j \in 1 .. i : Must(p[j]) /\ NoteOf(t, r) \in p[j].notes
    BY <1>1, <1>4, Zenon DEF Fits
  <1>6. 1 \in 1 .. i
    BY <1>1
  <1>7. ASSUME w[i].kind = "exit"
        PROVE  B \subseteq Leftover(t) /\ \A j \in 1 .. i - 1 : w[j].res \subseteq Leftover(t)
    <2>1. p[1].res \subseteq Leftover(t)
      BY <1>5, <1>6, <1>7
    <2> QED
      BY <1>0, <1>3, <1>5, <1>7, <2>1
  <1>8. ASSUME NEW r \in w[i].res, NEW q, Uses(t, r, q)
        PROVE  q \in B \/ \E j \in 1 .. i - 1 : Must(w[j]) /\ q \in w[j].res
    <2>1. CASE q \in A
      BY <2>1
    <2>2. CASE \E j \in 1 .. i : Must(p[j]) /\ q \in p[j].res
      <3>1. PICK j \in 1 .. i : Must(p[j]) /\ q \in p[j].res
        BY <2>2
      <3>2. CASE j = 1
        BY <1>0, <3>1, <3>2
      <3>3. CASE j # 1
        BY <1>2, <3>1, <3>3
      <3> QED
        BY <3>2, <3>3
    <2> QED
      BY <1>5, <1>8, <2>1, <2>2
  <1>9. ASSUME NEW r \in w[i].res
        PROVE  \/ r \in Leftover(t)
               \/ /\ GivesBack(t, r)
                  /\ \/ NoteOf(t, r) \in M \cup {always} \cup w[i].notes
                     \/ \E j \in 1 .. i - 1 : Must(w[j]) /\ NoteOf(t, r) \in w[j].notes
    <2> DEFINE note == NoteOf(t, r)
    <2>0. \/ r \in Leftover(t)
          \/ /\ GivesBack(t, r)
             /\ \/ note \in N \cup {always} \cup w[i].notes
                \/ \E j \in 1 .. i : Must(p[j]) /\ note \in p[j].notes
      BY <1>5
    <2> SUFFICES ASSUME \E j \in 1 .. i : Must(p[j]) /\ note \in p[j].notes
                 PROVE  \/ note \in M
                        \/ \E j \in 1 .. i - 1 : Must(w[j]) /\ note \in w[j].notes
      BY <2>0
    <2> HIDE DEF note
    <2>1. PICK j \in 1 .. i : Must(p[j]) /\ note \in p[j].notes
      OBVIOUS
    <2>2. CASE j = 1
      BY <1>0, <2>1, <2>2
    <2>3. CASE j # 1
      BY <1>2, <2>1, <2>3
    <2> QED
      BY <2>2, <2>3
  <1> QED
    BY <1>5, <1>7, <1>8, <1>9

LEMMA MoreFits ==
    ASSUME NEW t, NEW p, IsSeq(p), NEW A, NEW N, Fits(t, p, {}, {}), A \subseteq Leftover(t)
    PROVE  Fits(t, p, A, N)
  BY DEF Fits

LEMMA OpenInv == ASSUME BringInv, Open PROVE BringInv'
PROOF
  <1>1. Sound(target)
    BY AllSound DEF BringInv
  <1>2. Fits(target, OpenSteps(target), held, {})
    BY <1>1, MoreFits DEF Sound, BringInv, Open
  <1> QED
    BY <1>1, <1>2 DEF BringInv, Open, Sound, Undoable

LEMMA SucceedInv == ASSUME BringInv, Succeed PROVE BringInv'
PROOF
  <1> DEFINE s == Head(todo)
  <1>1. /\ phase = "opening" /\ todo # <<>> /\ IsSeq(todo) /\ Fits(target, todo, held, known)
        /\ held' = held \cup s.res /\ known' = known \cup s.notes
        /\ todo' = Tail(todo) /\ target' = target /\ phase' = phase
        /\ alive' = IF Starts(s) THEN alive \cup s.res ELSE alive
    BY DEF Succeed, BringInv, Starts
  <1>2. /\ Starts(s) => s.res \subseteq ThreadNames
        /\ \A r \in s.res :
                 /\ \A q : Uses(target, r, q) => q \in held
                 /\ \/ r \in Leftover(target)
                    \/ GivesBack(target, r) /\ NoteOf(target, r) \in known \cup {always} \cup s.notes
    BY <1>1, FirstFits
  <1>3. Fits(target, Tail(todo), held', known')
    BY <1>1, RestFits
  <1>4. IsSeq(Tail(todo))
    BY <1>1, TailFacts
  <1> HIDE DEF s
  <1>5. alive' \subseteq held' \cap ThreadNames
    BY <1>1, <1>2 DEF BringInv
  <1>6. \A r \in held' : \A q : Uses(target', r, q) => q \in held'
    BY <1>1, <1>2 DEF BringInv
  <1>7. Undoable'
    BY <1>1, <1>2 DEF BringInv, Undoable
  <1> QED
    BY <1>1, <1>3, <1>4, <1>5, <1>6, <1>7 DEF BringInv

LEMMA SkipInv == ASSUME BringInv, Skip PROVE BringInv'
PROOF
  <1>1. /\ todo # <<>> /\ IsSeq(todo) /\ Fits(target, todo, held, known)
        /\ ~Must(Head(todo))
    BY DEF Skip, BringInv, Must
  <1>2. Fits(target, Tail(todo), held, known)
    BY <1>1, RestFits
  <1>3. IsSeq(Tail(todo))
    BY <1>1, TailFacts
  <1> QED
    BY <1>2, <1>3 DEF BringInv, Skip, Undoable

LEMMA CleanUpInv == ASSUME BringInv, phase \in {"opening", "open"}, CleanUp PROVE BringInv'
PROOF
  <1>1. Sound(target) /\ Undoable /\ target' = target /\ held' = held /\ known' = known
        /\ alive' = alive /\ todo' = CloseSteps(target) /\ phase' = "closing"
    BY AllSound DEF BringInv, CleanUp
  <1> DEFINE c == CloseSteps(target)
  <1>2. ASSUME NEW r \in held \ Leftover(target) PROVE Owed(r, c)
    <2>1. GivesBack(target, r) /\ NoteOf(target, r) \in known \cup {always}
      BY <1>1, <1>2 DEF Undoable
    <2>2. PICK act \in {"free", "join"} : Has(c, Undo(act, r, NoteOf(target, r)))
      BY <2>1 DEF GivesBack
    <2>3. PICK i \in 1 .. Len(c) : c[i] = Undo(act, r, NoteOf(target, r))
      BY <2>2 DEF Has
    <2>4. c[i].res = r /\ c[i].act # "raise" /\ c[i].note = NoteOf(target, r)
      BY <2>2, <2>3 DEF Undo
    <2> QED
      BY <2>1, <2>4 DEF Owed
  <1>3. Unwinds'
    <2>1. IsSeq(c) /\ Placed(target, c, 0)
      BY <1>1 DEF Sound
    <2>2. \A r : Owed(r, c)' <=> Owed(r, c)
      BY <1>1 DEF Owed
    <2> HIDE DEF c
    <2>3. todo' = c
      BY <1>1 DEF c
    <2> QED
      BY <1>1, <1>2, <2>1, <2>2, <2>3 DEF Unwinds, Owed
  <1> QED
    BY <1>1, <1>3 DEF BringInv

LEMMA FailEarlyInv == ASSUME BringInv, FailEarly PROVE BringInv'
PROOF
  <1>1. held \subseteq Leftover(target)
    BY FirstFits DEF BringInv, FailEarly
  <1> QED
    BY <1>1 DEF BringInv, FailEarly

LEMMA StartFocusInv == ASSUME BringInv, StartFocus PROVE BringInv'
  BY FocusSound DEF BringInv, StartFocus, Undoable

LEMMA FewerThreads ==
    ASSUME BringInv, alive' \subseteq alive, UNCHANGED <<target, phase, todo, held, known>>
    PROVE  BringInv'
  BY DEF BringInv, Undoable, Unwinds, Owed

LEMMA UndoStepInv == ASSUME BringInv, UndoStep PROVE BringInv'
PROOF
  <1> DEFINE s == Head(todo)
             w == Tail(todo)
             on == s.note = always \/ s.note \in known
  <1>1. /\ phase = "closing" /\ todo # <<>> /\ todo' = w /\ target' = target /\ phase' = phase
        /\ known' = known /\ alive' = alive
        /\ s.act = "join" /\ on => s.res \notin alive
        /\ held' = IF on /\ s.act # "raise" THEN held \ {s.res} ELSE held
    BY DEF UndoStep
  <1>2. /\ IsSeq(todo)
        /\ \A r \in held \ Leftover(target) : Owed(r, todo)
    BY <1>1 DEF BringInv, Unwinds
  <1>3. PICK lo \in Nat : Placed(target, todo, lo)
    BY <1>1 DEF BringInv, Unwinds
  <1>4. /\ IsSeq(w) /\ Len(todo) \in Nat /\ Len(w) = Len(todo) - 1 /\ todo[1] = s /\ 1 \in 1 .. Len(todo)
        /\ \A i \in 1 .. Len(w) : i + 1 \in 1 .. Len(todo) /\ w[i] = todo[i + 1]
    BY <1>1, <1>2, TailFacts
  <1>5. Sound(target)
    BY AllSound DEF BringInv
  <1>6. s.act \in {"free", "join", "raise"}
    BY <1>3, <1>4 DEF Placed
  <1> HIDE DEF s, w
  <1>7. Placed(target, w, lo + 1)
    <2> SUFFICES ASSUME NEW k \in 1 .. Len(w)
                 PROVE  /\ Turn(target, w[k].res) = (lo + 1) + k
                        /\ w[k].act \in {"free", "join", "raise"}
                        /\ w[k].act = "free" => w[k].res \notin ThreadNames
      BY DEF Placed
    <2>1. k + 1 \in 1 .. Len(todo) /\ w[k] = todo[k + 1] /\ k \in Nat
      BY <1>4
    <2>2. /\ Turn(target, todo[k + 1].res) = lo + (k + 1)
          /\ todo[k + 1].act \in {"free", "join", "raise"}
          /\ todo[k + 1].act = "free" => todo[k + 1].res \notin ThreadNames
      BY <1>3, <2>1, Zenon DEF Placed
    <2>3. lo + (k + 1) = (lo + 1) + k
      BY <2>1
    <2> QED
      BY <2>1, <2>2, <2>3
  <1>8. ASSUME NEW r \in held' \ Leftover(target) PROVE Owed(r, w)
    <2>1. PICK i \in 1 .. Len(todo) : todo[i].res = r /\ todo[i].act # "raise" /\ todo[i].note \in known \cup {always}
      BY <1>1, <1>2, <1>8 DEF Owed
    <2>2. i # 1
      BY <1>1, <1>4, <1>8, <2>1
    <2>3. i - 1 \in 1 .. Len(w) /\ (i - 1) + 1 = i
      BY <1>4, <2>2
    <2>4. w[i - 1] = todo[i]
      BY <1>4, <2>3
    <2> QED
      BY <2>1, <2>3, <2>4 DEF Owed
  <1>9. Unwinds'
    <2>1. lo + 1 \in Nat
      OBVIOUS
    <2> QED
      BY <1>1, <1>4, <1>7, <1>8, <2>1 DEF Unwinds, Owed
  <1>10. alive' \subseteq held' \cap ThreadNames
    <2>1. s.act = "free" => s.res \notin ThreadNames
      BY <1>3, <1>4 DEF Placed
    <2>2. s.act # "raise" /\ on => s.res \notin alive
      BY <1>1, <1>6, <2>1 DEF BringInv
    <2> QED
      BY <1>1, <2>2 DEF BringInv
  <1>11. ASSUME NEW r \in held', NEW q, Uses(target, r, q) PROVE q \in held'
    <2>a. r \in held
      BY <1>1, <1>11
    <2>1. r \in held /\ q \in held
      BY <1>11, <2>a, Zenon DEF BringInv
    <2> SUFFICES ASSUME q \notin held' PROVE FALSE
      OBVIOUS
    <2>0. q = s.res
      <3>1. CASE held' = held
        BY <2>1, <3>1
      <3>2. CASE held' = held \ {s.res}
        BY <2>1, <3>2
      <3> QED
        BY <1>1, <3>1, <3>2
    <2>2. Turn(target, q) = lo + 1
      BY <1>3, <1>4, <2>0 DEF Placed
    <2>3. r \notin Leftover(target) /\ Turn(target, r) < Turn(target, q)
      <3> DEFINE x == <<r, q>>
      <3>1. x \in StandsOn(target) /\ x[1] = r /\ x[2] = q
        BY <1>11 DEF Uses
      <3>2. Turn(target, q) > 0
        BY <2>2
      <3> HIDE DEF x
      <3> QED
        BY <1>5, <3>1, <3>2 DEF Sound, Ranked
    <2>4. PICK i \in 1 .. Len(todo) : todo[i].res = r
      BY <1>2, <2>1, <2>3 DEF Owed
    <2>5. Turn(target, r) = lo + i
      BY <1>3, <2>4 DEF Placed
    <2> QED
      BY <2>2, <2>3, <2>5
  <1> QED
    BY <1>1, <1>9, <1>10, <1>11 DEF BringInv

LEMMA CloseDoneInv == ASSUME BringInv, CloseDone PROVE BringInv'
PROOF
  <1>1. held \subseteq Leftover(target)
    BY DEF BringInv, CloseDone, Unwinds, Owed
  <1> QED
    BY <1>1 DEF BringInv, CloseDone

LEMMA BringUpStep == ASSUME BringInv, [BringUpNext]_bringUpVars PROVE BringInv'
PROOF
  <1>1. CASE Fail
    BY <1>1, CleanUpInv DEF Fail
  <1>2. CASE OpenDone
    BY <1>2 DEF OpenDone, BringInv, Undoable
  <1>3. CASE Close
    BY <1>3, CleanUpInv DEF Close
  <1>4. CASE Signal
    BY <1>4, FewerThreads DEF Signal
  <1>5. CASE \E r \in alive : Stops(r) \/ EndsItself(r)
    BY <1>5, FewerThreads DEF Stops, EndsItself
  <1>6. CASE UNCHANGED bringUpVars
    BY <1>6, FewerThreads DEF bringUpVars
  <1> QED
    BY <1>1, <1>2, <1>3, <1>4, <1>5, <1>6, OpenInv, SucceedInv, FailEarlyInv, SkipInv,
       StartFocusInv, UndoStepInv, CloseDoneInv DEF BringUpNext

LEMMA BringUpExact == ASSUME BringInv PROVE CleanedUp
PROOF
  <1>1. Ordered
    <2> SUFFICES ASSUME NEW x \in StandsOn(target), x[1] \in held \cup alive PROVE x[2] \in held
      BY DEF Ordered
    <2>1. x[1] \in held
      BY DEF BringInv
    <2>2. x = <<x[1], x[2]>>
      BY AllSound DEF BringInv, Sound, Ranked
    <2> QED
      BY <2>1, <2>2 DEF BringInv, Uses
  <1>2. Released
    BY NoThreadLeft DEF Released, BringInv
  <1> QED
    BY <1>1, <1>2 DEF CleanedUp

\* CleanedUp, for every target and any number of encoder channels: whichever
\* call of an opening fails, is skipped or is made again, the close routines
\* of the application and the cameras join every thread and give back all that
\* was acquired, nothing before what still stands on it.
THEOREM CleanUpsStayExact == BringUpSpec => []CleanedUp
  BY Starting, BringUpStep, BringUpExact, PTL DEF BringUpSpec

=============================================================================
