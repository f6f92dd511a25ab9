----------------------------- MODULE SigmaMedia -----------------------------
(***************************************************************************)
(* The media of the A8 and of the ZR10 while they run: the capture thread, *)
(* which takes pictures from three encoders, loads the factory tuning of   *)
(* the image processor once the main stream flows and feeds the recorder,  *)
(* and the event loop, which opens and closes the media and carries out    *)
(* commands (backends/a8 and zr10: media.c, pipeline.c, isp.c).  Where both have    *)
(* the same code one definition stands for both.                           *)
(*                                                                         *)
(* Encoders, scaler ports and the image processor are external: they       *)
(* deliver what they like and any call on them may fail.  What they have   *)
(* been set to is kept in view and isp.  A picture is a key picture or     *)
(* refers to the one before it; sending it to viewers is left out          *)
(* (LiveVideo and SupportVideo model that).                                *)
(***************************************************************************)
EXTENDS Naturals, FiniteSets

CONSTANTS
    TuneAfter,      \* CA_A8_ISP_BIN_AFTER_FRAMES
    Attempts,       \* looks at the flags while opening (120 on the ZR10)
    Looks,          \* looks for a still picture (3 on the A8, more on the ZR10)
    Images,         \* image settings
    Crops,          \* digital zooms; 1 shows everything
    MaxOrders,      \* bound: commands
    MaxFiles        \* bound: seconds a recording may be named after

ASSUME SigmaAssumption ==
    /\ TuneAfter \in Nat \ {0} /\ Attempts \in Nat /\ Looks \in Nat
    /\ 1 \in Crops /\ MaxOrders \in Nat /\ MaxFiles \in Nat

VARIABLES
    maker,          \* which camera
    stage,          \* "starting", "ready", "closing", "gone"
    waited,         \* looks at the flags so far
    capturing, halt,            \* the capture thread lives; media->stop
    delivered,      \* encoded_frame_logged: channels that have delivered
    mainFrames, isp_bin_loaded,
    isp,            \* external: what the image processor is set to
    image,          \* media->config.settings of the implementation
    promised,       \* the settings ca_media_settings reports
    taping, recording_wait_keyframe,  \* recording; waits for a key picture
    tape,           \* the open file: "none", "empty", "whole", "torn"
    follows,        \* the last picture of the record channel is in the file
    names, path,    \* names in use; recording_path
    zoom_crop, flipped,         \* what the pipeline remembers
    media_zoom, media_inverted,             \* what the media reports
    view,           \* external: how each scaler port is set
    jpeg,           \* the still encoder: 0 when off, else its looks so far plus 1
    photo,          \* how the last still ended
    mishaps,        \* what has gone wrong outside the program
    orders

sigmaVars == <<maker, stage, waited, capturing, halt, delivered, mainFrames,
               isp_bin_loaded, isp, image, promised, taping,
               recording_wait_keyframe, tape, follows, names, path, zoom_crop,
               flipped, media_zoom, media_inverted, view, jpeg, photo, mishaps, orders>>
opener == <<stage, waited>>
captureThread == <<capturing, halt, delivered, mainFrames>>
tuning == <<isp_bin_loaded, isp, image, promised>>
taped == <<taping, recording_wait_keyframe, tape, follows, names, path>>
looks == <<zoom_crop, flipped, media_zoom, media_inverted, view>>
still == <<jpeg, photo>>

Channels == {"main", "sub", "record"}
\* The order in which a setting reaches the ports, one per channel.
ScalerPorts == <<"main", "sub", "record">>
NoImage == "factory"
Mixed == "mixed"
NoStill == 0

-----------------------------------------------------------------------------
\* Opening: the pipeline is up, the thread has been started and the ports
\* have been turned if the camera is mounted upside down.
SigmaFrom(s) ==
    /\ maker \in {"a8", "zr10"}
    /\ stage = s /\ waited = 0
    /\ capturing = TRUE /\ halt = FALSE
    /\ delivered = {} /\ mainFrames = 0
    /\ isp_bin_loaded = FALSE /\ isp = NoImage
    /\ image \in Images /\ promised = image
    /\ taping = FALSE /\ recording_wait_keyframe = FALSE
    /\ tape = "none" /\ follows = FALSE /\ names = {} /\ path = 0
    /\ zoom_crop = 1 /\ media_zoom = 1
    /\ media_inverted \in BOOLEAN /\ flipped = media_inverted
    /\ view = [c \in Channels |-> [crop |-> 1, flip |-> media_inverted]]
    /\ jpeg = NoStill /\ photo = "none"
    /\ mishaps = {} /\ orders = 0
SigmaInit == SigmaFrom("starting")

Giving == stage' = "closing" /\ halt' = TRUE

\* The ZR10 waits, in steps of 100 ms, for a picture of every channel and the
\* factory tuning; it gives up when the thread does.  The A8 does not wait.
WaitFrames ==
    /\ stage = "starting"
    /\ LET ready == maker = "a8" \/ (isp_bin_loaded /\ delivered = Channels) IN
        \/ ready /\ stage' = "ready" /\ UNCHANGED <<waited, halt>>
        \/ ~ready /\ (halt \/ waited = Attempts) /\ Giving /\ UNCHANGED waited
        \/ /\ ~ready /\ ~halt /\ waited < Attempts
           /\ waited' = waited + 1 /\ UNCHANGED <<stage, halt>>
    /\ UNCHANGED <<maker, capturing, delivered, mainFrames, tuning, taped, looks, still, mishaps, orders>>

SigmaClose ==
    /\ stage = "ready" /\ jpeg = NoStill /\ Giving
    /\ UNCHANGED <<maker, waited, capturing, delivered, mainFrames, tuning, taped, looks, still, mishaps, orders>>

\* media_cleanup after the join: an open file is closed.
Cleaned ==
    /\ stage = "closing" /\ ~capturing
    /\ stage' = "gone" /\ tape' = "none" /\ taping' = FALSE
    /\ UNCHANGED <<maker, waited, captureThread, tuning, recording_wait_keyframe, follows,
                   names, path, looks, still, mishaps, orders>>

-----------------------------------------------------------------------------
\* The capture thread.  It looks at the stop flag before each poll, so it may
\* still handle what the last poll reported.

ThreadEnds ==
    /\ capturing /\ halt /\ capturing' = FALSE
    /\ UNCHANGED <<maker, opener, halt, delivered, mainFrames, tuning, taped, looks, still, mishaps, orders>>

\* poll fails with something other than EINTR: nobody is told.
PollFails ==
    /\ capturing /\ capturing' = FALSE
    /\ UNCHANGED <<maker, opener, halt, delivered, mainFrames, tuning, taped, looks, still, mishaps, orders>>

\* ca_a8_apply_isp_config sets one control after the other and stops at the
\* first that fails.
apply_isp_config(c) ==
    \/ isp' = c /\ UNCHANGED mishaps
    \/ isp' = Mixed /\ mishaps' = mishaps \cup {"isp"}

\* The tuning resets the processor to the factory's settings; the configured
\* ones follow, whether or not it could be loaded.
LoadTuning_a8 ==
    /\ maker = "a8" /\ isp_bin_loaded' = TRUE
    /\ apply_isp_config(image)
    /\ UNCHANGED <<image, promised, halt>>
\* The ZR10 keeps the factory's settings and cannot do without them.
LoadTuning_zr10 ==
    /\ maker = "zr10"
    /\ \/ isp_bin_loaded' = TRUE /\ UNCHANGED <<isp, image, promised, halt, mishaps>>
       \/ halt' = TRUE /\ UNCHANGED <<tuning, mishaps>>

\* consume_frame for the two channels that are only viewed.
ViewedFrame(c) ==
    /\ capturing /\ c \in {"main", "sub"}
    /\ delivered' = delivered \cup {c}
    /\ IF c = "main" /\ ~isp_bin_loaded
       THEN /\ mainFrames' = IF mainFrames < TuneAfter THEN mainFrames + 1 ELSE mainFrames
            /\ IF mainFrames + 1 >= TuneAfter THEN LoadTuning_a8 \/ LoadTuning_zr10
               ELSE UNCHANGED <<tuning, mishaps, halt>>
       ELSE UNCHANGED <<mainFrames, tuning, mishaps, halt>>
    /\ UNCHANGED <<maker, opener, capturing, taped, looks, still, orders>>

\* consume_frame for the channel that is recorded, under media->lock.  A
\* picture that cannot be written ends the recording.
RecordFrame(key) ==
    /\ capturing
    /\ delivered' = delivered \cup {"record"}
    /\ recording_wait_keyframe' = (recording_wait_keyframe /\ ~(taping /\ key))
    /\ \/ /\ taping /\ ~recording_wait_keyframe'
          /\ \/ /\ tape' = IF tape # "torn" /\ (key \/ follows) THEN "whole" ELSE "torn"
                /\ follows' = TRUE /\ UNCHANGED taping
             \/ tape' = "none" /\ taping' = FALSE /\ follows' = FALSE
       \/ /\ ~(taping /\ ~recording_wait_keyframe')
          /\ follows' = FALSE /\ UNCHANGED <<tape, taping>>
    /\ UNCHANGED <<maker, opener, capturing, halt, mainFrames, tuning, names, path, looks, still, mishaps, orders>>

\* A picture is taken out of the encoder and then cannot be used: no memory,
\* no data or, on the ZR10, packs that do not fit or a time that runs back.
LoseFrame ==
    /\ capturing
    /\ follows' = FALSE /\ mishaps' = mishaps \cup {"picture"}
    /\ UNCHANGED <<maker, opener, captureThread, tuning, taping, recording_wait_keyframe,
                   tape, names, path, looks, still, orders>>
read_stream == maker = "a8" /\ LoseFrame
venc_get == maker = "zr10" /\ LoseFrame

-----------------------------------------------------------------------------
\* Commands of the event loop.
Order ==
    /\ stage = "ready" /\ jpeg = NoStill /\ orders < MaxOrders
    /\ orders' = orders + 1
    /\ UNCHANGED <<maker, opener, captureThread>>

\* make_recording_path: the first second from now whose name is free.
make_recording_path(now) ==
    {t \in now .. MaxFiles : t \notin names /\ \A u \in now .. t - 1 : u \in names}

set_recording_any(active) ==
    /\ Order
    /\ \/ /\ active /\ ~taping
          /\ \E now \in 1 .. MaxFiles : path' \in make_recording_path(now)
          /\ names' = names \cup {path'}
          /\ taping' = TRUE /\ tape' = "empty"
          /\ UNCHANGED <<recording_wait_keyframe, follows>>
       \/ /\ ~active /\ taping
          /\ taping' = FALSE /\ tape' = "none" /\ follows' = FALSE
          /\ recording_wait_keyframe' = FALSE /\ UNCHANGED <<names, path>>
    /\ UNCHANGED <<tuning, looks, still, mishaps>>
\* The record encoder is asked for a key picture; whatever it delivers until
\* then is not written.  The path or the file may fail: nothing changes, except
\* that a path may have been chosen.  A stop whose file cannot be closed reports it
\* and stops all the same.
set_recording(active) ==
    /\ Order
    /\ \/ /\ active /\ ~taping
          /\ \E now \in 1 .. MaxFiles :
               \/ /\ path' \in make_recording_path(now)
                  /\ names' = names \cup {path'}
                  /\ taping' = TRUE /\ recording_wait_keyframe' = TRUE
                  /\ tape' = "empty" /\ follows' = FALSE
               \/ /\ path' \in make_recording_path(now) \cup {path}
                  /\ UNCHANGED <<names, taping, recording_wait_keyframe, tape, follows>>
       \/ /\ ~active /\ taping
          /\ taping' = FALSE /\ tape' = "none" /\ follows' = FALSE
          /\ recording_wait_keyframe' = FALSE /\ UNCHANGED <<names, path>>
    /\ UNCHANGED <<tuning, looks, still, mishaps>>

\* scl_port_config of the first n ports.
Configured(n, crop, flip) ==
    [c \in Channels |-> IF \E i \in 1 .. n : ScalerPorts[i] = c
                        THEN [crop |-> crop, flip |-> flip] ELSE view[c]]

\* The A8 crops at every port and remembers the crop even when a port fails;
\* the ZR10 zooms with its lens and only notes the ratio.
SetZoom_a8(z) ==
    /\ Order /\ maker = "a8"
    /\ zoom_crop' = z
    /\ \/ view' = Configured(3, z, flipped) /\ media_zoom' = z /\ UNCHANGED mishaps
       \/ /\ \E n \in 0 .. 2 : view' = Configured(n, z, flipped)
          /\ mishaps' = mishaps \cup {"port"} /\ UNCHANGED media_zoom
    /\ UNCHANGED <<flipped, media_inverted, tuning, taped, still>>
SetZoom_zr10(z) ==
    /\ Order /\ maker = "zr10"
    /\ media_zoom' = z
    /\ UNCHANGED <<zoom_crop, view, flipped, media_inverted, tuning, taped, still, mishaps>>

\* ca_a8_set_inverted leaves the ports it has turned, ca_zr10_set_inverted
\* turns them back (and only logs a port that will not).
SetInverted_a8(f) ==
    /\ Order /\ maker = "a8" /\ f # media_inverted
    /\ flipped' = f
    /\ \/ view' = Configured(3, zoom_crop, f) /\ media_inverted' = f /\ UNCHANGED mishaps
       \/ /\ \E n \in 0 .. 2 : view' = Configured(n, zoom_crop, f)
          /\ mishaps' = mishaps \cup {"port"} /\ UNCHANGED media_inverted
    /\ UNCHANGED <<zoom_crop, media_zoom, tuning, taped, still>>

TurnedBack_not(n, f) ==
    view' = Configured(n, zoom_crop, f) /\ mishaps' = mishaps \cup {"port"}
TurnedBack(n, f) ==
    \E wont \in SUBSET {ScalerPorts[i] : i \in 1 .. n} :
        /\ view' = [c \in Channels |->
                      IF c \in wont THEN [crop |-> zoom_crop, flip |-> f] ELSE view[c]]
        /\ mishaps' = mishaps \cup (IF wont = {} THEN {"port"} ELSE {"port", "rollback"})
SetInverted_zr10(f) ==
    /\ Order /\ maker = "zr10" /\ f # media_inverted
    /\ \/ view' = Configured(3, zoom_crop, f) /\ flipped' = f /\ media_inverted' = f /\ UNCHANGED mishaps
       \/ \E n \in 0 .. 2 : TurnedBack(n, f) /\ UNCHANGED <<flipped, media_inverted>>
    /\ UNCHANGED <<zoom_crop, media_zoom, tuning, taped, still>>

\* ca_media_configure with other image settings: ca_media_impl_apply_image,
\* and after a failure once more with the old ones.  The A8 refuses before
\* the tuning is loaded or when its library lacks a function (the first time:
\* load_api returns 0 once the library is open), the ZR10 always.
ApplyImage(c) ==
    /\ Order /\ c # promised
    /\ \/ UNCHANGED <<isp, image, promised, mishaps>>
       \/ /\ maker = "a8" /\ isp_bin_loaded
          /\ \/ isp' = c /\ image' = c /\ promised' = c /\ UNCHANGED mishaps
             \/ apply_isp_config(promised) /\ UNCHANGED <<image, promised>>
    /\ UNCHANGED <<isp_bin_loaded, taped, looks, still>>

\* ca_media_impl_capture_photo, under photo_lock: the still encoder is started
\* (on the ZR10 it is first created), looked at until it delivers or has had
\* its looks, and stopped (and destroyed) on every path; then the picture is
\* written to a file.
TakePhoto ==
    /\ Order
    /\ \/ jpeg' = NoStill + 1 /\ photo' = "taking"
       \/ jpeg' = NoStill /\ photo' = "failed"
    /\ UNCHANGED <<tuning, taped, looks, mishaps>>
LookFor(most) ==
    /\ jpeg # NoStill
    /\ \/ jpeg < most /\ jpeg' = jpeg + 1 /\ UNCHANGED photo
       \/ jpeg' = NoStill /\ photo' \in {"saved", "failed"}
    /\ UNCHANGED <<maker, opener, captureThread, tuning, taped, looks, mishaps, orders>>
capture_jpeg_a8 == maker = "a8" /\ LookFor(Looks)
capture_jpeg_zr10 == maker = "zr10" /\ LookFor(Looks + 1)
Look == capture_jpeg_a8 \/ capture_jpeg_zr10

SigmaNext ==
    \/ TakePhoto \/ Look
    \/ WaitFrames \/ SigmaClose \/ Cleaned \/ ThreadEnds \/ PollFails \/ read_stream \/ venc_get
    \/ \E c \in {"main", "sub"} : ViewedFrame(c)
    \/ \E b \in BOOLEAN : RecordFrame(b) \/ set_recording(b)
    \/ \E f \in BOOLEAN : SetInverted_a8(f) \/ SetInverted_zr10(f)
    \/ \E z \in Crops : SetZoom_a8(z) \/ SetZoom_zr10(z)
    \/ \E c \in Images : ApplyImage(c)

SigmaSpec == SigmaInit /\ [][SigmaNext]_sigmaVars

-----------------------------------------------------------------------------
\* A recording can be decoded from its first picture to its last, however
\* stops, starts, write failures and pictures interleave, unless the encoder's
\* output itself was lost; and a file is open exactly while the media says
\* that it records (consume_frame, ca_media_impl_set_recording).
TapeDecodable ==
    /\ tape = "torn" => "picture" \in mishaps
    /\ taping <=> tape # "none"

\* Whatever order tuning, image commands and their failures come in, the image
\* processor of the A8 is set to what the camera reports, unless an attempt
\* to set it back failed too (consume_frame, ca_media_impl_apply_image).
ImageHonest ==
    maker = "a8" /\ isp_bin_loaded =>
        "isp" \in mishaps \/ (isp = promised /\ image = promised)

\* Every port shows what the media reports: always on the ZR10, which turns
\* ports back, unless that fails too; on the A8 until a port first fails.
PortsHonest ==
    \/ mishaps \cap (IF maker = "a8" THEN {"port"} ELSE {"rollback"}) # {}
    \/ \A c \in Channels :
          view[c] = [crop |-> IF maker = "a8" THEN media_zoom ELSE 1, flip |-> media_inverted]

\* What the media report is what image processor and scaler ports are set to.
SigmaHonest == ImageHonest /\ PortsHonest
=============================================================================
