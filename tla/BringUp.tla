------------------------------- MODULE BringUp -------------------------------
(***************************************************************************)
(* How the parts of the camera are brought up and taken down again: the    *)
(* application itself (main.c), the media of the MT11, the A8 and the      *)
(* ZR10 with their vendor pipelines, and the native capture helper of the  *)
(* Z1-Mini.  Each is a long sequence of calls of which any may fail; a     *)
(* failure jumps to a clean-up that must undo exactly what was done.       *)
(*                                                                         *)
(* A sequence is data: a step names the resource its call acquires and the *)
(* note (flag, stage, non-NULL pointer) the code makes of it; a step of    *)
(* the clean-up names the note it looks at and what it gives back.  Call   *)
(* arguments are left out.  Resources are external: a call succeeds or     *)
(* fails, an undo call on a resource that is held succeeds, one on a       *)
(* resource that is not held has no effect (the code ignores its result).  *)
(* Threads are resources that must have ended before they can be joined.   *)
(***************************************************************************)
EXTENDS Naturals, Sequences, FiniteSets, SequencesExt

CONSTANTS
    Targets,    \* which of the sequences below
    Streams,    \* encoder channels of a pipeline (CA_A8_VENC_COUNT, ...)
    MaxOpens    \* bound: attempts to open

ASSUME BringUpAssumption ==
    /\ Targets \subseteq {"app", "mt11", "a8", "zr10", "ax"}
    /\ Streams \in Nat \ {0}
    /\ MaxOpens \in Nat

VARIABLES
    target,     \* whose sequence
    phase,      \* "closed", "opening", "open", "closing"
    todo,       \* the steps that remain
    held,       \* external: what the process has acquired
    known,      \* notes the code has made
    alive,      \* threads that have not ended
    raised,     \* stop flags
    opens       \* attempts so far

bringUpVars == <<target, phase, todo, held, known, alive, raised, opens>>

-----------------------------------------------------------------------------
\* Steps of an opening sequence.  "must": a failure jumps to the clean-up;
\* "exit": a failure returns without one; "may": a failure is only logged.
\* A thread is started by "spawn", "mayspawn" or "worker" (whose failure also
\* raises the stop flag).
R(name) == <<name, 0>>
StepOf(kind, res, notes) == [kind |-> kind, res |-> res, notes |-> notes]
MustCall == StepOf("must", {}, {})
Early == StepOf("exit", {}, {})
Get(r, n) == StepOf("must", {r}, {n})
Own(r) == Get(r, r)                        \* a flag or pointer of its own
Got(r) == StepOf("must", {r}, {})            \* no note
Opt(r) == StepOf("may", {r}, {r})
Noted(n) == StepOf("note", {}, {n})           \* cannot fail
Spawn(r) == StepOf("spawn", {r}, {r})        \* pthread_create
Tries(n) == [i \in 1 .. n |-> MustCall]
ForAll(Op(_), n) == FlattenSeq([i \in 1 .. n |-> Op(i)])

\* Steps of a clean-up: what it does if the note was made.  always: no test.
always == R("always")
Undo(act, r, n) == [act |-> act, res |-> r, note |-> n]
Free(r, n) == Undo("free", r, n)
Drop(r) == Free(r, r)
Raise(f, n) == Undo("raise", R(f), n)
Join(r) == Undo("join", r, r)
Down(Op(_), n) == FlattenSeq([i \in 1 .. n |-> Op(n + 1 - i)])

-----------------------------------------------------------------------------
\* The SigmaStar pipeline of the A8 (backends/a8/pipeline.c).

\* load_libraries and MI_SYS_Init: their failure leaves stage at STAGE_NONE.
A8_load == <<Got(R("libs")), MustCall, MustCall, Get(R("sys"), R("SYS"))>>
A8_sensor_start ==
    Tries(5) \o <<Get(R("sensor"), R("SENSOR"))>> \o Tries(3)
A8_vif_start ==
    <<Get(R("vif_group"), R("VIF")), MustCall, Got(R("vif_device")), MustCall, Got(R("vif_port"))>>
A8_isp_start ==
    <<Get(R("isp_device"), R("ISP")), Got(R("isp_channel")), MustCall, Got(R("isp_run")),
      MustCall, Got(R("isp_port"))>>
A8_scl_start ==
    <<Get(R("scl_device"), R("SCL")), Got(R("scl_channel")), MustCall, Got(R("scl_run"))>>
A8_bind_front_end == <<Get(R("vif_isp"), R("BOUND")), Got(R("isp_scl"))>>
A8_scl_ports_start ==
    LET Port(i) == <<MustCall, Own(<<"port", i>>)>>
    IN <<Noted(R("PORTS"))>> \o ForAll(Port, Streams)
A8_venc_start ==
    LET Encoder(i) == <<Own(<<"chn", i>>), Got(<<"recv", i>>),
                        Own(<<"bind", i>>), Own(<<"fd", i>>)>>
    IN <<Noted(R("VENC")), Got(R("venc_device"))>> \o ForAll(Encoder, Streams)
A8_jpeg_start ==
    <<Got(R("mjpg_device")), Get(R("mjpg"), R("jpeg")), Own(R("mjpg_bind"))>>
A8_pipeline_open ==
    A8_load \o A8_sensor_start \o A8_vif_start \o A8_isp_start \o A8_scl_start
    \o A8_bind_front_end \o A8_scl_ports_start \o A8_venc_start \o A8_jpeg_start

A8_pipeline_close ==
    LET Encoder(i) == <<Drop(<<"fd", i>>), Free(<<"recv", i>>, <<"chn", i>>),
                        Drop(<<"bind", i>>), Drop(<<"chn", i>>)>>
        Port(i) == <<Drop(<<"port", i>>)>>
        Part(names, n) == [i \in DOMAIN names |-> Free(R(names[i]), n)]
    IN ForAll(Encoder, Streams)
       \o <<Drop(R("mjpg_bind")), Free(R("mjpg"), R("jpeg")),
            Free(R("mjpg_device"), R("jpeg")), Free(R("venc_device"), R("VENC"))>>
       \o ForAll(Port, Streams)
       \o Part(<<"isp_scl", "vif_isp">>, R("BOUND"))
       \o Part(<<"scl_run", "scl_channel", "scl_device">>, R("SCL"))
       \o Part(<<"isp_port", "isp_run", "isp_channel", "isp_device">>, R("ISP"))
       \o Part(<<"vif_port", "vif_device", "vif_group">>, R("VIF"))
       \o Part(<<"sensor">>, R("SENSOR")) \o Part(<<"sys", "libs">>, R("SYS"))

A8_media_open ==
    A8_pipeline_open \o <<MustCall, Own(R("rtsp")), MustCall, Opt(R("proxy")),
                          Own(R("live")), MustCall, MustCall, Spawn(R("capture"))>>
A8_media_cleanup ==
    <<Raise("stop", R("capture")), Join(R("capture")), Drop(R("live")),
      Drop(R("proxy")), Drop(R("rtsp"))>> \o A8_pipeline_close

-----------------------------------------------------------------------------
\* The ZR10 (backends/zr10/pipeline.c): one flag per resource.

ZR_claim_hardware == <<Own(R("lock")), MustCall, MustCall>>
ZR_load_sdk == <<Own(R("libs")), MustCall, MustCall, MustCall>>
ZR_sensor_start ==
    Tries(5) \o <<Own(R("sensor")), MustCall, MustCall, MustCall, Own(R("vif_device")), MustCall,
      Own(R("vif_port")), Own(R("vpe")), MustCall,
      Own(R("vpe_run")), Own(R("front"))>>
ZR_encoder_open(i) ==
    <<MustCall, Own(<<"port", i>>), Own(<<"chn", i>>), MustCall,
      Own(<<"bind", i>>), Own(<<"recv", i>>),
      Own(<<"fd", i>>)>>
ZR_pipeline_open ==
    ZR_claim_hardware \o ZR_load_sdk \o <<Own(R("sys"))>> \o ZR_sensor_start
    \o ForAll(ZR_encoder_open, Streams)

ZR_encoder_close_early(i) ==
    [k \in 1 .. 5 |-> Drop(<<(<<"recv", "fd", "chn", "bind", "port">>)[k], i>>)]
ZR_encoder_close(i) ==
    [k \in 1 .. 5 |-> Drop(<<(<<"recv", "fd", "bind", "chn", "port">>)[k], i>>)]
ZR_pipeline_close ==
    Down(ZR_encoder_close, Streams)
    \o <<Drop(R("front")), Drop(R("vpe_run")), Drop(R("vpe")),
         Drop(R("vif_port")), Drop(R("vif_device")), Drop(R("sensor")),
         Drop(R("sys")), Drop(R("libs")), Drop(R("lock"))>>

\* As on the A8; then the opener waits until every encoder has delivered and
\* the factory tuning is loaded, and gives up when the capture thread does.
ZR_media_open ==
    ZR_pipeline_open \o <<MustCall, Own(R("rtsp")), MustCall, Opt(R("proxy")),
                          Own(R("live")), MustCall, MustCall, Spawn(R("capture")), MustCall>>
ZR_media_cleanup ==
    <<Raise("stop", R("capture")), Join(R("capture")), Drop(R("live")),
      Drop(R("proxy")), Drop(R("rtsp"))>> \o ZR_pipeline_close

-----------------------------------------------------------------------------
\* The MT11 (backends/mt11/media.c and pipeline.c).

MT_system_init == Tries(5) \o <<Got(R("sys")), StepOf("must", {}, {R("sys_started")})>>
MT_scene_start == <<MustCall, Own(R("scene")), MustCall>>
MT_front_end ==
    LET Path(name) == [i \in 1 .. 2 |-> Own(<<name, i>>)]
    IN <<Own(R("latest")), Own(R("raw_file")), Own(R("raw_server"))>>
       \o MT_system_init \o Path("vi") \o Path("vi_vpss") \o Path("vpss")
       \o MT_scene_start \o <<MustCall, Own(R("thermal_vpss"))>>
MT_encoders ==
    LET Encoders(name) == [i \in 1 .. Streams |-> Own(<<name, i>>)]
    IN Encoders("chn") \o <<Opt(R("lens"))>> \o Encoders("bind") \o Encoders("recv")
MT_servers ==
    <<Own(R("rtsp")), MustCall, Opt(R("proxy")), Own(R("live")), MustCall, MustCall,
      Spawn(R("thermal")), MustCall, MustCall, Spawn(R("capture"))>>
MT_media_open == MT_front_end \o MT_encoders \o MT_servers

\* The focus threads are started by commands while the media is open.
MT_media_cleanup ==
    LET Encoders(name) == LET Op(i) == <<Drop(<<name, i>>)>> IN Down(Op, Streams)
        Path(name) == LET Op(i) == <<Drop(<<name, i>>)>> IN Down(Op, 2)
    IN <<Raise("cancel", R("focus")), Join(R("focus")), Drop(R("lens")),
         Raise("thermal_stop", R("thermal")), Join(R("thermal")),
         Drop(R("raw_server")), Drop(R("raw_file")),
         Drop(R("latest")), Raise("stop", R("capture")), Join(R("capture")),
         Drop(R("live")), Drop(R("proxy")), Drop(R("rtsp"))>>
       \o Encoders("recv") \o Encoders("bind") \o Encoders("chn")
       \o <<Drop(R("scene")), Drop(R("thermal_vpss"))>>
       \o Path("vpss") \o Path("vi_vpss") \o Path("vi") \o <<Free(R("sys"), R("sys_started"))>>

-----------------------------------------------------------------------------
\* The Z1-Mini's capture helper, a process of its own
\* (backends/z1mini/ax_capture.c: main).  A call that the vendor's libraries lack
\* ends the helper in sym(), which cleans nothing up: not modelled.
AX_claim ==
    LET Or_exit(r) == StepOf("exit", {R(r)}, {})
    IN <<Or_exit("output"), Early, Or_exit("lock"), Early, Or_exit("libs")>>
AX_front_end ==
    <<Got(R("sys")), MustCall, Got(R("vin")), Got(R("mipi")), Got(R("npu")), MustCall, Got(R("pool")), MustCall, MustCall,
      Get(R("vin_pipe"), R("created")), MustCall, Got(R("sensor")), MustCall, Got(R("clock"))>> \o Tries(6)
    \o <<Get(R("isp"), R("isp_open")), Got(R("ae_sensor")), Got(R("ae")), Got(R("awb")),
         Got(R("raw_pool")), MustCall, Get(R("vin_run"), R("vin_started")), Get(R("dev"), R("dev_enabled")),
         Get(R("stream"), R("stream_on")), MustCall, Spawn(R("isp_thread"))>>
AX_encoders ==
    LET Encoder(i) == <<Own(<<"chn", i>>), Own(<<"recv", i>>)>>
    IN <<Got(R("venc"))>> \o ForAll(Encoder, Streams)
AX_workers_quiet ==
    LET Worker(i) == <<Spawn(<<"encode", i>>)>>
    IN <<StepOf("mayspawn", {R("exposure")}, {R("exposure")})>> \o ForAll(Worker, Streams)
AX_workers ==
    LET Worker(i) == <<StepOf("worker", {<<"encode", i>>}, {<<"encode", i>>})>>
    IN <<StepOf("mayspawn", {R("exposure")}, {R("exposure")})>> \o ForAll(Worker, Streams)

\* The main thread joins the encoders it started and only then cleans up.
AX_cleanup ==
    LET Worker(i) == <<Join(<<"encode", i>>)>>
        Encoder(i) == <<Drop(<<"recv", i>>), Drop(<<"chn", i>>)>>
        Part(names, n) == [i \in DOMAIN names |-> Free(R(names[i]), n)]
    IN ForAll(Worker, Streams) \o <<Raise("stop", always), Join(R("exposure"))>>
       \o ForAll(Encoder, Streams)
       \o Part(<<"stream">>, R("stream_on")) \o Part(<<"dev">>, R("dev_enabled"))
       \o Part(<<"vin_run">>, R("vin_started")) \o <<Join(R("isp_thread"))>>
       \o Part(<<"ae", "awb", "ae_sensor", "isp">>, R("isp_open"))
       \o Part(<<"sensor", "clock", "vin_pipe">>, R("created"))
       \o Part(<<"vin", "mipi", "raw_pool", "pool", "output">>, always)

-----------------------------------------------------------------------------
\* The application: main opens its parts, publishes that it is ready, runs
\* its loop and closes in reverse; autorecord and manual control are optional.
App_open ==
    <<Early, Early, Own(R("vendor_server")), Opt(R("binlog")), Opt(R("network")),
      Own(R("media")), Own(R("backend")), MustCall, Own(R("mavlink")),
      Opt(R("manual")), Opt(R("recording")), Own(R("ready"))>>
App_close ==
    <<Free(R("ready"), always), Drop(R("manual")), Drop(R("mavlink")),
      Drop(R("backend")), Drop(R("recording")), Drop(R("media")),
      Drop(R("binlog")), Drop(R("vendor_server"))>>

-----------------------------------------------------------------------------
OpenSteps(t) ==
    CASE t = "app" -> App_open
      [] t = "mt11" -> MT_media_open
      [] t = "a8" -> A8_media_open
      [] t = "zr10" -> ZR_media_open
      [] t = "ax" -> AX_claim \o AX_front_end \o AX_encoders \o AX_workers

CloseSteps(t) ==
    CASE t = "app" -> App_close
      [] t = "mt11" -> MT_media_cleanup
      [] t = "a8" -> A8_media_cleanup
      [] t = "zr10" -> ZR_media_cleanup
      [] t = "ax" -> AX_cleanup

\* Which flag ends which thread, and the threads that end by themselves and
\* raise it for the others (a failed or finished encoder of the helper).
StopFlag(r) ==
    CASE r = R("focus") -> R("cancel")
      [] r = R("thermal") -> R("thermal_stop")
      [] OTHER -> R("stop")
Workers == {<<"encode", i>> : i \in 1 .. Streams}
GivesUp(t) ==
    CASE t = "zr10" -> {R("capture")}
      [] t = "ax" -> {R("exposure")} \cup Workers
      [] t = "mt11" -> {R("focus")}
      [] OTHER -> {}

BringUpInit ==
    /\ target \in Targets
    /\ phase = "closed"
    /\ todo = <<>>
    /\ held = {}
    /\ known = {}
    /\ alive = {}
    /\ raised = {}
    /\ opens = 0

\* A fresh structure: every note and flag is cleared.
Open ==
    /\ phase = "closed" /\ opens < MaxOpens
    /\ phase' = "opening" /\ todo' = OpenSteps(target)
    /\ known' = {} /\ raised' = {} /\ opens' = opens + 1
    /\ UNCHANGED <<target, held, alive>>

CleanUp ==
    /\ phase' = "closing" /\ todo' = CloseSteps(target)
    /\ UNCHANGED <<target, held, known, alive, opens>>

\* A vendor call, an open or a pthread_create, and the note of its success.
Succeed ==
    /\ phase = "opening" /\ todo # <<>>
    /\ LET s == Head(todo) IN
        /\ held' = held \cup s.res
        /\ known' = known \cup s.notes
        /\ alive' = IF s.kind \in {"spawn", "mayspawn", "worker"} THEN alive \cup s.res ELSE alive
    /\ todo' = Tail(todo)
    /\ UNCHANGED <<target, phase, raised, opens>>

Fail ==
    /\ phase = "opening" /\ todo # <<>>
    /\ Head(todo).kind \in {"must", "spawn", "worker"}
    /\ raised' = IF Head(todo).kind = "worker" THEN raised \cup {R("stop")} ELSE raised
    /\ CleanUp

\* A return before anything needs undoing; the process ends with it.
FailEarly ==
    /\ phase = "opening" /\ todo # <<>>
    /\ Head(todo).kind = "exit"
    /\ phase' = "closed" /\ todo' = <<>>
    /\ UNCHANGED <<target, held, known, alive, raised, opens>>

Skip ==
    /\ phase = "opening" /\ todo # <<>>
    /\ Head(todo).kind \in {"may", "mayspawn"}
    /\ todo' = Tail(todo)
    /\ UNCHANGED <<target, phase, held, known, alive, raised, opens>>

OpenDone ==
    /\ phase = "opening" /\ todo = <<>>
    /\ phase' = "open"
    /\ UNCHANGED <<target, todo, held, known, alive, raised, opens>>

\* While the MT11 is open a command may start a focus thread (one whose
\* predecessor is joined first), if the lens could be opened.
StartFocus ==
    /\ phase = "open" /\ target = "mt11" /\ R("lens") \in held
    /\ R("focus") \notin alive
    /\ held' = held \cup {R("focus")}
    /\ known' = known \cup {R("focus")}
    /\ alive' = alive \cup {R("focus")}
    /\ UNCHANGED <<target, phase, todo, raised, opens>>

\* The owner closes.  The helper's main thread joins its encoders first.
Close ==
    /\ phase = "open"
    /\ target = "ax" => alive \cap Workers = {}
    /\ raised' = raised
    /\ CleanUp

\* SIGTERM to the helper.
Signal ==
    /\ target = "ax" /\ phase \in {"opening", "open"} /\ R("stop") \notin raised
    /\ raised' = raised \cup {R("stop")}
    /\ UNCHANGED <<target, phase, todo, held, known, alive, opens>>

\* Threads test their flag every time round.
Stops(r) ==
    /\ r \in alive /\ StopFlag(r) \in raised
    /\ alive' = alive \ {r}
    /\ UNCHANGED <<target, phase, todo, held, known, raised, opens>>

EndsItself(r) ==
    /\ r \in alive \cap GivesUp(target)
    /\ alive' = alive \ {r}
    /\ raised' = IF target = "ax" THEN raised \cup {StopFlag(r)} ELSE raised
    /\ UNCHANGED <<target, phase, todo, held, known, opens>>

UndoStep ==
    /\ phase = "closing" /\ todo # <<>>
    /\ LET s == Head(todo)
           on == s.note = always \/ s.note \in known IN
        /\ s.act = "join" /\ on => s.res \notin alive
        /\ held' = IF on /\ s.act # "raise" THEN held \ {s.res} ELSE held
        /\ raised' = IF on /\ s.act = "raise" THEN raised \cup {s.res} ELSE raised
    /\ todo' = Tail(todo)
    /\ UNCHANGED <<target, phase, known, alive, opens>>

CloseDone ==
    /\ phase = "closing" /\ todo = <<>>
    /\ phase' = "closed"
    /\ UNCHANGED <<target, todo, held, known, alive, raised, opens>>

BringUpNext ==
    \/ Open \/ Succeed \/ Fail \/ FailEarly \/ Skip \/ OpenDone
    \/ StartFocus \/ Close \/ Signal
    \/ \E r \in alive : Stops(r) \/ EndsItself(r)
    \/ UndoStep \/ CloseDone

\* The cleaning thread runs, and a thread whose flag is up comes to test it.
BringUpSpec ==
    /\ BringUpInit /\ [][BringUpNext]_bringUpVars
    /\ WF_bringUpVars(UndoStep) /\ WF_bringUpVars(CloseDone)
    /\ WF_bringUpVars(\E r \in alive : Stops(r))

-----------------------------------------------------------------------------
\* What a resource stands on: pairs <<user, used>>.
StandsOn(t) ==
    LET PerStream(a, b) == {<<<<a, i>>, <<b, i>>>> : i \in 1 .. Streams}
        All(r, name) == {<<r, <<name, i>>>> : i \in 1 .. Streams}
        Encoders == PerStream("bind", "chn") \cup PerStream("recv", "chn")
        Capture == All(R("capture"), "chn")
                   \cup {<<R("capture"), R("rtsp")>>, <<R("capture"), R("live")>>}
        Chain(q) == {<<R(q[i]), R(q[i + 1])>> : i \in 1 .. Len(q) - 1}
    IN CASE t = "a8" -> Encoders \cup PerStream("fd", "chn") \cup Capture
                \cup Chain(<<"mjpg_bind", "mjpg", "mjpg_device">>)
                \cup PerStream("chn", "port")
                \cup Chain(<<"isp_scl", "scl_run", "scl_channel", "scl_device">>)
                \cup Chain(<<"vif_isp", "isp_port", "isp_run", "isp_channel", "isp_device", "vif_port",
                             "vif_device", "vif_group", "sensor", "sys", "libs">>)
         [] t = "zr10" -> Encoders \cup PerStream("fd", "chn") \cup Capture
                \cup PerStream("bind", "port")
                \cup Chain(<<"front", "vpe_run", "vpe", "vif_port", "vif_device", "sensor",
                             "sys", "libs", "lock">>)
         [] t = "mt11" -> Encoders \cup Capture \cup Chain(<<"focus", "lens">>)
                \cup {<<R("thermal"), R(x)>> : x \in {"latest", "raw_file", "raw_server", "thermal_vpss"}}
                \cup {<<<<"vi_vpss", i>>, <<"vi", i>>>> : i \in 1 .. 2}
                \cup {<<<<"vi", i>>, R("sys")>> : i \in 1 .. 2}
         [] t = "ax" -> PerStream("recv", "chn") \cup PerStream("encode", "recv")
                \cup Chain(<<"exposure", "output">>)
                \cup Chain(<<"isp_thread", "isp", "vin_pipe", "vin", "sys", "libs", "lock">>)
                \cup Chain(<<"stream", "dev", "vin_run", "isp">>)
         [] t = "app" -> Chain(<<"ready", "mavlink", "backend", "media">>)
                \cup Chain(<<"backend", "vendor_server">>) \cup Chain(<<"manual", "mavlink">>)
                \cup Chain(<<"recording", "media">>)

\* What the clean-up code leaves to the end of the process: libraries and the
\* MJPEG device the A8 notes only with the channel made on it, the system the
\* MT11 initialised just before the next call failed, and what the helper
\* never gives back.
Leftover(t) ==
    CASE t = "a8" -> {R("libs"), R("mjpg_device")}
      [] t = "mt11" -> {R("sys")}
      [] t = "ax" -> {R(x) : x \in {"output", "lock", "libs", "sys", "npu", "venc"}}
      [] t = "app" -> {R("network")}
      [] OTHER -> {}

\* Nothing is used after what it stands on is gone, at no point of a bring-up
\* that failed halfway nor of a shutdown, and no thread outlives the device,
\* buffer or server it works on (the order of every clean-up routine).
Ordered == \A p \in StandsOn(target) : p[1] \in held \cup alive => p[2] \in held

\* Whichever call failed, the clean-up undoes exactly what was done: nothing
\* is left acquired but Leftover, and no thread is left running.
Released == phase = "closed" => held \subseteq Leftover(target) /\ alive = {}

\* Both at once: a clean-up takes away neither too much, too early nor too
\* little, whichever stage was reached (the close routines of all targets).
CleanedUp == Ordered /\ Released

\* Every clean-up ends: each thread it joins has been told to stop before.
CleanupEnds == phase = "closing" ~> phase = "closed"

=============================================================================
