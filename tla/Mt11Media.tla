------------------------------ MODULE Mt11Media ------------------------------
(***************************************************************************)
(* The MT11 media implementation as its commands change it (mt11/media.c)  *)
(* behind the stable handle that may close and reopen it (media/media.c).  *)
(*                                                                         *)
(* A command is a program: a sequence of vendor calls and of notes in the  *)
(* media structure.  A call carries what the code does instead when it     *)
(* fails (its goto label), and a call to a function of the source is a     *)
(* step that is replaced by that function's own program.  At most one call *)
(* fails per command: what a second failure, in the undoing of the first,  *)
(* leaves behind is unspecified by the code as well.                       *)
(*                                                                         *)
(* Beside the event loop run the encoder thread, which writes recordings,  *)
(* and the monitor that refreshes the cached thermal gain.                 *)
(***************************************************************************)
EXTENDS Integers, Sequences, FiniteSets, TLC

CONSTANTS
    Zooms,        \* system zooms that are asked for
    Crossover,    \* the first of them on the zoom lens
    Configs,      \* resolutions and codecs: each change reopens the pipeline
    Ports,        \* VPSS ports turned over by set_inverted
    MaxMediaCommands   \* bound: commands of the event loop

ASSUME MediaAssumption ==
    /\ 1 \in Zooms /\ Zooms \subseteq Nat /\ Crossover \in Nat \ {0, 1}
    /\ Ports \in Nat /\ MaxMediaCommands \in Nat

VARIABLES
    hw,        \* the vendor's side: bind, attr, run, optics, crop, flip, still
    gain,      \* the thermal module's gain
    impl,      \* struct ca_media_impl, .open is FALSE while there is none
    config,    \* media->config.settings
    inverted,  \* media->inverted
    rec,       \* recording: [on, part: 1..2 -> closed, wait, writing]
    mediaMain,      \* the command that runs: [cmd, todo, ok, fault]
    before,    \* impl, config and gain when it began
    stale,     \* what a failed command left unsettled: "view", "zoom", "flip", "gain"
    monitor,   \* monitor_controls: [pc, gen, value]
    cached,    \* [valid, gain, generation]
    mediaCommands
mediaVars == <<hw, gain, impl, config, inverted, rec, mediaMain, before, stale, monitor, cached, mediaCommands>>

Venc == {"main", "sub", "record"}
Tele(z) == z >= Crossover
Optical(z) == IF Tele(z) THEN z - Crossover + 1 ELSE 1
Digital(z) == IF Tele(z) THEN 1 ELSE z

-----------------------------------------------------------------------------
\* Steps.
Step(op, on, to, else) == [op |-> op, on |-> on, to |-> to, else |-> else]
Do(op, on, to) == Step(op, on, to, <<>>)
Note(what, value) == Do("note", what, value)
Fallible == {"unbind", "bind", "stop", "set", "start", "optics", "crop", "flip", "take", "try", "open", "gain"}
Macros == {"select_lens", "switch", "set_zoom", "set_inverted", "photo"}

\* Where an encoder gets its pictures for a selected group and slot choice.
Source(v, group, thermal) ==
    CASE v = "main" -> IF thermal THEN <<"thermal", "sub">> ELSE <<group, "main">>
      [] v = "sub" -> IF thermal THEN <<group, "sub">> ELSE <<"thermal", "sub">>
      [] v = "record" -> <<group, "record">>
Attr(v, thermal) ==
    CASE v = "main" -> IF thermal THEN "thermal" ELSE "rgb"
      [] v = "sub" -> IF thermal THEN "rgb" ELSE "thermal"
      [] v = "record" -> "rgb"

\* select_lens_locked: the slot that shows RGB, and the recording, move over
\* together; both unbinds are tried before either failure is looked at.
\* In mutant_select_lens the new slot stays bound when the recording fails.
mutant_select_lens(m, lens, else) ==
    LET old == m.group
        v == IF m.thermal THEN "sub" ELSE "main"
        from == Source(v, old, m.thermal)
        to == Source(v, lens, m.thermal)
        back == <<Do("bind", v, from), Do("bind", "record", <<old, "record">>)>> \o else
    IN (IF lens = old THEN <<>> ELSE
        <<Step("unbind", v, from, <<Do("unbind", "record", <<old, "record">>)>> \o back),
          Step("unbind", "record", <<old, "record">>, back),
          Step("bind", v, to, back),
          Step("bind", "record", <<lens, "record">>, back),
          Note("group", lens)>>)
       \o <<Note("hfov", lens)>>
select_lens(m, lens, else) ==
    LET old == m.group
        v == IF m.thermal THEN "sub" ELSE "main"
        from == Source(v, old, m.thermal)
        to == Source(v, lens, m.thermal)
        back == <<Do("bind", v, from), Do("bind", "record", <<old, "record">>)>> \o else
    IN (IF lens = old THEN <<>> ELSE
        <<Step("unbind", v, from, <<Do("unbind", "record", <<old, "record">>)>> \o back),
          Step("unbind", "record", <<old, "record">>, back),
          Step("bind", v, to, back),
          Step("bind", "record", <<lens, "record">>, <<Do("unbind", v, to)>> \o back),
          Note("group", lens)>>)
       \o <<Note("hfov", lens)>>

\* reconfigure_rtsp_venc: a failure puts the attributes back and restarts.
reconfigure(v, new, old, else) ==
    LET fix == <<Do("set", v, old), Do("start", v, "none")>> \o else
    IN <<Step("stop", v, "none", fix), Step("set", v, new, fix), Step("start", v, "none", fix),
         Do("noteattr", v, new)>>

\* switch_rtsp_sources_locked.
switch_sources(m, thermal, else) ==
    LET was == m.thermal
        Old(v) == Source(v, m.group, was)
        New(v) == Source(v, m.group, thermal)
        rollback == <<Do("bind", "main", Old("main")), Do("bind", "sub", Old("sub"))>> \o else
        restore == reconfigure("main", Attr("main", was), Attr("main", was), <<>>)
                   \o reconfigure("sub", Attr("sub", was), Attr("sub", was), <<>>) \o rollback
    IN IF was = thermal THEN <<>> ELSE
       <<Step("unbind", "main", Old("main"), else),
         Step("unbind", "sub", Old("sub"), <<Do("bind", "main", Old("main"))>> \o else)>>
       \o reconfigure("main", Attr("main", thermal), Attr("main", was), rollback)
       \o reconfigure("sub", Attr("sub", thermal), Attr("sub", was), restore)
       \o <<Step("bind", "main", New("main"), restore),
            Step("bind", "sub", New("sub"), <<Do("unbind", "main", New("main"))>> \o restore),
            Note("thermal", thermal)>>

\* ca_media_impl_set_zoom: the optics, the digital crop (whose failure moves
\* the optics to where media->zoom has them, back unless an earlier zoom was
\* not noted), the lens, RGB to the main slot, and only then the zoom.
set_zoom(m, z, else) ==
    LET lens == IF Tele(z) THEN "zoom" ELSE "wide" IN
    <<Step("optics", "none", Optical(z), <<Note("stale", "view")>> \o else)>>
    \o (IF Digital(z) = m.ratio[lens] THEN <<>> ELSE
        <<Step("crop", lens, Digital(z),
               <<Do("optics", "none", Optical(m.zoom)), Note("moved", "view")>> \o else),
          Do("noteratio", lens, Digital(z))>>)
    \o <<Step("select_lens", "none", lens, <<Note("stale", "view")>> \o else),
         Step("switch", "none", FALSE, <<Note("stale", "zoom")>> \o else),
         Note("zoom", z), Note("settled", "zoom"), Note("settled", "view")>>

\* ca_media_impl_set_inverted and ca_mt11_set_inverted: port after port, with
\* no way back for the ports that are done.
set_inverted(m, value, else) ==
    IF m.inverted = value THEN <<>> ELSE
    [i \in 1 .. Ports |-> Step("flip", i, value, <<Note("stale", "flip")>> \o else)]
    \o <<Note("inverted", value), Note("settled", "flip")>>

\* capture_group_jpeg for the groups that are left, then the raw thermal
\* frame: a failure is remembered, and the next picture taken all the same.
capture_photo(n) ==
    IF n = 0 THEN <<Do("try", "raw", "none")>> ELSE
    LET rest == <<Do("photo", "none", n - 1)>>
        done == <<Do("drop", "stream", "none"), Do("drop", "frame", "none"), Do("drop", "started", "none"), Do("drop", "chn", "none")>> \o rest
    IN <<Step("take", "chn", "none", done), Step("take", "started", "none", done), Step("take", "frame", "none", done),
         Step("try", "send", "none", done), Do("drop", "frame", "none"), Step("try", "query", "none", done),
         Step("take", "stream", "none", done), Step("try", "write", "none", done)>> \o done

\* What a macro step stands for when it is reached, m being the structure.
Expansion(m, s) ==
    CASE s.op = "select_lens" -> select_lens(m, s.to, s.else)
      [] s.op = "switch" -> switch_sources(m, s.to, s.else)
      [] s.op = "set_zoom" -> set_zoom(m, s.to, s.else)
      [] s.op = "set_inverted" -> set_inverted(m, s.to, s.else)
      [] s.op = "photo" -> capture_photo(s.to)

\* restore_controls with state, and ca_media_configure around it.  A failure
\* among the controls lets the others run before the pipeline is closed;
\* the close discards what they did, so they are left out here.
restore_controls(state, else) ==
    <<Step("set_inverted", "none", inverted, else), Step("select_lens", "none", state.lens, else),
      Step("switch", "none", FALSE, else), Step("set_zoom", "none", state.zoom, else)>>
    \o (IF state.thermal THEN <<Step("select_lens", "none", "zoom", else)>> ELSE <<>>)
    \o <<Step("switch", "none", state.thermal, else), Step("gain", "none", state.gain, else)>>

configure(c) ==
    LET state == IF impl.open
                 THEN [lens |-> impl.group, zoom |-> impl.zoom, thermal |-> impl.thermal, gain |-> gain]
                 ELSE [lens |-> "wide", zoom |-> 1, thermal |-> FALSE, gain |-> gain]
        rollback == <<Do("close", "none", "none"), Do("open", "none", config)>> \o restore_controls(state, <<>>)
                    \o <<Do("start_monitor", "none", "none")>>
    IN IF c = config /\ impl.open
       THEN <<Step("try", "apply_image", "none", <<Do("try", "apply_image", "none")>>)>>
       ELSE <<Do("stop_monitor", "none", "none"), Do("close", "none", "none"), Step("open", "none", c, rollback)>>
            \o restore_controls(state, rollback)
            \o <<Do("start_monitor", "none", "none"), Note("config", c)>>

-----------------------------------------------------------------------------
Closed == [open |-> FALSE, group |-> "wide", thermal |-> FALSE, zoom |-> 1, hfov |-> <<"wide", 1>>,
           ratio |-> [g \in {"wide", "zoom"} |-> 1], attr |-> [v \in Venc |-> Attr(v, FALSE)],
           inverted |-> FALSE, cfg |-> "none"]
Off == [bind |-> [v \in Venc |-> <<>>], attr |-> [v \in Venc |-> Attr(v, FALSE)], run |-> [v \in Venc |-> FALSE],
        optics |-> 1, crop |-> [g \in {"wide", "zoom"} |-> 1], flip |-> [p \in 1 .. Ports |-> FALSE], still |-> {}]
\* ca_media_impl_open and media_cleanup (their calls are those of BringUp).
Opened(c) == [Closed EXCEPT !.open = TRUE, !.cfg = c]
On == [Off EXCEPT !.bind = [v \in Venc |-> Source(v, "wide", FALSE)], !.run = [v \in Venc |-> TRUE]]

NoFiles == [on |-> FALSE, part |-> [i \in 1 .. 2 |-> "closed"]]
Ready == [cmd |-> "none", todo |-> <<>>, ok |-> TRUE, fault |-> FALSE]
MediaInit ==
    /\ config \in Configs /\ impl = Opened(config) /\ hw = On
    /\ gain = 0 /\ inverted = FALSE
    /\ rec = NoFiles
    /\ mediaMain = Ready /\ before = [impl |-> impl, config |-> config, gain |-> 0]
    /\ stale = {}
    /\ monitor = [pc |-> "test", gen |-> 0, value |-> 0]
    /\ cached = [valid |-> FALSE, gain |-> 0, generation |-> 0]
    /\ mediaCommands = 0

Idle == mediaMain.todo = <<>>
Command(name, program) ==
    /\ Idle /\ mediaCommands < MaxMediaCommands
    /\ mediaCommands' = mediaCommands + 1
    /\ mediaMain' = [cmd |-> name, todo |-> program, ok |-> TRUE, fault |-> FALSE]
    /\ before' = [impl |-> impl, config |-> config, gain |-> gain]
    /\ UNCHANGED <<hw, gain, impl, config, inverted, rec, stale, monitor, cached>>

\* The commands.  REQUIRE_IMPL refuses all but a configuration without a
\* pipeline, and a configuration is refused during a recording.
SetZoom == impl.open /\ \E z \in Zooms : Command("zoom", <<Do("set_zoom", "none", z)>>)
SetLens == impl.open /\ \E l \in {"wide", "zoom"} : Command("lens", <<Do("select_lens", "none", l), Do("switch", "none", FALSE)>>)
SetThermalMain ==
    impl.open /\ \E t \in BOOLEAN :
        Command("slots", (IF t THEN <<Do("select_lens", "none", "zoom")>> ELSE <<>>) \o <<Do("switch", "none", t)>>)
SetInverted ==
    impl.open /\ \E b \in BOOLEAN : Command("invert", <<Do("set_inverted", "none", b), Note("media_inverted", b)>>)
CapturePhoto == impl.open /\ \E n \in {0, 2} : Command("photo", <<Do("photo", "none", n)>>)
Configure ==
    \E c \in Configs :
        (c # config \/ ~impl.open => ~rec.on) /\ Command("configure", configure(c))
\* ca_media_set_thermal_gain: USB first, cache and generation under the lock.
SetGain == impl.open /\ \E g \in 0 .. 1 : Command("gain", <<Step("gain", "none", g, <<Note("stale", "gain")>>), Note("cached_gain", g), Note("settled", "gain")>>)

-----------------------------------------------------------------------------
\* Running a program.
Head1 == Head(mediaMain.todo)
Rest == [mediaMain EXCEPT !.todo = Tail(@)]
MediaAt(op) == ~Idle /\ Head1.op = op

Expand ==
    /\ ~Idle /\ Head1.op \in Macros
    /\ mediaMain' = [mediaMain EXCEPT !.todo = Expansion(impl, Head1) \o Tail(@)]
    /\ UNCHANGED <<hw, gain, impl, config, inverted, rec, before, stale, monitor, cached, mediaCommands>>

\* The effect of a vendor call; binding what is bound, or unbinding what is
\* not, is an error the code ignores where it can happen.
Effect(h, s) ==
    CASE s.op = "unbind" -> IF h.bind[s.on] = s.to THEN [h EXCEPT !.bind[s.on] = <<>>] ELSE h
      [] s.op = "bind" -> IF h.bind[s.on] = <<>> THEN [h EXCEPT !.bind[s.on] = s.to] ELSE h
      [] s.op = "stop" -> [h EXCEPT !.run[s.on] = FALSE]
      [] s.op = "set" -> [h EXCEPT !.attr[s.on] = s.to]
      [] s.op = "start" -> [h EXCEPT !.run[s.on] = TRUE]
      [] s.op = "optics" -> [h EXCEPT !.optics = s.to]
      [] s.op = "crop" -> [h EXCEPT !.crop[s.on] = s.to]
      [] s.op = "flip" -> [h EXCEPT !.flip[s.on] = s.to]
      [] s.op = "take" -> [h EXCEPT !.still = @ \cup {s.on}]
      [] s.op = "drop" -> [h EXCEPT !.still = @ \ {s.on}]
      [] s.op = "open" -> On
      [] s.op = "close" -> Off
      [] OTHER -> h

Call ==
    /\ ~Idle /\ Head1.op \in Fallible \cup {"drop", "close"}
    /\ hw' = Effect(hw, Head1)
    /\ gain' = IF MediaAt("gain") THEN Head1.to ELSE gain
    /\ impl' = CASE MediaAt("open") -> Opened(Head1.to) [] MediaAt("close") -> Closed [] OTHER -> impl
    /\ stale' = IF MediaAt("open") THEN {} ELSE stale
    /\ rec' = IF MediaAt("close") THEN NoFiles ELSE rec
    /\ mediaMain' = Rest
    /\ UNCHANGED <<config, inverted, before, monitor, cached, mediaCommands>>

\* The one call that fails.  The optics may stop on the way; a gain command
\* may have reached the module before the error.
CallFails ==
    /\ ~Idle /\ Head1.op \in Fallible /\ ~mediaMain.fault
    /\ hw' = IF MediaAt("optics") THEN [hw EXCEPT !.optics = 0] ELSE hw
    /\ gain' \in IF MediaAt("gain") THEN {gain, Head1.to} ELSE {gain}
    /\ impl' = IF MediaAt("open") THEN Closed ELSE impl
    /\ mediaMain' = [mediaMain EXCEPT !.todo = Head1.else, !.ok = FALSE, !.fault = TRUE]
    /\ UNCHANGED <<config, inverted, rec, before, stale, monitor, cached, mediaCommands>>

View(lens, optics, ratio) == IF lens = "zoom" THEN <<"zoom", optics, ratio["zoom"]>> ELSE <<"wide", ratio["wide"]>>
NoteStep ==
    /\ ~Idle /\ Head1.op \in {"note", "noteattr", "noteratio"}
    /\ LET s == Head1 IN
        /\ impl' = CASE s.op = "noteattr" -> [impl EXCEPT !.attr[s.on] = s.to]
                     [] s.op = "noteratio" -> [impl EXCEPT !.ratio[s.on] = s.to]
                     [] s.op = "note" /\ s.on = "hfov" -> [impl EXCEPT !.hfov = View(s.to, hw.optics, impl.ratio)]
                     [] s.op = "note" /\ s.on \in {"group", "thermal", "zoom", "inverted"} -> [impl EXCEPT ![s.on] = s.to]
                     [] OTHER -> impl
        /\ stale' = CASE s.on = "stale" -> stale \cup {s.to} [] s.on = "settled" -> stale \ {s.to}
                      [] s.on = "moved" /\ "zoom" \in stale -> stale \cup {s.to} [] OTHER -> stale
        /\ config' = IF s.on = "config" THEN s.to ELSE config
        /\ inverted' = IF s.on = "media_inverted" THEN s.to ELSE inverted
        /\ cached' = IF s.on = "cached_gain"
                     THEN [cached EXCEPT !.gain = s.to, !.generation = @ + 1] ELSE cached
    /\ mediaMain' = Rest
    /\ UNCHANGED <<hw, gain, rec, before, monitor, mediaCommands>>

\* stop_controls_monitor joins the thread; start_controls_monitor begins
\* with nothing cached.
StopMonitor ==
    /\ MediaAt("stop_monitor") /\ monitor.pc = "test"
    /\ monitor' = [monitor EXCEPT !.pc = "none"]
    /\ mediaMain' = Rest
    /\ UNCHANGED <<hw, gain, impl, config, inverted, rec, before, stale, cached, mediaCommands>>
StartMonitor ==
    /\ MediaAt("start_monitor")
    /\ monitor' = [monitor EXCEPT !.pc = IF impl.open THEN "test" ELSE "none"]
    /\ cached' = IF impl.open THEN [cached EXCEPT !.valid = FALSE] ELSE cached
    /\ mediaMain' = Rest
    /\ UNCHANGED <<hw, gain, impl, config, inverted, rec, before, stale, mediaCommands>>

-----------------------------------------------------------------------------
\* The monitor: remember the generation, read over USB with no lock held,
\* store unless a command came in between.
MonitorReads ==
    /\ monitor.pc = "test"
    /\ monitor' = [monitor EXCEPT !.pc = "read", !.gen = cached.generation]
    /\ UNCHANGED <<hw, gain, impl, config, inverted, rec, mediaMain, before, stale, cached, mediaCommands>>
MonitorRead ==
    /\ monitor.pc = "read"
    /\ \/ monitor' = [monitor EXCEPT !.pc = "store", !.value = gain]
       \/ monitor' = [monitor EXCEPT !.pc = "test"]     \* the query failed
    /\ UNCHANGED <<hw, gain, impl, config, inverted, rec, mediaMain, before, stale, cached, mediaCommands>>
MonitorStores ==
    /\ monitor.pc = "store"
    /\ monitor' = [monitor EXCEPT !.pc = "test"]
    /\ cached' = IF monitor.gen = cached.generation
                 THEN [cached EXCEPT !.valid = TRUE, !.gain = monitor.value] ELSE cached
    /\ stale' = IF cached'.gain = gain THEN stale \ {"gain"} ELSE stale
    /\ UNCHANGED <<hw, gain, impl, config, inverted, rec, mediaMain, before, mediaCommands>>

-----------------------------------------------------------------------------
\* Recording, under media->lock (which zoom, lens and slot commands hold).
LockFree == Idle

\* ca_media_impl_set_recording: both files or none.
StartRecording ==
    /\ LockFree /\ impl.open /\ ~rec.on /\ mediaCommands < MaxMediaCommands
    /\ mediaCommands' = mediaCommands + 1
    /\ \/ rec' = [on |-> TRUE, part |-> [i \in 1 .. 2 |-> "wait"]]   \* opened both
       \/ rec' = rec                  \* no path, the first file, or the second (the first is removed)
    /\ UNCHANGED <<hw, gain, impl, config, inverted, mediaMain, before, stale, monitor, cached>>
StopRecording ==
    /\ LockFree /\ rec.on /\ mediaCommands < MaxMediaCommands
    /\ mediaCommands' = mediaCommands + 1
    /\ rec' = NoFiles
    /\ UNCHANGED <<hw, gain, impl, config, inverted, mediaMain, before, stale, monitor, cached>>

\* consume_frame of a recording channel: nothing before a keyframe, and a
\* write that fails ends both files.
consume_frame(i, key) ==
    /\ LockFree /\ rec.on
    /\ LET writes == rec.part[i] = "writing" \/ key IN
        \/ rec' = [rec EXCEPT !.part[i] = IF writes THEN "writing" ELSE @]
        \/ writes /\ rec' = NoFiles
    /\ UNCHANGED <<hw, gain, impl, config, inverted, mediaMain, before, stale, monitor, cached, mediaCommands>>

MediaNext ==
    \/ SetZoom \/ SetLens \/ SetThermalMain \/ SetInverted \/ CapturePhoto \/ Configure \/ SetGain
    \/ Expand \/ Call \/ CallFails \/ NoteStep \/ StopMonitor \/ StartMonitor
    \/ MonitorReads \/ MonitorRead \/ MonitorStores
    \/ StartRecording \/ StopRecording \/ \E i \in 1 .. 2, key \in BOOLEAN : consume_frame(i, key)
MediaSpec == MediaInit /\ [][MediaNext]_mediaVars

-----------------------------------------------------------------------------
\* What the structure says is what the hardware does: after any command, also
\* one in which a vendor call failed, every encoder runs, with the attributes
\* and from the source that selected_group and thermal_main name, the crops
\* are the noted ones, and nothing of the still channel is left (the roll-back
\* labels of select_lens, switch_rtsp_sources and capture_group_jpeg).
Consistent ==
    Idle /\ impl.open =>
        /\ \A v \in Venc : /\ hw.run[v]
                           /\ hw.bind[v] = Source(v, impl.group, impl.thermal)
                           /\ hw.attr[v] = impl.attr[v] /\ impl.attr[v] = Attr(v, impl.thermal)
        /\ hw.crop = impl.ratio /\ hw.still = {}
        /\ "flip" \notin stale => \A p \in 1 .. Ports : hw.flip[p] = impl.inverted

\* The field of view that goes into every picture's metadata is the one of the
\* lens, optics and crop in use, unless a zoom command failed on its way, or
\* one did after noting its crop and lens but not its zoom and the next one
\* moved the optics to the zoom that was noted before (select_lens_locked is
\* the only place that computes it).
ViewHonest ==
    Idle /\ impl.open /\ "view" \notin stale => impl.hfov = View(impl.group, hw.optics, hw.crop)

\* What the metadata promise without an exception: hfov_deg is the effective
\* field of view of the stream, optical zoom and crop included, whenever it
\* is known where the optics stand.
ViewReported ==
    Idle /\ impl.open /\ hw.optics # 0 => impl.hfov = View(impl.group, hw.optics, hw.crop)

\* A configuration takes effect as a whole or not at all: after one failure the
\* old pipeline runs again, and either way zoom and slots are what they were
\* (ca_media_configure and its roll-back).
ConfiguresOrRestores ==
    Idle /\ mediaMain.cmd = "configure" /\ before.impl.open =>
        /\ impl.open /\ impl.cfg = config
        /\ ~mediaMain.ok => config = before.config
        /\ impl.zoom = before.impl.zoom /\ impl.thermal = before.impl.thermal

\* The two files of a recording are open together or not at all, whatever
\* order of writes, failures, stops and reopened pipelines.
RecordingWhole == \A i \in 1 .. 2 : (rec.part[i] # "closed") <=> (rec.on /\ impl.open)

\* A poll that began before a command never overwrites its result: between
\* commands the cached gain is the module's, until a gain command fails, and
\* again once a later poll has stored what it read (controls_generation).
CacheHonest == Idle /\ cached.valid /\ "gain" \notin stale => cached.gain = gain

\* What the media say of the camera (configuration, sources, attributes and crops of the
\* encoders, field of view, recording, gain) is so, after every command that
\* succeeded and every one that failed halfway.
Mt11Honest ==
    Consistent /\ ViewHonest /\ ConfiguresOrRestores /\ RecordingWhole /\ CacheHonest
=============================================================================
