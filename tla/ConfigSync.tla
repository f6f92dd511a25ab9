------------------------------ MODULE ConfigSync ------------------------------
(***************************************************************************)
(* camera.ini between its writers and its reader.  The web service and     *)
(* PARAM_SET replace the file by rename (save_config in mt11-web.c,        *)
(* save_field in config.c); the application polls it and applies what      *)
(* changed while it runs (reload_config in mavlink_server.c), and reports  *)
(* in a status file, which the web worker waits for.                       *)
(*                                                                         *)
(* A text has three settings, one of each kind: "auto", whether to record, *)
(* which can always be applied; "format", a video format, which cannot     *)
(* while recording; "mount", which needs a restart.                        *)
(***************************************************************************)
EXTENDS Integers

CONSTANTS
    Editors,    \* web workers that save camera.ini
    MaxSaves,   \* bound: texts saved by them
    MaxSets,    \* bound: PARAM_SETs
    MaxToggles, \* bound: recordings started or stopped by an operator
    MaxErrors   \* bound: failures of the media backend or of a save

ASSUME ConfigSyncAssumption == {MaxSaves, MaxSets, MaxToggles, MaxErrors} \subseteq Nat

VARIABLES
    ini,        \* [text, id]: the file, id its inode
    settings,   \* what the application runs with
    saved,      \* server->parameters
    reader,     \* [pc, before, text, hash, seen, pending, undo, was, lost]: the event
                \* loop; lost: an undo failed and what runs is not what is saved
    status,     \* [hash, state]: the status file
    recording,
    editor,     \* [Editors -> [pc, text]]
    inodes, saves, sets, toggles, errors

configVars == <<ini, settings, saved, reader, status, recording, editor, inodes, saves, sets, toggles, errors>>

Bit == {0, 1}
Invalid == [auto |-> 0, format |-> 0, mount |-> 0, valid |-> FALSE]
Default == [auto |-> 0, format |-> 0, mount |-> 0, valid |-> TRUE]

ConfigInit ==
    /\ ini = [text |-> Default, id |-> 1]
    /\ settings = Default /\ saved = Default
    /\ reader = [pc |-> "poll", before |-> 0, text |-> Default, hash |-> Default, seen |-> 0, pending |-> FALSE,
                 undo |-> Default, was |-> FALSE, lost |-> FALSE]
    /\ status = [hash |-> Invalid, state |-> "none"]
    /\ recording = FALSE
    /\ editor = [w \in Editors |-> [pc |-> "idle", text |-> Default]]
    /\ inodes = 1 /\ saves = 0 /\ sets = 0 /\ toggles = 0 /\ errors = 0

-----------------------------------------------------------------------------
\* Applying.

\* ca_media_configure answers EBUSY to a new format while recording.  A
\* change of the recording mode starts or stops the recording.
Busy(next, rec) == next.format # settings.format /\ rec
Records(from, next, rec) == IF next.auto # from.auto THEN next.auto = 1 ELSE rec
apply_runtime_config(next, result) ==
    CASE result = "ok" -> /\ ~Busy(next, recording)
                          /\ settings' = next /\ recording' = Records(settings, next, recording)
                          /\ UNCHANGED errors
      [] result = "busy" -> Busy(next, recording) /\ UNCHANGED <<settings, recording, errors>>
      [] result = "error" -> /\ ~Busy(next, recording) /\ errors < MaxErrors
                             /\ errors' = errors + 1 /\ UNCHANGED <<settings, recording>>
Results == {"ok", "busy", "error"}

-----------------------------------------------------------------------------
\* reload_config, every 500 ms: stat, load, hash, stat.

ReaderAt(pc) == reader.pc = pc
Polling == [reader EXCEPT !.pc = "poll", !.before = 0, !.text = Default, !.hash = Default, !.undo = Default, !.was = FALSE]
Stat ==
    /\ ReaderAt("poll") /\ (reader.pending \/ ini.id # reader.seen)
    /\ reader' = [reader EXCEPT !.pc = "load", !.before = ini.id]
    /\ UNCHANGED <<ini, settings, saved, status, recording, editor, inodes, saves, sets, toggles, errors>>
ca_config_load ==
    /\ ReaderAt("load")
    /\ reader' = [reader EXCEPT !.pc = "hash", !.text = ini.text]
    /\ UNCHANGED <<ini, settings, saved, status, recording, editor, inodes, saves, sets, toggles, errors>>
apcam_config_file_hash ==
    /\ ReaderAt("hash")
    /\ reader' = [reader EXCEPT !.pc = "apply", !.hash = ini.text]
    /\ UNCHANGED <<ini, settings, saved, status, recording, editor, inodes, saves, sets, toggles, errors>>

same_config_file == ini.id = reader.before
Changed ==
    /\ ReaderAt("apply") /\ ~same_config_file
    /\ reader' = Polling
    /\ UNCHANGED <<ini, settings, saved, status, recording, editor, inodes, saves, sets, toggles, errors>>
config_status(state) == status' = [hash |-> reader.hash, state |-> state]
\* In mutant_Noted a format that has to wait is not remembered.
mutant_Noted(pending) == [Polling EXCEPT !.seen = ini.id, !.pending = FALSE]
Noted(pending) == [Polling EXCEPT !.seen = ini.id, !.pending = pending]
Rejected ==
    /\ ReaderAt("apply") /\ same_config_file /\ ~reader.text.valid
    /\ reader' = Noted(FALSE) /\ config_status("error")
    /\ UNCHANGED <<ini, settings, saved, recording, editor, inodes, saves, sets, toggles, errors>>
\* First what is cheap, then the format.  The mount stays as it runs.
Live == [reader.text EXCEPT !.format = settings.format, !.mount = settings.mount]
ApplyLive ==
    /\ ReaderAt("apply") /\ same_config_file /\ reader.text.valid
    /\ saved' = reader.text
    /\ \E r \in {"ok", "error"} :
        /\ apply_runtime_config(Live, r)
        /\ IF r = "ok" THEN reader' = [reader EXCEPT !.pc = "format", !.seen = ini.id, !.pending = FALSE, !.lost = FALSE] /\ UNCHANGED status
           ELSE reader' = Noted(FALSE) /\ config_status("error")
    /\ UNCHANGED <<ini, editor, inodes, saves, sets, toggles>>
\* The file may be replaced again while this runs; seen is the inode loaded.
ApplyFormat ==
    /\ ReaderAt("format")
    /\ \E r \in Results :
        /\ apply_runtime_config([Live EXCEPT !.format = reader.text.format], r)
        /\ reader' = [Noted(r = "busy") EXCEPT !.seen = reader.seen]
        /\ config_status(CASE r = "busy" -> "pending" [] r = "error" -> "error"
                           [] r = "ok" -> IF reader.text.mount # settings.mount THEN "restart" ELSE "applied")
    /\ UNCHANGED <<ini, saved, editor, inodes, saves, sets, toggles>>

-----------------------------------------------------------------------------
\* PARAM_SET and PARAM_EXT_SET of a live setting (handle_parameter,
\* apply_camera_config): applied, then saved; undone when it cannot be saved.

With(text, name, value) == [text EXCEPT ![name] = value]
ApplySet ==
    /\ ReaderAt("poll") /\ sets < MaxSets
    /\ sets' = sets + 1
    /\ saved' = IF ini.text.valid THEN ini.text ELSE saved
    /\ \E name \in {"auto", "format", "mount"}, value \in Bit :
        LET go == [reader EXCEPT !.pc = "edit", !.undo = settings, !.was = recording, !.text = [name |-> name, value |-> value]] IN
        IF name = "mount" THEN reader' = go /\ UNCHANGED <<settings, recording, errors>>
        ELSE \E r \in Results :
                /\ apply_runtime_config(With(settings, name, value), r)
                /\ reader' = IF r = "ok" THEN go ELSE reader
    /\ UNCHANGED <<ini, status, editor, inodes, saves, toggles>>
\* ca_config_param_save reads the file as it is now and replaces one key.  It
\* reads twice, to check the value and to copy the lines (config.c: save_field);
\* the second read is the one kept, no property reads the settings of the first.
ReadSet ==
    /\ ReaderAt("edit") /\ ini.text.valid
    /\ reader' = [reader EXCEPT !.pc = "rename", !.text = With(ini.text, reader.text.name, reader.text.value)]
    /\ UNCHANGED <<ini, settings, saved, status, recording, editor, inodes, saves, sets, toggles, errors>>
Install(text) == ini' = [text |-> text, id |-> inodes + 1] /\ inodes' = inodes + 1
save_field ==
    /\ ReaderAt("rename")
    /\ Install(reader.text)
    /\ saved' = reader.text
    /\ reader' = Polling
    /\ UNCHANGED <<settings, status, recording, editor, saves, sets, toggles, errors>>
\* A failure of the undo itself is only logged.
Undone(ok) ==
    IF ok THEN settings' = reader.undo /\ recording' = reader.was /\ reader' = Polling
    ELSE UNCHANGED <<settings, recording>> /\ reader' = [Polling EXCEPT !.lost = TRUE]
UndoSet ==
    /\ \E save \in BOOLEAN, ok \in BOOLEAN :
        /\ \/ save /\ reader.pc \in {"edit", "rename"}
           \/ ~save /\ ReaderAt("edit") /\ ~ini.text.valid
        /\ errors' = errors + (IF save THEN 1 ELSE 0) + (IF ok THEN 0 ELSE 1) /\ errors' <= MaxErrors
        /\ (ok \/ reader.undo # settings) /\ Undone(ok)
    /\ UNCHANGED <<ini, saved, status, editor, inodes, saves, sets, toggles>>

\* An operator records or stops; the event loop does it between the steps.
Toggle ==
    /\ ReaderAt("poll") /\ toggles < MaxToggles
    /\ toggles' = toggles + 1 /\ recording' = ~recording
    /\ UNCHANGED <<ini, settings, saved, reader, status, editor, inodes, saves, sets, errors>>

-----------------------------------------------------------------------------
\* The web worker: any text, or the text it read with one setting changed.

Begin(w) ==
    /\ editor[w].pc = "idle" /\ saves < MaxSaves
    /\ saves' = saves + 1
    /\ \E t \in {Invalid} \cup {With(ini.text, n, v) : n \in {"auto", "format", "mount"}, v \in Bit} :
        editor' = [editor EXCEPT ![w] = [pc |-> "save", text |-> t]]
    /\ UNCHANGED <<ini, settings, saved, reader, status, recording, inodes, sets, toggles, errors>>
SaveText(w) ==
    /\ editor[w].pc = "save"
    /\ Install(editor[w].text)
    /\ editor' = [editor EXCEPT ![w].pc = "wait"]
    /\ UNCHANGED <<settings, saved, reader, status, recording, saves, sets, toggles, errors>>
\* wait_live_config: three seconds for a report about the bytes just saved.
wait_live_config(w) ==
    /\ editor[w].pc = "wait"
    /\ editor' = [editor EXCEPT ![w] = [pc |-> "idle", text |-> Default]]
    /\ UNCHANGED <<ini, settings, saved, reader, status, recording, inodes, saves, sets, toggles, errors>>

ReaderStep ==
    \/ Stat \/ ca_config_load \/ apcam_config_file_hash \/ Changed \/ Rejected \/ ApplyLive \/ ApplyFormat
    \/ ReadSet \/ save_field \/ UndoSet
ConfigNext ==
    \/ ReaderStep \/ ApplySet \/ Toggle
    \/ \E w \in Editors : Begin(w) \/ SaveText(w) \/ wait_live_config(w)
ConfigFairness == WF_configVars(ReaderStep)
ConfigSpec == ConfigInit /\ [][ConfigNext]_configVars /\ ConfigFairness

-----------------------------------------------------------------------------
\* What the status file says of the text in camera.ini is true: "applied"
\* and "restart" mean that every live setting runs as saved, "pending" that
\* all but the format do, and only a wait for a restart leaves the mount.
\* Unless the undo of a PARAM_SET failed, which the code only logs.
Agrees(names) == \A n \in names : settings[n] = ini.text[n]
ReportHonest ==
    ReaderAt("poll") /\ ~reader.lost /\ reader.seen = ini.id /\ status.hash = ini.text =>
        CASE status.state = "applied" -> Agrees({"auto", "format", "mount"})
          [] status.state = "restart" -> Agrees({"auto", "format"}) /\ ~Agrees({"mount"})
          [] status.state = "pending" -> Agrees({"auto"})
          [] OTHER -> TRUE

\* Once nobody saves any more, a valid text is applied, whatever was replaced
\* under the reader's hands; only a format may wait, and only for a recording
\* to end (reload_config, config_pending).
Converges ==
    <>[](\/ Agrees({"auto"}) /\ (Agrees({"format"}) \/ recording)
         \/ ~ini.text.valid \/ errors > 0)

\* The running camera follows camera.ini, and says so only when it does
\* (reload_config, config_status).
ConfigSynced == []ReportHonest /\ Converges
=============================================================================
