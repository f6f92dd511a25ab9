------------------------------ MODULE WebAccess ------------------------------
(***************************************************************************)
(* The web administration service (web/mt11-web.c): one forked process for *)
(* each connection, and the files these workers share.                     *)
(*                                                                         *)
(*  - login sessions, in a RAM file rewritten in place under flock;        *)
(*  - the admin password and the authorized SSH keys, replaced by rename   *)
(*    under the lock of the user files; the keys have a copy in RAM;       *)
(*  - camera.ini and its backup, replaced by rename, without a lock;       *)
(*  - firmware images, uploaded under a temporary name and published.      *)
(*                                                                         *)
(* A request is a program, a sequence of steps that each stand for one     *)
(* system call or one read under a lock.  A file on flash has the content  *)
(* that processes see, and the set of contents that a power cut may leave. *)
(***************************************************************************)
EXTENDS Integers, Sequences, SequencesExt, FiniteSets

CONSTANTS
    Workers,        \* HTTP worker processes
    Keys,           \* SSH public keys; Root, one of them, is installed
    Root,
    Images,         \* names of firmware images
    CardFiles,      \* files of the configuration beneath MEDIA_ROOT: all on
                    \* the ZR10, none on the other cameras
    MaxSessions,    \* MAX_SESSIONS
    Lifetime,       \* SESSION_LIFETIME_SECONDS, in ticks
    MaxNow,         \* bound: ticks of the clock
    MaxRequests,    \* bound: requests
    MaxFaults       \* bound: failing system calls and power cuts

ASSUME WebAccessAssumption ==
    /\ Root \in Keys
    /\ {"torn", "absent"} \cap (Keys \cup Images) = {} /\ "free" \notin Workers
    /\ CardFiles \subseteq {<<f, "">> : f \in {"password", "config", "backup"}}
    /\ {MaxSessions, Lifetime} \subseteq Nat \ {0} /\ {MaxNow, MaxRequests, MaxFaults} \subseteq Nat

VARIABLES
    worker,     \* [Workers -> [req, arg, todo, copy, list]]: the steps to do,
                \* the file content and the session list it holds
    sessions,   \* the session file: sequence of [token, expiry]
    torn,       \* the session file was truncated and not rewritten
    file,       \* [file name -> content]
    after,      \* [file name -> contents a power cut may leave]
    lock,       \* [lock name -> holder, or "free"]
    now,        \* CLOCK_MONOTONIC
    ghost,      \* what was answered: see Answered
    requests, faults

accessVars == <<worker, sessions, torn, file, after, lock, now, ghost, requests, faults>>
disk == <<file, after>>

Torn == {"torn"}        \* a file whose data a power cut cut short
Absent == {"absent"}
Whole(c) == c \notin {Torn, Absent}
Temp(w) == <<"temp", w>>
Image(i) == <<"image", i>>
ImageTemp(i) == <<"image_temp", i>>
Files == {<<f, "">> : f \in {"password", "keys", "runtime", "config", "backup"}}
    \cup {Temp(w) : w \in Workers} \cup {Image(i) : i \in Images} \cup {ImageTemp(i) : i \in Images}
Password == <<"password", "">>
KeyFile == <<"keys", "">>
Runtime == <<"runtime", "">>
Config == <<"config", "">>
Backup == <<"backup", "">>
Settings == {"rate", "port"}    \* two settings of camera.ini, off by default

\* Contents are sets: keys for the key file, the settings that are on for
\* camera.ini, the name for an image, one word for the password.
Fresh(f) ==
    IF f \in {KeyFile, Runtime} THEN {Root}
    ELSE IF f = Password THEN {"old"}
    ELSE IF f \in {Config, Backup} THEN {} ELSE Absent

AccessInit ==
    /\ worker = [w \in Workers |-> [req |-> "none", arg |-> "", todo |-> <<>>, copy |-> {}, list |-> <<>>]]
    /\ sessions = <<[token |-> 0, expiry |-> Lifetime]>> /\ torn = FALSE
    /\ file = [f \in Files |-> Fresh(f)] /\ after = [f \in Files |-> {Fresh(f)}]
    /\ lock = [l \in {"sessions", "users", "upgrade"} |-> "free"]
    /\ now = 0
    /\ ghost = [logins |-> sessions, granted |-> {0}, revoked |-> {}, leaving |-> {},
                in |-> {Root}, out |-> {}, unsure |-> FALSE]
    /\ requests = 0 /\ faults = 0

-----------------------------------------------------------------------------
\* Programs.

\* save_atomic_file, and the second half of save_config: a temporary file of
\* the worker's own is written and synced, renamed over the old one, and the
\* directory is synced.
save_atomic_file(w, f) == <<<<"write", Temp(w)>>, <<"fsync", Temp(w)>>, <<"rename", Temp(w), f>>, <<"sync_dir", f>>>>

\* create_session and destroy_session under LOCK_EX of the session file.
create_session == <<<<"lock", "sessions">>, <<"load", "sessions">>, <<"add">>, <<"truncate">>, <<"store">>, <<"unlock", "sessions">>>>
destroy_session == <<<<"lock", "sessions">>, <<"load", "sessions">>, <<"drop">>, <<"truncate">>, <<"store">>, <<"unlock", "sessions">>>>

\* handle_login: a wrong password or a foreign origin is refused before this.
handle_login == create_session

\* change_admin_password; add_authorized_keys and remove_authorized_key, which
\* read the file under the lock and then install it twice.
change_admin_password(w) == <<<<"lock", "users">>, <<"new_password">>>> \o save_atomic_file(w, Password) \o <<<<"unlock", "users">>>>
install_authorized_keys(w) ==
    <<<<"lock", "users">>, <<"read", KeyFile>>, <<"edit_keys">>>> \o save_atomic_file(w, KeyFile)
        \o save_atomic_file(w, Runtime) \o <<<<"unlock", "users">>>>

\* save_config: the backup is a copy of what is installed; the directory
\* sync is not checked.
save_config(w) ==
    <<<<"copy", Config, Temp(w)>>, <<"fsync", Temp(w)>>, <<"rename", Temp(w), Backup>>, <<"mine">>>>
        \o save_atomic_file(w, Config)

\* handle_firmware_upload.
handle_firmware_upload(i) ==
    <<<<"lock", "upgrade">>, <<"check_image", i>>, <<"create", ImageTemp(i)>>, <<"write", ImageTemp(i)>>, <<"fsync", ImageTemp(i)>>,
      <<"sync">>, <<"publish", i>>, <<"sync_dir", Image(i)>>, <<"sync">>, <<"unlock", "upgrade">>>>

\* handle_request: what each route does once the request is authenticated
\* and its CSRF token accepted.  A page is any route that only reads.
Program(w, req, arg) ==
    CASE req = "page" -> <<<<"serve">>>>
      [] req = "login" -> handle_login
      [] req = "logout" -> destroy_session
      [] req = "password" -> change_admin_password(w)
      [] req \in {"add_key", "remove_key"} -> install_authorized_keys(w)
      [] req = "parameters" -> <<<<"read", Config>>, <<"edit_config">>>> \o save_config(w)
      [] req = "config" -> <<<<"new_config">>>> \o save_config(w)
      [] req = "upgrade" -> handle_firmware_upload(arg)
      [] req = "delete" -> <<<<"delete", arg>>>>
      [] req = "reboot" -> <<<<"reboot">>>>

Tokens == 0 .. MaxRequests
\* A page or a logout comes with the cookie of a session that was stored; the
\* token of a new one is random.
Requests ==
    {<<"page", t>> : t \in Tokens} \cup {<<"logout", t>> : t \in Tokens}
        \cup {<<"login", t>> : t \in Tokens}
Changes ==
    {<<"password", "">>, <<"config", "">>, <<"reboot", "">>}
        \cup {<<"add_key", k>> : k \in Keys} \cup {<<"remove_key", k>> : k \in Keys}
        \cup {<<"parameters", s>> : s \in Settings}
        \cup {<<"upgrade", i>> : i \in Images} \cup {<<"delete", i>> : i \in Images}

-----------------------------------------------------------------------------
\* Connections.

Spare(w) == worker[w].todo = <<>>
Step(w) == Head(worker[w].todo)
AtStep(w, op) == ~Spare(w) /\ Step(w)[1] = op
Goto(w, todo, copy) == worker' = [worker EXCEPT ![w].todo = todo, ![w].copy = copy]
Stop(w) == worker' = [worker EXCEPT ![w] = [req |-> "none", arg |-> "", todo |-> <<>>, copy |-> {}, list |-> <<>>]]
WithList(w, list) == worker' = [worker EXCEPT ![w].todo = Tail(@), ![w].list = list]
Continue(w) == Goto(w, Tail(worker[w].todo), worker[w].copy)
Accept(w, req, arg) ==
    /\ Spare(w) /\ requests < MaxRequests
    /\ requests' = requests + 1
    /\ worker' = [worker EXCEPT ![w] = [req |-> req, arg |-> arg, todo |-> <<<<"auth">>>>, copy |-> {}, list |-> <<>>]]
    /\ ghost' = CASE req = "logout" -> [ghost EXCEPT !.leaving = @ \cup {arg}]
                  [] req = "add_key" -> [ghost EXCEPT !.out = @ \ {arg}]
                  [] req = "remove_key" -> [ghost EXCEPT !.in = @ \ {arg}]
                  [] OTHER -> ghost
    /\ UNCHANGED <<sessions, torn, disk, lock, now, faults>>
Connect(w) ==
    \/ \E r \in Requests :
        /\ Accept(w, r[1], r[2])
        /\ IF r[1] = "login" THEN r[2] = requests + 1 ELSE \E i \in DOMAIN ghost.logins : r[2] = ghost.logins[i].token
    \/ \E r \in Changes : Accept(w, r[1], r[2])

\* session_valid reads the file under LOCK_SH; a login checks the password
\* file instead.  A request that is malformed, incomplete, without a valid
\* session or CSRF token is answered and changes nothing.
Valid(e) == e.expiry > now
session_valid(t) == \E i \in DOMAIN sessions : sessions[i].token = t /\ Valid(sessions[i])
ValidTokens == {sessions[i].token : i \in {j \in DOMAIN sessions : Valid(sessions[j])}}
authenticate(w) ==
    /\ AtStep(w, "auth") /\ lock["sessions"] = "free"
    /\ LET q == worker[w]
           known == q.req = "page" => session_valid(q.arg)
       IN \/ known /\ Whole(file[Password]) /\ Goto(w, Program(w, q.req, q.arg), {})
          \/ Stop(w)
    /\ UNCHANGED <<sessions, torn, disk, lock, now, ghost, requests, faults>>

-----------------------------------------------------------------------------
\* Steps.  Each leaves the files, the locks or the worker's own copy changed.

\* flock(LOCK_EX) waits.  In mutant_Lock the session file is not locked.
mutant_Lock(w) ==
    /\ AtStep(w, "lock") /\ (Step(w)[2] # "sessions" => lock[Step(w)[2]] = "free")
    /\ lock' = IF Step(w)[2] = "sessions" THEN lock ELSE [lock EXCEPT ![Step(w)[2]] = w]
    /\ Continue(w)
    /\ UNCHANGED <<sessions, torn, disk, now, ghost, requests, faults>>
Lock(w) ==
    /\ AtStep(w, "lock") /\ lock[Step(w)[2]] = "free"
    /\ lock' = [lock EXCEPT ![Step(w)[2]] = w]
    /\ Continue(w)
    /\ UNCHANGED <<sessions, torn, disk, now, ghost, requests, faults>>

\* A program's last step; the answer follows.  An answer says nothing of a
\* key that another worker is handling as well.
Contested(w, k) == \E v \in Workers \ {w} : ~Spare(v) /\ worker[v].req \in {"add_key", "remove_key"} /\ worker[v].arg = k
Answered(w) ==
    LET q == worker[w] IN
    CASE q.req = "login" -> [ghost EXCEPT !.granted = @ \cup {q.arg}]
      [] q.req = "logout" -> [ghost EXCEPT !.revoked = @ \cup {q.arg}]
      [] q.req = "add_key" /\ ~Contested(w, q.arg) -> [ghost EXCEPT !.in = @ \cup {q.arg}]
      [] q.req = "remove_key" /\ ~Contested(w, q.arg) -> [ghost EXCEPT !.out = @ \cup {q.arg}]
      [] OTHER -> ghost
Unlock(w) ==
    /\ AtStep(w, "unlock")
    /\ lock' = [l \in DOMAIN lock |-> IF l = Step(w)[2] /\ lock[l] = w THEN "free" ELSE lock[l]]
    /\ ghost' = Answered(w)
    /\ Continue(w)
    /\ UNCHANGED <<sessions, torn, disk, now, requests, faults>>

\* goto done: what was opened is closed, which drops the locks, and a
\* temporary file that was not renamed is removed.
Unlocked(w) == [l \in DOMAIN lock |-> IF lock[l] = w THEN "free" ELSE lock[l]]
Scratch(w) == {Temp(w)} \cup IF worker[w].req = "upgrade" /\ \A i \in DOMAIN worker[w].todo : worker[w].todo[i][1] # "create"
                            THEN {ImageTemp(worker[w].arg)} ELSE {}
Cleaned(w) == [f \in Files |-> IF f \in Scratch(w) THEN Absent ELSE file[f]]
GiveUp(w) ==
    /\ Stop(w)
    /\ lock' = Unlocked(w)
    /\ file' = Cleaned(w)
    /\ UNCHANGED after

\* The entries of a list that are in keep, in the order of the list.
Among(s, keep) ==
    LET f[n \in 0 .. Len(s)] ==
            IF n = 0 THEN <<>> ELSE IF s[n] \in keep THEN Append(f[n - 1], s[n]) ELSE f[n - 1]
    IN f[Len(s)]

\* load_sessions keeps what has not expired; a logout that finds nothing to
\* remove leaves the file alone.
load_sessions(w) ==
    /\ AtStep(w, "load")
    /\ WithList(w, Among(sessions, {e \in ToSet(sessions) : Valid(e)}))
    /\ UNCHANGED <<sessions, torn, disk, lock, now, ghost, requests, faults>>
EditSessions(w) ==
    /\ \/ AtStep(w, "add") /\ LET c == worker[w].list IN
            WithList(w, Append(IF Len(c) = MaxSessions THEN Tail(c) ELSE c, [token |-> worker[w].arg, expiry |-> now + Lifetime]))
       \/ AtStep(w, "drop") /\ LET c == worker[w].list
                                    kept == Among(c, {e \in ToSet(c) : e.token # worker[w].arg})
                                IN  IF kept = c THEN Goto(w, <<Last(worker[w].todo)>>, worker[w].copy)
                                    ELSE WithList(w, kept)
    /\ UNCHANGED <<sessions, torn, disk, lock, now, ghost, requests, faults>>

\* store_sessions: ftruncate, then pwrite and fsync; a failure leaves the file
\* short, which stands for a part of it written or none, synced or not.
Truncate(w) ==
    /\ AtStep(w, "truncate")
    /\ sessions' = <<>> /\ torn' = TRUE
    /\ Continue(w)
    /\ UNCHANGED <<disk, lock, now, ghost, requests, faults>>
Store(w) ==
    /\ AtStep(w, "store")
    /\ sessions' = worker[w].list /\ torn' = FALSE
    /\ ghost' = IF worker[w].req = "login" THEN [ghost EXCEPT !.logins = Append(@, Last(worker[w].list))] ELSE ghost
    /\ Continue(w)
    /\ UNCHANGED <<disk, lock, now, requests, faults>>

\* read_file.  A camera.ini that was deleted ends the request, here or at the
\* stat with which save_config begins.
Read(w) ==
    /\ \/ /\ AtStep(w, "read") /\ file[Step(w)[2]] # Absent
          /\ Goto(w, Tail(worker[w].todo), file[Step(w)[2]]) /\ UNCHANGED <<disk, lock>>
       \/ (AtStep(w, "read") \/ AtStep(w, "copy")) /\ file[Step(w)[2]] = Absent /\ GiveUp(w)
    /\ UNCHANGED <<sessions, torn, now, ghost, requests, faults>>

\* What will be written: a key not yet there is added, one that is there and
\* not the last is removed; a setting is turned on in what was read
\* (ini_apply_updates), or the whole text replaced.
EditedKeys(q) ==
    IF q.req = "add_key" THEN IF q.arg \in q.copy THEN {} ELSE {q.copy \cup {q.arg}}
    ELSE IF q.arg \in q.copy /\ q.copy # {q.arg} THEN {q.copy \ {q.arg}} ELSE {}
ini_apply_updates(q) == {q.copy \cup {q.arg}}
Edited(w) ==
    LET q == worker[w] IN
    CASE q.req \in {"add_key", "remove_key"} -> EditedKeys(q)
      [] q.req = "parameters" -> ini_apply_updates(q)
      [] q.req = "config" -> {{}}
      [] q.req = "password" -> {{"new"}}
\* validate_ini, and the checks of a form's values.
Refused(w) == worker[w].req \in {"parameters", "config", "password", "add_key"}
Edit(w) ==
    /\ \E op \in {"edit_keys", "edit_config", "new_config", "new_password"} : AtStep(w, op)
    /\ \/ \E c \in Edited(w) : Goto(w, Tail(worker[w].todo), c) /\ UNCHANGED <<disk, lock>>
       \/ Edited(w) = {} /\ GiveUp(w)
       \/ Refused(w) /\ GiveUp(w)
    /\ UNCHANGED <<sessions, torn, now, ghost, requests, faults>>

\* Files.  Data that was not synced may be torn after a power cut; a rename
\* may or may not be on the medium before the directory is synced.
SetFile(f, c, left) == file' = [file EXCEPT ![f] = c] /\ after' = [after EXCEPT ![f] = left]
\* An upload goes on with a temporary file that somebody has deleted, which has
\* no name any more.
Nameless(w) == worker[w].req = "upgrade" /\ file[ImageTemp(worker[w].arg)] = Absent
FileStep(w) ==
    /\ LET s == Step(w) IN
        \/ /\ AtStep(w, "write") /\ ~Nameless(w)
           /\ LET c == IF worker[w].req = "upgrade" THEN {worker[w].arg} ELSE worker[w].copy IN
                SetFile(s[2], c, {Absent, Torn})
        \/ (AtStep(w, "write") \/ AtStep(w, "fsync")) /\ Nameless(w) /\ UNCHANGED disk
        \/ AtStep(w, "create") /\ SetFile(s[2], Torn, {Absent, Torn})
        \/ AtStep(w, "copy") /\ file[s[2]] # Absent /\ SetFile(s[3], file[s[2]], {Absent, Torn})
        \/ AtStep(w, "fsync") /\ ~Nameless(w) /\ SetFile(s[2], file[s[2]], {Absent, file[s[2]]})
        \/ /\ AtStep(w, "rename")
           /\ file' = [file EXCEPT ![s[3]] = file[s[2]], ![s[2]] = Absent]
           /\ after' = [after EXCEPT ![s[3]] = @ \cup (after[s[2]] \ {Absent}), ![s[2]] = {Absent, Torn}]
        \/ AtStep(w, "sync_dir") /\ SetFile(s[2], file[s[2]], {c \in after[s[2]] : c = Torn \/ c = file[s[2]]})
        \/ AtStep(w, "sync") /\ after' = [f \in Files |-> {file[f]}] /\ UNCHANGED file
        \/ AtStep(w, "mine") /\ UNCHANGED disk
        \/ AtStep(w, "serve") /\ UNCHANGED disk
    /\ Continue(w)
    /\ UNCHANGED <<sessions, torn, lock, now, ghost, requests, faults>>

\* No image may be published, and no temporary file of that name be left.
Published == {i \in Images : file[Image(i)] # Absent}
CheckImage(w) ==
    /\ AtStep(w, "check_image")
    /\ IF Published = {} /\ file[ImageTemp(Step(w)[2])] = Absent
       THEN Continue(w) /\ UNCHANGED <<disk, lock>> ELSE Stop(w) /\ lock' = Unlocked(w) /\ UNCHANGED disk
    /\ UNCHANGED <<sessions, torn, now, ghost, requests, faults>>

\* publish_no_replace, or the look and the rename where it is not supported.
Publish(w) ==
    /\ AtStep(w, "publish")
    /\ LET i == Step(w)[2] IN
        IF file[Image(i)] = Absent /\ file[ImageTemp(i)] # Absent
        THEN /\ file' = [file EXCEPT ![Image(i)] = file[ImageTemp(i)], ![ImageTemp(i)] = Absent]
             /\ after' = [after EXCEPT ![Image(i)] = @ \cup (after[ImageTemp(i)] \ {Absent}), ![ImageTemp(i)] = {Absent, Torn}]
             /\ Continue(w) /\ UNCHANGED lock
        ELSE GiveUp(w)
    /\ UNCHANGED <<sessions, torn, now, ghost, requests, faults>>

\* delete_media_path removes whatever the path names beneath MEDIA_ROOT, an
\* image or, where they lie there, files of the configuration: one of them, or
\* several with their directory.  What else such a directory holds, a worker's
\* temporary file among it, makes at most a rename fail (Fail).
Delete(w) ==
    /\ AtStep(w, "delete")
    /\ \E gone \in {{Image(Step(w)[2])}, {ImageTemp(Step(w)[2])}} \cup SUBSET CardFiles :
        /\ file' = [f \in Files |-> IF f \in gone THEN Absent ELSE file[f]]
        /\ after' = [f \in Files |-> IF f \in gone THEN after[f] \cup {Absent} ELSE after[f]]
    /\ Continue(w)
    /\ UNCHANGED <<sessions, torn, lock, now, ghost, requests, faults>>

\* A call of the program fails.
Fail(w) ==
    /\ ~Spare(w) /\ Step(w)[1] \notin {"auth", "unlock", "serve", "mine", "sync", "edit_keys", "edit_config", "reboot"} /\ faults < MaxFaults
    /\ faults' = faults + 1
    /\ GiveUp(w)
    /\ ghost' = [ghost EXCEPT !.unsure = @ \/ AtStep(w, "store")]
    /\ UNCHANGED <<sessions, torn, now, requests>>

\* A power cut, or the reboot two seconds after a request for it, which
\* syncs the disks first.  RAM files start anew.
Restarted(left) ==
    /\ file' = [f \in Files |-> IF f = Runtime THEN left[KeyFile] ELSE left[f]]
    /\ after' = [f \in Files |-> {file'[f]}]
    /\ worker' = [w \in Workers |-> [req |-> "none", arg |-> "", todo |-> <<>>, copy |-> {}, list |-> <<>>]]
    /\ sessions' = <<>> /\ torn' = FALSE
    /\ lock' = [l \in DOMAIN lock |-> "free"]
    /\ ghost' = [ghost EXCEPT !.granted = {}, !.unsure = FALSE]
    /\ UNCHANGED <<now, requests>>
Uncertain == {f \in Files : Cardinality(after[f]) > 1}
PowerCut ==
    /\ faults < MaxFaults
    /\ faults' = faults + 1
    /\ \E bad \in SUBSET Uncertain :
        Restarted([f \in Files |-> IF f \in bad \/ file[f] \notin after[f]
                                   THEN CHOOSE c \in after[f] : c # file[f] ELSE file[f]])
Reboot(w) ==
    /\ AtStep(w, "reboot")
    /\ UNCHANGED faults
    /\ Restarted(file)

Tick ==
    /\ now < MaxNow
    /\ now' = now + 1
    /\ UNCHANGED <<worker, sessions, torn, disk, lock, ghost, requests, faults>>

WorkerStep(w) ==
    \/ authenticate(w) \/ Lock(w) \/ Unlock(w) \/ load_sessions(w) \/ EditSessions(w) \/ Truncate(w) \/ Store(w)
    \/ Read(w) \/ Edit(w) \/ FileStep(w) \/ CheckImage(w) \/ Publish(w) \/ Delete(w) \/ Reboot(w)
AccessNext == Tick \/ PowerCut \/ \E w \in Workers : Connect(w) \/ WorkerStep(w) \/ Fail(w)
AccessSpec == AccessInit /\ [][AccessNext]_accessVars

-----------------------------------------------------------------------------
\* Sessions: a token whose logout was answered is certainly gone, whatever
\* rewrites of the file ran beside it; and one whose login was answered stays
\* good until it expires, is logged out, or is pushed out by MAX_SESSIONS
\* newer logins, unless a write of the session file has failed halfway
\* (create_session, destroy_session, session_valid).
Newer(t) == Cardinality({i \in DOMAIN ghost.logins : \E j \in 1 .. i - 1 : ghost.logins[j].token = t})
Expired(t) == \E i \in DOMAIN ghost.logins : ghost.logins[i].token = t /\ ~Valid(ghost.logins[i])
SessionsHonest ==
    /\ ghost.revoked \cap ValidTokens = {}
    /\ lock["sessions"] = "free" /\ ~torn =>
        \A t \in ghost.granted \ ghost.leaving :
            \/ t \in ValidTokens \/ Newer(t) >= MaxSessions \/ Expired(t) \/ ghost.unsure

\* Keys: nobody is locked out, since every content the key file may have, a
\* power cut included, is whole and holds a key; a key whose addition was
\* answered is in all of them, one whose removal was answered in none
\* (add_authorized_keys, remove_authorized_key, install_authorized_keys).
KeysHonest ==
    \A c \in {file[KeyFile]} \cup after[KeyFile] :
        /\ Whole(c) /\ c # {}
        /\ ghost.in \subseteq c /\ ghost.out \cap c = {}

\* No file is ever seen half written, nor left so by a power cut: not the
\* password without which nobody can log in, not camera.ini or its backup,
\* not an image that the boot loader will flash, of which there is at most
\* one, however uploads and deletions overlap.  The configuration is there at
\* every moment too, except for what /delete can remove because it lies beneath
\* MEDIA_ROOT, as on the ZR10.
Sound(f, c) == c # Torn /\ (c = Absent => f \in CardFiles)
NeverTorn ==
    /\ \A f \in {Password, Config, Backup} : \A c \in {file[f]} \cup after[f] : Sound(f, c)
    /\ \A i \in Images : \A c \in {file[Image(i)]} \cup after[Image(i)] : c \in {Absent, {i}}
    /\ Cardinality(Published) <= 1

\* What a worker has answered stays true, for sessions, keys and files alike,
\* whatever another worker, a failing call or a power cut does meanwhile.
AccessHonest == SessionsHonest /\ KeysHonest /\ NeverTorn
=============================================================================
