------------------------------ MODULE CameraFtp -------------------------------
(***************************************************************************)
(* The MAVLink FTP service for the camera definition (ca_camera_ftp_reply  *)
(* of protocol/camera_ftp.c): a few sessions shared by all clients, each   *)
(* named by its client and the client's number for it, that expire.        *)
(* Answers may be lost, so a client may repeat any request.                *)
(***************************************************************************)
EXTENDS Integers

CONSTANTS
    FtpClients,
    FtpIds,         \* session numbers of a client
    Sessions,       \* sessions the camera has
    Expiry,         \* 60 seconds, in ticks
    MaxFtpNow       \* bound: ticks

ASSUME CameraFtpAssumption == {Sessions, Expiry} \subseteq Nat \ {0} /\ MaxFtpNow \in Nat

VARIABLES
    session,    \* [1 .. Sessions -> [active, client, id, last]]
    ftpNow,     \* monotonic_ms
    believed    \* ghost: <<client, id, time>>: sessions whose opening was acknowledged,
                \* and when each was last opened or read

ftpVars == <<session, ftpNow, believed>>
Numbers == 1 .. Sessions
Closed == [active |-> FALSE, client |-> "none", id |-> 0, last |-> 0]
FtpInit == session = [n \in Numbers |-> Closed] /\ ftpNow = 0 /\ believed = {}

\* Each request first expires sessions.
Current == [n \in Numbers |-> IF ftpNow - session[n].last > Expiry THEN [session[n] EXCEPT !.active = FALSE] ELSE session[n]]
Of(s, c, id) == {n \in Numbers : s[n].active /\ s[n].client = c /\ s[n].id = id}
Believes(c, id) == {b \in believed : b[1] = c /\ b[2] = id}

\* ResetSessions: the client's own.  In mutant_ResetSessions everyone's.
mutant_ResetSessions(c) == session' = [n \in Numbers |-> [Current[n] EXCEPT !.active = FALSE]] /\ believed' = {b \in believed : b[1] # c}
ResetSessions(c) ==
    /\ session' = [n \in Numbers |-> IF Current[n].client = c THEN [Current[n] EXCEPT !.active = FALSE] ELSE Current[n]]
    /\ believed' = {b \in believed : b[1] # c}
\* OpenFileRO: the session of that name again, or the first free one, or none.
OpenFileRO(c, id) ==
    LET s == Current
        free == {n \in Numbers : ~s[n].active}
        slot == IF Of(s, c, id) # {} THEN Of(s, c, id)
                ELSE IF free = {} THEN {} ELSE {CHOOSE n \in free : \A m \in free : n <= m}
    IN  /\ session' = [n \in Numbers |-> IF n \in slot THEN [active |-> TRUE, client |-> c, id |-> id, last |-> ftpNow] ELSE s[n]]
        /\ believed' = IF slot = {} THEN believed ELSE (believed \ Believes(c, id)) \cup {<<c, id, ftpNow>>}
TerminateSession(c, id) ==
    /\ session' = [n \in Numbers |-> IF n \in Of(Current, c, id) THEN [Current[n] EXCEPT !.active = FALSE] ELSE Current[n]]
    /\ believed' = believed \ Believes(c, id)
\* ReadFile and BurstReadFile: one packet, inside the file; the session lives on.
ReadFile(c, id) ==
    /\ session' = [n \in Numbers |-> IF n \in Of(Current, c, id) THEN [Current[n] EXCEPT !.last = ftpNow] ELSE Current[n]]
    /\ believed' = IF Of(Current, c, id) = {} THEN believed \ Believes(c, id)
                   ELSE (believed \ Believes(c, id)) \cup {<<c, id, ftpNow>>}
\* ListDirectory, a read past the end, or an unknown or invalid request.
Stateless == session' = Current /\ UNCHANGED believed
FtpTick == ftpNow < MaxFtpNow /\ ftpNow' = ftpNow + 1 /\ UNCHANGED <<session, believed>>

FtpRequest ==
    /\ \E c \in FtpClients : ResetSessions(c) \/ Stateless \/ \E id \in FtpIds : OpenFileRO(c, id) \/ TerminateSession(c, id) \/ ReadFile(c, id)
    /\ UNCHANGED ftpNow
FtpNext == FtpRequest \/ FtpTick
FtpSpec == FtpInit /\ [][FtpNext]_ftpVars

-----------------------------------------------------------------------------
\* A session that was acknowledged and used in the last minute is there, once,
\* until its own client ends it: no other client, repeated request or expired
\* session takes it away, and a repeated open does not use a second slot.
SessionKept ==
    \A b \in believed : ftpNow - b[3] <= Expiry => \E n \in Numbers : Of(session, b[1], b[2]) = {n}
=============================================================================
