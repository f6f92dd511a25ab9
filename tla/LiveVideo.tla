------------------------------ MODULE LiveVideo ------------------------------
(***************************************************************************)
(* The native live-video server (camera_app/src/streaming/                 *)
(* live_video_server.c): the capture thread publishes access units, each   *)
(* viewer has a thread that copies the latest one and sends it, a server   *)
(* thread accepts viewers, the control thread announces changes of the     *)
(* picture format, and the owner closes the server and frees it.           *)
(*                                                                         *)
(* Every critical section of server->lock is one action.  An access unit   *)
(* is its number in encoder order, its key flag and the format it was      *)
(* encoded in; formats are numbered like config_generation.  Sockets are   *)
(* abstracted to success or failure: every transfer has a time limit.      *)
(***************************************************************************)
EXTENDS Integers, FiniteSets

CONSTANTS
    Streams,      \* LIVE_STREAMS
    Viewers,      \* connections that may exist at one time
    MaxAccepts,   \* bound: connections over time
    MaxFrames,    \* bound: access units captured
    MaxFormats    \* bound: formats of each stream

ASSUME LiveVideoAssumption ==
    /\ IsFiniteSet(Viewers)
    /\ MaxAccepts \in Nat
    /\ MaxFrames \in Nat
    /\ MaxFormats \in Nat \ {0}

VARIABLES
    stream,       \* server->streams
    encoder,      \* external: the format each encoder is set to
    capture,      \* the capture thread and the access unit it publishes
    frames,       \* access units captured
    viewer,       \* the client threads
    clients,      \* server->clients
    server,       \* where the server thread is
    accepts,      \* connections accepted
    listening,    \* listen_fd is open
    stop,         \* server->stop
    closer        \* progress of ca_live_video_server_close

vars == <<stream, encoder, capture, frames, viewer, clients, server,
          accepts, listening, stop, closer>>

NoFrame == [id |-> 0, key |-> FALSE, format |-> 0]
Frame == [id : 1 .. MaxFrames, key : BOOLEAN, format : 1 .. MaxFormats]

\* A stream is configured once its config_generation is not 0.
Stream == [frame : Frame \cup {NoFrame}, generation : 0 .. MaxFrames,
           config : 0 .. MaxFormats, h264 : BOOLEAN]

ViewerPC == {"none", "new", "counted", "hello", "open", "test", "check",
             "wait", "write", "finish"}
Viewer == [pc : ViewerPC, stream : Streams, config : 0 .. MaxFormats,
           generation : 0 .. MaxFrames, started : BOOLEAN,
           frame : Frame \cup {NoFrame},
           sent : 0 .. MaxFrames]   \* history: newest access unit sent

CloserPC == {"open", "stopping", "unlistened", "signalled", "drain", "waiting", "freed"}

TypeOK ==
    /\ stream \in [Streams -> Stream]
    /\ encoder \in [Streams -> 1 .. MaxFormats]
    /\ capture \in [pc : {"idle", "publish", "copy"}, stream : Streams,
                    frame : Frame \cup {NoFrame}]
    /\ frames \in 0 .. MaxFrames
    /\ viewer \in [Viewers -> Viewer]
    /\ clients \in Nat
    /\ server \in {"test", "accept", "count", "spawn", "done"}
    /\ accepts \in 0 .. MaxAccepts
    /\ listening \in BOOLEAN
    /\ stop \in BOOLEAN
    /\ closer \in CloserPC

-----------------------------------------------------------------------------
Gone(s) == [pc |-> "none", stream |-> s, config |-> 0, generation |-> 0,
            started |-> FALSE, frame |-> NoFrame, sent |-> 0]

\* ca_live_video_server_open: no stream is configured yet.
Init ==
    /\ stream = [s \in Streams |->
                   [frame |-> NoFrame, generation |-> 0, config |-> 0, h264 |-> FALSE]]
    /\ encoder = [s \in Streams |-> 1]
    /\ \E s \in Streams :
         /\ capture = [pc |-> "idle", stream |-> s, frame |-> NoFrame]
         /\ viewer = [v \in Viewers |-> Gone(s)]
    /\ frames = 0
    /\ clients = 0
    /\ server = "test"
    /\ accepts = 0
    /\ listening = TRUE
    /\ stop = FALSE
    /\ closer = "open"

\* pthread_cond_broadcast(&server->changed), for viewers and for the closer.
Woken(w) == [v \in Viewers |-> IF w[v].pc = "wait" THEN [w[v] EXCEPT !.pc = "check"] ELSE w[v]]
CloserWoken == IF closer = "waiting" THEN "drain" ELSE closer

\* The stream is configured for H.264.
Playable(s) == stream[s].config # 0 /\ stream[s].h264

-----------------------------------------------------------------------------
(* The control thread *)

\* reconfigure_rtsp_venc: the encoder is restarted in the next format.
Reencode(s) ==
    /\ closer = "open"
    /\ encoder[s] = stream[s].config
    /\ encoder[s] < MaxFormats
    /\ encoder' = [encoder EXCEPT ![s] = @ + 1]
    /\ UNCHANGED <<stream, capture, frames, viewer, clients, server,
                   accepts, listening, stop, closer>>

\* What configure makes of a stream; its length becomes 0.
Configured(s, h264) ==
    [frame |-> NoFrame, generation |-> 0, config |-> stream[s].config + 1, h264 |-> h264]

\* ca_live_video_server_configure, for the format the encoder is set to.
Configure(s, h264) ==
    /\ closer = "open"
    /\ stream[s].config < encoder[s]
    /\ stream' = [stream EXCEPT ![s] = Configured(s, h264)]
    /\ viewer' = Woken(viewer)
    /\ closer' = CloserWoken
    /\ UNCHANGED <<encoder, capture, frames, clients, server, accepts, listening, stop>>

-----------------------------------------------------------------------------
(* The capture thread, started after the first configuration *)

\* capture_thread: takes an access unit from the encoder.
Capture(s, key) ==
    /\ capture.pc = "idle"
    /\ closer = "open"
    /\ \A r \in Streams : stream[r].config # 0
    /\ frames < MaxFrames
    /\ frames' = frames + 1
    /\ capture' = [pc |-> "publish", stream |-> s,
                   frame |-> [id |-> frames + 1, key |-> key, format |-> encoder[s]]]
    /\ UNCHANGED <<stream, encoder, viewer, clients, server, accepts,
                   listening, stop, closer>>

Captured == capture' = [capture EXCEPT !.pc = "idle", !.frame = NoFrame]

\* ca_live_video_server_publish: nobody is watching anything, or this stream
\* cannot be watched.
PublishSkip ==
    /\ capture.pc = "publish"
    /\ clients = 0 \/ ~Playable(capture.stream)
    /\ Captured
    /\ UNCHANGED <<stream, encoder, frames, viewer, clients, server, accepts,
                   listening, stop, closer>>

\* ca_live_video_server_publish: the copy is made without the lock, if there is
\* memory for it.
PublishCopy ==
    /\ capture.pc = "publish"
    /\ clients # 0 /\ Playable(capture.stream)
    /\ \/ capture' = [capture EXCEPT !.pc = "copy"]
       \/ Captured
    /\ UNCHANGED <<stream, encoder, frames, viewer, clients, server, accepts,
                   listening, stop, closer>>

\* What publish makes of a stream.
Published(s) ==
    [frame |-> capture.frame, generation |-> stream[s].generation + 1,
     config |-> stream[s].config, h264 |-> stream[s].h264]

\* Mutant of PublishStore: nobody is woken.
PublishStoreQuietly ==
    LET s == capture.stream IN
    /\ capture.pc = "copy"
    /\ Captured
    /\ IF Playable(s)
       THEN stream' = [stream EXCEPT ![s] = Published(s)]
       ELSE UNCHANGED stream
    /\ UNCHANGED <<encoder, frames, viewer, clients, server, accepts, listening, stop, closer>>

\* ca_live_video_server_publish: the stream is tested again, the viewers are not.
PublishStore ==
    LET s == capture.stream IN
    /\ capture.pc = "copy"
    /\ Captured
    /\ IF Playable(s)
       THEN /\ stream' = [stream EXCEPT ![s] = Published(s)]
            /\ viewer' = Woken(viewer)
            /\ closer' = CloserWoken
       ELSE UNCHANGED <<stream, viewer, closer>>
    /\ UNCHANGED <<encoder, frames, clients, server, accepts, listening, stop>>

CaptureThread ==
    \/ PublishSkip \/ PublishCopy \/ PublishStore

-----------------------------------------------------------------------------
(* The server thread *)

\* server_thread: the loop's test.
ServerTest ==
    /\ server = "test"
    /\ server' = IF stop THEN "done" ELSE "accept"
    /\ UNCHANGED <<stream, encoder, capture, frames, viewer, clients,
                   accepts, listening, stop, closer>>

\* server_thread: a connection is accepted.  (One that cannot be allocated, or
\* an accept that fails, goes back to the test and is not counted here.)
Accept(v) ==
    /\ server = "accept"
    /\ listening
    /\ viewer[v].pc = "none"
    /\ accepts < MaxAccepts
    /\ accepts' = accepts + 1
    /\ server' = "count"
    /\ viewer' = [viewer EXCEPT ![v].pc = "new"]
    /\ UNCHANGED <<stream, encoder, capture, frames, clients, listening,
                   stop, closer>>

\* server_thread: accept4 fails after shutdown, or for a moment before.
AcceptFails ==
    /\ server = "accept"
    /\ server' = IF listening THEN "test" ELSE "done"
    /\ UNCHANGED <<stream, encoder, capture, frames, viewer, clients,
                   accepts, listening, stop, closer>>

\* server_thread: the client is counted before its thread exists.
CountClient(v) ==
    /\ server = "count"
    /\ viewer[v].pc = "new"
    /\ viewer' = [viewer EXCEPT ![v].pc = "counted"]
    /\ clients' = clients + 1
    /\ server' = "spawn"
    /\ UNCHANGED <<stream, encoder, capture, frames, accepts, listening,
                   stop, closer>>

\* client_finished.
ClientFinished(v) ==
    /\ clients' = clients - 1
    /\ viewer' = Woken([viewer EXCEPT ![v] = Gone(@.stream)])
    /\ closer' = CloserWoken

\* server_thread: the client's thread is created, or the client is given up.
Spawn(v) ==
    /\ server = "spawn"
    /\ viewer[v].pc = "counted"
    /\ server' = "test"
    /\ \/ viewer' = [viewer EXCEPT ![v].pc = "hello"] /\ UNCHANGED <<clients, closer>>
       \/ ClientFinished(v)
    /\ UNCHANGED <<stream, encoder, capture, frames, accepts, listening, stop>>

ServerThread ==
    \/ ServerTest
    \/ AcceptFails
    \/ \E v \in Viewers : CountClient(v) \/ Spawn(v)

-----------------------------------------------------------------------------
(* The viewers *)

\* A step of client_thread that changes only its own state.
Client(v, new) ==
    /\ viewer' = [viewer EXCEPT ![v] = new]
    /\ UNCHANGED <<stream, encoder, capture, frames, clients, server,
                   accepts, listening, stop, closer>>

To(v, pc) == [viewer[v] EXCEPT !.pc = pc]

\* client_thread: the selection is received and the stream's configuration
\* read, or the viewer is turned away.
Hello(v) ==
    /\ viewer[v].pc = "hello"
    /\ \/ Client(v, To(v, "finish"))
       \/ \E s \in Streams :
            IF Playable(s)
            THEN Client(v, [viewer[v] EXCEPT !.pc = "open", !.stream = s,
                                             !.config = stream[s].config])
            ELSE Client(v, To(v, "finish"))

\* client_thread: the answer is sent and the writer opened, or not.
Open(v) ==
    /\ viewer[v].pc = "open"
    /\ \E pc \in {"test", "finish"} : Client(v, To(v, pc))

\* client_thread: the loop's test, without the lock.
Test(v) ==
    /\ viewer[v].pc = "test"
    /\ Client(v, To(v, IF stop THEN "finish" ELSE "check"))

\* client_thread: the viewer's configuration is no longer the stream's.
Superseded(v) == stream[viewer[v].stream].config # viewer[v].config

\* client_thread: nothing new, wait.
CheckWait(v) ==
    /\ viewer[v].pc = "check"
    /\ ~stop /\ ~Superseded(v)
    /\ stream[viewer[v].stream].generation = viewer[v].generation
    /\ Client(v, To(v, "wait"))

\* client_thread: stopped or reconfigured.
CheckLeave(v) ==
    /\ viewer[v].pc = "check"
    /\ stop \/ Superseded(v)
    /\ Client(v, To(v, "finish"))

\* client_thread: the viewer after it has copied the latest access unit.
Taken(v) ==
    LET s == viewer[v].stream IN
    [viewer[v] EXCEPT !.pc = "write", !.generation = stream[s].generation,
                      !.frame = stream[s].frame]

\* client_thread: the latest access unit is copied if there is memory for it.
CheckTake(v) ==
    /\ viewer[v].pc = "check"
    /\ ~stop /\ ~Superseded(v)
    /\ stream[viewer[v].stream].generation # viewer[v].generation
    /\ \/ Client(v, Taken(v))
       \/ Client(v, To(v, "finish"))

\* A condition wait may return without a signal.
SpuriousWake(v) ==
    /\ viewer[v].pc = "wait"
    /\ Client(v, To(v, "check"))

\* socket_write: it may fail at any time, and does once it sees stop.
MayWrite == ~stop

\* client_thread: the copy is written, unless the viewer waits for a key frame.
Write(v) ==
    LET started == viewer[v].started \/ viewer[v].frame.key
        next == [viewer[v] EXCEPT !.pc = "test", !.frame = NoFrame, !.started = started]
    IN  /\ viewer[v].pc = "write"
        /\ \/ ~started /\ Client(v, next)
           \/ started /\ MayWrite /\ Client(v, [next EXCEPT !.sent = viewer[v].frame.id])
           \/ started /\ Client(v, [next EXCEPT !.pc = "finish"])

Finish(v) ==
    /\ viewer[v].pc = "finish"
    /\ ClientFinished(v)
    /\ UNCHANGED <<stream, encoder, capture, frames, server, accepts,
                   listening, stop>>

ClientThread(v) ==
    \/ Hello(v) \/ Open(v) \/ Test(v)
    \/ CheckWait(v) \/ CheckLeave(v) \/ CheckTake(v)
    \/ Write(v) \/ Finish(v)

-----------------------------------------------------------------------------
(* ca_live_video_server_close, after the capture thread has been joined *)

CloseStop ==
    /\ closer = "open"
    /\ capture.pc = "idle"
    /\ stop' = TRUE
    /\ closer' = "stopping"
    /\ UNCHANGED <<stream, encoder, capture, frames, viewer, clients,
                   server, accepts, listening>>

CloseListener ==
    /\ closer = "stopping"
    /\ listening' = FALSE
    /\ closer' = "unlistened"
    /\ UNCHANGED <<stream, encoder, capture, frames, viewer, clients,
                   server, accepts, stop>>

CloseSignal ==
    /\ closer = "unlistened"
    /\ viewer' = Woken(viewer)
    /\ closer' = "signalled"
    /\ UNCHANGED <<stream, encoder, capture, frames, clients, server,
                   accepts, listening, stop>>

CloseJoin ==
    /\ closer = "signalled"
    /\ server = "done"
    /\ closer' = "drain"
    /\ UNCHANGED <<stream, encoder, capture, frames, viewer, clients,
                   server, accepts, listening, stop>>

\* Mutant of CloseDrain: the clients are not waited for.
CloseDrainAtOnce ==
    /\ closer = "drain"
    /\ closer' = "freed"
    /\ UNCHANGED <<stream, encoder, capture, frames, viewer, clients,
                   server, accepts, listening, stop>>

\* The wait for the last client, which leads to the server's end.
CloseDrain ==
    /\ closer = "drain"
    /\ closer' = IF clients # 0 THEN "waiting" ELSE "freed"
    /\ UNCHANGED <<stream, encoder, capture, frames, viewer, clients,
                   server, accepts, listening, stop>>

Closing == CloseListener \/ CloseSignal \/ CloseJoin \/ CloseDrain

Next ==
    \/ \E s \in Streams : \/ Reencode(s)
                          \/ \E h264 \in BOOLEAN : Configure(s, h264)
                          \/ \E key \in BOOLEAN : Capture(s, key)
    \/ CaptureThread
    \/ ServerThread
    \/ \E v \in Viewers : Accept(v) \/ ClientThread(v) \/ SpuriousWake(v)
    \/ CloseStop
    \/ Closing

Spec == Init /\ [][Next]_vars

\* Threads run, their transfers have time limits, and a close that has begun
\* goes on.  Nobody is obliged to connect, to publish or to close, and no
\* condition wait to return by itself.
FairSpec ==
    /\ Spec
    /\ WF_vars(CaptureThread)
    /\ WF_vars(ServerThread)
    /\ \A v \in Viewers : WF_vars(ClientThread(v))
    /\ WF_vars(Closing)

-----------------------------------------------------------------------------
(* Properties *)

\* When ca_live_video_server_close frees the server no thread that uses it is
\* left, whenever the last connection was accepted.
NoUseAfterFree ==
    closer = "freed" => server = "done" /\ \A v \in Viewers : viewer[v].pc = "none"

\* A viewer only ever copies an access unit that exists: a reconfiguration,
\* which empties the stream, never looks like a new one.
TakesFrame == \A v \in Viewers : viewer[v].pc = "write" => viewer[v].frame # NoFrame

\* client_thread sends each access unit to a viewer once, in encoder order.
ViewedInOrder ==
    [][\A v \in Viewers :
         viewer[v].pc = "write" /\ viewer'[v].pc = "test" /\ viewer'[v].started =>
             viewer'[v].sent > viewer[v].sent]_vars

\* No wake-up is lost: a viewer does not sleep on an access unit it has not
\* taken.
WakesUp ==
    \A v \in Viewers :
        viewer[v].pc = "wait" /\ stream[viewer[v].stream].generation # viewer[v].generation
            ~> viewer[v].pc # "wait"

\* web/README.md: "Stream geometry changes close the private feed".
ReconfigurationCloses ==
    \A v \in Viewers :
        viewer[v].pc \in {"test", "check", "wait", "write"} /\ Superseded(v) ~>
            viewer[v].pc = "none"

\* A close that has begun ends.
CloseTerminates == closer = "stopping" ~> closer = "freed"

\* With one condition variable for viewers, configurations and the closer,
\* nobody is left asleep who has something to do, and what viewers are sent
\* is in order (client_thread, ca_live_video_server_publish, _configure, _close).
Served == ViewedInOrder /\ WakesUp /\ ReconfigurationCloses /\ CloseTerminates

-----------------------------------------------------------------------------
\* The inductive invariant behind NoUseAfterFree and TakesFrame.

\* The client threads that use the server, and the one about to be created.
Users == {v \in Viewers : viewer[v].pc \notin {"none", "new"}}

Accounted == clients = Cardinality(Users)

\* The server thread works on one connection at a time.
OneAccepted ==
    /\ \A v \in Viewers : viewer[v].pc = "new" => server = "count"
    /\ \A v \in Viewers : viewer[v].pc = "counted" => server = "spawn"
    /\ \A v, w \in Viewers :
         viewer[v].pc \in {"new", "counted"} /\ viewer[w].pc \in {"new", "counted"} => v = w

CloserOrder ==
    /\ closer \in {"drain", "waiting", "freed"} => server = "done"
    /\ closer = "freed" => clients = 0

\* A generation stands for an access unit captured since the configuration.
Generations ==
    /\ \A s \in Streams :
         /\ stream[s].generation + (IF capture.pc = "idle" THEN 0 ELSE 1) <= frames
         /\ stream[s].generation # 0 => stream[s].frame \in Frame
    /\ capture.pc # "idle" => capture.frame \in Frame

Watching == {"open", "test", "check", "wait", "write"}

\* A viewer is never ahead of its stream, and begins with generation 0.
Behind ==
    \A v \in Viewers :
        /\ viewer[v].pc \in Watching =>
             LET s == stream[viewer[v].stream] IN
             /\ viewer[v].config <= s.config
             /\ viewer[v].config = s.config => viewer[v].generation <= s.generation
        /\ viewer[v].pc \in {"none", "new", "counted", "hello"} => viewer[v].generation = 0

IInv ==
    /\ TypeOK
    /\ Accounted
    /\ OneAccepted
    /\ CloserOrder
    /\ Generations
    /\ Behind
    /\ TakesFrame
=============================================================================
