# Verification of AP_CameraGimbal

TLA+ models of the camera application's concurrent and failure-prone parts,
checked with TLC on small instances and, for the properties that matter most,
proved with TLAPS for every value of the constants. Paths below are relative to
`src/camera_app/src/` unless they say otherwise.

## 1. The system

`camera_app` replaces the vendor firmware of several gimbal cameras. One event
loop (`main.c`) polls every socket and serial port; media, recording, streaming
and logging run in threads of their own.

| Component | State it keeps | Operations | What is hard about it |
| --- | --- | --- | --- |
| SupportProxy video publisher, `streaming/support_video.c` | bounded queue of access units, wait-for-keyframe flag, one connection | push from the encoder thread; worker takes, connects, sends, clears; close | encoder and worker interleave around every failure; what reaches the decoder must have no gap |
| MP4 recorder, `recording/mp4_minimp4.c` | parts of a recording, each with a dirty flag and a sync worker; one part being retired | write, roll over, background flush, retire, close | flushes overlap writes; any step of a close may fail; FAT size limit |
| SIYI server, `protocol/siyi_server.c` | TCP slots with generations, UART, input and output buffers, table of remembered requests | dispatch, emit an answer, late answer of the gimbal, peer loss, partial writes | remembered peers vanish and their slots are reused; answering can destroy the peer being served |
| Manual control, `protocol/manual_control.c`; tracker and gimbal commands of `protocol/mavlink_server.c`; vendor commands of the backends | lease, token, deadline of the lease, deadline of the pulse; tracking target and rate flag | claim, renew, pulse, release, expiry, retried stop; tracking step; reconfiguration | several controllers of one motor over a link whose writes fail with or without effect; a loop that is blocked for seconds |
| Live video server, `streaming/live_video_server.c`, with the MT11 capture thread | latest access unit, generation and configuration of each stream; count of client threads | accept, spawn, copy, send, publish, configure, close and free | detached threads use a structure the closer frees; publication outside the encoder's lock |
| Binary log, `recording/binlog.c`, with `update_binlog` and the exposure monitor | ring of entries, active and quit flags, writer's buffer and file, retry time | start, emit, stop, flush, sync, open, fail, close | a writer far behind its producers; a failure found after the session it belongs to |
| MAVLink server, `protocol/mavlink_server.c` | TCP slots, last UDP peer, UART buffer, route to the autopilot, lists in progress, timed capture, zoom rate | message handlers, periodic work, loss of a link | slots are reused while routes are remembered; timers interleave with commands |
| Camera FTP, `protocol/camera_ftp.c` | sessions of several clients | open, read, terminate, reset, expire | acknowledgements are lost and requests repeated |
| SupportProxy MAVLink link, `protocol/support_mavlink.c` | two rings, a relay thread, the signing time | send, receive, reconnect, close | rings that overwrite their oldest entry; a clock that is set back |
| Gimbal backends, `backends/{mt11,siyi}/control.c`, `gimbal_angle_target.h` | mounting, last attitude, last target, requests in the controller | SIYI requests, attitude and mounting replies, suppression of repeated targets | commands and replies get lost; two controllers hand requests to each other |
| Media, `media/media.c`, `backends/{mt11,a8,zr10}/media.c` and `pipeline.c`, `backends/mt11/{e5739,thermal}.c` | pipeline stages, view, recording, lens position, thermal frame, cached controls | open, close, zoom, lens, source, invert, image, photo, recording, focus, thermal commands | dozens of vendor calls, each of which may fail in the middle of a change |
| Z1-Mini capture helper, `backends/z1mini/ax_capture.c` | hardware stages and two encoder threads | bring-up, encode, stop, clean-up | clean-up that waits for threads nobody has told to stop |
| Configuration, `config.c`, `reload_config` in `protocol/mavlink_server.c` | `camera.ini`, settings in effect, status file | poll, load, apply, PARAM_SET, save, undo | file replaced while it is read; settings that must wait for a recording to end |
| Web service, `src/web/mt11-web.c` | session file, password, keys, `camera.ini`, firmware images, restart request | one process for each request | processes that share files; power cuts |
| Service scripts, `src/packaging/*/{service,app_init}.sh` | generation of the restart request, running instance | start, watch, restart | races between launcher, application and web service |
| Recording counter, packet codecs, RTSP wrapper, EXIF and KLV, targeting, simulator | see `PROJECT.json` | | |

Interactions. The capture thread pushes each access unit to the MP4 recorder,
the RTSP server, the SupportProxy publisher and the live server. The event loop
calls protocol handlers, which call the backend (gimbal commands) and the media
component (recording, configuration); a media reconfiguration runs inside the
loop. Every part emits records to the binary log. `main.c` closes in a fixed
order: manual control, MAVLink, backend, media (which joins capture and monitor
threads), log, protocol servers.

## 2. Modules

Each module translates one component; its header says what is abstracted.
`MC_*` modules give the constants of the TLC runs and, where several modules share
a run, its scenes; `*_proofs` hold theorems. A definition that stands directly
before the one it varies (`ClearFramesNoWait` before `ClearFrames`, `mutant_push`
before `push`) is a faulty variant that is not part of any specification: it
documents that a property notices that fault.

**SupportVideo.** State: the queue with its counters, `wait_key`, the worker's
position and frame, the connection, the owner's close. Each critical section of
`p->lock` is an action; `Push*` are the four outcomes of
`ca_support_video_push`, `Publish*`, `ConnectPublisher`, `Keepalive` and
`SendFrame` the steps of `publish`, `Close*` those of the close. An access unit
is a number, a key flag and a length; RTP packets are a send that succeeds or
fails.

**Mp4Recorder.** State: a record for every part (samples, dirty flag, worker
position, what is durable, progress of its close) and the writer's fields. The
frame thread's write is split where it releases `sync_lock`, a flush into call
and return, so that writes land in between. The muxer and the kernel succeed or
fail at every call.

**SiyiServer.** Single-threaded, so a request is `Dispatch`, any number of
emitted answers, `Finish`. Connections carry the generation of their slot, as
in the code. History variables record who asked what and which request was last
answered. `alive` becomes false where the code's `memmove` would run with a
wrapped length.

**GimbalControl.** One turn of the loop is poll, timers, packets and events, in
the order of `main.c`. Time is counted in ticks of the 20 ms poll. The gimbal is
external: whose command it obeys and whether that keeps it turning. A write
fails with or without effect. `PublicPath` distinguishes the targets whose own
commands pass through the vendor handler.

**LiveVideo.** Streams, capture thread, server thread, client threads, the
control thread's reconfiguration and the closer. Condition waits are explicit
(a waiting thread moves only when woken, or spuriously).

**Binlog.** The ring as a sequence of entries, the policy with its 10 s retry,
the exposure monitor as a second producer, and the writer's pass split into
take, flush, sync, open or close, fail and store. A write may leave any prefix.
`accepted`, `lost` and `session` are history.

**MavlinkLinks, MavlinkUart, MavlinkCamera.** Three independent parts of the
MAVLink server. *Links*: connections with an identity of their own in slots that
are reused, the route to the flight controller, the parameter lists in progress;
a message is who sent it and what kind it is. *Uart*: the output buffer as
positions of bytes, with compaction, partial writes and failure. *Camera*: timed
captures, zoom rate, recording and the commands and heartbeats that change them,
with the clock of `ca_mavlink_server_periodic`.

**CameraFtp.** The session table; `believed` is what clients were acknowledged.

**SupportMavlink** and **NewestQueue.** The rings with their indices, the relay
thread split at every lock and system call, signing time stamps, close.
`NewestQueue` says in six lines what such a ring promises. `KeepsNewest` states
that each of the two rings implements it (`INSTANCE NewestQueue WITH`), mapping a
ring to the number of messages given and the number of the last one taken.

**GimbalBackend.** How the camera hangs, what the backend believes of it, the
attitude it last saw and the target it last sent; ages instead of time stamps,
capped at the hold time. The controller moves one step per tick, and may forget
its target or be sent elsewhere.

**SiyiCamera.** The requests of SIYI clients, one disjunct per group of opcodes,
with the setters of the media that succeed or fail, and the ZR10's delegation:
requests in the controller carry how often they were sent there.

**BringUp.** Opening and closing as data: each target has a sequence of steps
(acquire, claim, start a thread, note) and one of undo steps, each naming its
resource and the stage that guards it, taken line by line from the open and
clean-up functions of `main.c`, the MT11, A8 and ZR10 media and pipelines and the
Z1-Mini helper. A step succeeds, fails, or fails half way; what stands on what is
a table of its own.

**Mt11Focus.** The lens with its dead-reckoned positions, the coarse and fine
pass of the autofocus search, and the event loop, manual focus thread and
autofocus thread around them. The sharpness is a peak that the search samples.
A move runs in pulse batches, and `motor_step` counts a batch before
`gate_batch` makes it (`e5739.c:149-158`), so the model keeps the counted
positions and, apart from them, how far the lens itself is off (`zoomOff`,
`focusOff`, `missed`). After a last batch that was counted and not made, the
target is counted and the lens is short of it; asking again moves nothing and
succeeds, and nothing but opening the motor again homes it. `Calibrated` is
therefore a statement about the counted positions, and `Reckoned` the one about
the lens. A pulse batch is made or not made, never half; that the gate may stay
raised when `usleep` fails is left out.

**Mt11Media.** Commands of the MT11 media as programs of vendor calls, with the
roll-back that each failure leads to, next to the capture thread, the recording
and the controls monitor. `hw` is what the hardware was told, the other variables
are what the structure says. At most one call of a command fails: what a second
failure, while the first is undone, leaves behind the code does not say either.

**Thermal.** The UVC assembler over payloads that get lost, the transfers and who
owns their buffers, the raw thermal client, captures, two-part extension-unit
commands, and the close of both threads.

**SigmaMedia.** A8 and ZR10 while they run: capture thread, factory tuning,
recording, crop, inversion, image settings and photographs.

**WebAccess, WebRestart, ConfigSync.** *Access*: a request is a program of system
calls; each file on flash has the content processes see and the set of contents a
power cut may leave. `CardFiles` are the files of the configuration that lie beneath
`MEDIA_ROOT`, where a confirmed `/delete` reaches them: password, `camera.ini` and its
backup on the ZR10, none on the other cameras. What is missing after a power cut stays
missing: that the ZR10's script copies defaults back at boot is left out. *Restart*: the web worker, the launcher script and the
application's ready file, signal and exit. *ConfigSync*: the writers of
`camera.ini`, the polling reader and the status file with the hash it reports.

The runs `control`, `cameras`, `web` and `mavlink` check several of these modules at once:
their MC module picks one of the *scenes* in the initial state and then takes only
the steps of that scene. Scenes share no state, so this is the same as running
each module alone.

## 3. Runs

| Run | Instance | Shows |
| --- | --- | --- |
| `mp4_recorder` | 3 access units, 3 parts | `CloseDurable`: success of close means all is on the card; `NoPictureForgotten`; `Continuous` across parts; `Progress`: stored pictures reach the card or an error is noted, and a close returns |
| `siyi_routing` | 1 TCP slot used twice, UDP, UART, 2 opcodes, table of 2, buffers of 2 units, 2 requests | `RepliesToAsker`, `AnswersInOrder`, `OutputFits` under any partial writes |
| `siyi_survival` (violated) | as above | the finding on `process_stream` |
| `control`, scene *gimbal* | lease 4, pulse 2, retry 1, reopen 4 ticks, 4 packets | `NoRunaway`, `Exclusive`; `Progress`: an abandoned lease ends and a gimbal left turning stops |
| scene *mt11* | 3 zooms of which 2 use the zoom lens, 2 configurations, 2 ports, 3 commands, one failing call each | `Mt11Honest`: sources, view, configuration, recording and cached controls are what the structure says, after a failure as well |
| `gimbal_pulse` (violated) | reopen 4 ticks | the finding on reconfiguration |
| `mt11_view` (violated) | 1 configuration, 1 port, 2 commands | the finding on the field of view |
| `live_video` | 1 stream, 2 viewers, 2 connections, 2 frames, 2 formats | `NoUseAfterFree`; `Served`: in order (`ViewedInOrder`), no lost wake-up, old feeds end, close returns |
| `binlog` | ring of 4, buffer of 2, 2 sessions, 1 header record, 1 sample | `FilesFaithful`: each file is a gap-free prefix of its session; `SessionDurable`; `Progress`: logging resumes, buffered records are written, a close returns |
| `binlog_failure` (violated) | 2 sessions | the finding on the log |
| `cameras`, scene *bring up* | 5 targets, 3 encoder channels, 2 attempts | `CleanedUp`: what was acquired is released, in an order in which nothing is used after what it stands on; `CleanupEnds` |
| scene *lens* | 2 calibration rows, peaks at 0, 4 and 7, coarse step 3, batches of 2 steps, 3 commands, 2 failures | `LensKnown`: the counted positions stay on the calibration, a stop stops the lens, and the lens is off by no more than the batches missed; `SearchFindsPeak` |
| scene *thermal* | 3 frames of 2 payloads, 2 lost in a row, 2 transfers, 2 callers | `ThermalWhole`: only whole frames get out, no transfer outlives its buffer, command halves stay together; `CloseEnds` |
| scene *sigma* | A8 and ZR10, 2 image settings, 2 crops, tuning after 2 pictures, 2 commands | `TapeDecodable`: a recording has no gap; `SigmaHonest`: image processor and ports are set to what is reported |
| scene *siyi* | 3 cameras, 2 requests, any number of delegations | `RefusalHarmless`: a refused change of slots changed nothing; `NoPingPong` between camera and controller |
| `web`, scene *files* | 2 workers, 2 requests of 11 kinds, 2 keys, 2 images, the ZR10's configuration on the card, 1 failing call or power cut | `AccessHonest`: sessions and keys stay as answered; no file is ever torn or, unless a deletion from the card removed it, missing |
| scene *restart* | 2 workers, 3 restarts, 3 launchers, 1 crash or failed start | `RestartHonest`: the instance reported as new is, and is not stopped by mistake; `RestartServed` |
| scene *config* | 1 editor, 2 texts, 1 PARAM_SET, 1 recording, 2 errors | `ConfigSynced`: the status is true of the text whose hash it carries, and the last text is applied |
| `mavlink`, scene *links* | 2 slots, 2 connections each, 3 messages | `RoutesCurrent`: nothing is sent to a connection that did not ask |
| scene *uart* | buffer of 5, messages of 2 and 3 bytes | `StreamWhole`: whole messages in order, nothing lost or doubled |
| scene *camera* | 3 commands, counts 0, 1 and 3, 5 ticks | `CommandsExact`: as many photos as asked, none after a stop; a zoom to a value holds |
| scene *ftp* | 2 clients with 2 ids, 2 sessions, expiry 1 | `SessionKept` |
| scene *relay* | rings of 2, 4 messages each way, 1 failure, clock set back | `SignedInOrder`; `KeepsNewest` (refinement of `NewestQueue`) |
| scene *video* | 6 access units of 3 lengths, queue of 3 frames / 4 bytes | `Decodable`: what is sent on a connection starts at a keyframe and has no gap; `SendsInOrder`; `CloseTerminates` |
| scene *backend* | hold time 1, 2 disturbances | `TargetReached`: a target that is requested again and again is reached |

**Why these bounds suffice to be interesting.** Every bound lets its limit be
crossed: six pushes overflow a queue of three, restart it and overflow it
again; three pictures in three parts roll over twice, or put the second
roll-over off while the first part is still being retired; two generations of a slot are what a stale route needs to
be wrong about; a pulse of two ticks is shorter than a reopen of four; two
viewers let one be counted, or its slot be free, while the closer and the other
wait; two log sessions are the failed one and the one that follows; a range of
nine positions with a coarse step of three has a shortened last step and a peak
between samples; the third command of the MT11 meets what the failure of the second left
of the first; rings of two wrap with four messages; three restarts of two
workers let one request supersede another that is being served; two sessions and
a third login push one out. Every action of every specification is taken in these
runs. Larger values repeat these situations; the proofs below do not depend on
them. No run uses symmetry where it checks liveness. Runs have no deadlock check
where the system may really stop (bounds used up, close complete); Binlog has
one, with an explicit step for the closed state.

**Fairness.** Only what the code's scheduling gives: a thread or process that can
run does; transfers, flushes and thread joins return, since sockets have time
limits; clocks go on, so an interval that must elapse is noticed in some later
pass (strong fairness of the timed flush, the timed sync and the poll timeout,
which the loop may miss any finite number of times); a close that has begun goes
on. `Progress` of the gimbal also assumes that the gimbal link does not fail for
ever. `TargetReached` assumes that the autopilot goes on requesting and that the
MAVLink server's 10 Hz attitude poll is answered; disturbances are finite.
`CleanupEnds` assumes only that a thread that has been told to stop does, and
`CloseEnds` nothing of the USB device, which may stay silent. The launcher, the
application and the workers of the web service are fair one by one. Nobody is
obliged to connect, push, arm, request or close.

## 4. Findings

1. `siyi_survival`: answering a packet may close the connection it came from;
   `process_stream` (`protocol/siyi_server.c:482`) then subtracts from an input
   length that is already zero. The README promises that a UART failure
   disables only the UART.
2. `gimbal_pulse`: a change of the video format during a pulse turns the gimbal
   until the media pipeline is open again; the documentation bounds pulses by
   180 ms and the comment above the code states the intent for all rate
   commands.
3. `binlog_failure`: a late failure of a stopped session discards the session
   that follows; comment and documentation speak of the failed session only.
4. `mt11_view`: a zoom from the zoom lens back to a wide factor moves the optics
   first; when unbinding an encoder then fails, the zoom lens is streamed at its
   new optical zoom, and the metadata go on giving the field of view of the old
   one (`backends/mt11/media.c:1026`, the only place that computes it, is not
   reached). The README describes `hfov_deg` as the effective field of view of
   the stream. `Mt11Honest` excepts exactly this state (`stale` holds "zoom"
   until a later lens or zoom command succeeds); its proof does not go through
   without the exception, which is how it was found.

Observations that the models show and no run states, since nothing in the
repository promises otherwise or the effect is slight:

- `ca_live_video_server_publish` looks again at `configured` and `h264` after it
  copied an access unit, not at `config_generation` (`live_video_server.c:335`),
  so a unit of the old geometry may begin the new feed; `src/web/README.md:104-106`
  describes the intent.
- The A8's own attitude stream refreshes the time stamp but keeps the rates of an
  earlier reply (`backends/siyi/control.c:382`); a gimbal that stopped long ago
  still counts as moving. `TargetReached` holds only because the MAVLink server
  polls the full attitude ten times a second.
- `ca_a8_set_zoom` and `ca_a8_set_inverted` remember crop and inversion before
  the ports are set and do not go back when a port fails; the ZR10 does
  (`SigmaHonest` says so).
- The one-byte form of opcode 0x11 on the MT11 does not restore the thermal
  picture when the lens cannot be selected; the two-byte form does.
- A capture thread that ends because `poll` failed is not reported.
- Two overlapping saves of `/parameters` (`mt11-web.c:8384`): the second undoes
  the settings of the first.
- A recording stopped by MAVLink and started by SIYI between two periods is not
  noticed (`mavlink_server.c:2611`); the reported recording time stays zero.
- If the stop on close fails, or the application is killed during a pulse,
  nothing stops the gimbal afterwards (`manual_control.c:162`).
- A viewer of the live video that is slower than the encoder misses access units
  (`live_video_server.c:148`), and one that connects late may begin with an old
  keyframe (`:324`).

## 5. Proofs

All theorems hold for every value of the constants that satisfies the module's
named assumption. Most of these say little more than that limits are natural
numbers: `Binlog` needs a ring of at least four slots (the code has 4096),
`GimbalControl` a retry no longer than a pulse, `LiveVideo` finitely many
viewers.

- **Media_proofs**, two parts. SupportVideo: `TypeCorrect`, `DecodableStream`,
  `KeyframeReconnect`, `OrderedSends`, `WithinLimits`. `Decodable` speaks of the
  frame in hand only, so the invariant chains everything that will be sent: the
  frame in hand follows what the connection has carried (`HeldFollows`), the
  head of the queue follows the frame taken last (`HeadFollows`), each queued
  frame its predecessor (`QueueChained`), and what the encoder offers next the
  tail (`TailCurrent`). A failed connection breaks the chain at the head until
  the backlog is cleared, which is why the worker's position is part of it.
  Mt11Media: `Mt11StaysHonest`. The commands are programs given as data, so the
  invariant says of the program that remains that it ends well from here:
  `Good(was, program, fault, world)` is the greatest relation that every step
  keeps, whichever way its call goes, and at the end of which the world is that
  of some scene the structure notes (`Settled`, `True`). Each function of the
  source that a program calls has a lemma: from a settled world it is good,
  followed by any program that is good in the worlds it can leave. `MediaInv` adds what the recording's
  files (`FilesOK`), the inversion and the monitor's cached gain (`ControlsOK`,
  `GainOK`) are while a program runs.
- **Mp4Recorder_proofs**: `TypeCorrect`, `ClosedIsDurable`, `NothingForgotten`,
  `PartsWithinLimit`, `OnlyOneRetired`, `RecordingContinuous`. `CloseDurable` speaks of the end only;
  the invariant follows each worker (`WorkerOrder`): its final flush starts
  after `sync_stopping` is set, when nothing is appended any more, so it covers
  everything, and a worker that ends otherwise has noted an error. `Earlier`,
  `Retiring` and `Ending` carry that error from a part closed in the background
  to the frame thread or to the close. `Covered` with `durable <= flushing` is
  what makes `NoPictureForgotten` inductive, `Room` does so for `WithinLimit`.
  `Continuous` says of all parts, one after the other, that they hold consecutive
  pictures. Its invariant speaks of neighbours only: each part is a run (`Runs`),
  begins where its predecessor ended (`Joined`) with a key picture (`Started`), and
  the frame thread's cache and last number continue the newest (`Cached`,
  `Latest`). That the concatenation of such parts is a run is shown by the least
  part where it would not be, which stands in for the induction over data.
- **SiyiServer_proofs**: `TypeCorrect`, `BuffersFit` (offset plus length stays
  in the buffer whatever a partial write leaves), `AnswersAsker` and
  `AnswersStayInOrder`. The
  invariant says that every remembered route, in the table, in `last` and in
  the active request, is that of a connection that asked for the opcode; a
  route carries the generation of its slot, so one that `route_valid` accepts
  still leads to the connection that asked. For `AnswersInOrder` the same fact is
  needed across steps: the generation of a slot only rises and a slot is used
  again only under a new one (`Forward`), so a route that has become invalid
  stays so (`GoneForGood`) and a request once skipped never comes back. Requests
  are numbered as they arrive (`WaitingOrders`), and whoever can still be answered
  comes after the one answered last (`WaitingTurns`); choosing the oldest valid
  one therefore only goes forward.
- **GimbalControl_proofs**: `TypeCorrect`, `NeverForgotten`, `LeaseExclusive`,
  `TrackerAccounted`, `LeaseUndisturbed`, `TargetSurvives`. Actions are first
  summarised by the effect they have on lease, stop time and gimbal; the
  invariant is proved from the summaries. It relates who turns the gimbal to
  the flag or deadline that will stop it.
- **LiveVideo_proofs**: `TypeCorrect`, `FreedLast`, `CopiesExist` and
  `SentInOrder`, for any number of viewers.
  The heart is `Accounted`: `clients` is the number of threads that use the
  server, the one about to be created included, and `CloserOrder`: the closer
  waits for that number only after the server thread, which alone raises it,
  has been joined. `Generations` and `Behind` show that a viewer never takes an
  emptied stream for a new frame. `SentInOrder` adds `InOrder`: numbers rise from
  the encoder through the access unit being published into the stream (`Rising`),
  and a viewer whose configuration is current was sent nothing newer than its
  stream holds, and something older if its generation differs (`InTurn`).
- **Binlog_proofs**: `TypeCorrect` (with the bound of the writer's buffer),
  `RingNeverOverflows`, `FilesStayFaithful` and `SessionsEndDurable`. One slot is
  kept free at all times and two while a session is active (`Reserve`), which is
  what lets an unchecked stop succeed. What is on the card says nothing about
  what will be written next, so the invariant of the last two (`LogInv`) is a
  chain: what has reached the file or the buffer (`CardEnd`), the entry in the
  writer's hand, each entry of the queue and the place where the producers go on
  follow each other (`Follows`, `Chained`, `Ends`), and sessions only rise along
  it (`Ordered`). A failure breaks the chain at the hand, and only until the
  writer has dropped the queue (`Broken`); every session it costs records is by
  then in `lost`. A stop carries the count its session accepted (`Stopped`), so
  when it reaches the switch with buffer empty and file synced, nothing of the
  session is missing (`StopDurable`); `Over` is `Gone` without regard to an entry
  that has already been dealt with.
- **Services_proofs**, the services that share no state, one part each.
  `RoutesStayCurrent`: a remembered route leads through a slot in use, and
  closing a connection forgets every route through its slot in the same step.
  `UartStreamWhole`: what was written followed by what is buffered is what was
  accepted; the lemmas relate the array with its offset to that sequence through
  compaction and partial writes. `CommandsStayExact`: the next photo of a series
  is due one interval after the last, and no zoom rate runs under an absolute
  zoom. `SessionsStayKept`: a pair of client and number names at most one session
  in use (`OneName`), and a client's belief that has not expired is held by one
  that was last used when the client thinks (`Held`), so expiry and reuse, which
  look at that time, leave it alone. `StampsIncrease` and
  `RingsKeepNewest`: the messages of a ring are the last `count` of those given,
  in order from `first`, modulo its size (`RingOf`, `InOrder`); this is the
  refinement mapping to `NewestQueue`, and every step of the relay is a step of
  each abstract queue or a stutter. `RestartsStayHonest`: the invariant says what
  a worker knows at each of its steps (`WorkerInv`) and that launcher, request
  and instance numbers are ordered (`LauncherInv`, `AppInv`), whence an instance
  with a new number has read its configuration after the request.
  `AccessStaysHonest`: the invariant knows for each step of a request's program
  what its worker holds and has still to do, and that an exclusive lock has one
  holder (`WorkersOK`, `LocksOK`). On it rest the uploads and saves, whose
  temporary file is complete and on flash before it is renamed (`SavesOK`); each
  key that was answered is in the key file, in what its worker is about to write,
  or was deleted since (`KeysOK`, `KeyDuty`); the same of firmware images
  (`ImagesOK`, `ImageDuty`); and a session file that holds the last sessions made
  (`SessionsOK`). `KeysStayHonest` and `FilesStayWhole` state the last two parts
  for themselves: no answered key is lost, and no power cut leaves a file torn. Both
  hold for every `CardFiles`; with none, on all cameras but the ZR10, the files are
  whole at every moment, and on the ZR10 they are whole or were deleted. They also hold
  for any number of requests, two uploads beside a deletion among them, which the
  two requests of the run do not reach.
- **Cameras_proofs**, the camera back ends. `RefusalsStayHarmless` and
  `NoRequestGoesRound` are inductive with the ranges of the media's settings.
  `TapesStayDecodable`: a recorder that does not wait for a key picture has
  written the picture before (`TapeInv`). `SigmaStaysHonest`: what the pipeline
  remembers is what the media report until a port has failed (`PortsInv`).
  `LensStaysKnown`: until a zoom move fails the counted positions are on a row of
  the table (`Positioned`), each batch counted and not made puts the lens itself at
  most one batch off them (`Tracked`), and a thread that was not started leaves no
  direction.
  `SearchesFindPeak`: the coarse pass keeps a position that is no farther from
  the peak than the ends, and no farther than one step from a peak it has passed
  (`Near`, `CoarseOK`); the fine pass then looks at every position of a window
  that must contain the best (`FineOK`). `ThermalStaysWhole`: the assembler holds
  rising parts of one frame (`UsedOK`), and between a payload that has arrived
  and the next, on the whole way from the assembler through the completed
  transfers to the device, no more than `MaxLost` are missing (`Chain`). So a
  payload with the frame bit of what is held is of the same frame, and a last
  part that completes the length completes the frame. `CleanUpsStayExact` first
  shows of each target's two sequences, apart from any run and for any number of
  encoder channels, that every step of the opening finds what it stands on
  (`Fits`) and that the clean-up can give back whatever was acquired, each thing
  before what it stands on (`Sound`); then that a run keeps to it: what is held
  stands on what is held, and the rest of a clean-up still gives back the rest
  (`BringInv`).

Two assumptions are more than limits. `ThermalAssumption` has at most as many
payloads lost in a row as a frame has: the frame bit alternates, so a longer loss
could join two frames of equal parity, which the code cannot notice.
`FocusAssumption` says of the calibration table what the compiled one fulfils:
each row's focus lies in its range, and zoom positions rise. `Mp4Recorder`
assumes that an access unit with an IDR slice holds a picture, which is what the
name says.

Theorems whose property no run repeats, because the proof covers every instance:
the type invariants, `ReconnectsAtKeyframe` and `QueueBounded` of SupportVideo,
`WithinLimit` and `OneRetired` of Mp4Recorder, `TrackerKnown`, `Undisturbed` and
`TargetKept` of GimbalControl, `TakesFrame` of LiveVideo, `QueueBounded` of
Binlog.

Only model-checked: all liveness, since fairness and ENABLED are beyond the
prover.

## 6. Plan

Abstract specifications worth stating after `NewestQueue`: a recording as a
sequence of pictures with a durable prefix, implemented by Mp4Recorder; an
in-order channel that may skip to a keyframe, implemented by SupportVideo and by
LiveVideo.

Modules still to write: the resynchronising byte parsers (`private_uart.c`,
`parse_rx`) as functions against a reference definition; the Z1-Mini backend
beyond its lock-out.

## 7. Not modelled

The vendored RTSP library and its wrapper, EXIF, KLV and box layouts, packet
codecs and record layouts (bytes without control); the contents of MAVLink
messages; targeting geometry, filters, temperatures and rates (floating point);
register tables and the inside of the vendor's libraries; pages, file lists and
media playback of the web service, which only read; the stub media and the
simulator, which exist for tests; the thermal socket shim and the Lua script,
which belong to other programs. `PROJECT.json` lists every component with its
status.

Left out inside what is modelled: the exit without clean-up of the Z1-Mini helper
when a vendor symbol is missing (`ax_capture.c:50`), and of the A8 the second use of
an image library that lacked one (`a8/isp.c:110`); a PARAM_SET whose roll-back fails
as well (`mavlink_server.c:1798`); the Z1-Mini launcher, which has exits that the
others have not; a session file written in part, which counts as not written; and
the first of the two reads of `camera.ini` by a PARAM_SET.
