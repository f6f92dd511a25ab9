------------------------------- MODULE Thermal -------------------------------
(***************************************************************************)
(* The MT11's thermal camera: the USB transfers and the thread that reaps  *)
(* them, the assembler of UVC frames, and the extension-unit commands      *)
(* (mt11/thermal.c); the latest frame that the callback keeps and the raw  *)
(* capture of it (mt11/media.c, recording/raw_thermal.c); the server that  *)
(* hands it to TCP clients (streaming/raw_thermal_server.c); the order of  *)
(* their shutdown (media_cleanup).                                         *)
(*                                                                         *)
(* A frame is Parts payloads of unit length.  The device sends frame after *)
(* frame; a payload may be lost, or flagged bad.  A frame number stands    *)
(* for pixels, time stamp and the file name made from the time stamp.      *)
(***************************************************************************)
EXTENDS Integers, Sequences, FiniteSets

CONSTANTS
    Parts,      \* payloads of a frame: CA_MT11_THERMAL_FRAME_BYTES
    Urbs,       \* MT11_UVC_URB_COUNT
    MaxFrames,  \* bound: frames the device sends
    MaxLost,    \* bound: payloads lost in a row
    MaxServed,  \* bound: clients of the raw thermal server
    Callers     \* threads that send extension-unit commands

\* One FID bit cannot tell a frame from the next but one, so the assembler
\* relies on at least one payload out of any Parts + 1 to arrive.
ASSUME ThermalAssumption ==
    /\ {Parts, Urbs} \subseteq Nat \ {0}
    /\ MaxLost \in 0 .. Parts /\ {MaxFrames, MaxServed} \subseteq Nat

VARIABLES
    device,     \* external: [frame, part, lost] the payload to come
    flight,     \* URBs the kernel has, oldest first
    done,       \* completed: <<urb, payload>>, oldest first
    submitted,  \* thermal_urb.submitted, read by the closing thread
    asm,        \* assembler: [fid, used]
    thread,     \* thermal_thread: [pc, urb, payload]
    stop,       \* thermal->stop
    latest,     \* media->thermal_latest, as the payloads it was made from
    shown,      \* server->latest
    server,     \* server_thread: [pc, copy]
    served,     \* what clients received
    files,      \* raw captures on storage: [name, pixels]
    thermalMain,       \* the closing thread: its place in media_cleanup
    discards,   \* its loop over the URBs: those looked at
    xu,         \* extension unit: [first, second] halves staged
    caller,     \* [Callers -> place in a two-stage command]
    locked,     \* control_lock
    mixed       \* external: the module executed halves of two commands

usb == <<device, flight, done, submitted, asm, thread, stop>>
out == <<latest, shown, server, served, files>>
ctl == <<xu, caller, locked, mixed>>
closing == <<thermalMain, discards>>
thermalVars == <<usb, out, closing, ctl>>

Fid(p) == p.frame % 2
LastPart(p) == p.part = Parts
Whole(pixels) ==
    Len(pixels) = Parts /\ \A i \in 1 .. Parts : pixels[i].frame = pixels[1].frame /\ pixels[i].part = i
NoFrame == <<>>
Lost == [frame |-> 0, part |-> 0, bad |-> FALSE]

\* Commands and transfers share only the descriptor, so a behaviour has the
\* frames of a device without callers, or the callers of a silent device.
ThermalInit ==
    /\ \/ device = [frame |-> 1, part |-> 1, lost |-> 0] /\ caller = [c \in Callers |-> "absent"]
       \/ device = [frame |-> MaxFrames + 1, part |-> 1, lost |-> 0] /\ caller = [c \in Callers |-> "idle"]
    /\ flight = [i \in 1 .. Urbs |-> i] /\ done = <<>>
    /\ submitted = [i \in 1 .. Urbs |-> TRUE]
    /\ asm = [fid |-> -1, used |-> <<>>]
    /\ thread = [pc |-> "test", urb |-> 1, payload |-> Lost]
    /\ stop = FALSE
    /\ latest = NoFrame /\ shown = NoFrame
    /\ server = [pc |-> "accept", copy |-> NoFrame] /\ served = <<>>
    /\ files = {}
    /\ thermalMain = "run" /\ discards = 0
    /\ xu = [first |-> "none", second |-> "none"]
    /\ locked = FALSE /\ mixed = FALSE

-----------------------------------------------------------------------------
\* The device and the kernel.

NextPayload ==
    IF device.part = Parts THEN [device EXCEPT !.frame = @ + 1, !.part = 1] ELSE [device EXCEPT !.part = @ + 1]

\* The oldest URB completes with the next payload, whole or flagged bad, or
\* the payload is lost (a transfer error).
Complete ==
    /\ flight # <<>> /\ device.frame <= MaxFrames
    /\ \/ \E bad \in BOOLEAN :
            /\ bad => device.lost < MaxLost
            /\ done' = Append(done, <<Head(flight), [frame |-> device.frame, part |-> device.part, bad |-> bad]>>)
            /\ device' = [NextPayload EXCEPT !.lost = IF bad THEN @ + 1 ELSE 0]
       \/ /\ device.lost < MaxLost
          /\ done' = Append(done, <<Head(flight), Lost>>)
          /\ device' = [NextPayload EXCEPT !.lost = @ + 1]
    /\ flight' = Tail(flight)
    /\ UNCHANGED <<submitted, asm, thread, stop, out, closing, ctl>>

-----------------------------------------------------------------------------
\* The assembler.

\* ca_mt11_uvc_assembler_consume: its new state, and the frame it delivers.
\* deliver_frame passes on only what has the full length, and starts afresh.
Deliverable(used) == IF Len(used) = Parts THEN used ELSE NoFrame
mutant_consume(a, p) ==
    IF p.bad THEN [a EXCEPT !.used = <<>>]
    ELSE IF Len(a.used) = Parts THEN [fid |-> Fid(p), used |-> <<>>]
    ELSE [fid |-> Fid(p), used |-> Append(a.used, p)]
consume(a, p) ==
    LET turned == a.fid # -1 /\ Fid(p) # a.fid
        used == IF turned THEN <<>> ELSE a.used
    IN IF p.bad THEN [a EXCEPT !.used = <<>>]
       ELSE IF Len(used) = Parts THEN [fid |-> Fid(p), used |-> <<>>]
       ELSE [fid |-> Fid(p), used |-> Append(used, p)]
delivers(a, p) ==
    IF p.bad THEN NoFrame
    ELSE IF a.fid # -1 /\ Fid(p) # a.fid /\ Deliverable(a.used) # NoFrame THEN a.used
    ELSE IF LastPart(p) THEN Deliverable(consume(a, p).used) ELSE NoFrame
settled(a, p) == IF ~p.bad /\ LastPart(p) THEN [consume(a, p) EXCEPT !.used = <<>>] ELSE consume(a, p)

-----------------------------------------------------------------------------
\* thermal_thread.
At(pc) == thread.pc = pc
Goto(pc) == thread' = [thread EXCEPT !.pc = pc]

Test ==
    /\ At("test")
    /\ Goto(IF stop THEN "ended" ELSE "reap")
    /\ UNCHANGED <<device, flight, done, submitted, asm, stop, out, closing, ctl>>

\* USBDEVFS_REAPURB blocks until a transfer has completed.
Reap ==
    /\ At("reap") /\ done # <<>>
    /\ thread' = [pc |-> "consume", urb |-> Head(done)[1], payload |-> Head(done)[2]]
    /\ done' = Tail(done)
    /\ submitted' = [submitted EXCEPT ![Head(done)[1]] = FALSE]
    /\ UNCHANGED <<device, flight, asm, stop, out, closing, ctl>>

\* The payload goes through the assembler; a complete frame, through the
\* callback thermal_frame, becomes the latest one (under media->lock) ...
Consume ==
    /\ At("consume")
    /\ LET p == thread.payload
           arrived == p # Lost
           frame == IF arrived THEN delivers(asm, p) ELSE NoFrame IN
        /\ asm' = IF arrived THEN settled(asm, p) ELSE asm
        /\ latest' = IF frame # NoFrame THEN frame ELSE latest
        /\ Goto(IF frame # NoFrame THEN "publish" ELSE "resubmit")
    /\ UNCHANGED <<device, flight, done, submitted, stop, shown, server, served, files, closing, ctl>>

\* ... and the one of the server (ca_raw_thermal_server_publish).
Publish ==
    /\ At("publish")
    /\ shown' = latest
    /\ Goto("resubmit")
    /\ UNCHANGED <<device, flight, done, submitted, asm, stop, latest, server, served, files, closing, ctl>>

Resubmit ==
    /\ At("resubmit")
    /\ Goto(IF stop THEN "test" ELSE "submit")
    /\ UNCHANGED <<device, flight, done, submitted, asm, stop, out, closing, ctl>>

\* submit_urb: the flag follows the ioctl; a failure ends the capture.
Submit ==
    /\ At("submit")
    /\ \/ flight' = Append(flight, thread.urb) /\ Goto("flag") /\ stop' = stop
       \/ flight' = flight /\ stop' = TRUE /\ Goto("test")
    /\ UNCHANGED <<device, done, submitted, asm, out, closing, ctl>>
Flag ==
    /\ At("flag")
    /\ submitted' = [submitted EXCEPT ![thread.urb] = TRUE]
    /\ Goto("test")
    /\ UNCHANGED <<device, flight, done, asm, stop, out, closing, ctl>>

-----------------------------------------------------------------------------
\* The raw thermal server and captures.

\* accept4; after the shutdown of the listening socket it returns an error.
Accept ==
    /\ server.pc = "accept" /\ Len(served) < MaxServed /\ thermalMain \notin {"server stopped", "freed"}
    /\ server' = [server EXCEPT !.pc = "copy"]
    /\ UNCHANGED <<usb, latest, shown, served, files, closing, ctl>>
AcceptFails ==
    /\ server.pc = "accept" /\ thermalMain = "server stopped"
    /\ server' = [server EXCEPT !.pc = "ended"]
    /\ UNCHANGED <<usb, latest, shown, served, files, closing, ctl>>

\* send_frame copies pixels, name and time under the lock, then sends at its
\* own pace; no frame yet, a client gone or the stop flag end the connection.
Copy ==
    /\ server.pc = "copy"
    /\ server' = [pc |-> IF shown = NoFrame THEN "accept" ELSE "send", copy |-> shown]
    /\ UNCHANGED <<usb, latest, shown, served, files, closing, ctl>>
Send ==
    /\ server.pc = "send"
    /\ \/ served' = Append(served, server.copy) /\ thermalMain # "server stopped"
       \/ served' = served
    /\ server' = [pc |-> "accept", copy |-> NoFrame]
    /\ UNCHANGED <<usb, latest, shown, files, closing, ctl>>

\* capture_raw_thermal and ca_raw_thermal_write_at: a snapshot of the latest
\* frame under a name of its own (O_EXCL); a failed write is removed again.
CaptureRaw ==
    /\ thermalMain = "run" /\ latest # NoFrame
    /\ \/ \E attempt \in 0 .. 1 :
            /\ \A k \in 0 .. 1 : k < attempt <=> \E f \in files : f.name = <<latest[1].frame, k>>
            /\ files' = files \cup {[name |-> <<latest[1].frame, attempt>>, pixels |-> latest]}
       \/ files' = files
    /\ UNCHANGED <<usb, latest, shown, server, served, closing, ctl>>

-----------------------------------------------------------------------------
\* Shutdown: ca_mt11_thermal_close, then ca_raw_thermal_server_close.

CloseThermal ==
    /\ thermalMain = "run"
    /\ stop' = TRUE
    /\ thermalMain' = "discard"
    /\ UNCHANGED <<discards, device, flight, done, submitted, asm, thread, out, ctl>>

\* USBDEVFS_DISCARDURB for one URB after the other, if it is marked as
\* submitted when the loop gets to it: if the kernel still has it, it
\* completes, empty.
mutant_Discard ==
    /\ thermalMain = "discard" /\ discards < Urbs /\ discards' = discards + 1
    /\ UNCHANGED <<flight, done>>
    /\ UNCHANGED <<device, submitted, asm, thread, stop, out, thermalMain, ctl>>
Discard ==
    /\ thermalMain = "discard" /\ discards < Urbs /\ discards' = discards + 1
    /\ \/ \E k \in 1 .. Len(flight) :
            /\ flight[k] = discards' /\ submitted[discards']
            /\ flight' = SubSeq(flight, 1, k - 1) \o SubSeq(flight, k + 1, Len(flight))
            /\ done' = Append(done, <<discards', Lost>>)
       \/ /\ ~(submitted[discards'] /\ \E k \in 1 .. Len(flight) : flight[k] = discards')
          /\ UNCHANGED <<flight, done>>
    /\ UNCHANGED <<device, submitted, asm, thread, stop, out, thermalMain, ctl>>
AllDiscarded ==
    /\ thermalMain = "discard" /\ discards = Urbs
    /\ thermalMain' = "join"
    /\ UNCHANGED <<usb, out, discards, ctl>>

JoinThermal ==
    /\ thermalMain = "join" /\ At("ended")
    /\ thermalMain' = "close fd"
    /\ UNCHANGED <<discards, usb, out, ctl>>

\* Closing the descriptor cancels what was submitted after the discard; only
\* then are the buffers freed.
CloseFd ==
    /\ thermalMain = "close fd"
    /\ flight' = <<>>
    /\ thermalMain' = "server"
    /\ UNCHANGED <<discards, device, done, submitted, asm, thread, stop, out, ctl>>

CloseServer ==
    /\ thermalMain = "server"
    /\ thermalMain' = "server stopped"
    /\ UNCHANGED <<discards, usb, out, ctl>>
JoinServer ==
    /\ thermalMain = "server stopped" /\ server.pc = "ended"
    /\ thermalMain' = "freed"
    /\ UNCHANGED <<discards, usb, out, ctl>>

-----------------------------------------------------------------------------
\* A two-stage command (stage_xu_command, set_palette) under control_lock.
Lock(c) ==
    /\ caller[c] = "idle" /\ thermalMain = "run" /\ ~locked
    /\ locked' = TRUE
    /\ caller' = [caller EXCEPT ![c] = "first"]
    /\ UNCHANGED <<usb, out, closing, xu, mixed>>
First(c) ==
    /\ caller[c] = "first"
    /\ \/ xu' = [first |-> c, second |-> "none"] /\ caller' = [caller EXCEPT ![c] = "second"]
       \/ xu' = xu /\ caller' = [caller EXCEPT ![c] = "unlock"]
    /\ UNCHANGED <<usb, out, closing, locked, mixed>>
\* The second half makes the module execute both; a read then waits for the
\* status and fetches the result (get_gain).
Second(c) ==
    /\ caller[c] = "second"
    /\ \/ xu' = [xu EXCEPT !.second = c] /\ mixed' = (mixed \/ xu.first # c)
       \/ UNCHANGED <<xu, mixed>>
    /\ caller' = [caller EXCEPT ![c] = "result"]
    /\ UNCHANGED <<usb, out, closing, locked>>
Result(c) ==
    /\ caller[c] = "result"
    /\ caller' = [caller EXCEPT ![c] = "unlock"]
    /\ UNCHANGED <<usb, out, closing, xu, locked, mixed>>
Unlock(c) ==
    /\ caller[c] = "unlock"
    /\ locked' = FALSE
    /\ caller' = [caller EXCEPT ![c] = "idle"]
    /\ UNCHANGED <<usb, out, closing, xu, mixed>>

-----------------------------------------------------------------------------
ThermalThread == Test \/ Reap \/ Consume \/ Publish \/ Resubmit \/ Submit \/ Flag
ServerThread == Accept \/ AcceptFails \/ Copy \/ Send
Closing == CloseThermal \/ Discard \/ AllDiscarded \/ JoinThermal \/ CloseFd \/ CloseServer \/ JoinServer
Controls == \E c \in Callers : Lock(c) \/ First(c) \/ Second(c) \/ Result(c) \/ Unlock(c)
ThermalNext == Complete \/ ThermalThread \/ ServerThread \/ CaptureRaw \/ Closing \/ Controls

\* The threads run; nothing is assumed of the device, which may fall silent,
\* or of the clients.
ThermalSpec ==
    /\ ThermalInit /\ [][ThermalNext]_thermalVars
    /\ WF_thermalVars(ThermalThread) /\ WF_thermalVars(AcceptFails \/ Copy \/ Send)
    /\ WF_thermalVars(Discard \/ AllDiscarded \/ JoinThermal \/ CloseFd \/ CloseServer \/ JoinServer)

-----------------------------------------------------------------------------
\* Only whole frames: what the media structure keeps, a client receives or a
\* capture file holds is every part of one frame, in order, in spite of lost
\* and bad payloads (consume's FID test, length test and resets).
WholeFrames ==
    /\ latest # NoFrame => Whole(latest)
    /\ \A i \in 1 .. Len(served) : Whole(served[i])
    /\ \A f \in files : Whole(f.pixels) /\ f.name[1] = f.pixels[1].frame

\* No transfer is under way into a buffer that is freed: the thread may
\* resubmit between the stop flag and its own end, and only the close of the
\* descriptor takes that transfer back.
BuffersSafe == thermalMain \in {"server", "server stopped", "freed"} => flight = <<>>

\* The module never executes the first half of one command with the second
\* half of another (control_lock around the stages).
HalvesTogether == ~mixed

\* Frames, buffers and commands of the thermal module are kept apart from each
\* other, whatever is lost and whoever closes, polls or sets (thermal.c).
ThermalWhole == WholeFrames /\ BuffersSafe /\ HalvesTogether

\* Shutdown ends, also when the device is silent and the thread waits in the
\* kernel for a transfer, and whatever a client of the server does.
CloseEnds == thermalMain = "discard" ~> thermalMain = "freed"
=============================================================================
