---------------------------- MODULE SupportVideo ----------------------------
(***************************************************************************)
(* One SupportProxy video publisher (camera_app/src/streaming/             *)
(* support_video.c): the encoder thread offers access units to a bounded   *)
(* queue, a worker thread takes them off and sends them over an RTSP/TCP   *)
(* connection that it opens at a keyframe, drops on any error and reopens  *)
(* later, and the owner finally stops and joins the worker.                *)
(*                                                                         *)
(* Every critical section of p->lock is one action.  Clocks and sockets    *)
(* are abstracted to the outcomes the code distinguishes: a step succeeds, *)
(* fails or times out.  An access unit is its number in encoder order, its *)
(* key flag and its length.                                                *)
(***************************************************************************)
EXTENDS Integers, Sequences, SequencesExt

CONSTANTS
    MaxQueuedBytes,   \* MAX_QUEUED_BYTES
    MaxQueuedFrames,  \* MAX_QUEUED_FRAMES
    Lengths,          \* access-unit lengths the encoder may produce
    MaxPushes         \* bound: access units offered by the encoder

ASSUME SupportVideoAssumption ==
    /\ MaxQueuedBytes \in Nat
    /\ MaxQueuedFrames \in Nat \ {0}
    /\ Lengths \subseteq Nat \ {0}
    /\ MaxPushes \in Nat

VARIABLES
    queue,            \* p->first .. p->last
    queued_bytes,     \* p->queued_bytes
    queued_frames,    \* p->queued_frames
    wait_key,         \* p->wait_key
    dropped_frames,   \* p->dropped_frames
    pushed,           \* number of the newest access unit offered
    pc,               \* where the worker is in publish()
    held,             \* the worker's local frame, as a sequence of at most one
    fd,               \* p->fd: "none" or "open"
    sent,             \* newest access unit completely sent on this connection, 0: none
    stop,             \* p->stop
    closer            \* progress of ca_support_video_close

vars == <<queue, queued_bytes, queued_frames, wait_key, dropped_frames,
          pushed, pc, held, fd, sent, stop, closer>>

Frame == [id : Nat \ {0}, key : BOOLEAN, length : Nat]

PublisherPC == {"loop", "dequeue", "waiting", "ready", "connect",
                "keepalive", "send", "clear", "backoff", "done"}

TypeOK ==
    /\ queue \in Seq(Frame)
    /\ queued_bytes \in Int
    /\ queued_frames \in Nat
    /\ wait_key \in BOOLEAN
    /\ dropped_frames \in Nat
    /\ pushed \in Nat
    /\ pc \in PublisherPC
    /\ held \in Seq(Frame)
    /\ fd \in {"none", "open"}
    /\ sent \in Nat
    /\ stop \in BOOLEAN
    /\ closer \in {"open", "stopping", "signalled", "joined"}

-----------------------------------------------------------------------------
\* ca_support_video_open: an idle worker, no connection, waiting for a keyframe.
Init ==
    /\ queue = <<>>
    /\ queued_bytes = 0
    /\ queued_frames = 0
    /\ wait_key = TRUE
    /\ dropped_frames = 0
    /\ pushed = 0
    /\ pc = "loop"
    /\ held = <<>>
    /\ fd = "none"
    /\ sent = 0
    /\ stop = FALSE
    /\ closer = "open"

\* Mutant of ClearFrames: the queue does not wait for a keyframe afterwards.
ClearFramesNoWait(dropped) ==
    /\ queue' = <<>>
    /\ queued_bytes' = 0
    /\ queued_frames' = 0
    /\ dropped_frames' = dropped
    /\ UNCHANGED wait_key

\* clear_frames(p); dropped is what the caller adds to the statistics.
ClearFrames(dropped) ==
    /\ queue' = <<>>
    /\ queued_bytes' = 0
    /\ queued_frames' = 0
    /\ wait_key' = TRUE
    /\ dropped_frames' = dropped

\* pthread_cond_signal: the worker is the only waiter.
Signal == pc' = IF pc = "waiting" THEN "dequeue" ELSE pc

\* The first test of ca_support_video_push: no room for this access unit.
Overflows(length) ==
    \/ length > MaxQueuedBytes
    \/ queued_bytes + length > MaxQueuedBytes
    \/ queued_frames = MaxQueuedFrames

\* The encoder offers the next access unit.  The capture thread is joined
\* before the publisher is closed, so no offer is made after that.
Offer(key, length) ==
    /\ closer = "open"
    /\ pushed < MaxPushes
    /\ pushed' = pushed + 1
    /\ UNCHANGED <<held, fd, sent, stop, closer>>

\* ca_support_video_push, accepted without overflow.
PushAppend(key, length) ==
    /\ Offer(key, length)
    /\ ~Overflows(length)
    /\ ~(wait_key /\ ~key)
    /\ queue' = Append(queue, [id |-> pushed + 1, key |-> key, length |-> length])
    /\ queued_bytes' = queued_bytes + length
    /\ queued_frames' = queued_frames + 1
    /\ wait_key' = FALSE
    /\ Signal
    /\ UNCHANGED dropped_frames

\* ca_support_video_push, overflow at a keyframe: the queue restarts with it.
PushRestart(key, length) ==
    /\ Offer(key, length)
    /\ Overflows(length)
    /\ length <= MaxQueuedBytes
    /\ key
    /\ queue' = <<[id |-> pushed + 1, key |-> key, length |-> length]>>
    /\ queued_bytes' = length
    /\ queued_frames' = 1
    /\ wait_key' = FALSE
    /\ dropped_frames' = dropped_frames + queued_frames
    /\ Signal

\* ca_support_video_push, overflow at any other access unit, or no memory for
\* the copy of an acceptable one: everything queued is dropped with it.
PushDropAll(key, length) ==
    /\ Offer(key, length)
    /\ \/ Overflows(length)
       \/ ~(wait_key /\ ~key)
    /\ ClearFrames(dropped_frames + queued_frames)
    /\ UNCHANGED pc

\* ca_support_video_push while waiting for a keyframe.
PushSkip(key, length) ==
    /\ Offer(key, length)
    /\ ~Overflows(length)
    /\ wait_key
    /\ ~key
    /\ UNCHANGED <<queue, queued_bytes, queued_frames, wait_key, dropped_frames, pc>>

Push ==
    \E key \in BOOLEAN, length \in Lengths :
        \/ PushAppend(key, length)
        \/ PushRestart(key, length)
        \/ PushDropAll(key, length)
        \/ PushSkip(key, length)

-----------------------------------------------------------------------------
\* publish: the loop test, outside the lock; on the way out the socket closes.
PublishLoop ==
    /\ pc = "loop"
    /\ IF stop
       THEN /\ pc' = "done"
            /\ fd' = "none"
            /\ sent' = 0
       ELSE /\ pc' = "dequeue"
            /\ UNCHANGED <<fd, sent>>
    /\ UNCHANGED <<queue, queued_bytes, queued_frames, wait_key, dropped_frames,
                   pushed, held, stop, closer>>

\* publish: nothing to send, wait for p->changed.
PublishWait ==
    /\ pc = "dequeue"
    /\ queue = <<>>
    /\ ~stop
    /\ pc' = "waiting"
    /\ UNCHANGED <<queue, queued_bytes, queued_frames, wait_key, dropped_frames,
                   pushed, held, fd, sent, stop, closer>>

\* A condition wait may return without a signal.
SpuriousWake ==
    /\ pc = "waiting"
    /\ pc' = "dequeue"
    /\ UNCHANGED <<queue, queued_bytes, queued_frames, wait_key, dropped_frames,
                   pushed, held, fd, sent, stop, closer>>

\* Mutant of PublishTake: the access unit taken stays linked.
PublishTakeKeeps ==
    /\ pc = "dequeue"
    /\ \/ /\ queue # <<>>
          /\ held' = <<Head(queue)>>
          /\ pc' = "ready"
       \/ /\ queue = <<>>
          /\ stop
          /\ pc' = "loop"
          /\ UNCHANGED held
    /\ dropped_frames' = 0
    /\ UNCHANGED <<queue, queued_bytes, queued_frames, wait_key, pushed, fd,
                   sent, stop, closer>>

\* publish: take the oldest access unit, or go round the loop when stopped.
PublishTake ==
    /\ pc = "dequeue"
    /\ \/ /\ queue # <<>>
          /\ held' = <<Head(queue)>>
          /\ queue' = Tail(queue)
          /\ queued_bytes' = queued_bytes - Head(queue).length
          /\ queued_frames' = queued_frames - 1
          /\ pc' = "ready"
       \/ /\ queue = <<>>
          /\ stop
          /\ pc' = "loop"
          /\ UNCHANGED <<held, queue, queued_bytes, queued_frames>>
    /\ dropped_frames' = 0
    /\ UNCHANGED <<wait_key, pushed, fd, sent, stop, closer>>

\* The error path of publish: the access unit is freed and the socket closed;
\* the queue is cleared in a later critical section.
Fail ==
    /\ held' = <<>>
    /\ fd' = "none"
    /\ sent' = 0
    /\ pc' = "clear"

\* publish: without a connection only a keyframe may open one.
PublishReady ==
    /\ pc = "ready"
    /\ IF fd = "none" /\ ~held[1].key
       THEN Fail
       ELSE /\ pc' = IF fd = "none" THEN "connect" ELSE "keepalive"
            /\ UNCHANGED <<held, fd, sent>>
    /\ UNCHANGED <<queue, queued_bytes, queued_frames, wait_key, dropped_frames,
                   pushed, stop, closer>>

\* connect_publisher: TCP connect, OPTIONS, ANNOUNCE, SETUP and RECORD.  Every
\* transfer tests stop and its deadline in ready(), so it may always fail and
\* cannot succeed once stop is seen.
ConnectPublisher ==
    /\ pc = "connect"
    /\ \/ /\ ~stop
          /\ fd' = "open"
          /\ sent' = 0
          /\ pc' = "keepalive"
          /\ UNCHANGED held
       \/ Fail
    /\ UNCHANGED <<queue, queued_bytes, queued_frames, wait_key, dropped_frames,
                   pushed, stop, closer>>

\* The 15 s OPTIONS keepalive: not due, answered, or failed.
Keepalive ==
    /\ pc = "keepalive"
    /\ \/ /\ pc' = "send"
          /\ UNCHANGED <<held, fd, sent>>
       \/ Fail
    /\ UNCHANGED <<queue, queued_bytes, queued_frames, wait_key, dropped_frames,
                   pushed, stop, closer>>

\* send_frame: all RTP packets of the access unit are written, or the
\* connection is given up with any number of them written.
SendFrame ==
    /\ pc = "send"
    /\ \/ /\ ~stop
          /\ sent' = held[1].id
          /\ held' = <<>>
          /\ pc' = "loop"
          /\ UNCHANGED fd
       \/ Fail
    /\ UNCHANGED <<queue, queued_bytes, queued_frames, wait_key, dropped_frames,
                   pushed, stop, closer>>

\* publish: after a failure the backlog is discarded under the lock.
PublishClear ==
    /\ pc = "clear"
    /\ ClearFrames(dropped_frames)
    /\ pc' = "backoff"
    /\ UNCHANGED <<pushed, held, fd, sent, stop, closer>>

\* publish: two seconds of back-off, cut short by stop.
PublishBackoff ==
    /\ pc = "backoff"
    /\ pc' = "loop"
    /\ UNCHANGED <<queue, queued_bytes, queued_frames, wait_key, dropped_frames,
                   pushed, held, fd, sent, stop, closer>>

Publisher ==
    \/ PublishLoop \/ PublishWait \/ PublishTake \/ PublishReady
    \/ ConnectPublisher \/ Keepalive \/ SendFrame
    \/ PublishClear \/ PublishBackoff

-----------------------------------------------------------------------------
\* ca_support_video_close: stop is stored before the lock is taken ...
CloseStop ==
    /\ closer = "open"
    /\ stop' = TRUE
    /\ closer' = "stopping"
    /\ UNCHANGED <<queue, queued_bytes, queued_frames, wait_key, dropped_frames,
                   pushed, pc, held, fd, sent>>

\* Mutant of CloseSignal: stop is set but the worker is not woken.
CloseSignalForgotten ==
    /\ closer = "stopping"
    /\ closer' = "signalled"
    /\ UNCHANGED <<queue, queued_bytes, queued_frames, wait_key, dropped_frames,
                   pushed, pc, held, fd, sent, stop>>

\* ... the worker is signalled under it ...
CloseSignal ==
    /\ closer = "stopping"
    /\ Signal
    /\ closer' = "signalled"
    /\ UNCHANGED <<queue, queued_bytes, queued_frames, wait_key, dropped_frames,
                   pushed, held, fd, sent, stop>>

\* ... and after pthread_join the frames that are left are freed.
CloseJoin ==
    /\ closer = "signalled"
    /\ pc = "done"
    /\ ClearFrames(dropped_frames)
    /\ closer' = "joined"
    /\ UNCHANGED <<pushed, pc, held, fd, sent, stop>>

Closer == CloseStop \/ CloseSignal \/ CloseJoin

Next == Push \/ Publisher \/ SpuriousWake \/ Closer

Spec == Init /\ [][Next]_vars

\* The worker runs, its transfers have deadlines, and a close that has begun
\* goes on.  Nothing obliges the encoder to push or the owner to close.
FairSpec == Spec /\ WF_vars(Publisher) /\ WF_vars(CloseSignal \/ CloseJoin)

-----------------------------------------------------------------------------
(* Properties *)

\* README: "a queue limited to 60 frames or 2 MiB, plus its current frame".
QueueBounded ==
    /\ queued_bytes <= MaxQueuedBytes
    /\ queued_frames <= MaxQueuedFrames

\* What the far decoder gets on one connection starts at a keyframe, and any
\* other access unit follows directly on the one sent before it: overflow,
\* memory exhaustion and a reconnect racing new pushes never leave a gap
\* that is not closed by a keyframe.
Decodable ==
    pc = "send" => held[1].key \/ (sent > 0 /\ held[1].id = sent + 1)

\* The branch of publish that refuses a non-key access unit without a
\* connection is never taken: a worker that has lost its connection always
\* finds the backlog cleared and the queue restarted at a keyframe.
ReconnectsAtKeyframe ==
    pc = "ready" /\ fd = "none" => held[1].key

\* Access units reach the wire in encoder order, none twice on a connection:
\* every send_frame that succeeds carries a newer one than the last.
SendsInOrder == [][pc = "send" /\ pc' = "loop" => sent' > sent]_vars

-----------------------------------------------------------------------------
(* The inductive invariant behind Decodable and SendsInOrder. *)

Working == {"ready", "connect", "keepalive", "send"}

\* The newest access unit taken for the current connection, 0 if none.
Taken == IF pc \in Working THEN held[1].id ELSE sent

\* f may follow access unit number id on a connection.
Follows(f, id) == id < f.id /\ (f.key \/ (id > 0 /\ f.id = id + 1))

\* The worker's frame exists exactly while it is being worked on, and a
\* connection has carried something only if it is open.
WorkerShape ==
    /\ IF pc \in Working THEN Len(held) = 1 ELSE held = <<>>
    /\ pc \in {"keepalive", "send"} => fd = "open"
    /\ pc = "connect" => fd = "none"
    /\ fd = "none" => sent = 0
    /\ pc \in {"clear", "backoff", "done"} => fd = "none"

\* The worker's frame may follow what its connection has carried.
HeldFollows == pc \in Working => Follows(held[1], sent)

\* Inside the queue every access unit may follow its predecessor.
QueueChained ==
    \A i \in 1 .. Len(queue) - 1 : Follows(queue[i + 1], queue[i].id)

\* The head may follow the newest access unit taken, unless a failed
\* connection's backlog is still to be cleared or the worker has ended.
HeadFollows ==
    /\ queue # <<>> => queue[1].id > Taken
    /\ queue # <<>> /\ pc \notin {"clear", "done"} => Follows(queue[1], Taken)

\* Without wait_key the next access unit offered directly follows the newest
\* one in the queue, or the newest one taken if the queue is empty.
TailCurrent ==
    /\ \A i \in 1 .. Len(queue) : queue[i].id <= pushed
    /\ Taken <= pushed
    /\ queue # <<>> => queue[Len(queue)].id = pushed
    /\ ~wait_key /\ queue = <<>> /\ pc \notin {"clear", "done"} =>
           Taken = pushed /\ pushed > 0

IInv ==
    /\ TypeOK
    /\ WorkerShape
    /\ HeldFollows
    /\ QueueChained
    /\ HeadFollows
    /\ TailCurrent
    /\ stop <=> closer # "open"
    /\ pc = "done" => stop
    /\ wait_key => queue = <<>>
    /\ queued_frames = Len(queue)

\* A close that has begun ends: no signal is lost between the worker's test
\* of stop and its wait.
CloseTerminates == closer = "stopping" ~> closer = "joined"
=============================================================================
